---------------------------- MODULE IndexByCallPath ---------------------------
(***************************************************************************)
(* The paths under which the spans of a tree are summed up in the tables   *)
(* (Span::path_string, IndexByCallPath).  A path is its prefix, which      *)
(* tells the kind of the path, and the names on it.                        *)
(***************************************************************************)
EXTENDS LogDataTree

(* PathStringOptions as AllFieldsTable::from_log_data_tree uses them for   *)
(* tables: ignore_process and ignore_thread are always set, skip_process   *)
(* is not                                                                  *)
Options(prefix, numbered, reversed) ==
    [prefix |-> prefix, numbered |-> numbered, reversed |-> reversed]
AcrossThreads == Options("A:", FALSE, FALSE)
AcrossThreadsReversed == Options("AR:", FALSE, TRUE)
ByThread == Options("N:", TRUE, FALSE)
ByThreadReversed == Options("NR:", TRUE, TRUE)

NoNumber == -1
Element(name, number) == [name |-> name, number |-> number]

(* Where the walk up the tree stops *)
Root_NoNumber(span, opts) ==    \* mutant
    Element(IF span.kind = "Process" THEN "main thread" ELSE "thread", NoNumber)
Root(span, opts) ==
    CASE span.kind = "Process" -> Element("main thread", NoNumber)
      [] span.kind = "Thread" ->
            Element("thread", IF opts.numbered THEN span.threadNumber ELSE NoNumber)

PathStrings(opts) ==
    LET path[i \in 1 .. Len(spans)] ==
          LET span == spans[i]
              self == <<Element(log[span.start].pn, NoNumber)>>
              up == path[span.parent]
          IN  CASE span.kind \in {"Process", "Thread"} ->
                     [prefix |-> opts.prefix, names |-> <<Root(span, opts)>>]
                [] span.kind \notin {"Process", "Thread"} /\ span.parent = NoSpan ->
                     [prefix |-> "", names |-> self]
                [] OTHER ->
                     [up EXCEPT !.names = IF opts.reversed THEN self \o @ ELSE @ \o self]
    IN  path

(* IndexByCallPath: the spans at each path, those of all options in one    *)
(* map; the chunks that threads have indexed are joined by path            *)
SpansByCallPath(optss) ==
    LET paths == [opts \in optss |-> PathStrings(opts)]
    IN  [p \in UNION {{paths[opts][i] : i \in DOMAIN spans} : opts \in optss} |->
            {i \in DOMAIN spans : \E opts \in optss : paths[opts][i] = p}]
================================================================================
