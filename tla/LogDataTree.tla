----------------------------- MODULE LogDataTree ------------------------------
(***************************************************************************)
(* What evobench-eval makes of a log file: LogData::read_file checks and   *)
(* parses it, LogDataTree::from_logdata pairs the messages that start and  *)
(* end a span and builds the tree of the spans, and the tables are made of *)
(* the spans found at each call path (IndexByCallPath, scopestats).        *)
(***************************************************************************)
EXTENDS Integers, Sequences

VARIABLES
    log,            \* the messages in the file
    status,         \* how far the evaluation is
    position,       \* the next message
    spans,          \* LogDataTree::spans, a SpanId is an index
    spansByPn,      \* LogDataTree::spans_by_pn
    startByThread,  \* start_by_thread: the open spans of each ThreadId
    threadNumbers,  \* ThreadIdMapper::thread_number_by_thread_id
    nextNumber      \* ThreadIdMapper::current_thread_number

treeVars == <<status, position, spans, spansByPn, startByThread, threadNumbers,
              nextNumber>>

Statuses == {"unread", "reading", "built", "done", "error", "panic"}
NoSpan == 0
NoEnd == 0

(* PointDispatch::from_point_kind *)
Starts == {"TStart", "TThreadStart", "TS"}
Ends == {"TEnd", "TThreadEnd", "TE"}
ScopeKind(kind) ==
    CASE kind \in {"TStart", "TEnd"} -> "Process"
      [] kind \in {"TThreadStart", "TThreadEnd"} -> "Thread"
      [] kind \in {"TS", "TE"} -> "Scope"

(* The function f with the value y at x *)
With(f, x, y) == [z \in DOMAIN f \cup {x} |-> IF z = x THEN y ELSE f[z]]
Without(f, x) == [z \in DOMAIN f \ {x} |-> f[z]]
Empty == [z \in {} |-> 0]

(***************************************************************************)
(* Spans.  start and end are the indices of their messages; a KeyValue has *)
(* one message and no end.                                                 *)
(***************************************************************************)
SpanType == [kind : {"Process", "Thread", "Scope", "KeyValue"},
             parent : Nat, children : Seq(Nat), threadNumber : Nat,
             start : Nat, end : Nat]

IsKeyValue(span) == span.kind = "KeyValue"
Span(kind, parent, number) ==
    [kind |-> kind, parent |-> parent, children |-> <<>>, threadNumber |-> number,
     start |-> position, end |-> NoEnd]

Message == log[position]
HasStack == Message.tid \in DOMAIN startByThread
Stack == IF HasStack THEN startByThread[Message.tid] ELSE <<>>
Top == IF Stack = <<>> THEN NoSpan ELSE Stack[Len(Stack)]

(* to_thread_number *)
Number == IF Message.tid \in DOMAIN threadNumbers
          THEN threadNumbers[Message.tid] ELSE nextNumber

(***************************************************************************)
(* Steps                                                                   *)
(***************************************************************************)
TreeInit ==
    /\ status = "unread" /\ position = 0
    /\ spans = <<>> /\ spansByPn = Empty
    /\ startByThread = Empty /\ threadNumbers = Empty /\ nextNumber = 0

(* LogData::read_file *)
Readable ==
    /\ Len(log) > 2
    /\ log[1].kind = "Start" /\ log[2].kind = "Metadata"
    /\ \A i \in 1 .. Len(log) : log[i].kind # "Torn"
    /\ log[Len(log)].kind = "TEnd"

ReadFile ==
    /\ status = "unread"
    /\ IF Readable THEN status' = "reading" /\ position' = 3
                   ELSE status' = "error" /\ UNCHANGED position
    /\ UNCHANGED <<spans, spansByPn, startByThread, threadNumbers, nextNumber>>

AtMessage(kinds) ==
    /\ status = "reading" /\ position <= Len(log)
    /\ Message.kind \in kinds

(* Process / thread / scope start *)
StartSpan ==
    /\ AtMessage(Starts)
    /\ spans' = Append(spans, Span(ScopeKind(Message.kind), Top, Number))
    /\ startByThread' = With(startByThread, Message.tid, Append(Stack, Len(spans) + 1))
    /\ threadNumbers' = With(threadNumbers, Message.tid, Number)
    /\ nextNumber' = IF Number = nextNumber THEN nextNumber + 1 ELSE nextNumber
    /\ position' = position + 1
    /\ UNCHANGED <<status, spansByPn>>

(* A key-value becomes a span, too, and the child of the innermost span *)
AddKeyValue ==
    /\ AtMessage({"KeyValue"})
    /\ IF HasStack
       THEN LET id == Len(spans) + 1
                parent == Top
            IN  /\ spans' = Append(
                     [i \in DOMAIN spans |->
                        IF i = parent
                        THEN [spans[i] EXCEPT !.children = Append(@, id)]
                        ELSE spans[i]],
                     Span("KeyValue", parent, 0))
                /\ startByThread' = [startByThread EXCEPT ![Message.tid] = Append(@, id)]
                /\ position' = position + 1 /\ UNCHANGED status
       ELSE status' = "error" /\ UNCHANGED <<position, spans, startByThread>>
    /\ UNCHANGED <<spansByPn, threadNumbers, nextNumber>>

(* The innermost span that is not a key-value ends, and with it the        *)
(* key-values in it                                                        *)
Closing(s) ==
    {i \in 1 .. Len(s) : /\ ~IsKeyValue(spans[s[i]])
                         /\ \A j \in i + 1 .. Len(s) : IsKeyValue(spans[s[j]])}

(* Mutant: leaves the key-values on the stack *)
Below_WithKeyValues(s, i) == SubSeq(s, 1, i - 1) \o SubSeq(s, i + 1, Len(s))
(* What a stack is when the span at i has been popped *)
Below(s, i) == SubSeq(s, 1, i - 1)

(* The number of a thread is forgotten when it ends, as its id may be used *)
(* for another one                                                         *)
NumbersAfter_Kept(kind) == threadNumbers    \* mutant
NumbersAfter(kind) ==
    IF kind = "Thread" THEN Without(threadNumbers, Message.tid) ELSE threadNumbers

Failed(result) ==
    /\ status' = result
    /\ UNCHANGED <<position, spans, spansByPn, startByThread, threadNumbers>>

Close(i) ==
    LET id == Stack[i]
        pn == log[spans[id].start].pn
        known == IF pn \in DOMAIN spansByPn THEN spansByPn[pn] ELSE <<>>
        kind == ScopeKind(Message.kind)
    IN  CASE spans[id].kind # kind -> Failed("error")
          [] spans[id].kind = kind /\ pn # Message.pn -> Failed("panic")
          [] OTHER ->
               /\ spans' = [spans EXCEPT ![id].end = position]
               /\ startByThread' = [startByThread EXCEPT ![Message.tid] = Below(@, i)]
               /\ spansByPn' = With(spansByPn, pn, Append(known, id))
               /\ threadNumbers' = NumbersAfter(kind)
               /\ position' = position + 1 /\ UNCHANGED status

EndSpan ==
    /\ AtMessage(Ends)
    /\ IF Closing(Stack) = {}
       THEN Failed("error")
       ELSE \E i \in Closing(Stack) : Close(i)
    /\ UNCHANGED nextNumber

SkipMessage ==
    /\ AtMessage({"T", "TIO"})
    /\ position' = position + 1
    /\ UNCHANGED <<status, spans, spansByPn, startByThread, threadNumbers, nextNumber>>

Built ==
    /\ status = "reading" /\ position > Len(log)
    /\ status' = "built"
    /\ UNCHANGED <<position, spans, spansByPn, startByThread, threadNumbers, nextNumber>>

(* scopestats unwraps the end of every scope and the number of its calls *)
MakeTables ==
    /\ status = "built"
    /\ status' = IF \E i \in DOMAIN spans : /\ ~IsKeyValue(spans[i])
                                            /\ \/ spans[i].end = NoEnd
                                               \/ log[spans[i].start].n = 0
                 THEN "panic" ELSE "done"
    /\ UNCHANGED <<position, spans, spansByPn, startByThread, threadNumbers, nextNumber>>

TreeNext ==
    \/ ReadFile
    \/ StartSpan
    \/ AddKeyValue
    \/ EndSpan
    \/ SkipMessage
    \/ Built
    \/ MakeTables

TreeSpec == TreeInit /\ [][TreeNext /\ UNCHANGED log]_<<log, treeVars>>

(***************************************************************************)
(* Properties, for all logs                                                *)
(***************************************************************************)
TidOf(i) == log[spans[i].start].tid
PnOf(i) == log[spans[i].start].pn
Scoped == {i \in DOMAIN spans : ~IsKeyValue(spans[i])}
Ended == {i \in Scoped : spans[i].end # NoEnd}

(* Whatever the log, what the tables take for the spans of one thread are  *)
(* intervals that do not cross, each from the messages of that thread, and *)
(* a span that is the parent of another one contains its start: the time   *)
(* of a path is not counted twice in the path above it.                    *)
SpansNest ==
    /\ \A i \in Ended : /\ spans[i].start < spans[i].end
                        /\ log[spans[i].end].tid = TidOf(i)
                        /\ log[spans[i].end].pn = PnOf(i)
                        /\ ScopeKind(log[spans[i].end].kind) = spans[i].kind
    /\ \A i \in Ended, j \in Scoped :
          i < j /\ TidOf(i) = TidOf(j) =>
             \/ spans[i].end < spans[j].start
             \/ spans[j].end # NoEnd /\ spans[j].end < spans[i].end
    /\ \A i \in DOMAIN spans :
          LET p == spans[i].parent
          IN  p # NoSpan => /\ p < i /\ TidOf(p) = TidOf(i)
                            /\ spans[p].start < spans[i].start
                            /\ p \in Ended => spans[i].start < spans[p].end

(* Whatever the log, spans with the same thread number have the same       *)
(* thread id, and none that starts after the end of a thread has the       *)
(* number of that thread, whose id may be in use again.                    *)
ThreadNumbersTellThreads ==
    \A i, j \in Scoped : spans[i].threadNumber = spans[j].threadNumber =>
        /\ TidOf(i) = TidOf(j)
        /\ ~(i \in Ended /\ spans[i].kind = "Thread" /\ spans[i].end < spans[j].start)

(* spans_by_pn has, once each, the spans with a start and an end           *)
IndexedAt(pn, k) ==
    LET i == spansByPn[pn][k]
    IN  /\ i \in Ended /\ PnOf(i) = pn
        /\ \A l \in 1 .. Len(spansByPn[pn]) : i = spansByPn[pn][l] => k = l
IsIndexed(i) ==
    /\ PnOf(i) \in DOMAIN spansByPn
    /\ \E k \in 1 .. Len(spansByPn[PnOf(i)]) : spansByPn[PnOf(i)][k] = i
EndedSpansAreIndexed ==
    /\ \A pn \in DOMAIN spansByPn : \A k \in 1 .. Len(spansByPn[pn]) : IndexedAt(pn, k)
    /\ \A i \in Ended : IsIndexed(i)

(***************************************************************************)
(* The inductive invariant                                                 *)
(***************************************************************************)
TypeOK ==
    /\ status \in Statuses /\ position \in Nat /\ nextNumber \in Nat
    /\ spans \in Seq(SpanType)
    /\ \A pn \in DOMAIN spansByPn : spansByPn[pn] \in Seq(Nat)
    /\ \A tid \in DOMAIN startByThread : startByThread[tid] \in Seq(Nat)

(* An open span is on the stack of its thread, whose spans are parents of  *)
(* one another                                                             *)
StacksOK ==
    /\ \A tid \in DOMAIN startByThread :
          LET s == startByThread[tid]
          IN  /\ \A k \in 1 .. Len(s) : s[k] \in DOMAIN spans /\ TidOf(s[k]) = tid
                                        /\ spans[s[k]].end = NoEnd
              /\ \A k, l \in 1 .. Len(s) : k < l => s[k] < s[l]
    /\ \A i \in Scoped \ Ended :
          /\ TidOf(i) \in DOMAIN startByThread
          /\ \E k \in 1 .. Len(startByThread[TidOf(i)]) : startByThread[TidOf(i)][k] = i

(* Messages up to the position have been used, in the order of the log     *)
PositionsOK ==
    /\ status = "unread" => position = 0
    /\ status \notin {"unread", "error"} => position > 0
    /\ \A i \in DOMAIN spans : /\ 0 < spans[i].start /\ spans[i].start < position
                               /\ spans[i].end < position
    /\ \A i, j \in DOMAIN spans : i < j => spans[i].start < spans[j].start

NumbersOK ==
    /\ \A i \in Scoped : spans[i].threadNumber < nextNumber
    /\ \A tid \in DOMAIN threadNumbers :
          /\ threadNumbers[tid] \in Nat /\ threadNumbers[tid] < nextNumber
          /\ \A i \in Scoped : spans[i].threadNumber = threadNumbers[tid] =>
                TidOf(i) = tid /\ ~(i \in Ended /\ spans[i].kind = "Thread")
          /\ \A tid2 \in DOMAIN threadNumbers :
                threadNumbers[tid] = threadNumbers[tid2] => tid = tid2

TreeInv ==
    /\ TypeOK /\ StacksOK /\ PositionsOK /\ NumbersOK
    /\ SpansNest /\ ThreadNumbersTellThreads /\ EndedSpansAreIndexed
================================================================================
