------------------------------- MODULE Evaluation ------------------------------
(***************************************************************************)
(* A benchmarked program that writes a log (ProbesLog), and evobench-eval, *)
(* which reads it when the program is gone (LogDataTree, IndexByCallPath). *)
(***************************************************************************)
EXTENDS ProbesLog, FiniteSets

VARIABLES status, position, spans, spansByPn, startByThread, threadNumbers, nextNumber

Tree == INSTANCE IndexByCallPath WITH log <- file

treeVars == <<status, position, spans, spansByPn, startByThread, threadNumbers,
              nextNumber>>
vars == <<probeVars, treeVars>>

Init == ProbesInit /\ Tree!TreeInit
Program == ProbesNext /\ UNCHANGED treeVars
Evaluate == phase = "gone" /\ Tree!TreeNext /\ UNCHANGED probeVars

Next == Program \/ Evaluate
Spec == Init /\ [][Next]_vars

(***************************************************************************)
(* Properties                                                              *)
(***************************************************************************)
ScopesIn == {i \in DOMAIN spans : spans[i].kind = "Scope"}
Start(i) == file[spans[i].start]
End(i) == file[spans[i].end]

(* The spans above each span, below its thread, as places of the program,  *)
(* and the span of its thread (or of the process)                          *)
Ancestry ==
    LET up[i \in 1 .. Len(spans)] ==
          LET p == spans[i].parent
          IN  IF p = 0 \/ spans[p].kind \in {"Thread", "Process"}
              THEN [root |-> p, trail |-> <<>>]
              ELSE [root |-> up[p].root,
                    trail |-> Append(up[p].trail, [name  |-> Start(p).pn,
                                                   scope |-> Start(p).origin.scope])]
    IN  up

(* Out of the messages of all threads, which the buffers have shuffled and *)
(* the ids of ended threads mixed up, the tree has each scope with its own *)
(* start and its own end, under the scopes and key-values and in the       *)
(* thread that it was in when the program ran, whatever became of the      *)
(* program: nested scopes of the same name, scopes of EVOBENCH_SCOPE_EVERY *)
(* that were not logged, threads lost at the end.                          *)
TreeIsTheExecution ==
    status = "done" =>
        LET up == Ancestry
        IN  \A i \in ScopesIn :
              LET origin == Start(i).origin
              IN  /\ End(i).origin.thread = origin.thread
                  /\ End(i).origin.scope = origin.scope
                  /\ up[i].trail = origin.trail
                  /\ Start(up[i].root).kind = "TThreadStart"
                  /\ Start(up[i].root).origin.thread = origin.thread

(* If main has waited for its threads, then an accepted log has all scopes *)
(* the program has logged, all ended and found by their names, even when   *)
(* writes have failed: a log with a part missing is not accepted.          *)
NothingIsMissing ==
    status = "done" /\ exit.clean =>
        /\ \A t \in Threads : \A k \in 1 .. made[t] : \E i \in ScopesIn :
              Start(i).origin.thread = t /\ Start(i).origin.scope = k
        /\ \A i \in ScopesIn : \E k \in DOMAIN spansByPn[Start(i).pn] :
              spansByPn[Start(i).pn][k] = i

(* The log of a program whose main waits for its threads and returns is    *)
(* never refused, and no table fails, unless a write has failed: however   *)
(* the threads have interleaved and the system has reused their ids.       *)
CleanLogIsAccepted ==
    exit.clean /\ enabled = "closed" => status \notin {"error", "panic"}

(* A log is accepted when it is whole, and only then.                      *)
LogIsWholeOrRefused == NothingIsMissing /\ CleanLogIsAccepted

(* The calls that the tables count for an EVOBENCH_SCOPE_EVERY probe are   *)
(* the calls made, but for less than a round of the divider in each thread *)
WeightsCountCalls ==
    status = "done" /\ exit.clean => \A t \in Threads :
        LET logged == {i \in ScopesIn : Start(i).pn = EveryProbe
                                        /\ Start(i).origin.thread = t}
        IN  /\ \A i \in logged : Start(i).n = EveryN
            /\ LET counted == EveryN * Cardinality(logged)
               IN  calls[t] <= counted /\ counted < calls[t] + EveryN

(* Of all the paths that are in one map, a path by thread has the scopes   *)
(* of one nest of names in one thread of the program, though the system    *)
(* has given the thread's id to another one, and a path across threads the *)
(* same nest in all threads: its row adds up the rows by thread.           *)
CallPathsTellThreads ==
    status = "done" =>
        LET across == Tree!PathStrings(Tree!AcrossThreads)
            byThread == Tree!PathStrings(Tree!ByThread)
            acrossReversed == Tree!PathStrings(Tree!AcrossThreadsReversed)
            byThreadReversed == Tree!PathStrings(Tree!ByThreadReversed)
            index == Tree!SpansByCallPath({Tree!AcrossThreads, Tree!AcrossThreadsReversed,
                                           Tree!ByThread, Tree!ByThreadReversed})
            Names(i) == [k \in DOMAIN Start(i).origin.trail |->
                            Start(i).origin.trail[k].name]
            SameNest(i) == {j \in ScopesIn : Names(i) = Names(j) /\ Start(i).pn = Start(j).pn}
            SameThread(i) == {j \in ScopesIn : Start(i).origin.thread = Start(j).origin.thread}
        IN  \A i \in ScopesIn :
              /\ index[across[i]] = SameNest(i)
              /\ index[acrossReversed[i]] = SameNest(i)
              /\ index[byThread[i]] = SameNest(i) \cap SameThread(i)
              /\ index[byThreadReversed[i]] = SameNest(i) \cap SameThread(i)

(* The properties of trees of all logs, see LogDataTree                    *)
SpansNest == Tree!SpansNest
ThreadNumbersTellThreads == Tree!ThreadNumbersTellThreads

(* Of every log, however it was cut off: the spans of a thread nest, and   *)
(* its number stands for no other thread.                                  *)
TreeIsWellFormed == SpansNest /\ ThreadNumbersTellThreads

================================================================================
