--------------------------- MODULE Evaluation_proofs ---------------------------
(***************************************************************************)
(* What LogDataTree_proofs shows of a log that is there holds also of the  *)
(* log of a program that is still running when evobench-eval is started:   *)
(* nothing has been made of it before the program is gone.                 *)
(*                                                                         *)
(* Then, that the tree is that of the execution, and that a log is         *)
(* accepted when it is whole.  ProbesInv is what is known of a log while   *)
(* the program writes it, ReadInv what the evaluator has made of the part  *)
(* that it has read.                                                       *)
(*                                                                         *)
(* Last, that the weights of the spans count all calls of a scope, the     *)
(* ones left out included, and that the paths of calls tell the threads    *)
(* apart, if these are numbered.  CountsInv keeps the account of the calls *)
(* while the program runs, ThreadsOK orders the spans of a thread id, and  *)
(* PathOf says which paths the recursion of PathStrings computes.          *)
(***************************************************************************)
EXTENDS Evaluation, FiniteSetTheorems, SequenceTheorems, WellFoundedInduction, TLAPS

TreeProofs == INSTANCE LogDataTree_proofs WITH log <- file

(* While the program is there, the evaluation has not begun                *)
WaitsForProgram == phase # "gone" => TreeProofs!TreeInit

(***************************************************************************)
(* Tree and TreeProofs are instances of one module                         *)
(***************************************************************************)
LEMMA SameInit == Tree!TreeInit <=> TreeProofs!TreeInit
  BY DEF Tree!TreeInit, TreeProofs!TreeInit, Tree!Empty, TreeProofs!Empty

LEMMA SameStep == Tree!TreeNext => TreeProofs!TreeNext
  <1> USE DEF Tree!NoSpan, TreeProofs!NoSpan, Tree!NoEnd, TreeProofs!NoEnd,
              Tree!Message, TreeProofs!Message, Tree!AtMessage, TreeProofs!AtMessage,
              Tree!HasStack, TreeProofs!HasStack, Tree!Stack, TreeProofs!Stack,
              Tree!Top, TreeProofs!Top, Tree!Number, TreeProofs!Number,
              Tree!Span, TreeProofs!Span, Tree!With, TreeProofs!With,
              Tree!IsKeyValue, TreeProofs!IsKeyValue,
              Tree!ScopeKind, TreeProofs!ScopeKind,
              Tree!Starts, TreeProofs!Starts, Tree!Ends, TreeProofs!Ends
  <1>1. Tree!ReadFile => TreeProofs!ReadFile
    BY DEF Tree!ReadFile, TreeProofs!ReadFile, Tree!Readable, TreeProofs!Readable
  <1>2. Tree!StartSpan => TreeProofs!StartSpan
    BY DEF Tree!StartSpan, TreeProofs!StartSpan
  <1>3. Tree!AddKeyValue => TreeProofs!AddKeyValue
    BY DEF Tree!AddKeyValue, TreeProofs!AddKeyValue
  <1>4. Tree!EndSpan => TreeProofs!EndSpan
    BY DEF Tree!EndSpan, TreeProofs!EndSpan, Tree!Close, TreeProofs!Close,
           Tree!Closing, TreeProofs!Closing, Tree!Failed, TreeProofs!Failed,
           Tree!Below, TreeProofs!Below, Tree!NumbersAfter, TreeProofs!NumbersAfter,
           Tree!Without, TreeProofs!Without
  <1>5. Tree!SkipMessage => TreeProofs!SkipMessage
    BY DEF Tree!SkipMessage, TreeProofs!SkipMessage
  <1>6. Tree!Built => TreeProofs!Built
    BY DEF Tree!Built, TreeProofs!Built
  <1>7. Tree!MakeTables => TreeProofs!MakeTables
    BY DEF Tree!MakeTables, TreeProofs!MakeTables
  <1> QED
    BY <1>1, <1>2, <1>3, <1>4, <1>5, <1>6, <1>7 DEF Tree!TreeNext, TreeProofs!TreeNext

LEMMA SameProperties ==
    /\ SpansNest <=> TreeProofs!SpansNest
    /\ ThreadNumbersTellThreads <=> TreeProofs!ThreadNumbersTellThreads
  <1> USE DEF Tree!Scoped, TreeProofs!Scoped, Tree!Ended, TreeProofs!Ended,
              Tree!TidOf, TreeProofs!TidOf, Tree!PnOf, TreeProofs!PnOf,
              Tree!IsKeyValue, TreeProofs!IsKeyValue,
              Tree!ScopeKind, TreeProofs!ScopeKind,
              Tree!NoSpan, TreeProofs!NoSpan, Tree!NoEnd, TreeProofs!NoEnd
  <1>1. SpansNest <=> TreeProofs!SpansNest
    BY DEF SpansNest, Tree!SpansNest, TreeProofs!SpansNest
  <1>2. ThreadNumbersTellThreads <=> TreeProofs!ThreadNumbersTellThreads
    BY DEF ThreadNumbersTellThreads, Tree!ThreadNumbersTellThreads,
           TreeProofs!ThreadNumbersTellThreads
  <1> QED
    BY <1>1, <1>2

(***************************************************************************)
(* The steps                                                               *)
(***************************************************************************)
(* A program that is gone does nothing                                     *)
LEMMA GoneDoesNothing ==
    ASSUME phase = "gone"
    PROVE  ~ProbesNext
  BY DEF ProbesNext, OpenOutput, StartThread, EnterScope, LeaveScope, LogKeyValue,
         LogPoint, EndThread, FlushLast, EndProcess, CloseOutput, Vanish, Running

LEMMA WaitsForProgramIsInductive ==
    ASSUME WaitsForProgram, [Next]_vars
    PROVE  WaitsForProgram'
  <1>1. CASE UNCHANGED vars
    BY <1>1 DEF WaitsForProgram, vars, probeVars, treeVars, TreeProofs!TreeInit,
                TreeProofs!Empty
  <1>2. CASE Program
    <2>1. phase # "gone"
      BY <1>2, GoneDoesNothing DEF Program
    <2> QED
      BY <1>2, <2>1 DEF WaitsForProgram, Program, treeVars, TreeProofs!TreeInit,
                        TreeProofs!Empty
  <1>3. CASE Evaluate
    BY <1>3 DEF WaitsForProgram, Evaluate, probeVars
  <1> QED
    BY <1>1, <1>2, <1>3 DEF Next

(* A step of the evaluation is one of the tree with the file as the log;   *)
(* before the evaluation the tree remains as it was                        *)
LEMMA EvaluationStep ==
    ASSUME TreeProofs!TreeInv, WaitsForProgram, [Next]_vars,
           TreeProofs!TreeInit' => TreeProofs!TreeInv'
    PROVE  TreeProofs!TreeInv'
  <1>1. CASE phase = "gone"
    <2>1. [TreeProofs!TreeNext /\ UNCHANGED file]_<<file, TreeProofs!treeVars>>
      BY <1>1, GoneDoesNothing, SameStep
         DEF Next, Program, Evaluate, vars, probeVars, treeVars, TreeProofs!treeVars
    <2> QED
      BY <2>1, TreeProofs!TreeInvIsInductive
  <1>2. CASE phase # "gone"
    <2>1. UNCHANGED treeVars
      BY <1>2 DEF Next, Program, Evaluate, vars
    <2>2. TreeProofs!TreeInit'
      BY <1>2, <2>1 DEF WaitsForProgram, treeVars, TreeProofs!TreeInit,
                        TreeProofs!Empty
    <2> QED
      BY <2>2
  <1> QED
    BY <1>1, <1>2

(* The tree is sound whenever the program has ended and whatever it wrote  *)
THEOREM TreeInvHolds == Spec => []TreeProofs!TreeInv
  <1>1. Init => TreeProofs!TreeInit
    BY SameInit DEF Init
  <1>2. TreeProofs!TreeInit => WaitsForProgram
    BY DEF WaitsForProgram
  <1>3. TreeProofs!TreeInit => TreeProofs!TreeInv
    BY TreeProofs!InitEstablishesTreeInv
  <1>4. WaitsForProgram /\ [Next]_vars => WaitsForProgram'
    BY WaitsForProgramIsInductive
  <1>5. TreeProofs!TreeInv /\ WaitsForProgram /\ [Next]_vars
        /\ (TreeProofs!TreeInit' => TreeProofs!TreeInv') => TreeProofs!TreeInv'
    BY EvaluationStep
  <1> QED
    BY <1>1, <1>2, <1>3, <1>4, <1>5, PTL DEF Spec

(* The spans of a thread nest in each tree that is made of a program's     *)
(* log, also while it is being made                                        *)
THEOREM SpansNestHolds == Spec => []SpansNest
  <1>1. TreeProofs!TreeInv => SpansNest
    BY SameProperties DEF TreeProofs!TreeInv
  <1> QED
    BY <1>1, TreeInvHolds, PTL

(* A thread number never stands for two thread ids, nor for a thread and   *)
(* one that started after its end                                          *)
THEOREM ThreadNumbersTellThreadsHolds == Spec => []ThreadNumbersTellThreads
  <1>1. TreeProofs!TreeInv => ThreadNumbersTellThreads
    BY SameProperties DEF TreeProofs!TreeInv
  <1> QED
    BY <1>1, TreeInvHolds, PTL

(* Both of them, at any time                                               *)
THEOREM TreeIsWellFormedHolds == Spec => []TreeIsWellFormed
  <1>1. SpansNest /\ ThreadNumbersTellThreads => TreeIsWellFormed
    BY DEF TreeIsWellFormed
  <1> QED
    BY <1>1, SpansNestHolds, ThreadNumbersTellThreadsHolds, PTL

-----------------------------------------------------------------------------
(***************************************************************************)
(* What the program writes.                                                *)
(***************************************************************************)
(* Messages that open or close something in the thread with the id         *)
Tracked == {"TThreadStart", "TThreadEnd", "TS", "TE", "KeyValue"}
Of(m, tid) == m.kind \in Tracked /\ m.tid = tid

(* The places a thread is in after it has logged the message               *)
After(m) ==
    IF m.kind \in {"TS", "KeyValue"}
    THEN Append(m.origin.trail, Place(m.pn, m.origin.scope))
    ELSE m.origin.trail

(* The message leaves the place k and the key-values in it                 *)
Leaves(m, places, k) ==
    /\ places[k].scope # 0 /\ places[k] = Place(m.pn, m.origin.scope)
    /\ m.origin.trail = SubSeq(places, 1, k - 1)
    /\ \A l \in k + 1 .. Len(places) : places[l].scope = 0

(* A message n can follow m in the log of a thread, and on the end of one  *)
(* thread the start of the next one with its id.  Threads end outside of   *)
(* all scopes, but for the one that calls exit.                            *)
Follows(m, n, quitter) ==
    \/ m.kind = "TThreadEnd" /\ n.kind = "TThreadStart"
    \/ /\ m.kind # "TThreadEnd" /\ n.origin.thread = m.origin.thread
       /\ \/ n.kind \in {"TS", "KeyValue"} /\ n.origin.trail = After(m)
          \/ n.kind = "TE" /\ \E k \in 1 .. Len(After(m)) : Leaves(n, After(m), k)
          \/ /\ n.kind = "TThreadEnd"
             /\ \/ \A k \in 1 .. Len(After(m)) : After(m)[k].scope = 0
                \/ quitter # 0 /\ n.origin.thread = quitter

(* The last message of the id before j, if there is any                    *)
NoneBefore(log, tid, j) == \A i \in 1 .. j - 1 : ~Of(log[i], tid)
LastBefore(log, tid, j, i) ==
    /\ i \in 1 .. j - 1 /\ Of(log[i], tid)
    /\ \A k \in i + 1 .. j - 1 : ~Of(log[k], tid)
NoneIn(log, tid) == NoneBefore(log, tid, Len(log) + 1)
LastIn(log, tid, i) == LastBefore(log, tid, Len(log) + 1, i)

(* The messages of one id, one after the other                             *)
Chained(log, tid, j, quitter) ==
    \/ NoneBefore(log, tid, j) /\ log[j].kind = "TThreadStart"
    \/ \E i \in 1 .. j - 1 : LastBefore(log, tid, j, i) /\ Follows(log[i], log[j], quitter)
Chain(log, tid, quitter) ==
    \A j \in 1 .. Len(log) : Of(log[j], tid) => Chained(log, tid, j, quitter)

(* No thread with this id is there                                         *)
Free(log, tid) ==
    NoneIn(log, tid) \/ \E i \in 1 .. Len(log) : LastIn(log, tid, i) /\ log[i].kind = "TThreadEnd"

Logged(log, t, k) ==
    \E j \in 1 .. Len(log) :
        log[j].kind = "TS" /\ log[j].origin.thread = t /\ log[j].origin.scope = k

(* Messages as they are logged                                             *)
BufferKinds == Tracked \cup {"T", "TIO"}
MessageOK(m) ==
    /\ m.kind = "TS" => m.origin.scope # 0 /\ m.n # 0
    /\ m.kind = "KeyValue" => m.origin.scope = 0
    /\ m.kind = "TThreadStart" => m.pn = "-" /\ m.n # 0 /\ m.origin.trail = <<>>
    /\ m.kind = "TThreadEnd" => m.pn = "-"
    /\ m.kind \in {"TStart", "TEnd"} => m.pn = "-" /\ m.n # 0

Kinds == BufferKinds \cup {"Start", "Metadata", "TStart", "TEnd", "Torn"}
AllTids == Tids \cup {NoTid}
Places == [name : Scopes \cup {"-", "key"}, scope : Nat]
ScopeObjects == [pn : Scopes, logged : BOOLEAN, scope : Nat]
Messages == [kind : Kinds, pn : Scopes \cup {"-", "key"}, tid : AllTids, n : Nat,
             origin : [thread : Nat, scope : Nat, trail : Seq(Places)]]
ThreadStates == [status : {"new", "running", "ending", "gone"}, tid : AllTids,
                 buffering : BOOLEAN, buffer : Seq(Messages)]

BufferOK(buffer, tid) ==
    \A i \in 1 .. Len(buffer) : /\ buffer[i].kind \in BufferKinds
                                /\ buffer[i].tid = tid /\ MessageOK(buffer[i])

ProbesTypeOK ==
    /\ phase \in {"init", "running", "exiting", "ended", "gone"}
    /\ enabled \in {"on", "off", "closed"}
    /\ file \in Seq(Messages) /\ thread \in [Threads -> ThreadStates]
    /\ stack \in [Threads -> Seq(ScopeObjects)]
    /\ exit \in [by : Threads \cup {0}, clean : BOOLEAN]
    /\ trail \in [Threads -> Seq(Places)] /\ made \in [Threads -> Nat]
    /\ \A t \in Threads : /\ thread[t].status = "new" => thread[t].buffer = <<>>
                          /\ BufferOK(thread[t].buffer, thread[t].tid)

(* A log is sealed by the destructor of the global Output, and by what     *)
(* threads write after it opened again                                     *)
Sealed == file # <<>> /\ file[Len(file)].kind = "TEnd"
Quitter == IF exit.clean THEN 0 ELSE exit.by
Living(t) == thread[t].status \in {"running", "ending"}
Log(t) == file \o thread[t].buffer

FileOK ==
    /\ Len(file) >= 3
    /\ file[1].kind = "Start" /\ file[2].kind = "Metadata" /\ file[3].kind = "TStart"
    /\ \A i \in 1 .. Len(file) :
          /\ MessageOK(file[i])
          /\ i > 3 => file[i].kind \in BufferKinds
                      \/ (file[i].kind = "TEnd" /\ i = Len(file))
    /\ \A tid \in AllTids : Chain(file, tid, Quitter)

(* Where the program is                                                    *)
ExitOK ==
    /\ thread[Main].status # "new"
    /\ phase = "init" =>
         /\ enabled = "off" /\ file = <<>> /\ thread[Main].tid \in Tids
         /\ \A t \in Threads :
              /\ ~thread[t].buffering /\ thread[t].buffer = <<>>
              /\ thread[t].status = (IF t = Main THEN "running" ELSE "new")
              /\ trail[t] = <<>> /\ stack[t] = <<>> /\ made[t] = 0
    /\ phase \in {"init", "running"} => exit = NoExit
    /\ phase \in {"exiting", "ended"} => exit.by # 0
    /\ exit.by # 0 => thread[exit.by].status \in {"ending", "gone"}
    /\ exit.clean =>
         /\ exit.by = Main
         /\ \A t \in Threads \ {Main} : thread[t].status \in {"new", "gone"}
    /\ phase = "ended" => thread[exit.by].status = "gone"
    /\ enabled = "closed" => phase \in {"ended", "gone"} /\ exit.by # 0 /\ thread[exit.by].status = "gone"
    /\ exit.clean /\ enabled = "closed" => Sealed

(* A log that is sealed is whole                                           *)
SealedOK ==
    Sealed =>
        /\ FileOK /\ enabled # "on" /\ phase \in {"ended", "gone"} /\ exit.by # 0
        /\ exit.clean => /\ file[Len(file)].tid = file[3].tid
                         /\ \A tid \in AllTids : Free(file, tid)
                         /\ \A t \in Threads : \A k \in 1 .. made[t] : Logged(file, t, k)

ThreadOK(t) ==
    LET h == thread[t] IN
    /\ ~h.buffering => h.buffer = <<>> /\ trail[t] = <<>> /\ made[t] = 0
    /\ h.status \in {"new", "gone"} => h.buffer = <<>>
    /\ h.status = "new" => ~h.buffering /\ stack[t] = <<>>
    /\ h.status = "ending" => h.buffering
    /\ Living(t) =>
         /\ h.tid \in Tids /\ Chain(Log(t), h.tid, Quitter)
         /\ ~h.buffering => Free(file, h.tid)
         /\ h.buffering => \E i \in 1 .. Len(Log(t)) :
              /\ LastIn(Log(t), h.tid, i) /\ Log(t)[i].origin.thread = t
              /\ (h.status = "ending" <=> Log(t)[i].kind = "TThreadEnd")
              /\ (h.status = "running" => After(Log(t)[i]) = trail[t])
    /\ \A k \in 1 .. made[t] : Logged(Log(t), t, k)

(* The scopes that a thread is in are those that it has logged             *)
ScopesOK(t) ==
    LET s == stack[t]
        tr == trail[t]
    IN
    /\ \A a \in 1 .. Len(s) :
          s[a].logged => /\ s[a].scope \in 1 .. made[t]
                         /\ \E k \in 1 .. Len(tr) : tr[k] = Place(s[a].pn, s[a].scope)
    /\ \A a, b \in 1 .. Len(s) : a < b /\ s[a].logged /\ s[b].logged => s[a].scope < s[b].scope
    /\ \A k \in 1 .. Len(tr) : /\ tr[k].scope <= made[t]
                               /\ tr[k].scope # 0 =>
                                    \E a \in 1 .. Len(s) : s[a].logged /\ s[a].scope = tr[k].scope
    /\ \A k, l \in 1 .. Len(tr) :
          k < l /\ tr[k].scope # 0 /\ tr[l].scope # 0 => tr[k].scope < tr[l].scope

(* While the log is written, all scopes of plain probes are logged         *)
PlainOK(t) ==
    \A a \in 1 .. Len(stack[t]) : ~stack[t][a].logged => stack[t][a].pn = EveryProbe

WritingOK ==
    enabled = "on" =>
        /\ FileOK /\ ~Sealed /\ phase # "init"
        /\ file[3].tid = thread[Main].tid
        /\ \A t \in Threads : ThreadOK(t) /\ PlainOK(t)
        /\ \A t, u \in Threads : Living(t) /\ Living(u) /\ t # u => thread[t].tid # thread[u].tid
        /\ \A tid \in AllTids :
              (\A t \in Threads : Living(t) => thread[t].tid # tid) => Free(file, tid)

ProbesInv ==
    /\ ProbesTypeOK /\ ExitOK /\ SealedOK /\ WritingOK
    /\ \A t \in Threads : ScopesOK(t)

-----------------------------------------------------------------------------
(***************************************************************************)
(* What the evaluator makes of it.                                         *)
(***************************************************************************)
Active == status \in {"reading", "built", "done"}
StackOf(tid) == IF tid \in DOMAIN startByThread THEN startByThread[tid] ELSE <<>>

(* Whether the span of the process lies under those of the thread          *)
Roots(log, tid, pos) == IF tid = log[3].tid /\ pos > 3 THEN 1 ELSE 0

(* An open span of the kind that m has started is at the place k           *)
IsAt(kind, m, places, k) ==
    /\ kind = IF places[k].scope = 0 THEN "KeyValue" ELSE "Scope"
    /\ Place(m.pn, m.origin.scope) = places[k]
    /\ m.origin.trail = SubSeq(places, 1, k - 1)

(* The stack s of a thread that has logged m last, above the r roots: the  *)
(* thread and the places it is in                                          *)
StackAfter(log, sp, s, r, m) ==
    IF m.kind = "TThreadEnd" THEN Len(s) = r
    ELSE /\ Len(s) = r + 1 + Len(After(m))
         /\ sp[s[r + 1]].kind = "Thread"
         /\ \A k \in r + 1 .. Len(s) : log[sp[s[k]].start].origin.thread = m.origin.thread
         /\ \A k \in 1 .. Len(After(m)) :
               IsAt(sp[s[r + 1 + k]].kind, log[sp[s[r + 1 + k]].start], After(m), k)

StackFits(log, sp, s, tid, pos) ==
    /\ Roots(log, tid, pos) = 1 => s # <<>> /\ sp[s[1]].kind = "Process"
    /\ \/ NoneBefore(log, tid, pos) /\ Len(s) = Roots(log, tid, pos)
       \/ \E i \in 1 .. pos - 1 :
             LastBefore(log, tid, pos, i) /\ StackAfter(log, sp, s, Roots(log, tid, pos), log[i])

(* What m starts belongs under the span p                                  *)
ParentFits(log, sp, p, m) ==
    LET above == log[sp[p].start]
    IN  /\ above.origin.thread = m.origin.thread
        /\ \/ sp[p].kind = "Thread" /\ m.origin.trail = <<>>
           \/ /\ sp[p].kind \in {"Scope", "KeyValue"}
              /\ m.origin.trail = Append(above.origin.trail, Place(above.pn, above.origin.scope))

StartKind(kind) ==
    CASE kind = "Process" -> "TStart" [] kind = "Thread" -> "TThreadStart"
      [] kind = "Scope" -> "TS" [] kind = "KeyValue" -> "KeyValue"
SpanFits(log, sp, i) ==
    LET m == log[sp[i].start]
    IN  /\ m.kind = StartKind(sp[i].kind)
        /\ sp[i].kind \in {"Scope", "KeyValue"} =>
              sp[i].parent \in 1 .. i - 1 /\ ParentFits(log, sp, sp[i].parent, m)
        /\ sp[i].kind = "Scope" /\ sp[i].end # 0 =>
              /\ log[sp[i].end].origin.thread = m.origin.thread
              /\ log[sp[i].end].origin.scope = m.origin.scope

ReadingOK ==
    /\ status # "unread" => phase = "gone"
    /\ Active =>
        /\ Sealed /\ position \in 3 .. Len(file) + 1
        /\ \A i \in DOMAIN spans : SpanFits(file, spans, i)
        /\ \A j \in 3 .. position - 1 : file[j].kind \in {"TStart", "TThreadStart", "TS"} =>
              \E i \in DOMAIN spans : spans[i].start = j
        /\ position <= Len(file) => \A tid \in AllTids : StackFits(file, spans, StackOf(tid), tid, position)
        /\ status # "reading" => position = Len(file) + 1
        /\ status = "done" => \A i \in DOMAIN spans :
              spans[i].kind # "KeyValue" => spans[i].end # 0

(* A log of a clean exit is not refused                                    *)
AcceptingOK ==
    Sealed /\ exit.clean =>
        /\ status \notin {"error", "panic"}
        /\ Active /\ position = Len(file) + 1 => \A tid \in AllTids : StackOf(tid) = <<>>

ReadInv == ReadingOK /\ AcceptingOK

-----------------------------------------------------------------------------
(***************************************************************************)
(* Logs                                                                    *)
(***************************************************************************)
LEMMA Appended ==
    ASSUME NEW S, NEW s \in Seq(S), NEW m \in S
    PROVE  /\ Append(s, m) \in Seq(S) /\ Len(Append(s, m)) = Len(s) + 1
           /\ \A i \in 1 .. Len(s) : Append(s, m)[i] = s[i]
           /\ Append(s, m)[Len(s) + 1] = m
           /\ s \o <<m>> = Append(s, m)
  OBVIOUS

LEMMA Joined ==
    ASSUME NEW S, NEW s \in Seq(S), NEW x \in Seq(S)
    PROVE  /\ s \o x \in Seq(S) /\ Len(s \o x) = Len(s) + Len(x)
           /\ \A i \in 1 .. Len(s) : (s \o x)[i] = s[i]
           /\ \A i \in 1 .. Len(x) : (s \o x)[Len(s) + i] = x[i]
  OBVIOUS

(* A larger log in which no messages of the id have been added             *)
Embeds(f, log, big, tid) ==
    /\ \A i \in 1 .. Len(log) : f[i] \in 1 .. Len(big) /\ big[f[i]] = log[i]
    /\ \A i, j \in 1 .. Len(log) : i < j => f[i] < f[j]
    /\ \A k \in 1 .. Len(big) : Of(big[k], tid) => \E i \in 1 .. Len(log) : f[i] = k

LEMMA Embedded ==
    ASSUME NEW S, NEW log \in Seq(S), NEW big \in Seq(S), NEW tid, NEW q, NEW f,
           Embeds(f, log, big, tid)
    PROVE  /\ Chain(log, tid, q) => Chain(big, tid, q)
           /\ NoneIn(log, tid) => NoneIn(big, tid)
           /\ \A i \in 1 .. Len(log) : LastIn(log, tid, i) => LastIn(big, tid, f[i])
  <1> DEFINE n == Len(log)
             b == Len(big)
  <1>0. n \in Nat /\ b \in Nat
    OBVIOUS
  <1>1. /\ \A i \in 1 .. n : f[i] \in 1 .. b /\ big[f[i]] = log[i]
        /\ \A i, j \in 1 .. n : i < j => f[i] < f[j]
        /\ \A k \in 1 .. b : Of(big[k], tid) => \E i \in 1 .. n : f[i] = k
    BY DEF Embeds
  <1> HIDE DEF n, b
  <1>7. ASSUME NEW i \in 1 .. n, NEW j \in 1 .. n, f[i] < f[j] PROVE i < j
    <2>1. i \in Nat /\ j \in Nat /\ f[i] \in Nat /\ f[j] \in Nat
      BY <1>0, <1>1
    <2>2. j < i => f[j] < f[i]
      BY <1>1
    <2>3. i # j
      BY <1>7, <2>1
    <2> QED
      BY <1>7, <2>1, <2>2, <2>3
  <1>2. ASSUME NEW j \in 1 .. n, NoneBefore(log, tid, j)
        PROVE  NoneBefore(big, tid, f[j])
    <2> SUFFICES ASSUME NEW k \in 1 .. f[j] - 1, Of(big[k], tid) PROVE FALSE
      BY DEF NoneBefore
    <2>1. k \in 1 .. b /\ k < f[j]
      BY <1>0, <1>1
    <2>2. PICK i \in 1 .. n : f[i] = k
      BY <1>1, <2>1
    <2>3. i < j
      BY <1>7, <2>1, <2>2
    <2> QED
      BY <1>0, <1>1, <1>2, <2>2, <2>3 DEF NoneBefore
  <1>3. ASSUME NEW i \in 1 .. n, NEW j \in 1 .. n, LastBefore(log, tid, j, i)
        PROVE  LastBefore(big, tid, f[j], f[i])
    <2>1. i < j /\ Of(log[i], tid)
      BY <1>0, <1>3 DEF LastBefore
    <2>2. f[i] \in 1 .. f[j] - 1 /\ Of(big[f[i]], tid)
      BY <1>0, <1>1, <2>1
    <2>3. ASSUME NEW k \in f[i] + 1 .. f[j] - 1, Of(big[k], tid) PROVE FALSE
      <3>1. k \in 1 .. b /\ f[i] < k /\ k < f[j]
        BY <1>0, <1>1
      <3>2. PICK l \in 1 .. n : f[l] = k
        BY <1>1, <2>3, <3>1
      <3>3. i < l /\ l < j
        BY <1>7, <3>1, <3>2
      <3>4. l \in i + 1 .. j - 1
        BY <1>0, <3>3
      <3> QED
        BY <1>1, <1>3, <2>3, <3>2, <3>4 DEF LastBefore
    <2> QED
      BY <2>2, <2>3 DEF LastBefore
  <1>4. ASSUME Chain(log, tid, q) PROVE Chain(big, tid, q)
    <2> SUFFICES ASSUME NEW k \in 1 .. b, Of(big[k], tid)
                 PROVE  Chained(big, tid, k, q)
      BY DEF Chain, b
    <2>1. PICK j \in 1 .. n : f[j] = k
      BY <1>1
    <2>2. Chained(log, tid, j, q) /\ log[j] = big[k]
      BY <1>1, <1>4, <2>1 DEF Chain, n
    <2>3. CASE NoneBefore(log, tid, j) /\ log[j].kind = "TThreadStart"
      BY <1>2, <2>1, <2>2, <2>3 DEF Chained
    <2>4. CASE \E i \in 1 .. j - 1 : LastBefore(log, tid, j, i)
                                      /\ Follows(log[i], log[j], q)
      <3>1. PICK i \in 1 .. j - 1 : LastBefore(log, tid, j, i)
                                     /\ Follows(log[i], log[j], q)
        BY <2>4
      <3>2. i \in 1 .. n
        BY <1>0
      <3>3. LastBefore(big, tid, k, f[i]) /\ Follows(big[f[i]], big[k], q)
        BY <1>1, <1>3, <2>1, <2>2, <3>1, <3>2
      <3> QED
        BY <3>3 DEF Chained, LastBefore
    <2> QED
      BY <2>2, <2>3, <2>4 DEF Chained
  <1>5. ASSUME NoneIn(log, tid) PROVE NoneIn(big, tid)
    <2> SUFFICES ASSUME NEW k \in 1 .. b, Of(big[k], tid) PROVE FALSE
      BY <1>0 DEF NoneIn, NoneBefore, b
    <2>1. PICK i \in 1 .. n : f[i] = k
      BY <1>1
    <2> QED
      BY <1>0, <1>1, <1>5, <2>1 DEF NoneIn, NoneBefore, n
  <1>6. ASSUME NEW i \in 1 .. n, LastIn(log, tid, i) PROVE LastIn(big, tid, f[i])
    <2>1. Of(big[f[i]], tid) /\ f[i] \in 1 .. b
      BY <1>1, <1>6 DEF LastIn, LastBefore
    <2>2. ASSUME NEW k \in f[i] + 1 .. b, Of(big[k], tid) PROVE FALSE
      <3>1. k \in 1 .. b /\ f[i] < k
        BY <1>0, <2>1
      <3>2. PICK l \in 1 .. n : f[l] = k
        BY <1>1, <2>2, <3>1
      <3>3. l \in i + 1 .. n
        <4>1. i < l
          BY <1>7, <3>1, <3>2
        <4> QED
          BY <1>0, <4>1
      <3> QED
        BY <1>0, <1>1, <1>6, <2>2, <3>2, <3>3 DEF LastIn, LastBefore, n
    <2> QED
      BY <1>0, <2>1, <2>2 DEF LastIn, LastBefore, b
  <1> QED
    BY <1>4, <1>5, <1>6 DEF n

(* Messages of others may be written in between                            *)
LEMMA Inserted ==
    ASSUME NEW S, NEW a \in Seq(S), NEW x \in Seq(S), NEW b \in Seq(S), NEW tid,
           \A i \in 1 .. Len(x) : ~Of(x[i], tid)
    PROVE  LET f == [i \in 1 .. Len(a \o b) |-> IF i <= Len(a) THEN i ELSE i + Len(x)]
           IN  Embeds(f, a \o b, (a \o x) \o b, tid)
  <1> DEFINE f == [i \in 1 .. Len(a \o b) |-> IF i <= Len(a) THEN i ELSE i + Len(x)]
             ab == a \o b
             axb == (a \o x) \o b
  <1>1. /\ ab \in Seq(S) /\ Len(ab) = Len(a) + Len(b)
        /\ \A i \in 1 .. Len(a) : ab[i] = a[i]
        /\ \A i \in 1 .. Len(b) : ab[Len(a) + i] = b[i]
    BY Joined
  <1>2. /\ Len(axb) = Len(a) + Len(x) + Len(b)
        /\ \A i \in 1 .. Len(a) : axb[i] = a[i]
        /\ \A i \in 1 .. Len(x) : axb[Len(a) + i] = x[i]
        /\ \A i \in 1 .. Len(b) : axb[Len(a) + Len(x) + i] = b[i]
    <2>1. /\ a \o x \in Seq(S) /\ Len(a \o x) = Len(a) + Len(x)
          /\ \A i \in 1 .. Len(a) : (a \o x)[i] = a[i]
          /\ \A i \in 1 .. Len(x) : (a \o x)[Len(a) + i] = x[i]
      BY Joined
    <2>2. /\ Len(axb) = Len(a \o x) + Len(b)
          /\ \A i \in 1 .. Len(a \o x) : axb[i] = (a \o x)[i]
          /\ \A i \in 1 .. Len(b) : axb[Len(a \o x) + i] = b[i]
      BY <2>1, Joined
    <2> QED
      BY <2>1, <2>2
  <1>3. Len(a) \in Nat /\ Len(b) \in Nat /\ Len(x) \in Nat
    OBVIOUS
  <1> HIDE DEF ab, axb
  <1>4. \A i \in 1 .. Len(ab) : f[i] \in 1 .. Len(axb) /\ axb[f[i]] = ab[i]
    <2> SUFFICES ASSUME NEW i \in 1 .. Len(ab)
                 PROVE  f[i] \in 1 .. Len(axb) /\ axb[f[i]] = ab[i]
      OBVIOUS
    <2>1. CASE i <= Len(a)
      BY <1>1, <1>2, <1>3, <2>1 DEF ab
    <2>2. CASE i > Len(a)
      <3> DEFINE d == i - Len(a)
      <3>1. d \in 1 .. Len(b) /\ i = Len(a) + d /\ f[i] = Len(a) + Len(x) + d
        BY <1>1, <1>3, <2>2 DEF ab
      <3> HIDE DEF d, f
      <3>2. ab[i] = b[d] /\ axb[f[i]] = b[d]
        BY <1>1, <1>2, <3>1
      <3>3. f[i] \in 1 .. Len(axb)
        BY <1>2, <1>3, <3>1
      <3> QED
        BY <3>2, <3>3
    <2> QED
      BY <1>1, <1>3, <2>1, <2>2
  <1>5. \A i, j \in 1 .. Len(ab) : i < j => f[i] < f[j]
    BY <1>1, <1>3 DEF ab
  <1>6. ASSUME NEW k \in 1 .. Len(axb), Of(axb[k], tid)
        PROVE  \E i \in 1 .. Len(ab) : f[i] = k
    <2>1. CASE k <= Len(a)
      BY <1>1, <1>2, <1>3, <2>1 DEF ab
    <2>2. CASE k > Len(a) /\ k <= Len(a) + Len(x)
      <3> DEFINE d == k - Len(a)
      <3>1. d \in 1 .. Len(x) /\ k = Len(a) + d
        BY <1>2, <1>3, <2>2
      <3> HIDE DEF d
      <3>2. axb[k] = x[d]
        BY <1>2, <3>1
      <3> QED
        BY <1>6, <3>1, <3>2
    <2>3. CASE k > Len(a) + Len(x)
      <3> DEFINE i == k - Len(x)
      <3>1. i \in 1 .. Len(ab) /\ ~ (i <= Len(a)) /\ i + Len(x) = k
        BY <1>1, <1>2, <1>3, <2>3
      <3> HIDE DEF i
      <3>2. f[i] = k
        BY <3>1 DEF ab
      <3> QED
        BY <3>1, <3>2
    <2>4. k \in Nat /\ Len(a) + Len(x) \in Nat
      BY <1>2, <1>3
    <2> HIDE DEF f
    <2> QED
      BY <1>3, <2>1, <2>2, <2>3, <2>4
  <1> QED
    BY <1>4, <1>5, <1>6 DEF Embeds, ab, axb

(* What is known of a log of one id stays, when others write               *)
Keeps(log, big, tid, q) ==
    /\ Chain(log, tid, q) => Chain(big, tid, q)
    /\ Free(log, tid) => Free(big, tid)
    /\ \A i \in 1 .. Len(log) : LastIn(log, tid, i) =>
          \E k \in 1 .. Len(big) : LastIn(big, tid, k) /\ big[k] = log[i]
    /\ \A t, k : Logged(log, t, k) => Logged(big, t, k)

LEMMA OthersWrite ==
    ASSUME NEW S, NEW a \in Seq(S), NEW x \in Seq(S), NEW b \in Seq(S), NEW tid, NEW q,
           \A i \in 1 .. Len(x) : ~Of(x[i], tid)
    PROVE  Keeps(a \o b, (a \o x) \o b, tid, q)
  <1> DEFINE ab == a \o b
             axb == (a \o x) \o b
             f == [i \in 1 .. Len(ab) |-> IF i <= Len(a) THEN i ELSE i + Len(x)]
  <1>1. ab \in Seq(S) /\ axb \in Seq(S)
    BY Joined
  <1>2. Embeds(f, ab, axb, tid)
    BY Inserted
  <1> HIDE DEF ab, axb, f
  <1>3. /\ Chain(ab, tid, q) => Chain(axb, tid, q)
        /\ NoneIn(ab, tid) => NoneIn(axb, tid)
        /\ \A i \in 1 .. Len(ab) : LastIn(ab, tid, i) => LastIn(axb, tid, f[i])
    BY <1>1, <1>2, Embedded
  <1>4. \A i \in 1 .. Len(ab) : f[i] \in 1 .. Len(axb) /\ axb[f[i]] = ab[i]
    BY <1>2 DEF Embeds
  <1>5. Free(ab, tid) => Free(axb, tid)
    BY <1>3, <1>4 DEF Free
  <1>6. \A t, k : Logged(ab, t, k) => Logged(axb, t, k)
    BY <1>4 DEF Logged
  <1> QED
    BY <1>3, <1>4, <1>5, <1>6 DEF Keeps, ab, axb

(* The same at the end of the log                                          *)
LEMMA OthersAppend ==
    ASSUME NEW S, NEW a \in Seq(S), NEW x \in Seq(S), NEW tid, NEW q,
           \A i \in 1 .. Len(x) : ~Of(x[i], tid)
    PROVE  Keeps(a, a \o x, tid, q)
  <1>1. <<>> \in Seq(S) /\ a \o x \in Seq(S)
    BY Joined
  <1>2. a \o <<>> = a /\ (a \o x) \o <<>> = a \o x
    BY <1>1, ConcatEmptySeq
  <1>3. Keeps(a \o <<>>, (a \o x) \o <<>>, tid, q)
    BY <1>1, OthersWrite
  <1> QED
    BY <1>2, <1>3

(* A message that follows what is there                                    *)
Continues(log, tid, m, q) ==
    \/ NoneIn(log, tid) /\ m.kind = "TThreadStart"
    \/ \E i \in 1 .. Len(log) : LastIn(log, tid, i) /\ Follows(log[i], m, q)

LEMMA Continued ==
    ASSUME NEW S, NEW log \in Seq(S), NEW m \in S, NEW tid, NEW q,
           Chain(log, tid, q), Of(m, tid), Continues(log, tid, m, q)
    PROVE  /\ Chain(Append(log, m), tid, q)
           /\ LastIn(Append(log, m), tid, Len(log) + 1)
  <1> DEFINE n == Len(log)
             l == Append(log, m)
  <1>1. /\ n \in Nat /\ Len(l) = n + 1 /\ l[n + 1] = m
        /\ \A i \in 1 .. n : l[i] = log[i]
    BY Appended
  <1> HIDE DEF l
  <1>2. ASSUME NEW j \in 1 .. n + 1, NoneBefore(log, tid, j)
        PROVE  NoneBefore(l, tid, j)
    BY <1>1, <1>2 DEF NoneBefore, n
  <1>3. ASSUME NEW j \in 1 .. n + 1, NEW i \in 1 .. n, LastBefore(log, tid, j, i)
        PROVE  LastBefore(l, tid, j, i)
    BY <1>1, <1>3 DEF LastBefore, n
  <1>4. ASSUME NEW j \in 1 .. n, Of(l[j], tid) PROVE Chained(l, tid, j, q)
    <2>1. Chained(log, tid, j, q) /\ l[j] = log[j] /\ j \in 1 .. n + 1
      BY <1>1, <1>4 DEF Chain
    <2>2. \A i \in 1 .. j - 1 : i \in 1 .. n
      BY <1>1
    <2> QED
      BY <1>1, <1>2, <1>3, <2>1, <2>2 DEF Chained
  <1>5. Chained(l, tid, n + 1, q)
    <2>1. n + 1 \in 1 .. n + 1 /\ n + 1 - 1 = n
      BY <1>1
    <2>2. CASE NoneIn(log, tid) /\ m.kind = "TThreadStart"
      BY <1>1, <1>2, <2>1, <2>2 DEF NoneIn, Chained
    <2>3. CASE \E i \in 1 .. n : LastIn(log, tid, i) /\ Follows(log[i], m, q)
      BY <1>1, <1>3, <2>1, <2>3 DEF LastIn, Chained
    <2> QED
      BY <2>2, <2>3 DEF Continues
  <1>6. LastIn(l, tid, n + 1)
    BY <1>1 DEF LastIn, LastBefore
  <1> QED
    BY <1>1, <1>4, <1>5, <1>6 DEF Chain, l

LEMMA LoggedStays ==
    ASSUME NEW S, NEW log \in Seq(S), NEW m \in S
    PROVE  \A t, k : Logged(log, t, k) => Logged(Append(log, m), t, k)
  BY Appended DEF Logged

-----------------------------------------------------------------------------
(***************************************************************************)
(* Writing                                                                 *)
(***************************************************************************)
LEMMA TornIsMessage == Torn \in Messages /\ Torn.kind = "Torn"
  BY DEF Torn, Header, Message, Nowhere, Origin, Messages, Kinds, AllTids

LEMMA ThreadMessage ==
    ASSUME ProbesTypeOK, NEW t \in Threads,
           NEW kind \in {"TStart", "TEnd", "TThreadStart", "TThreadEnd", "TIO", "T"},
           NEW n \in Nat
    PROVE  LET m == OfThread(t, kind, n)
           IN  /\ m \in Messages /\ m.kind = kind /\ m.tid = thread[t].tid /\ m.n = n
               /\ m.pn = "-" /\ m.origin = Origin(t, 0, <<>>)
               /\ n # 0 \/ kind \in {"TThreadEnd", "T", "TIO"} => MessageOK(m)
  <1>1. thread[t].tid \in AllTids /\ t \in Nat
    BY DEF ProbesTypeOK, ThreadStates, Threads
  <1> QED
    BY <1>1 DEF OfThread, Message, Origin, Messages, Kinds, BufferKinds, Tracked, MessageOK

LEMMA MessagesJoined ==
    \A a, b, c \in Seq(Messages) : (a \o b) \o c = a \o (b \o c)
  BY ConcatAssociative

(* What a write may leave                                                  *)
LEMMA Written ==
    ASSUME file \in Seq(Messages), NEW x \in Seq(Messages), x # <<>>,
           \A i \in 1 .. Len(x) : x[i].kind # "TEnd"
    PROVE  /\ file \o x \in Seq(Messages)
           /\ file \o x # <<>> /\ (file \o x)[Len(file \o x)].kind # "TEnd"
           /\ \A new \in Partly(x) :
                /\ new \in Seq(Messages)
                /\ new # <<>> /\ new[Len(new)].kind = "TEnd" => new = file
  <1>1. ASSUME NEW y \in Seq(Messages), \A i \in 1 .. Len(y) : y[i].kind # "TEnd"
        PROVE  /\ file \o y \in Seq(Messages)
               /\ y # <<>> => /\ file \o y # <<>>
                              /\ (file \o y)[Len(file \o y)].kind # "TEnd"
    <2>1. /\ file \o y \in Seq(Messages) /\ Len(file \o y) = Len(file) + Len(y)
          /\ \A i \in 1 .. Len(y) : (file \o y)[Len(file) + i] = y[i]
      BY Joined
    <2>2. Len(file) \in Nat /\ Len(y) \in Nat /\ (y # <<>> => Len(y) \in 1 .. Len(y))
      OBVIOUS
    <2>3. y # <<>> => (file \o y)[Len(file \o y)] = y[Len(y)]
      BY <2>1, <2>2
    <2>4. y # <<>> => Len(file \o y) > 0
      BY <2>1, <2>2
    <2> QED
      BY <1>1, <2>1, <2>2, <2>3, <2>4
  <1>2. ASSUME NEW k \in 0 .. Len(x) - 1, NEW torn \in {<<>>, <<Torn>>}
        PROVE  LET new == file \o SubSeq(x, 1, k) \o torn
               IN  /\ new \in Seq(Messages)
                   /\ new # <<>> /\ new[Len(new)].kind = "TEnd" => new = file
    <2> DEFINE s == SubSeq(x, 1, k)
               y == s \o torn
    <2>1. /\ s \in Seq(Messages) /\ Len(s) = k
          /\ \A i \in 1 .. k : s[i] = x[i]
      OBVIOUS
    <2>2. \A i \in 1 .. k : s[i].kind # "TEnd"
      BY <2>1
    <2>3. torn \in Seq(Messages)
      <3>1. <<>> \in Seq(Messages) /\ <<Torn>> \in Seq(Messages)
        BY TornIsMessage
      <3> QED
        BY <3>1
    <2> HIDE DEF s
    <2>4. y \in Seq(Messages) /\ file \o s \o torn = file \o y
      <3>1. y \in Seq(Messages)
        BY <2>1, <2>3, Joined
      <3>2. (file \o s) \o torn = file \o (s \o torn)
        BY <2>1, <2>3, MessagesJoined
      <3> QED
        BY <3>1, <3>2
    <2>5. \A i \in 1 .. Len(y) : y[i].kind # "TEnd"
      <3>1. CASE torn = <<>>
        BY <2>1, <2>2, <3>1, ConcatEmptySeq
      <3>2. CASE torn = <<Torn>>
        <4>1. y = Append(s, Torn)
          BY <2>1, <3>2, TornIsMessage, Appended
        <4>2. /\ Len(y) = k + 1 /\ y[k + 1] = Torn
              /\ \A i \in 1 .. k : y[i] = s[i]
          BY <2>1, <4>1, TornIsMessage, Appended
        <4>3. Torn.kind # "TEnd"
          BY TornIsMessage
        <4> HIDE DEF y
        <4> QED
          BY <2>2, <4>2, <4>3
      <3> QED
        BY <3>1, <3>2
    <2>6. y = <<>> => file \o y = file
      BY ConcatEmptySeq
    <2> HIDE DEF y
    <2> QED
      BY <1>1, <2>4, <2>5, <2>6 DEF s
  <1> QED
    <2>1. \A new \in Partly(x) : \E k \in 0 .. Len(x) - 1, torn \in {<<>>, <<Torn>>} :
             new = file \o SubSeq(x, 1, k) \o torn
      BY DEF Partly
    <2>2. ASSUME NEW new \in Partly(x)
          PROVE  /\ new \in Seq(Messages)
                 /\ new # <<>> /\ new[Len(new)].kind = "TEnd" => new = file
      <3>1. PICK k \in 0 .. Len(x) - 1, torn \in {<<>>, <<Torn>>} :
                new = file \o SubSeq(x, 1, k) \o torn
        BY <2>1
      <3> DEFINE w == file \o SubSeq(x, 1, k) \o torn
      <3>2. w \in Seq(Messages) /\ (w # <<>> /\ w[Len(w)].kind = "TEnd" => w = file)
        BY <1>2
      <3>3. new = w
        BY <3>1
      <3> HIDE DEF w
      <3> QED
        BY <3>2, <3>3
    <2>3. \A i \in 1 .. Len(x) : x[i].kind # "TEnd"
      OBVIOUS
    <2> QED
      BY <1>1, <2>2, <2>3

LEMMA SeesOn == enabled = "on" => Sees = {TRUE} /\ FALSE \notin Sees
  <1> SUFFICES ASSUME enabled = "on" PROVE Sees = {TRUE} /\ FALSE \notin Sees
    OBVIOUS
  <1>1. Sees = {TRUE}
    BY DEF Sees
  <1>2. FALSE \notin {TRUE}
    BY Zenon
  <1> QED
    BY <1>1, <1>2, Zenon

LEMMA WriteFacts ==
    ASSUME file \in Seq(Messages), enabled \in {"on", "off", "closed"},
           NEW x \in Seq(Messages), x # <<>>,
           \A i \in 1 .. Len(x) : x[i].kind # "TEnd", WriteAll(x)
    PROVE  /\ file' \in Seq(Messages) /\ enabled' \in {"on", "off", "closed"}
           /\ Sealed' => file' = file
           /\ enabled' = enabled \/ enabled' = "off"
           /\ enabled = "on" /\ enabled' = "on" => file' = file \o x
  <1>1. CASE FALSE \in Sees /\ UNCHANGED <<file, enabled>>
    <2>1. enabled # "on"
      BY <1>1, SeesOn
    <2> QED
      BY <1>1, <2>1 DEF Sealed
  <1>2. CASE TRUE \in Sees /\ file' = file \o x /\ UNCHANGED enabled
    BY <1>2, Written DEF Sealed
  <1>3. CASE file' \in Partly(x) /\ enabled' = "off"
    BY <1>3, Written DEF Sealed
  <1> QED
    BY <1>1, <1>2, <1>3 DEF WriteAll

LEMMA ThreadTypes ==
    ASSUME ProbesTypeOK, NEW t \in Threads
    PROVE  /\ thread[t] \in ThreadStates /\ t \in Nat
           /\ thread[t].tid \in AllTids /\ thread[t].buffer \in Seq(Messages)
           /\ thread[t].status \in {"new", "running", "ending", "gone"}
           /\ BufferOK(thread[t].buffer, thread[t].tid)
  BY DEF ProbesTypeOK, ThreadStates, Threads

(* The buffer with a message more                                          *)
LEMMA BufferedFacts ==
    ASSUME ProbesTypeOK, NEW t \in Threads, NEW m \in Messages,
           m.kind \in BufferKinds, m.tid = thread[t].tid, MessageOK(m)
    PROVE  /\ Buffered(t, m) \in Seq(Messages) /\ Buffered(t, m) # <<>>
           /\ BufferOK(Buffered(t, m), thread[t].tid)
           /\ \A i \in 1 .. Len(Buffered(t, m)) : Buffered(t, m)[i].kind # "TEnd"
  <1> DEFINE b == IF thread[t].buffering THEN thread[t].buffer
                                         ELSE <<OfThread(t, "TThreadStart", 1)>>
  <1>1. b \in Seq(Messages) /\ BufferOK(b, thread[t].tid)
    <2>1. CASE thread[t].buffering
      BY <2>1, ThreadTypes
    <2>2. CASE ~thread[t].buffering
      <3> DEFINE s == OfThread(t, "TThreadStart", 1)
      <3>1. /\ s \in Messages /\ s.kind = "TThreadStart" /\ s.tid = thread[t].tid
            /\ MessageOK(s)
        BY ThreadMessage
      <3> HIDE DEF s
      <3>2. <<s>> \in Seq(Messages) /\ Len(<<s>>) = 1 /\ <<s>>[1] = s
        BY <3>1
      <3>3. b = <<s>>
        BY <2>2 DEF s
      <3> HIDE DEF b
      <3> QED
        BY <3>1, <3>2, <3>3 DEF BufferOK, BufferKinds, Tracked
    <2> QED
      BY <2>1, <2>2
  <1>2. Buffered(t, m) = b \o <<m>>
    BY DEF Buffered
  <1> HIDE DEF b
  <1>3. /\ b \o <<m>> \in Seq(Messages) /\ Len(b \o <<m>>) = Len(b) + 1
        /\ \A i \in 1 .. Len(b) : (b \o <<m>>)[i] = b[i]
        /\ (b \o <<m>>)[Len(b) + 1] = m
    BY <1>1, Appended
  <1> DEFINE bm == b \o <<m>>
  <1>4. Len(b) \in Nat
    BY <1>1
  <1> HIDE DEF bm
  <1>5. BufferOK(bm, thread[t].tid)
    BY <1>1, <1>3, <1>4 DEF BufferOK, bm
  <1>6. \A i \in 1 .. Len(bm) : bm[i].kind # "TEnd"
    BY <1>5 DEF BufferOK, BufferKinds, Tracked
  <1>7. bm # <<>>
    BY <1>3, <1>4 DEF bm
  <1> QED
    BY <1>2, <1>3, <1>5, <1>6, <1>7 DEF bm

LEMMA LogAnyFacts ==
    ASSUME ProbesTypeOK, NEW t \in Threads, NEW m \in Messages,
           m.kind \in BufferKinds, m.tid = thread[t].tid, MessageOK(m),
           NEW st \in {"running", "ending"}, LogAny(t, m, st)
    PROVE  /\ file' \in Seq(Messages) /\ enabled' \in {"on", "off", "closed"}
           /\ thread' \in [Threads -> ThreadStates]
           /\ \A u \in Threads \ {t} : thread'[u] = thread[u]
           /\ thread'[t].status = st /\ thread'[t].tid = thread[t].tid
           /\ thread'[t].buffering
           /\ BufferOK(thread'[t].buffer, thread[t].tid)
           /\ Sealed' => file' = file
           /\ enabled' = enabled \/ enabled' = "off"
           /\ enabled = "on" /\ enabled' = "on" =>
                \/ file' = file /\ thread'[t].buffer = Buffered(t, m)
                \/ /\ file' = file \o Buffered(t, m)
                   /\ thread'[t].buffer = <<OfThread(t, "TIO", 1)>>
  <1> DEFINE x == Buffered(t, m)
             tio == OfThread(t, "TIO", 1)
             full == Len(x) > BufMax
             new == IF full THEN <<tio>> ELSE x
  <1>1. /\ x \in Seq(Messages) /\ x # <<>> /\ BufferOK(x, thread[t].tid)
        /\ \A i \in 1 .. Len(x) : x[i].kind # "TEnd"
    BY BufferedFacts
  <1>2. <<tio>> \in Seq(Messages) /\ BufferOK(<<tio>>, thread[t].tid)
    <2>1. /\ tio \in Messages /\ tio.kind = "TIO" /\ tio.tid = thread[t].tid
          /\ MessageOK(tio)
      BY ThreadMessage
    <2> HIDE DEF tio
    <2>2. <<tio>> \in Seq(Messages) /\ Len(<<tio>>) = 1 /\ <<tio>>[1] = tio
      BY <2>1
    <2> QED
      BY <2>1, <2>2 DEF BufferOK, BufferKinds, Tracked
  <1> HIDE DEF x, tio
  <1>3. /\ thread' = [thread EXCEPT ![t] =
              [@ EXCEPT !.status = st, !.buffering = TRUE, !.buffer = new]]
        /\ full => WriteAll(x)
        /\ ~full => UNCHANGED <<file, enabled>>
    BY DEF LogAny, x, tio
  <1>4. new \in Seq(Messages) /\ BufferOK(new, thread[t].tid)
    BY <1>1, <1>2
  <1>5. /\ thread' \in [Threads -> ThreadStates]
        /\ \A u \in Threads \ {t} : thread'[u] = thread[u]
        /\ thread'[t].status = st /\ thread'[t].tid = thread[t].tid
        /\ thread'[t].buffering /\ thread'[t].buffer = new
    <2> HIDE DEF new
    <2>1. thread \in [Threads -> ThreadStates]
      BY DEF ProbesTypeOK
    <2> QED
      BY <1>3, <1>4, <2>1 DEF ThreadStates
  <1>6. file \in Seq(Messages) /\ enabled \in {"on", "off", "closed"}
    BY DEF ProbesTypeOK
  <1>7. CASE full
    <2>1. new = <<tio>>
      BY <1>7
    <2>2. /\ file' \in Seq(Messages) /\ enabled' \in {"on", "off", "closed"}
          /\ Sealed' => file' = file
          /\ enabled' = enabled \/ enabled' = "off"
          /\ enabled = "on" /\ enabled' = "on" => file' = file \o x
      <3>1. WriteAll(x)
        BY <1>3, <1>7
      <3> QED
        BY <1>1, <1>6, <3>1, WriteFacts
    <2> HIDE DEF new
    <2> QED
      BY <1>4, <1>5, <2>1, <2>2 DEF x, tio
  <1>8. CASE ~full
    <2>1. new = x
      BY <1>8
    <2>2. file' = file /\ enabled' = enabled
      BY <1>3, <1>8
    <2> HIDE DEF new
    <2> QED
      BY <1>4, <1>5, <1>6, <2>1, <2>2 DEF x
  <1> QED
    BY <1>7, <1>8

(* A message of a probe                                                    *)
LEMMA ProbeMessage ==
    ASSUME ProbesTypeOK, NEW t \in Threads, NEW kind \in {"TS", "TE", "KeyValue"},
           NEW pn \in Scopes \cup {"key"}, NEW n \in Nat, NEW scope \in Nat,
           NEW places \in Seq(Places),
           kind = "TS" => scope # 0 /\ n # 0, kind = "KeyValue" => scope = 0
    PROVE  LET m == Message(kind, pn, thread[t].tid, n, Origin(t, scope, places))
           IN  /\ m \in Messages /\ m.kind = kind /\ m.kind \in BufferKinds
               /\ m.tid = thread[t].tid /\ m.pn = pn /\ MessageOK(m)
               /\ m.origin.thread = t /\ m.origin.scope = scope
               /\ m.origin.trail = places
  <1>1. thread[t].tid \in AllTids /\ t \in Nat
    BY ThreadTypes
  <1> QED
    BY <1>1 DEF Message, Origin, Messages, Kinds, BufferKinds, Tracked, MessageOK

(***************************************************************************)
(* Steps of one thread                                                     *)
(***************************************************************************)
StepOf(t) ==
    /\ phase \notin {"init", "gone"} /\ Living(t)
    /\ thread'[t].tid = thread[t].tid /\ thread'[t].status # "new"
    /\ \A u \in Threads \ {t} : /\ thread'[u] = thread[u] /\ stack'[u] = stack[u]
                                /\ trail'[u] = trail[u] /\ made'[u] = made[u]
    /\ ProbesTypeOK'
    /\ enabled' = enabled \/ enabled' = "off"
    /\ Sealed' => file' = file

LEMMA RunningFacts ==
    ASSUME ProbesTypeOK, NEW t \in Threads, Running(t)
    PROVE  /\ phase \notin {"init", "gone"} /\ Living(t)
           /\ thread[t].status = "running" /\ exit.by # t
  BY DEF Running, Living

(* What remains to be shown of a step in which a thread logs or does not   *)
LEMMA LoggingSteps ==
    ASSUME ProbesTypeOK, NEW t \in Threads,
           phase \notin {"init", "gone"}, Living(t), exit' = exit, phase' = phase,
           \A u \in Threads \ {t} : /\ thread'[u] = thread[u] /\ stack'[u] = stack[u]
                                    /\ trail'[u] = trail[u] /\ made'[u] = made[u],
           stack' \in [Threads -> Seq(ScopeObjects)],
           trail' \in [Threads -> Seq(Places)], made' \in [Threads -> Nat],
           \/ UNCHANGED <<thread, file, enabled>>
           \/ \E m \in Messages, st \in {"running", "ending"} :
                 /\ m.kind \in BufferKinds /\ m.tid = thread[t].tid /\ MessageOK(m)
                 /\ LogAny(t, m, st)
    PROVE  StepOf(t)
  <1>1. CASE UNCHANGED <<thread, file, enabled>>
    <2>1. ProbesTypeOK'
      <3>1. \A u \in Threads : /\ thread'[u].status = "new" => thread'[u].buffer = <<>>
                               /\ BufferOK(thread'[u].buffer, thread'[u].tid)
        BY <1>1 DEF ProbesTypeOK
      <3>2. /\ phase' \in {"init", "running", "exiting", "ended", "gone"}
            /\ enabled' \in {"on", "off", "closed"}
            /\ file' \in Seq(Messages) /\ thread' \in [Threads -> ThreadStates]
            /\ exit' \in [by : Threads \cup {0}, clean : BOOLEAN]
        BY <1>1 DEF ProbesTypeOK
      <3> QED
        BY <3>1, <3>2 DEF ProbesTypeOK
    <2>2. thread'[t].tid = thread[t].tid /\ thread'[t].status # "new"
      BY <1>1 DEF Living
    <2> QED
      BY <1>1, <2>1, <2>2 DEF StepOf
  <1>2. CASE \E m \in Messages, st \in {"running", "ending"} :
                 /\ m.kind \in BufferKinds /\ m.tid = thread[t].tid /\ MessageOK(m)
                 /\ LogAny(t, m, st)
    <2>1. PICK m \in Messages, st \in {"running", "ending"} :
                 /\ m.kind \in BufferKinds /\ m.tid = thread[t].tid /\ MessageOK(m)
                 /\ LogAny(t, m, st)
      BY <1>2
    <2>2. /\ file' \in Seq(Messages) /\ enabled' \in {"on", "off", "closed"}
          /\ thread' \in [Threads -> ThreadStates]
          /\ thread'[t].status = st /\ thread'[t].tid = thread[t].tid
          /\ BufferOK(thread'[t].buffer, thread[t].tid)
          /\ Sealed' => file' = file
          /\ enabled' = enabled \/ enabled' = "off"
      BY <2>1, LogAnyFacts
    <2>3. \A u \in Threads : /\ thread'[u].status = "new" => thread'[u].buffer = <<>>
                             /\ BufferOK(thread'[u].buffer, thread'[u].tid)
      BY <2>2 DEF ProbesTypeOK
    <2>4. ProbesTypeOK'
      BY <2>2, <2>3 DEF ProbesTypeOK
    <2> QED
      BY <2>2, <2>4 DEF StepOf
  <1> QED
    BY <1>1, <1>2

StartMessage(t, pn, n, scope) ==
    Message("TS", pn, thread[t].tid, n, Origin(t, scope, trail[t]))

LEMMA EnterScopeFacts ==
    ASSUME ProbesTypeOK, NEW t \in Threads, NEW pn \in Scopes, EnterScope(t, pn)
    PROVE  /\ Running(t) /\ UNCHANGED <<phase, exit>>
           /\ \E logged \in BOOLEAN, scope \in Nat, n \in Nat \ {0} :
                /\ stack' = [stack EXCEPT ![t] =
                        Append(@, [pn |-> pn, logged |-> logged, scope |-> scope])]
                /\ logged => /\ scope = made[t] + 1
                             /\ LogAny(t, StartMessage(t, pn, n, scope), "running")
                             /\ made' = [made EXCEPT ![t] = scope]
                             /\ trail' = [trail EXCEPT ![t] = Append(@, Place(pn, scope))]
                /\ ~logged => UNCHANGED <<thread, file, enabled, made, trail>>
                /\ ~logged /\ enabled = "on" => pn = EveryProbe
  <1>1. PICK isEnabled \in Sees : BeginScope(t, pn, isEnabled)
    BY DEF EnterScope
  <1> DEFINE counts == pn = EveryProbe /\ isEnabled
             logged == isEnabled /\ (counts => skip[t] = 0)
             scope == IF logged THEN made[t] + 1 ELSE 0
             n == IF pn = EveryProbe THEN EveryN ELSE 1
  <1>2. /\ stack' = [stack EXCEPT ![t] =
                        Append(@, [pn |-> pn, logged |-> logged, scope |-> scope])]
        /\ logged => /\ LogAny(t, StartMessage(t, pn, n, scope), "running")
                     /\ made' = [made EXCEPT ![t] = scope]
                     /\ trail' = [trail EXCEPT ![t] = Append(@, Place(pn, scope))]
        /\ ~logged => UNCHANGED <<thread, file, enabled, made, trail>>
    BY <1>1, Zenon DEF BeginScope, StartMessage
  <1>3. /\ Sees \subseteq BOOLEAN
        /\ enabled = "on" => Sees = {TRUE}
    <2>1. enabled \in {"on", "off", "closed"}
      BY DEF ProbesTypeOK
    <2> QED
      BY <2>1 DEF Sees
  <1>4. n \in Nat \ {0}
    BY ProbesAssumption
  <1>5. made[t] \in Nat
    BY DEF ProbesTypeOK
  <1> HIDE DEF n
  <1>6. /\ logged \in BOOLEAN /\ scope \in Nat
        /\ logged => scope = made[t] + 1
    BY <1>3, <1>5
  <1>7. ~logged /\ enabled = "on" => pn = EveryProbe
    <2>1. enabled = "on" => isEnabled = TRUE
      BY <1>3
    <2>2. ASSUME isEnabled, ~logged PROVE pn = EveryProbe
      BY <2>2, Zenon
    <2> QED
      BY <2>1, <2>2
  <1> HIDE DEF counts, logged, scope
  <1>8. Running(t) /\ UNCHANGED <<phase, exit>>
    BY DEF EnterScope
  <1> QED
    BY <1>2, <1>4, <1>6, <1>7, <1>8

LEMMA EnterScopeIsStep ==
    ASSUME ProbesTypeOK, NEW t \in Threads, NEW pn \in Scopes, EnterScope(t, pn)
    PROVE  StepOf(t) /\ UNCHANGED <<phase, exit>>
  <1>1. phase \notin {"init", "gone"} /\ Living(t) /\ UNCHANGED <<phase, exit>>
    BY EnterScopeFacts, RunningFacts
  <1>2. PICK logged \in BOOLEAN, scope \in Nat, n \in Nat \ {0} :
                /\ stack' = [stack EXCEPT ![t] =
                        Append(@, [pn |-> pn, logged |-> logged, scope |-> scope])]
                /\ logged => /\ scope = made[t] + 1
                             /\ LogAny(t, StartMessage(t, pn, n, scope), "running")
                             /\ made' = [made EXCEPT ![t] = scope]
                             /\ trail' = [trail EXCEPT ![t] = Append(@, Place(pn, scope))]
                /\ ~logged => UNCHANGED <<thread, file, enabled, made, trail>>
    BY EnterScopeFacts
  <1> DEFINE m == StartMessage(t, pn, n, scope)
  <1>5. stack' \in [Threads -> Seq(ScopeObjects)]
    <2>1. stack \in [Threads -> Seq(ScopeObjects)]
      BY DEF ProbesTypeOK
    <2>2. [pn |-> pn, logged |-> logged, scope |-> scope] \in ScopeObjects
      BY DEF ScopeObjects
    <2>3. Append(stack[t], [pn |-> pn, logged |-> logged, scope |-> scope])
          \in Seq(ScopeObjects)
      BY <2>1, <2>2
    <2> QED
      BY <1>2, <2>1, <2>3
  <1>6. trail' \in [Threads -> Seq(Places)] /\ made' \in [Threads -> Nat]
    <2>1. trail \in [Threads -> Seq(Places)] /\ made \in [Threads -> Nat]
      BY DEF ProbesTypeOK
    <2>2. Place(pn, scope) \in Places
      BY DEF Place, Places
    <2>3. Append(trail[t], Place(pn, scope)) \in Seq(Places)
      BY <2>1, <2>2
    <2> QED
      BY <1>2, <2>1, <2>3
  <1>7. \A u \in Threads \ {t} : /\ thread'[u] = thread[u] /\ stack'[u] = stack[u]
                                 /\ trail'[u] = trail[u] /\ made'[u] = made[u]
    <2>1. \A u \in Threads \ {t} : stack'[u] = stack[u]
      BY <1>2 DEF ProbesTypeOK
    <2>2. \A u \in Threads \ {t} : trail'[u] = trail[u] /\ made'[u] = made[u]
      BY <1>2 DEF ProbesTypeOK
    <2>3. \A u \in Threads \ {t} : thread'[u] = thread[u]
      BY <1>2 DEF ProbesTypeOK, LogAny
    <2> QED
      BY <2>1, <2>2, <2>3
  <1>8. logged => m \in Messages /\ m.kind \in BufferKinds /\ m.tid = thread[t].tid
                  /\ MessageOK(m)
    <2> SUFFICES ASSUME logged
                 PROVE  m \in Messages /\ m.kind \in BufferKinds
                        /\ m.tid = thread[t].tid /\ MessageOK(m)
      OBVIOUS
    <2>1. trail[t] \in Seq(Places) /\ made[t] \in Nat
      BY DEF ProbesTypeOK
    <2>2. scope # 0 /\ n \in Nat /\ n # 0
      BY <1>2, <2>1
    <2>3. pn \in Scopes \cup {"key"} /\ "TS" \in {"TS", "TE", "KeyValue"} /\ "TS" # "KeyValue"
      OBVIOUS
    <2> DEFINE w == Message("TS", pn, thread[t].tid, n, Origin(t, scope, trail[t]))
    <2>4. w \in Messages /\ w.kind \in BufferKinds /\ w.tid = thread[t].tid /\ MessageOK(w)
      BY <2>1, <2>2, <2>3, ProbeMessage
    <2> QED
      BY <2>4 DEF StartMessage
  <1> HIDE DEF m
  <1>9. \/ UNCHANGED <<thread, file, enabled>>
        \/ \E x \in Messages, st \in {"running", "ending"} :
              /\ x.kind \in BufferKinds /\ x.tid = thread[t].tid /\ MessageOK(x)
              /\ LogAny(t, x, st)
    BY <1>2, <1>8 DEF m
  <1> QED
    BY <1>1, <1>5, <1>6, <1>7, <1>9, LoggingSteps

(* The scopes of a thread, where it leaves one that it has logged          *)
LEMMA LeavingFacts ==
    ASSUME ProbesTypeOK, NEW t \in Threads, ScopesOK(t), stack[t] # <<>>
    PROVE  LET s == stack[t]
               tr == trail[t]
               top == s[Len(s)]
               inside == {k \in 1 .. Len(tr) : tr[k].scope = top.scope}
           IN  /\ Len(s) \in 1 .. Len(s)
               /\ top.pn \in Scopes /\ top.scope \in Nat /\ top.logged \in BOOLEAN
               /\ top.logged => \E k \in 1 .. Len(tr) :
                    /\ inside = {k} /\ tr[k] = Place(top.pn, top.scope)
                    /\ tr[k].scope # 0 /\ top.scope # 0
                    /\ \A l \in k + 1 .. Len(tr) : tr[l].scope = 0
  <1> DEFINE s == stack[t]
             tr == trail[t]
             n == Len(s)
             top == s[n]
  <1>1. /\ s \in Seq(ScopeObjects) /\ n \in 1 .. n
        /\ tr \in Seq(Places) /\ made[t] \in Nat
    <2>1. s \in Seq(ScopeObjects) /\ tr \in Seq(Places) /\ made[t] \in Nat
      BY DEF ProbesTypeOK
    <2> QED
      BY <2>1
  <1>2. top \in ScopeObjects
    BY <1>1
  <1>3. ASSUME top.logged
        PROVE  \E k \in 1 .. Len(tr) :
                  /\ {l \in 1 .. Len(tr) : tr[l].scope = top.scope} = {k}
                  /\ tr[k] = Place(top.pn, top.scope)
                  /\ tr[k].scope # 0 /\ top.scope # 0
                  /\ \A l \in k + 1 .. Len(tr) : tr[l].scope = 0
    <2>1. /\ top.scope \in 1 .. made[t]
          /\ \E k \in 1 .. Len(tr) : tr[k] = Place(top.pn, top.scope)
      BY <1>1, <1>3 DEF ScopesOK
    <2>2. PICK k \in 1 .. Len(tr) : tr[k] = Place(top.pn, top.scope)
      BY <2>1
    <2>3. tr[k].scope = top.scope /\ top.scope # 0
      BY <1>1, <2>1, <2>2 DEF Place
    <2>4. \A l \in 1 .. Len(tr) : tr[l].scope \in Nat
      <3>1. \A l \in 1 .. Len(tr) : tr[l] \in Places
        BY <1>1
      <3> QED
        BY <3>1 DEF Places
    <2>5. ASSUME NEW l \in 1 .. Len(tr), tr[l].scope = top.scope PROVE l = k
      <3>1. l < k => tr[l].scope < tr[k].scope
        BY <2>3, <2>5 DEF ScopesOK
      <3>2. k < l => tr[k].scope < tr[l].scope
        BY <2>3, <2>5 DEF ScopesOK
      <3> QED
        BY <1>1, <2>3, <2>4, <2>5, <3>1, <3>2
    <2>6. ASSUME NEW l \in k + 1 .. Len(tr), tr[l].scope # 0 PROVE FALSE
      <3>1. l \in 1 .. Len(tr) /\ k < l
        BY <1>1
      <3>2. tr[k].scope < tr[l].scope
        BY <2>3, <2>6, <3>1 DEF ScopesOK
      <3>3. PICK a \in 1 .. n : s[a].logged /\ s[a].scope = tr[l].scope
        BY <2>6, <3>1 DEF ScopesOK
      <3>4. a < n => s[a].scope < top.scope
        BY <1>1, <1>3, <3>3 DEF ScopesOK
      <3>5. a \in Nat /\ a <= n /\ n \in Nat
        BY <1>1
      <3> QED
        BY <2>3, <2>4, <3>1, <3>2, <3>3, <3>4, <3>5
    <2>7. {l \in 1 .. Len(tr) : tr[l].scope = top.scope} = {k}
      BY <2>3, <2>5
    <2> QED
      BY <2>2, <2>3, <2>6, <2>7
  <1> QED
    BY <1>1, <1>2, <1>3 DEF ScopeObjects

(* A thread leaves its innermost scope: what it is in then                 *)
Innermost(t) == stack[t][Len(stack[t])]
Outside(t, k) == SubSeq(trail[t], 1, k - 1)
EndMessage(t, places) ==
    Message("TE", Innermost(t).pn, thread[t].tid, 0, Origin(t, Innermost(t).scope, places))
Left(t, places) ==
    \/ ~Innermost(t).logged /\ places = trail[t]
    \/ /\ Innermost(t).logged /\ Innermost(t).scope # 0
       /\ \E k \in 1 .. Len(trail[t]) :
             /\ trail[t][k] = Place(Innermost(t).pn, Innermost(t).scope)
             /\ \A l \in k + 1 .. Len(trail[t]) : trail[t][l].scope = 0
             /\ places = Outside(t, k)

LEMMA LeaveScopeFacts ==
    ASSUME ProbesTypeOK, NEW t \in Threads, ScopesOK(t), LeaveScope(t)
    PROVE  /\ Running(t) /\ stack[t] # <<>>
           /\ stack' = [stack EXCEPT ![t] = SubSeq(@, 1, Len(@) - 1)]
           /\ UNCHANGED <<phase, exit, made>>
           /\ \E places \in Seq(Places) :
                /\ Left(t, places) /\ trail' = [trail EXCEPT ![t] = places]
                /\ \/ /\ FALSE \in Sees \/ ~LogsEnd(Innermost(t))
                      /\ UNCHANGED <<thread, file, enabled>>
                   \/ /\ LogsEnd(Innermost(t))
                      /\ LogAny(t, EndMessage(t, places), "running")
  <1> DEFINE top == stack[t][Len(stack[t])]
             inside == {k \in 1 .. Len(trail[t]) : trail[t][k].scope = top.scope}
             outside == IF top.logged
                        THEN LET k == CHOOSE k \in inside : TRUE
                             IN  SubSeq(trail[t], 1, k - 1)
                        ELSE trail[t]
  <1>1. /\ Running(t) /\ stack[t] # <<>>
        /\ stack' = [stack EXCEPT ![t] = SubSeq(@, 1, Len(@) - 1)]
        /\ trail' = [trail EXCEPT ![t] = outside]
        /\ \E isEnabled \in Sees :
              IF isEnabled /\ LogsEnd(top)
              THEN LogAny(t, Message("TE", top.pn, thread[t].tid, 0,
                                     Origin(t, top.scope, outside)), "running")
              ELSE UNCHANGED <<thread, file, enabled>>
        /\ UNCHANGED <<phase, skip, exit, made, calls, left>>
    BY Zenon DEF LeaveScope
  <1>2. trail[t] \in Seq(Places)
    BY DEF ProbesTypeOK
  <1>3. outside \in Seq(Places) /\ Left(t, outside)
    <2>1. CASE top.logged
      <3>1. PICK k \in 1 .. Len(trail[t]) :
                /\ inside = {k} /\ trail[t][k] = Place(top.pn, top.scope)
                /\ top.scope # 0
                /\ \A l \in k + 1 .. Len(trail[t]) : trail[t][l].scope = 0
        BY <1>1, <2>1, LeavingFacts
      <3>2. (CHOOSE l \in inside : TRUE) = k
        <4> HIDE DEF inside
        <4> QED
          BY <3>1
      <3>3. outside = SubSeq(trail[t], 1, k - 1)
        BY <2>1, <3>2
      <3>4. SubSeq(trail[t], 1, k - 1) \in Seq(Places)
        BY <1>2
      <3> HIDE DEF outside, inside
      <3> QED
        BY <2>1, <3>1, <3>3, <3>4 DEF Left, Outside, Innermost
    <2>2. CASE ~top.logged
      BY <1>2, <2>2 DEF Left, Innermost
    <2> QED
      BY <2>1, <2>2
  <1> HIDE DEF outside
  <1>4. PICK isEnabled \in Sees :
              IF isEnabled /\ LogsEnd(top)
              THEN LogAny(t, Message("TE", top.pn, thread[t].tid, 0,
                                     Origin(t, top.scope, outside)), "running")
              ELSE UNCHANGED <<thread, file, enabled>>
    BY <1>1
  <1>5. \/ /\ FALSE \in Sees \/ ~LogsEnd(Innermost(t))
           /\ UNCHANGED <<thread, file, enabled>>
        \/ /\ LogsEnd(Innermost(t))
           /\ LogAny(t, EndMessage(t, outside), "running")
    <2>1. enabled \in {"on", "off", "closed"}
      BY DEF ProbesTypeOK
    <2>2. Sees \subseteq BOOLEAN
      BY <2>1 DEF Sees
    <2>3. isEnabled = TRUE \/ isEnabled = FALSE
      BY <2>2
    <2>4. CASE isEnabled = FALSE
      BY <1>4, <2>4, Zenon
    <2>5. CASE isEnabled = TRUE
      BY <1>4, <2>5, Zenon DEF Innermost, EndMessage
    <2> QED
      BY <2>3, <2>4, <2>5
  <1> QED
    BY <1>1, <1>3, <1>5

LEMMA LeaveScopeIsStep ==
    ASSUME ProbesTypeOK, NEW t \in Threads, ScopesOK(t), LeaveScope(t)
    PROVE  StepOf(t) /\ UNCHANGED <<phase, exit>>
  <1>1. /\ Running(t) /\ stack[t] # <<>> /\ UNCHANGED <<phase, exit, made>>
        /\ stack' = [stack EXCEPT ![t] = SubSeq(@, 1, Len(@) - 1)]
    BY LeaveScopeFacts
  <1>2. PICK places \in Seq(Places) :
            /\ trail' = [trail EXCEPT ![t] = places]
            /\ \/ UNCHANGED <<thread, file, enabled>>
               \/ LogAny(t, EndMessage(t, places), "running")
    BY LeaveScopeFacts
  <1>3. /\ stack \in [Threads -> Seq(ScopeObjects)] /\ trail \in [Threads -> Seq(Places)]
        /\ made \in [Threads -> Nat] /\ thread \in [Threads -> ThreadStates]
    BY DEF ProbesTypeOK
  <1>4. SubSeq(stack[t], 1, Len(stack[t]) - 1) \in Seq(ScopeObjects)
    BY <1>3
  <1>5. /\ stack' \in [Threads -> Seq(ScopeObjects)]
        /\ trail' \in [Threads -> Seq(Places)] /\ made' \in [Threads -> Nat]
    BY <1>1, <1>2, <1>3, <1>4
  <1>6. /\ EndMessage(t, places) \in Messages
        /\ EndMessage(t, places).kind \in BufferKinds
        /\ EndMessage(t, places).tid = thread[t].tid /\ MessageOK(EndMessage(t, places))
    <2>1. Innermost(t).pn \in Scopes /\ Innermost(t).scope \in Nat
      BY <1>1, LeavingFacts DEF Innermost
    <2> QED
      BY <2>1, ProbeMessage DEF EndMessage
  <1>7. \A u \in Threads \ {t} : /\ thread'[u] = thread[u] /\ stack'[u] = stack[u]
                                 /\ trail'[u] = trail[u] /\ made'[u] = made[u]
    <2>1. \A u \in Threads \ {t} : stack'[u] = stack[u] /\ trail'[u] = trail[u]
      BY <1>1, <1>2, <1>3
    <2>2. \A u \in Threads \ {t} : thread'[u] = thread[u]
      BY <1>2, <1>3 DEF LogAny
    <2> QED
      BY <1>1, <2>1, <2>2
  <1> QED
    BY <1>1, <1>2, <1>5, <1>6, <1>7, RunningFacts, LoggingSteps

LEMMA LogKeyValueFacts ==
    ASSUME ProbesTypeOK, NEW t \in Threads, LogKeyValue(t)
    PROVE  LET m == Message("KeyValue", "key", thread[t].tid, 0, Origin(t, 0, trail[t]))
           IN  /\ Running(t) /\ UNCHANGED <<phase, exit, enabled, file, stack, made>>
               /\ \/ FALSE \in Sees /\ UNCHANGED <<thread, trail>>
                  \/ /\ thread' = [thread EXCEPT ![t].buffering = TRUE,
                                                 ![t].buffer = Buffered(t, m)]
                     /\ trail' = [trail EXCEPT ![t] = Append(@, Place("key", 0))]
  <1>1. PICK isEnabled \in Sees :
          IF isEnabled
          THEN /\ thread' = [thread EXCEPT ![t].buffering = TRUE,
                     ![t].buffer = Buffered(t, Message("KeyValue", "key",
                                        thread[t].tid, 0,
                                        Origin(t, 0, trail[t])))]
               /\ trail' = [trail EXCEPT ![t] = Append(@, Place("key", 0))]
          ELSE UNCHANGED <<thread, trail>>
    BY DEF LogKeyValue
  <1>2. isEnabled = TRUE \/ isEnabled = FALSE
    <2>1. enabled \in {"on", "off", "closed"}
      BY DEF ProbesTypeOK
    <2> QED
      BY <2>1 DEF Sees
  <1>3. Running(t) /\ UNCHANGED <<phase, exit, enabled, file, stack, made>>
    BY DEF LogKeyValue
  <1>4. CASE isEnabled = TRUE
    BY <1>1, <1>3, <1>4, Zenon
  <1>5. CASE isEnabled = FALSE
    BY <1>1, <1>3, <1>5, Zenon
  <1> QED
    BY <1>2, <1>4, <1>5

LEMMA LogKeyValueIsStep ==
    ASSUME ProbesTypeOK, NEW t \in Threads, LogKeyValue(t)
    PROVE  StepOf(t) /\ UNCHANGED <<phase, exit>>
  <1> DEFINE m == Message("KeyValue", "key", thread[t].tid, 0, Origin(t, 0, trail[t]))
  <1>1. /\ Running(t) /\ UNCHANGED <<phase, exit, enabled, file, stack, made>>
        /\ \/ UNCHANGED <<thread, trail>>
           \/ /\ thread' = [thread EXCEPT ![t].buffering = TRUE,
                                          ![t].buffer = Buffered(t, m)]
              /\ trail' = [trail EXCEPT ![t] = Append(@, Place("key", 0))]
    BY LogKeyValueFacts
  <1>2. m \in Messages /\ m.kind \in BufferKinds /\ m.tid = thread[t].tid /\ MessageOK(m)
    <2>1. trail[t] \in Seq(Places)
      BY DEF ProbesTypeOK
    <2>2. "key" \in Scopes \cup {"key"} /\ 0 \in Nat /\ "KeyValue" # "TS"
      OBVIOUS
    <2>3. "KeyValue" \in {"TS", "TE", "KeyValue"}
      OBVIOUS
    <2> QED
      BY <2>1, <2>2, <2>3, ProbeMessage
  <1> HIDE DEF m
  <1>3. Buffered(t, m) \in Seq(Messages) /\ BufferOK(Buffered(t, m), thread[t].tid)
    BY <1>2, BufferedFacts
  <1>4. /\ phase \notin {"init", "gone"} /\ Living(t) /\ thread[t].status = "running"
    BY <1>1, RunningFacts
  <1>5. CASE UNCHANGED <<thread, trail>>
    BY <1>1, <1>4, <1>5 DEF StepOf, ProbesTypeOK, Sealed, BufferOK
  <1>6. CASE /\ thread' = [thread EXCEPT ![t].buffering = TRUE,
                                         ![t].buffer = Buffered(t, m)]
             /\ trail' = [trail EXCEPT ![t] = Append(@, Place("key", 0))]
    <2>1. thread \in [Threads -> ThreadStates] /\ trail \in [Threads -> Seq(Places)]
      BY DEF ProbesTypeOK
    <2>2. /\ thread' \in [Threads -> ThreadStates]
          /\ \A u \in Threads \ {t} : thread'[u] = thread[u]
          /\ thread'[t].status = "running" /\ thread'[t].tid = thread[t].tid
          /\ thread'[t].buffer = Buffered(t, m)
      BY <1>3, <1>4, <1>6, <2>1 DEF ThreadStates
    <2>3. trail' \in [Threads -> Seq(Places)] /\ \A u \in Threads \ {t} : trail'[u] = trail[u]
      <3>1. Append(trail[t], Place("key", 0)) \in Seq(Places)
        <4>1. Place("key", 0) \in Places
          BY DEF Place, Places
        <4> QED
          BY <2>1, <4>1
      <3> QED
        BY <1>6, <2>1, <3>1
    <2>4. \A u \in Threads : /\ thread'[u].status = "new" => thread'[u].buffer = <<>>
                             /\ BufferOK(thread'[u].buffer, thread'[u].tid)
      BY <1>3, <2>2 DEF ProbesTypeOK
    <2>5. ProbesTypeOK'
      BY <1>1, <2>2, <2>3, <2>4 DEF ProbesTypeOK
    <2> QED
      BY <1>1, <1>4, <2>2, <2>3, <2>5 DEF StepOf
  <1> QED
    BY <1>1, <1>5, <1>6

LEMMA LogPointIsStep ==
    ASSUME ProbesTypeOK, NEW t \in Threads, LogPoint(t)
    PROVE  StepOf(t) /\ UNCHANGED <<phase, exit>>
  <1> DEFINE m == OfThread(t, "T", 1)
  <1>1. /\ Running(t) /\ UNCHANGED <<phase, stack, exit, trail, made>>
        /\ \/ UNCHANGED <<thread, file, enabled>>
           \/ LogAny(t, m, "running")
    BY DEF LogPoint
  <1>2. m \in Messages /\ m.kind \in BufferKinds /\ m.tid = thread[t].tid /\ MessageOK(m)
    BY ThreadMessage DEF BufferKinds
  <1> HIDE DEF m
  <1>3. \A u \in Threads \ {t} : thread'[u] = thread[u]
    BY <1>1 DEF LogAny, ProbesTypeOK
  <1>4. /\ stack \in [Threads -> Seq(ScopeObjects)] /\ trail \in [Threads -> Seq(Places)]
        /\ made \in [Threads -> Nat]
    BY DEF ProbesTypeOK
  <1> QED
    BY <1>1, <1>2, <1>3, <1>4, RunningFacts, LoggingSteps

(* The thread goes without a trace                                         *)
Goes(t) ==
    /\ ~thread[t].buffering \/ FALSE \in Sees
    /\ thread' = [thread EXCEPT ![t].status = "gone"]
    /\ UNCHANGED <<file, enabled>>

LEMMA EndBufferIsStep ==
    ASSUME ProbesTypeOK, NEW t \in Threads, Running(t), EndBuffer(t),
           UNCHANGED <<stack, trail, made>>,
           exit' \in [by : Threads \cup {0}, clean : BOOLEAN],
           phase' \in {"init", "running", "exiting", "ended", "gone"}
    PROVE  /\ StepOf(t) /\ thread'[t].status \in {"ending", "gone"}
           /\ \/ Goes(t)
              \/ /\ thread[t].buffering /\ LogAny(t, OfThread(t, "TThreadEnd", 0), "ending")
                 /\ thread'[t].status = "ending"
  <1> DEFINE m == OfThread(t, "TThreadEnd", 0)
  <1>1. phase \notin {"init", "gone"} /\ Living(t)
    BY RunningFacts
  <1>2. CASE thread[t].buffering /\ LogAny(t, m, "ending")
    <2>1. m \in Messages /\ m.kind \in BufferKinds /\ m.tid = thread[t].tid /\ MessageOK(m)
      BY ThreadMessage DEF BufferKinds, Tracked
    <2> HIDE DEF m
    <2>2. /\ file' \in Seq(Messages) /\ enabled' \in {"on", "off", "closed"}
          /\ thread' \in [Threads -> ThreadStates]
          /\ \A u \in Threads \ {t} : thread'[u] = thread[u]
          /\ thread'[t].status = "ending" /\ thread'[t].tid = thread[t].tid
          /\ BufferOK(thread'[t].buffer, thread[t].tid)
          /\ Sealed' => file' = file
          /\ enabled' = enabled \/ enabled' = "off"
      BY <1>2, <2>1, LogAnyFacts
    <2>3. \A u \in Threads : /\ thread'[u].status = "new" => thread'[u].buffer = <<>>
                             /\ BufferOK(thread'[u].buffer, thread'[u].tid)
      BY <2>2 DEF ProbesTypeOK
    <2>4. ProbesTypeOK'
      BY <2>2, <2>3 DEF ProbesTypeOK
    <2> QED
      BY <1>1, <1>2, <2>2, <2>4 DEF StepOf, m
  <1>3. CASE Goes(t)
    <2>1. thread \in [Threads -> ThreadStates]
      BY DEF ProbesTypeOK
    <2>2. /\ thread' \in [Threads -> ThreadStates]
          /\ \A u \in Threads \ {t} : thread'[u] = thread[u]
          /\ thread'[t].status = "gone" /\ thread'[t].tid = thread[t].tid
          /\ thread'[t].buffer = thread[t].buffer
      BY <1>3, <2>1 DEF Goes, ThreadStates
    <2>3. file' = file /\ enabled' = enabled
      BY <1>3 DEF Goes
    <2>4. \A u \in Threads : /\ thread'[u].status = "new" => thread'[u].buffer = <<>>
                             /\ BufferOK(thread'[u].buffer, thread'[u].tid)
      BY <2>2 DEF ProbesTypeOK
    <2>5. ProbesTypeOK'
      BY <2>2, <2>3, <2>4 DEF ProbesTypeOK
    <2> QED
      BY <1>1, <1>3, <2>2, <2>3, <2>5 DEF StepOf
  <1> QED
    BY <1>2, <1>3 DEF EndBuffer, Goes

LEMMA EndThreadIsStep ==
    ASSUME ProbesTypeOK, NEW t \in Threads, EndThread(t)
    PROVE  StepOf(t) /\ UNCHANGED <<phase, exit>>
  <1>1. /\ Running(t) /\ EndBuffer(t) /\ UNCHANGED <<phase, exit, stack, trail, made>>
    BY DEF EndThread, auxVars
  <1>2. /\ exit' \in [by : Threads \cup {0}, clean : BOOLEAN]
        /\ phase' \in {"init", "running", "exiting", "ended", "gone"}
    BY <1>1 DEF ProbesTypeOK
  <1> QED
    BY <1>1, <1>2, EndBufferIsStep

LEMMA EndProcessIsStep ==
    ASSUME ProbesTypeOK, NEW t \in Threads, EndProcess(t)
    PROVE  /\ StepOf(t) /\ phase = "running" /\ phase' = "exiting"
           /\ Running(t) /\ EndBuffer(t) /\ UNCHANGED <<stack, trail, made>>
           /\ thread'[t].status \in {"ending", "gone"}
           /\ exit'.by = t /\ exit'.clean \in BOOLEAN
           /\ exit'.clean => /\ t = Main /\ stack[t] = <<>>
                             /\ \A u \in Threads \ {t} : thread[u].status \in {"new", "gone"}
  <1> DEFINE clean == /\ t = Main /\ stack[t] = <<>>
                      /\ \A u \in Threads \ {t} : thread[u].status \in {"new", "gone"}
  <1>1. /\ phase = "running" /\ phase' = "exiting"
        /\ Running(t) /\ EndBuffer(t) /\ UNCHANGED <<stack, trail, made>>
        /\ exit' = [by |-> t, clean |-> clean]
    BY DEF EndProcess, auxVars
  <1>2. clean \in BOOLEAN
    BY Zenon
  <1> HIDE DEF clean
  <1>3. /\ exit'.by = t /\ exit'.clean = clean
        /\ exit' \in [by : Threads \cup {0}, clean : BOOLEAN]
    BY <1>1, <1>2
  <1>4. StepOf(t) /\ thread'[t].status \in {"ending", "gone"}
    BY <1>1, <1>3, EndBufferIsStep
  <1> QED
    BY <1>1, <1>2, <1>3, <1>4 DEF clean

LEMMA WriteNothing ==
    ASSUME file \in Seq(Messages), enabled \in {"on", "off", "closed"}, WriteAll(<<>>)
    PROVE  file' = file /\ enabled' = enabled
  <1>1. file \o <<>> = file
    BY ConcatEmptySeq
  <1>2. Partly(<<>>) = {}
    <2>1. 0 .. Len(<<>>) - 1 = {}
      OBVIOUS
    <2> QED
      BY <2>1 DEF Partly
  <1> QED
    BY <1>1, <1>2 DEF WriteAll

LEMMA FlushLastIsStep ==
    ASSUME ProbesTypeOK, NEW t \in Threads, FlushLast(t), phase # "init"
    PROVE  /\ StepOf(t) /\ UNCHANGED <<phase, exit, stack, trail, made>>
           /\ thread[t].status = "ending"
           /\ thread' = [thread EXCEPT ![t].status = "gone", ![t].buffer = <<>>]
           /\ thread'[t].status = "gone" /\ thread'[t].buffer = <<>>
           /\ enabled = "on" /\ enabled' = "on" => file' = Log(t)
  <1> DEFINE x == thread[t].buffer
  <1>1. /\ phase # "gone" /\ thread[t].status = "ending" /\ WriteAll(x)
        /\ thread' = [thread EXCEPT ![t].status = "gone", ![t].buffer = <<>>]
        /\ UNCHANGED <<phase, exit, stack, trail, made>>
    BY DEF FlushLast, auxVars
  <1>2. /\ file' \in Seq(Messages) /\ enabled' \in {"on", "off", "closed"}
        /\ Sealed' => file' = file
        /\ enabled' = enabled \/ enabled' = "off"
        /\ enabled = "on" /\ enabled' = "on" => file' = file \o x
    <2>1. x \in Seq(Messages) /\ BufferOK(x, thread[t].tid)
      BY ThreadTypes
    <2>2. file \in Seq(Messages) /\ enabled \in {"on", "off", "closed"}
      BY DEF ProbesTypeOK
    <2> HIDE DEF x
    <2>3. \A i \in 1 .. Len(x) : x[i].kind # "TEnd"
      BY <2>1 DEF BufferOK, BufferKinds, Tracked
    <2>4. CASE x = <<>>
      <3>1. file' = file /\ enabled' = enabled
        BY <1>1, <2>2, <2>4, WriteNothing
      <3>2. file \o x = file
        BY <2>2, <2>4, ConcatEmptySeq
      <3> QED
        BY <2>2, <3>1, <3>2
    <2>5. CASE x # <<>>
      BY <1>1, <2>1, <2>2, <2>3, <2>5, WriteFacts
    <2> QED
      BY <2>4, <2>5
  <1>3. thread \in [Threads -> ThreadStates] /\ Living(t)
    BY <1>1 DEF ProbesTypeOK, Living
  <1>4. /\ thread' \in [Threads -> ThreadStates]
        /\ \A u \in Threads \ {t} : thread'[u] = thread[u]
        /\ thread'[t].status = "gone" /\ thread'[t].tid = thread[t].tid
        /\ thread'[t].buffer = <<>>
    <2>1. <<>> \in Seq(Messages)
      OBVIOUS
    <2> QED
      BY <1>1, <1>3, <2>1 DEF ThreadStates
  <1>5. \A u \in Threads : /\ thread'[u].status = "new" => thread'[u].buffer = <<>>
                           /\ BufferOK(thread'[u].buffer, thread'[u].tid)
    <2>1. BufferOK(<<>>, thread[t].tid)
      BY DEF BufferOK
    <2> QED
      BY <1>4, <2>1 DEF ProbesTypeOK
  <1>6. ProbesTypeOK'
    BY <1>1, <1>2, <1>4, <1>5 DEF ProbesTypeOK
  <1>7. StepOf(t)
    BY <1>1, <1>2, <1>3, <1>4, <1>6 DEF StepOf
  <1> QED
    BY <1>1, <1>2, <1>4, <1>7 DEF Log

-----------------------------------------------------------------------------
(***************************************************************************)
(* Where the program is, after such a step                                 *)
(***************************************************************************)
LEMMA MainIsThread == Main \in Threads
  BY ProbesAssumption DEF Main, Threads

(* Nobody is left to log anything when the log of a clean exit is sealed   *)
LEMMA NobodyAfterCleanExit ==
    ASSUME ExitOK, exit.clean, NEW t \in Threads, Living(t)
    PROVE  /\ t = Main /\ exit.by = Main /\ phase \notin {"ended"}
           /\ enabled # "closed"
  BY DEF ExitOK, Living

LEMMA StepKeepsExitOK ==
    ASSUME ExitOK, NEW t \in Threads, StepOf(t), UNCHANGED <<phase, exit>>,
           exit.by # t \/ thread'[t].status = "gone"
    PROVE  ExitOK'
  <1>1. /\ \A u \in Threads \ {t} : thread'[u] = thread[u]
        /\ phase \notin {"init", "gone"} /\ Living(t)
        /\ enabled' = enabled \/ enabled' = "off"
    BY DEF StepOf
  <1>2. exit.by # 0 => exit.by \in Threads
    BY DEF StepOf, ProbesTypeOK
  <1>3. exit.by # 0 => /\ thread'[exit.by].status \in {"ending", "gone"}
                       /\ thread[exit.by].status = "gone" => thread'[exit.by].status = "gone"
    BY <1>1, <1>2 DEF ExitOK
  <1>4. exit.clean => t = Main /\ exit.by = Main /\ enabled # "closed"
    BY <1>1, NobodyAfterCleanExit
  <1>5. thread'[Main].status # "new"
    BY <1>1, MainIsThread DEF ExitOK, StepOf
  <1> QED
    BY <1>1, <1>3, <1>4, <1>5 DEF ExitOK

LEMMA StepKeepsSealedOK ==
    ASSUME ExitOK, SealedOK, NEW t \in Threads, StepOf(t), UNCHANGED <<phase, exit>>
    PROVE  SealedOK'
  <1> SUFFICES ASSUME Sealed'
               PROVE  /\ FileOK' /\ enabled' # "on" /\ phase' \in {"ended", "gone"}
                      /\ exit'.by # 0 /\ ~exit'.clean
    BY DEF SealedOK
  <1>1. file' = file /\ (enabled' = enabled \/ enabled' = "off")
    BY DEF StepOf
  <1>2. Sealed
    BY <1>1 DEF Sealed
  <1>3. FileOK /\ enabled # "on" /\ phase \in {"ended", "gone"} /\ exit.by # 0
    BY <1>2 DEF SealedOK
  <1>4. FileOK'
    BY <1>1, <1>3 DEF FileOK, Quitter
  <1>5. ~exit.clean
    BY <1>3, NobodyAfterCleanExit DEF StepOf
  <1> QED
    BY <1>1, <1>3, <1>4, <1>5

LEMMA EndProcessKeeps ==
    ASSUME ProbesTypeOK, ExitOK, SealedOK, NEW t \in Threads, EndProcess(t)
    PROVE  ExitOK' /\ SealedOK'
  <1>1. /\ StepOf(t) /\ phase = "running" /\ phase' = "exiting"
        /\ thread'[t].status \in {"ending", "gone"}
        /\ exit'.by = t
        /\ exit'.clean => /\ t = Main
                          /\ \A u \in Threads \ {t} : thread[u].status \in {"new", "gone"}
    BY EndProcessIsStep
  <1>2. t # 0
    BY DEF Threads
  <1>3. ~Sealed'
    <2>1. ~Sealed
      BY <1>1 DEF SealedOK
    <2> QED
      BY <1>1, <2>1 DEF StepOf, Sealed
  <1>4. enabled' # "closed"
    BY <1>1 DEF StepOf, ExitOK
  <1>5. \A u \in Threads \ {t} : thread'[u] = thread[u]
    BY <1>1 DEF StepOf
  <1>6. thread'[Main].status # "new"
    BY <1>1, <1>5, MainIsThread DEF ExitOK
  <1> QED
    BY <1>1, <1>2, <1>3, <1>4, <1>5, <1>6 DEF ExitOK, SealedOK

(***************************************************************************)
(* What is written, after such a step                                      *)
(***************************************************************************)
LEMMA AnyQuitter ==
    ASSUME NEW log, NEW tid, NEW q, Chain(log, tid, 0)
    PROVE  Chain(log, tid, q)
  BY DEF Chain, Chained, Follows

LEMMA ChainOfPart ==
    ASSUME NEW S, NEW a \in Seq(S), NEW x \in Seq(S), NEW tid, NEW q,
           Chain(a \o x, tid, q)
    PROVE  Chain(a, tid, q)
  <1> DEFINE ax == a \o x
  <1>1. /\ Len(ax) = Len(a) + Len(x) /\ Len(a) \in Nat /\ Len(x) \in Nat
        /\ \A i \in 1 .. Len(a) : ax[i] = a[i]
    BY Joined
  <1> HIDE DEF ax
  <1> SUFFICES ASSUME NEW j \in 1 .. Len(a), Of(a[j], tid) PROVE Chained(a, tid, j, q)
    BY DEF Chain
  <1>2. Chained(ax, tid, j, q)
    BY <1>1 DEF Chain, ax
  <1>3. ASSUME NEW i \in 1 .. j - 1 PROVE i \in 1 .. Len(a) /\ ax[i] = a[i]
    BY <1>1
  <1>4. ASSUME NEW i \in 1 .. j - 1, LastBefore(ax, tid, j, i)
        PROVE  LastBefore(a, tid, j, i)
    BY <1>1, <1>3, <1>4 DEF LastBefore
  <1>5. NoneBefore(ax, tid, j) => NoneBefore(a, tid, j)
    BY <1>3 DEF NoneBefore
  <1> QED
    BY <1>1, <1>2, <1>3, <1>4, <1>5 DEF Chained

(* It is enough to look at the thread that has made the step               *)
LEMMA StepKeepsWritingOK ==
    ASSUME ProbesTypeOK, WritingOK, NEW t \in Threads, StepOf(t),
           enabled = "on", enabled' = "on", phase' # "init",
           Quitter' = Quitter \/ Quitter = 0,
           NEW x \in Seq(Messages), BufferOK(x, thread[t].tid), file' = file \o x,
           ThreadOK(t)', PlainOK(t)', Chain(file', thread[t].tid, Quitter'),
           Living(t)' \/ Free(file', thread[t].tid)
    PROVE  WritingOK'
  <1> DEFINE tid == thread[t].tid
             fx == file \o x
  <1>1. /\ FileOK /\ ~Sealed /\ file[3].tid = thread[Main].tid
        /\ \A u \in Threads : ThreadOK(u) /\ PlainOK(u)
        /\ \A u, v \in Threads : Living(u) /\ Living(v) /\ u # v => thread[u].tid # thread[v].tid
        /\ \A i \in AllTids :
              (\A u \in Threads : Living(u) => thread[u].tid # i) => Free(file, i)
    BY DEF WritingOK
  <1>2. /\ Living(t) /\ thread'[t].tid = tid
        /\ \A u \in Threads \ {t} : /\ thread'[u] = thread[u] /\ stack'[u] = stack[u]
                                    /\ trail'[u] = trail[u] /\ made'[u] = made[u]
    BY DEF StepOf
  <1>3. /\ file \in Seq(Messages) /\ tid \in AllTids
        /\ \A u \in Threads : thread[u].buffer \in Seq(Messages) /\ thread[u].tid \in AllTids
    BY ThreadTypes DEF ProbesTypeOK
  <1>4. /\ fx \in Seq(Messages) /\ Len(fx) = Len(file) + Len(x)
        /\ Len(file) \in Nat /\ Len(x) \in Nat
        /\ \A i \in 1 .. Len(file) : fx[i] = file[i]
        /\ \A i \in 1 .. Len(x) : fx[Len(file) + i] = x[i]
    BY <1>3, Joined
  <1>5. /\ \A i \in 1 .. Len(x) : x[i].kind \in BufferKinds /\ MessageOK(x[i])
        /\ \A other : other # tid => \A i \in 1 .. Len(x) : ~Of(x[i], other)
    BY DEF BufferOK, Of
  <1>6. file' = fx
    OBVIOUS
  <1> HIDE DEF fx, tid
  <1>7. ASSUME NEW other, other # tid PROVE Keeps(file, fx, other, Quitter')
    BY <1>3, <1>5, <1>7, OthersAppend DEF fx
  <1>8. ASSUME NEW log, NEW id, Chain(log, id, Quitter) PROVE Chain(log, id, Quitter')
    BY <1>8, AnyQuitter
  <1>9. FileOK'
    <2>1. /\ Len(file) >= 3 /\ file[1].kind = "Start" /\ file[2].kind = "Metadata"
          /\ file[3].kind = "TStart"
          /\ \A i \in 1 .. Len(file) : MessageOK(file[i])
          /\ \A i \in 4 .. Len(file) : file[i].kind \in BufferKinds
      BY <1>1, <1>4 DEF FileOK, Sealed
    <2>2. ASSUME NEW i \in 1 .. Len(fx)
          PROVE  MessageOK(fx[i]) /\ (i > 3 => fx[i].kind \in BufferKinds)
      <3>1. CASE i <= Len(file)
        <4>1. i \in 1 .. Len(file) /\ (i > 3 => i \in 4 .. Len(file))
          BY <1>4, <3>1
        <4> QED
          BY <1>4, <2>1, <4>1
      <3>2. CASE i > Len(file)
        <4> DEFINE d == i - Len(file)
        <4>1. d \in 1 .. Len(x) /\ i = Len(file) + d
          BY <1>4, <3>2
        <4> HIDE DEF d
        <4> QED
          BY <1>4, <1>5, <4>1
      <3>3. i <= Len(file) \/ i > Len(file)
        BY <1>4
      <3> QED
        BY <3>1, <3>2, <3>3
    <2>3. Len(fx) >= 3 /\ fx[1].kind = "Start" /\ fx[2].kind = "Metadata"
          /\ fx[3].kind = "TStart"
      <3>1. /\ 1 \in 1 .. Len(file) /\ 2 \in 1 .. Len(file) /\ 3 \in 1 .. Len(file)
            /\ Len(file) + Len(x) >= 3
        BY <1>4, <2>1
      <3>2. fx[1] = file[1] /\ fx[2] = file[2] /\ fx[3] = file[3]
        BY <1>4, <3>1
      <3>3. Len(fx) >= 3
        BY <1>4, <3>1
      <3> QED
        BY <2>1, <3>2, <3>3
    <2>4. ASSUME NEW id \in AllTids PROVE Chain(fx, id, Quitter')
      <3>1. CASE id = tid
        BY <1>6, <3>1 DEF tid
      <3>2. CASE id # tid
        <4>1. Chain(file, id, Quitter')
          BY <1>1, <1>8 DEF FileOK
        <4> QED
          BY <1>7, <3>2, <4>1 DEF Keeps
      <3> QED
        BY <3>1, <3>2
    <2> QED
      BY <1>6, <2>2, <2>3, <2>4 DEF FileOK
  <1>10. ~Sealed'
    <2>1. CASE Len(x) = 0
      <3>1. fx = file
        BY <1>3, <2>1, ConcatEmptySeq DEF fx
      <3> QED
        BY <1>1, <1>6, <3>1 DEF Sealed
    <2>2. CASE Len(x) > 0
      <3>1. fx[Len(fx)] = x[Len(x)] /\ Len(x) \in 1 .. Len(x)
        BY <1>4, <2>2
      <3> QED
        BY <1>5, <1>6, <3>1 DEF Sealed, BufferKinds, Tracked
    <2> QED
      BY <1>4, <2>1, <2>2
  <1>11. file'[3].tid = thread'[Main].tid
    <2>1. Len(file) >= 3
      BY <1>1 DEF FileOK
    <2>2. fx[3] = file[3]
      BY <1>4, <2>1
    <2>3. thread'[Main].tid = thread[Main].tid
      <3>1. Main \in Threads
        BY ProbesAssumption DEF Main, Threads
      <3> QED
        BY <1>2, <3>1 DEF tid
    <2> QED
      BY <1>1, <1>6, <2>2, <2>3
  <1>12. ASSUME NEW u \in Threads PROVE ThreadOK(u)' /\ PlainOK(u)'
    <2>1. CASE u = t
      BY <2>1
    <2>2. CASE u # t
      <3> DEFINE lu == file \o thread[u].buffer
                 lu2 == fx \o thread[u].buffer
      <3>1. lu = Log(u) /\ lu2 = Log(u)'
        BY <1>2, <1>6, <2>2 DEF Log
      <3>2. lu \in Seq(Messages) /\ lu2 \in Seq(Messages)
        BY <1>3, <1>4, Joined
      <3>3. \A other : other # tid => Keeps(lu, lu2, other, Quitter')
        BY <1>3, <1>5, OthersWrite DEF fx
      <3> HIDE DEF lu, lu2
      <3>4. \A k \in 1 .. made[u] : Logged(lu2, u, k)
        <4>1. PICK other : other # tid
          <5>1. \E other \in {0, 1} : other # tid
            OBVIOUS
          <5> QED
            BY <5>1
        <4> QED
          BY <1>1, <3>1, <3>3, <4>1 DEF ThreadOK, Keeps
      <3>5. ASSUME Living(u)
            PROVE  /\ Chain(lu2, thread[u].tid, Quitter')
                   /\ Free(file, thread[u].tid) => Free(fx, thread[u].tid)
                   /\ \A i \in 1 .. Len(lu) : LastIn(lu, thread[u].tid, i) =>
                         \E k \in 1 .. Len(lu2) : LastIn(lu2, thread[u].tid, k) /\ lu2[k] = lu[i]
        <4>1. thread[u].tid # tid
          BY <1>1, <1>2, <2>2, <3>5 DEF tid
        <4>2. Chain(lu, thread[u].tid, Quitter')
          BY <1>1, <1>8, <3>1, <3>5 DEF ThreadOK
        <4> QED
          BY <1>7, <3>3, <4>1, <4>2 DEF Keeps
      <3>6. ThreadOK(u)'
        <4>1. ThreadOK(u) /\ thread'[u] = thread[u] /\ trail'[u] = trail[u]
              /\ made'[u] = made[u] /\ stack'[u] = stack[u]
          BY <1>1, <1>2, <2>2
        <4> QED
          BY <1>6, <3>1, <3>4, <3>5, <4>1 DEF ThreadOK, Living
      <3> QED
        BY <1>1, <1>2, <2>2, <3>6 DEF PlainOK
    <2> QED
      BY <2>1, <2>2
  <1>13. \A u, v \in Threads : Living(u)' /\ Living(v)' /\ u # v
            => thread'[u].tid # thread'[v].tid
    BY <1>1, <1>2 DEF Living, tid
  <1>14. ASSUME NEW id \in AllTids, \A u \in Threads : Living(u)' => thread'[u].tid # id
         PROVE  Free(fx, id)
    <2>1. CASE id = tid
      BY <1>2, <1>6, <1>14, <2>1 DEF tid
    <2>2. CASE id # tid
      <3>1. \A u \in Threads : Living(u) => thread[u].tid # id
        BY <1>2, <1>14, <2>2 DEF Living, tid
      <3>2. Free(file, id)
        BY <1>1, <3>1
      <3> QED
        BY <1>7, <2>2, <3>2 DEF Keeps
    <2> QED
      BY <2>1, <2>2
  <1> QED
    BY <1>6, <1>9, <1>10, <1>11, <1>12, <1>13, <1>14 DEF WritingOK

(* What a running thread may log, and what its log then tells              *)
Fits(t, m, q) ==
    /\ m \in Messages /\ m.tid = thread[t].tid /\ m.origin.thread = t
    /\ MessageOK(m) /\ m.kind \in BufferKinds
    /\ \/ m.kind = "T"
       \/ m.kind \in {"TS", "KeyValue"} /\ m.origin.trail = trail[t]
       \/ m.kind = "TE" /\ \E k \in 1 .. Len(trail[t]) : Leaves(m, trail[t], k)
       \/ /\ m.kind = "TThreadEnd"
          /\ (\A k \in 1 .. Len(trail[t]) : trail[t][k].scope = 0) \/ (q # 0 /\ t = q)

Tells(log, t, places, kinds) ==
    \E i \in 1 .. Len(log) :
        /\ LastIn(log, thread[t].tid, i) /\ log[i].origin.thread = t
        /\ log[i].kind \in kinds
        /\ log[i].kind # "TThreadEnd" => After(log[i]) = places

Told(log, t, m, q) ==
    /\ Chain(log, thread[t].tid, q)
    /\ CASE m.kind = "T" -> Tells(log, t, trail[t], Tracked \ {"TThreadEnd"})
         [] m.kind # "T" -> Tells(log, t, After(m), {m.kind})
    /\ \A k \in 1 .. made[t] : Logged(log, t, k)
    /\ m.kind = "TS" => Logged(log, t, m.origin.scope)

LEMMA ThreadTold ==
    ASSUME ProbesTypeOK, NEW t \in Threads, thread[t].status = "running",
           ThreadOK(t), NEW q, q = Quitter \/ Quitter = 0, NEW m, Fits(t, m, q)
    PROVE  Told(file \o Buffered(t, m), t, m, q)
  <1> DEFINE tid == thread[t].tid
             start == OfThread(t, "TThreadStart", 1)
             b == IF thread[t].buffering THEN thread[t].buffer ELSE <<start>>
             log == file \o b
  <1>1. /\ file \in Seq(Messages) /\ thread[t].buffer \in Seq(Messages) /\ t \in Nat
        /\ m \in Messages /\ m.tid = tid
    BY ThreadTypes DEF ProbesTypeOK, Fits
  <1>2. /\ start \in Messages /\ start.kind = "TThreadStart" /\ start.tid = tid
        /\ start.origin = Origin(t, 0, <<>>)
    BY ThreadMessage
  <1>3. Living(t)
    BY DEF Living
  <1>4. \A l, id : Chain(l, id, Quitter) => Chain(l, id, q)
    BY AnyQuitter
  <1> HIDE DEF start, tid
  <1>5. /\ b \in Seq(Messages) /\ Chain(log, tid, q)
        /\ \A k \in 1 .. made[t] : Logged(log, t, k)
        /\ \E i \in 1 .. Len(log) :
              /\ LastIn(log, tid, i) /\ log[i].origin.thread = t
              /\ log[i].kind # "TThreadEnd" /\ After(log[i]) = trail[t]
    <2>1. CASE thread[t].buffering
      <3>1. log = Log(t) /\ b = thread[t].buffer
        BY <2>1 DEF Log
      <3> HIDE DEF log, b
      <3> QED
        BY <1>1, <1>3, <1>4, <2>1, <3>1 DEF ThreadOK, tid
    <2>2. CASE ~thread[t].buffering
      <3>1. thread[t].buffer = <<>> /\ trail[t] = <<>> /\ made[t] = 0
            /\ Free(file, tid) /\ Chain(Log(t), tid, Quitter)
        BY <1>3, <2>2 DEF ThreadOK, tid
      <3>2. Log(t) = file
        BY <1>1, <3>1, ConcatEmptySeq DEF Log
      <3>3. Chain(file, tid, q)
        BY <1>4, <3>1, <3>2
      <3>4. Of(start, tid)
        BY <1>2 DEF Of, Tracked
      <3>5. Continues(file, tid, start, q)
        BY <1>2, <3>1 DEF Free, Continues, Follows
      <3>6. /\ Chain(Append(file, start), tid, q)
            /\ LastIn(Append(file, start), tid, Len(file) + 1)
        BY <1>1, <1>2, <3>3, <3>4, <3>5, Continued
      <3>7. /\ Append(file, start)[Len(file) + 1] = start
            /\ Len(Append(file, start)) = Len(file) + 1
            /\ file \o <<start>> = Append(file, start)
        BY <1>1, <1>2, Appended
      <3>8. log = Append(file, start) /\ b = <<start>>
        BY <2>2, <3>7
      <3>9. /\ start.origin.thread = t /\ start.kind # "TThreadEnd"
            /\ After(start) = <<>>
        BY <1>2 DEF After, Origin
      <3>10. /\ <<start>> \in Seq(Messages) /\ Len(file) + 1 \in 1 .. Len(file) + 1
             /\ \A k \in 1 .. 0 : FALSE
        BY <1>1, <1>2
      <3> HIDE DEF log, b
      <3> QED
        BY <3>1, <3>6, <3>7, <3>8, <3>9, <3>10
    <2> QED
      BY <2>1, <2>2
  <1>6. file \o Buffered(t, m) = Append(log, m) /\ log \in Seq(Messages)
    <2>1. Buffered(t, m) = b \o <<m>>
      BY DEF Buffered, start
    <2> HIDE DEF b
    <2>2. <<m>> \in Seq(Messages)
      BY <1>1
    <2>3. file \o (b \o <<m>>) = (file \o b) \o <<m>>
      BY <1>1, <1>5, <2>2, MessagesJoined
    <2>4. log \in Seq(Messages)
      BY <1>1, <1>5, Joined
    <2>5. log \o <<m>> = Append(log, m)
      BY <1>1, <2>4, Appended
    <2> QED
      BY <2>1, <2>3, <2>4, <2>5
  <1> HIDE DEF b, log
  <1> DEFINE big == Append(log, m)
  <1>7. /\ Len(big) = Len(log) + 1 /\ big[Len(log) + 1] = m /\ Len(log) \in Nat
        /\ big = log \o <<m>>
        /\ \A i \in 1 .. Len(log) : big[i] = log[i]
    BY <1>1, <1>6, Appended
  <1>8. \A k \in 1 .. made[t] : Logged(big, t, k)
    BY <1>1, <1>5, <1>6, LoggedStays
  <1>9. m.kind = "TS" => Logged(big, t, m.origin.scope)
    <2>1. Len(log) + 1 \in 1 .. Len(big) /\ m.origin.thread = t
      BY <1>7 DEF Fits
    <2> QED
      BY <1>7, <2>1 DEF Logged
  <1> HIDE DEF big
  <1>10. PICK i \in 1 .. Len(log) : /\ LastIn(log, tid, i) /\ log[i].origin.thread = t
                                    /\ log[i].kind # "TThreadEnd" /\ After(log[i]) = trail[t]
    BY <1>5
  <1>11. CASE m.kind = "T"
    <2>1. ~Of(m, tid)
      BY <1>11 DEF Of, Tracked
    <2>2. <<m>> \in Seq(Messages) /\ \A k \in 1 .. Len(<<m>>) : ~Of(<<m>>[k], tid)
      BY <1>1, <2>1
    <2>3. Keeps(log, big, tid, q)
      <3>1. Keeps(log, log \o <<m>>, tid, q)
        BY <1>6, <2>2, OthersAppend
      <3> QED
        BY <1>7, <3>1
    <2>4. Chain(big, tid, q)
      BY <1>5, <2>3 DEF Keeps
    <2>5. PICK k \in 1 .. Len(big) : LastIn(big, tid, k) /\ big[k] = log[i]
      BY <1>10, <2>3 DEF Keeps
    <2>6. log[i].kind \in Tracked
      BY <1>10 DEF LastIn, LastBefore, Of
    <2>7. Tells(big, t, trail[t], Tracked \ {"TThreadEnd"})
      BY <1>10, <2>5, <2>6 DEF Tells, tid
    <2> QED
      BY <1>6, <1>8, <1>9, <1>11, <2>4, <2>7 DEF Told, tid, big
  <1>12. CASE m.kind # "T"
    <2>1. Of(m, tid)
      BY <1>1, <1>12 DEF Fits, Of, Tracked
    <2>2. Follows(log[i], m, q)
      BY <1>10, <1>12 DEF Fits, Follows
    <2>3. Continues(log, tid, m, q)
      BY <1>10, <2>2 DEF Continues
    <2>4. Chain(big, tid, q) /\ LastIn(big, tid, Len(log) + 1)
      BY <1>1, <1>5, <1>6, <2>1, <2>3, Continued DEF big
    <2>5. Tells(big, t, After(m), {m.kind})
      <3>1. Len(log) + 1 \in 1 .. Len(big) /\ m.origin.thread = t
        BY <1>7 DEF Fits
      <3> QED
        BY <1>7, <2>4, <3>1 DEF Tells, tid
    <2> QED
      BY <1>6, <1>8, <1>9, <1>12, <2>4, <2>5 DEF Told, tid, big
  <1> QED
    BY <1>11, <1>12

(* The thread keeps the message, or writes it with all that it has kept    *)
Logs(t, m) ==
    \/ file' = file /\ thread'[t].buffer = Buffered(t, m)
    \/ /\ file' = file \o Buffered(t, m)
       /\ thread'[t].buffer = <<OfThread(t, "TIO", 1)>>

LEMMA LogAfterLogging ==
    ASSUME ProbesTypeOK, NEW t \in Threads, thread[t].status = "running",
           ThreadOK(t), NEW q, q = Quitter \/ Quitter = 0, NEW m, Fits(t, m, q),
           Logs(t, m)
    PROVE  /\ Told(file' \o thread'[t].buffer, t, m, q)
           /\ \E x \in Seq(Messages) : BufferOK(x, thread[t].tid) /\ file' = file \o x
           /\ Chain(file', thread[t].tid, q)
  <1> DEFINE b == Buffered(t, m)
             log == file \o b
             tio == OfThread(t, "TIO", 1)
  <1>1. Told(log, t, m, q)
    BY ThreadTold
  <1>2. /\ file \in Seq(Messages) /\ b \in Seq(Messages)
        /\ BufferOK(b, thread[t].tid) /\ BufferOK(<<>>, thread[t].tid)
    <2>1. BufferOK(<<>>, thread[t].tid)
      BY DEF BufferOK
    <2> QED
      BY <2>1, BufferedFacts DEF Fits, ProbesTypeOK
  <1>3. tio \in Messages /\ tio.kind = "TIO"
    BY ThreadMessage
  <1> HIDE DEF b, tio
  <1>4. log \in Seq(Messages)
    BY <1>2, Joined
  <1>5. CASE file' = file /\ thread'[t].buffer = b
    <2>1. file \o <<>> = file /\ <<>> \in Seq(Messages)
      BY <1>2, ConcatEmptySeq
    <2>2. Chain(file, thread[t].tid, q)
      BY <1>1, <1>2, ChainOfPart DEF Told
    <2> QED
      BY <1>1, <1>2, <1>5, <2>1, <2>2
  <1>6. CASE file' = log /\ thread'[t].buffer = <<tio>>
    <2> HIDE DEF log
    <2>1. <<tio>> \in Seq(Messages) /\ \A id : \A k \in 1 .. Len(<<tio>>) : ~Of(<<tio>>[k], id)
      <3>1. \A id : ~Of(tio, id)
        BY <1>3 DEF Of, Tracked
      <3> QED
        BY <1>3, <3>1
    <2> DEFINE big == log \o <<tio>>
    <2>2. Keeps(log, big, thread[t].tid, q)
      BY <1>4, <2>1, OthersAppend
    <2> HIDE DEF big
    <2>3. ASSUME NEW places, NEW kinds, Tells(log, t, places, kinds)
          PROVE  Tells(big, t, places, kinds)
      BY <2>2, <2>3 DEF Tells, Keeps
    <2>4. Told(big, t, m, q)
      BY <1>1, <2>2, <2>3 DEF Told, Keeps
    <2>5. Chain(log, thread[t].tid, q)
      BY <1>1 DEF Told
    <2> QED
      BY <1>2, <1>6, <2>4, <2>5 DEF log, big
  <1> QED
    BY <1>5, <1>6 DEF Logs, b, tio

LEMMA LoggingKeepsWritingOK ==
    ASSUME ProbesTypeOK, WritingOK, NEW t \in Threads, StepOf(t),
           enabled = "on", enabled' = "on", phase' # "init",
           Quitter' = Quitter \/ Quitter = 0,
           NEW m, Fits(t, m, Quitter'), Logs(t, m), thread[t].status = "running",
           thread'[t].buffering,
           thread'[t].status = IF m.kind = "TThreadEnd" THEN "ending" ELSE "running",
           m.kind # "TThreadEnd" =>
              trail'[t] = IF m.kind = "T" THEN trail[t] ELSE After(m),
           made'[t] = IF m.kind = "TS" THEN m.origin.scope ELSE made[t],
           m.kind = "TS" => m.origin.scope = made[t] + 1,
           PlainOK(t)'
    PROVE  WritingOK'
  <1> DEFINE log == file' \o thread'[t].buffer
  <1>1. /\ ThreadOK(t) /\ Living(t) /\ thread'[t].tid = thread[t].tid /\ made[t] \in Nat
    BY DEF WritingOK, StepOf, ProbesTypeOK
  <1>2. /\ Told(log, t, m, Quitter') /\ Chain(file', thread[t].tid, Quitter')
        /\ \E x \in Seq(Messages) : BufferOK(x, thread[t].tid) /\ file' = file \o x
    BY <1>1, LogAfterLogging
  <1>3. log = Log(t)'
    BY DEF Log
  <1> HIDE DEF log
  <1>4. \A k \in 1 .. made'[t] : Logged(log, t, k)
    <2>1. CASE m.kind = "TS"
      <3>1. \A k \in 1 .. made[t] + 1 : k \in 1 .. made[t] \/ k = made[t] + 1
        BY <1>1
      <3> QED
        BY <1>2, <2>1, <3>1 DEF Told
    <2>2. CASE m.kind # "TS"
      BY <1>2, <2>2 DEF Told
    <2> QED
      BY <2>1, <2>2
  <1>5. \E i \in 1 .. Len(log) :
           /\ LastIn(log, thread[t].tid, i) /\ log[i].origin.thread = t
           /\ (thread'[t].status = "ending" <=> log[i].kind = "TThreadEnd")
           /\ (thread'[t].status = "running" => After(log[i]) = trail'[t])
    <2>1. CASE m.kind = "T"
      <3>1. Tells(log, t, trail[t], Tracked \ {"TThreadEnd"})
        BY <1>2, <2>1 DEF Told
      <3>2. PICK i \in 1 .. Len(log) :
               /\ LastIn(log, thread[t].tid, i) /\ log[i].origin.thread = t
               /\ log[i].kind \in Tracked \ {"TThreadEnd"}
               /\ log[i].kind # "TThreadEnd" => After(log[i]) = trail[t]
        BY <3>1 DEF Tells
      <3> QED
        BY <2>1, <3>2
    <2>2. CASE m.kind # "T"
      <3>1. Tells(log, t, After(m), {m.kind})
        BY <1>2, <2>2 DEF Told
      <3>2. PICK i \in 1 .. Len(log) :
               /\ LastIn(log, thread[t].tid, i) /\ log[i].origin.thread = t
               /\ log[i].kind = m.kind
               /\ log[i].kind # "TThreadEnd" => After(log[i]) = After(m)
        BY <3>1 DEF Tells
      <3>3. CASE m.kind = "TThreadEnd"
        BY <3>2, <3>3
      <3>4. CASE m.kind # "TThreadEnd"
        BY <2>2, <3>2, <3>4
      <3> QED
        BY <3>3, <3>4
    <2> QED
      BY <2>1, <2>2
  <1>6. thread'[t].status \in {"running", "ending"}
    OBVIOUS
  <1>7. thread[t].tid \in Tids /\ Chain(log, thread[t].tid, Quitter')
    BY <1>1, <1>2 DEF ThreadOK, Told
  <1>8. ThreadOK(t)'
    BY <1>1, <1>3, <1>4, <1>5, <1>6, <1>7 DEF ThreadOK, Living
  <1>9. Living(t)'
    BY <1>6 DEF Living
  <1>10. PICK x \in Seq(Messages) : BufferOK(x, thread[t].tid) /\ file' = file \o x
    BY <1>2
  <1> QED
    BY <1>2, <1>8, <1>9, <1>10, StepKeepsWritingOK

(* A thread that logs nothing                                              *)
LEMMA SilenceKeepsWritingOK ==
    ASSUME ProbesTypeOK, WritingOK, NEW t \in Threads, StepOf(t),
           enabled = "on", enabled' = "on", UNCHANGED <<phase, exit, thread, file>>,
           trail'[t] = trail[t], made'[t] = made[t], PlainOK(t)'
    PROVE  WritingOK'
  <1>1. /\ ThreadOK(t) /\ Living(t) /\ phase # "init" /\ FileOK
    BY DEF WritingOK, StepOf
  <1>2. Living(t)' /\ Quitter' = Quitter
    BY <1>1 DEF Living, Quitter
  <1>3. ThreadOK(t)'
    BY <1>1, <1>2 DEF ThreadOK, Log, Living
  <1>4. Chain(file', thread[t].tid, Quitter')
    BY <1>1, <1>2, ThreadTypes DEF FileOK
  <1>5. <<>> \in Seq(Messages) /\ BufferOK(<<>>, thread[t].tid) /\ file' = file \o <<>>
    <2>1. file \o <<>> = file
      BY ConcatEmptySeq DEF ProbesTypeOK
    <2> QED
      BY <2>1 DEF BufferOK
  <1> QED
    BY <1>1, <1>2, <1>3, <1>4, <1>5, StepKeepsWritingOK

(* A thread that has never logged anything, and goes                       *)
LEMMA GoingKeepsWritingOK ==
    ASSUME ProbesTypeOK, WritingOK, NEW t \in Threads, StepOf(t), Goes(t),
           enabled = "on", phase' # "init", Quitter' = Quitter \/ Quitter = 0,
           UNCHANGED <<stack, trail, made>>
    PROVE  WritingOK'
  <1>1. /\ ThreadOK(t) /\ PlainOK(t) /\ Living(t) /\ FileOK
    BY DEF WritingOK, StepOf
  <1>2. ~thread[t].buffering
    BY SeesOn DEF Goes
  <1>3. /\ file' = file /\ enabled' = "on"
        /\ thread' = [thread EXCEPT ![t].status = "gone"]
    BY DEF Goes
  <1>4. /\ thread'[t].status = "gone" /\ thread'[t].tid = thread[t].tid
        /\ thread'[t].buffering = thread[t].buffering
        /\ thread'[t].buffer = thread[t].buffer
    BY <1>3 DEF ProbesTypeOK, ThreadStates
  <1>5. /\ thread[t].buffer = <<>> /\ trail[t] = <<>> /\ made[t] = 0
        /\ Free(file, thread[t].tid)
    BY <1>1, <1>2 DEF ThreadOK
  <1>6. ThreadOK(t)'
    BY <1>2, <1>4, <1>5 DEF ThreadOK, Living
  <1>7. PlainOK(t)'
    BY <1>1 DEF PlainOK
  <1>8. Chain(file', thread[t].tid, Quitter')
    <2>1. Chain(file, thread[t].tid, Quitter)
      BY <1>1, ThreadTypes DEF FileOK
    <2> QED
      BY <1>3, <2>1, AnyQuitter
  <1>9. <<>> \in Seq(Messages) /\ BufferOK(<<>>, thread[t].tid) /\ file' = file \o <<>>
    <2>1. file \o <<>> = file
      BY ConcatEmptySeq DEF ProbesTypeOK
    <2> QED
      BY <1>3, <2>1 DEF BufferOK
  <1> QED
    BY <1>3, <1>5, <1>6, <1>7, <1>8, <1>9, StepKeepsWritingOK

LEMMA LogAnyKeepsWritingOK ==
    ASSUME ProbesTypeOK, WritingOK, NEW t \in Threads, StepOf(t),
           enabled = "on", enabled' = "on", phase' # "init",
           Quitter' = Quitter \/ Quitter = 0,
           NEW m, Fits(t, m, Quitter'), thread[t].status = "running",
           LogAny(t, m, IF m.kind = "TThreadEnd" THEN "ending" ELSE "running"),
           m.kind # "TThreadEnd" =>
              trail'[t] = IF m.kind = "T" THEN trail[t] ELSE After(m),
           made'[t] = IF m.kind = "TS" THEN m.origin.scope ELSE made[t],
           m.kind = "TS" => m.origin.scope = made[t] + 1,
           PlainOK(t)'
    PROVE  WritingOK'
  <1> DEFINE st == IF m.kind = "TThreadEnd" THEN "ending" ELSE "running"
  <1>1. st \in {"running", "ending"} /\ LogAny(t, m, st)
    OBVIOUS
  <1>2. m \in Messages /\ m.kind \in BufferKinds /\ m.tid = thread[t].tid /\ MessageOK(m)
    BY DEF Fits
  <1> HIDE DEF st
  <1>3. /\ thread'[t].status = st /\ thread'[t].buffering
        /\ Logs(t, m)
    BY <1>1, <1>2, LogAnyFacts DEF Logs
  <1> QED
    BY <1>3, LoggingKeepsWritingOK DEF st

LEMMA EnterScopeKeepsWritingOK ==
    ASSUME ProbesTypeOK, WritingOK, NEW t \in Threads, NEW pn \in Scopes,
           EnterScope(t, pn), enabled = "on", enabled' = "on"
    PROVE  WritingOK'
  <1>1. /\ StepOf(t) /\ Running(t) /\ UNCHANGED <<phase, exit>>
        /\ thread[t].status = "running" /\ phase # "init"
    BY EnterScopeIsStep, EnterScopeFacts, RunningFacts
  <1>2. PICK logged \in BOOLEAN, scope \in Nat, n \in Nat \ {0} :
                /\ stack' = [stack EXCEPT ![t] =
                        Append(@, [pn |-> pn, logged |-> logged, scope |-> scope])]
                /\ logged => /\ scope = made[t] + 1
                             /\ LogAny(t, StartMessage(t, pn, n, scope), "running")
                             /\ made' = [made EXCEPT ![t] = scope]
                             /\ trail' = [trail EXCEPT ![t] = Append(@, Place(pn, scope))]
                /\ ~logged => UNCHANGED <<thread, file, enabled, made, trail>>
                /\ ~logged /\ enabled = "on" => pn = EveryProbe
    BY EnterScopeFacts
  <1>3. Quitter' = Quitter
    BY <1>1 DEF Quitter
  <1>4. PlainOK(t)'
    <2> DEFINE r == [pn |-> pn, logged |-> logged, scope |-> scope]
    <2>1. stack[t] \in Seq(ScopeObjects) /\ stack'[t] = Append(stack[t], r)
      BY <1>2 DEF ProbesTypeOK
    <2>2. r \in ScopeObjects /\ r.logged = logged /\ r.pn = pn
      BY DEF ScopeObjects
    <2> HIDE DEF r
    <2>3. /\ Len(stack'[t]) = Len(stack[t]) + 1 /\ stack'[t][Len(stack[t]) + 1] = r
          /\ \A a \in 1 .. Len(stack[t]) : stack'[t][a] = stack[t][a]
      BY <2>1, <2>2, Appended
    <2>4. Len(stack[t]) \in Nat
      BY <2>1
    <2>5. \A a \in 1 .. Len(stack[t]) : ~stack[t][a].logged => stack[t][a].pn = EveryProbe
      BY DEF WritingOK, PlainOK
    <2>6. ASSUME NEW a \in 1 .. Len(stack[t]) + 1, ~stack'[t][a].logged
          PROVE  stack'[t][a].pn = EveryProbe
      <3>1. CASE a = Len(stack[t]) + 1
        BY <1>2, <2>2, <2>3, <2>6, <3>1
      <3>2. CASE a \in 1 .. Len(stack[t])
        BY <2>3, <2>5, <2>6, <3>2
      <3> QED
        BY <2>4, <3>1, <3>2
    <2> QED
      BY <2>3, <2>6 DEF PlainOK
  <1>5. CASE logged
    <2> DEFINE m == StartMessage(t, pn, n, scope)
    <2>1. trail[t] \in Seq(Places) /\ made[t] \in Nat
      BY DEF ProbesTypeOK
    <2>2. scope # 0 /\ n \in Nat /\ n # 0
      BY <1>2, <1>5, <2>1
    <2>3. pn \in Scopes \cup {"key"} /\ "TS" \in {"TS", "TE", "KeyValue"} /\ "TS" # "KeyValue"
      OBVIOUS
    <2> DEFINE w == Message("TS", pn, thread[t].tid, n, Origin(t, scope, trail[t]))
    <2>4. /\ w \in Messages /\ w.kind = "TS" /\ w.kind \in BufferKinds
          /\ w.tid = thread[t].tid /\ w.pn = pn /\ MessageOK(w)
          /\ w.origin.thread = t /\ w.origin.scope = scope /\ w.origin.trail = trail[t]
      BY <2>1, <2>2, <2>3, ProbeMessage
    <2>5. m = w
      BY DEF StartMessage
    <2> HIDE DEF m, w
    <2>6. Fits(t, m, Quitter')
      BY <2>4, <2>5 DEF Fits
    <2>7. After(m) = Append(trail[t], Place(pn, scope))
      BY <2>4, <2>5 DEF After
    <2>8. trail'[t] = Append(trail[t], Place(pn, scope)) /\ made'[t] = scope
      BY <1>2, <1>5 DEF ProbesTypeOK
    <2>9. LogAny(t, m, "running")
      BY <1>2, <1>5 DEF m
    <2> QED
      BY <1>1, <1>2, <1>3, <1>4, <1>5, <2>4, <2>5, <2>6, <2>7, <2>8, <2>9, LogAnyKeepsWritingOK
  <1>6. CASE ~logged
    BY <1>1, <1>2, <1>4, <1>6, SilenceKeepsWritingOK
  <1> QED
    BY <1>5, <1>6

LEMMA LeaveScopeKeepsWritingOK ==
    ASSUME ProbesTypeOK, WritingOK, NEW t \in Threads, ScopesOK(t),
           LeaveScope(t), enabled = "on", enabled' = "on"
    PROVE  WritingOK'
  <1> DEFINE s == stack[t]
             top == Innermost(t)
  <1>1. /\ StepOf(t) /\ Running(t) /\ UNCHANGED <<phase, exit, made>> /\ s # <<>>
        /\ thread[t].status = "running" /\ phase # "init"
        /\ stack' = [stack EXCEPT ![t] = SubSeq(@, 1, Len(@) - 1)]
    BY LeaveScopeIsStep, LeaveScopeFacts, RunningFacts
  <1>2. PICK places \in Seq(Places) :
                /\ Left(t, places) /\ trail' = [trail EXCEPT ![t] = places]
                /\ \/ /\ FALSE \in Sees \/ ~LogsEnd(Innermost(t))
                      /\ UNCHANGED <<thread, file, enabled>>
                   \/ /\ LogsEnd(Innermost(t))
                      /\ LogAny(t, EndMessage(t, places), "running")
    BY LeaveScopeFacts
  <1>3. Quitter' = Quitter /\ trail'[t] = places /\ made'[t] = made[t]
    BY <1>1, <1>2 DEF Quitter, ProbesTypeOK
  <1>4. /\ s \in Seq(ScopeObjects) /\ s' = SubSeq(s, 1, Len(s) - 1)
        /\ Len(s) \in Nat /\ Len(s) > 0
    BY <1>1 DEF ProbesTypeOK
  <1>5. PlainOK(t)
    BY DEF WritingOK
  <1>6. PlainOK(t)'
    <2>1. Len(s') = Len(s) - 1 /\ \A a \in 1 .. Len(s) - 1 : s'[a] = s[a]
      BY <1>4
    <2>2. \A a \in 1 .. Len(s') : a \in 1 .. Len(s) /\ s'[a] = s[a]
      BY <1>4, <2>1
    <2> QED
      BY <1>5, <2>2 DEF PlainOK
  <1>7. ~top.logged => top.pn = EveryProbe
    BY <1>4, <1>5 DEF PlainOK, Innermost
  <1>8. CASE ~LogsEnd(top) /\ UNCHANGED <<thread, file, enabled>>
    <2>1. ~top.logged
      BY <1>8 DEF LogsEnd
    <2>2. places = trail[t]
      BY <1>2, <2>1 DEF Left
    <2> QED
      BY <1>1, <1>3, <1>6, <1>8, <2>2, SilenceKeepsWritingOK
  <1>9. CASE LogsEnd(top) /\ LogAny(t, EndMessage(t, places), "running")
    <2> DEFINE m == EndMessage(t, places)
    <2>1. /\ m \in Messages /\ m.kind = "TE" /\ m.kind \in BufferKinds
          /\ m.tid = thread[t].tid /\ m.pn = top.pn /\ MessageOK(m)
          /\ m.origin.thread = t /\ m.origin.scope = top.scope
          /\ m.origin.trail = places
      <3>1. top.pn \in Scopes /\ top.scope \in Nat
        BY <1>1, LeavingFacts DEF Innermost
      <3> QED
        BY <3>1, ProbeMessage DEF EndMessage
    <2> HIDE DEF m
    <2>2. top.logged
      BY <1>7, <1>9 DEF LogsEnd
    <2>3. \E k \in 1 .. Len(trail[t]) : Leaves(m, trail[t], k)
      <3>1. PICK k \in 1 .. Len(trail[t]) :
             /\ trail[t][k] = Place(top.pn, top.scope) /\ top.scope # 0
             /\ \A l \in k + 1 .. Len(trail[t]) : trail[t][l].scope = 0
             /\ places = Outside(t, k)
        BY <1>2, <2>2 DEF Left
      <3>2. trail[t][k].scope # 0
        BY <3>1 DEF Place
      <3>3. m.origin.trail = SubSeq(trail[t], 1, k - 1)
        BY <2>1, <3>1 DEF Outside
      <3> QED
        BY <2>1, <3>1, <3>2, <3>3 DEF Leaves
    <2>4. Fits(t, m, Quitter')
      BY <2>1, <2>3 DEF Fits
    <2>5. After(m) = places
      BY <2>1 DEF After
    <2>6. LogAny(t, m, "running")
      BY <1>9 DEF m
    <2> QED
      BY <1>1, <1>3, <1>6, <2>1, <2>4, <2>5, <2>6, LogAnyKeepsWritingOK
  <1> QED
    BY <1>2, <1>8, <1>9, SeesOn

LEMMA LogKeyValueKeepsWritingOK ==
    ASSUME ProbesTypeOK, WritingOK, NEW t \in Threads, LogKeyValue(t), enabled = "on"
    PROVE  WritingOK'
  <1> DEFINE m == Message("KeyValue", "key", thread[t].tid, 0, Origin(t, 0, trail[t]))
  <1>1. /\ StepOf(t) /\ Running(t)
        /\ UNCHANGED <<phase, exit, enabled, file, stack, made>>
        /\ thread[t].status = "running" /\ phase # "init"
    BY LogKeyValueIsStep, LogKeyValueFacts, RunningFacts
  <1>2. /\ thread' = [thread EXCEPT ![t].buffering = TRUE, ![t].buffer = Buffered(t, m)]
        /\ trail' = [trail EXCEPT ![t] = Append(@, Place("key", 0))]
    BY LogKeyValueFacts, SeesOn
  <1>3. /\ m \in Messages /\ m.kind = "KeyValue" /\ m.kind \in BufferKinds
        /\ m.tid = thread[t].tid /\ m.pn = "key" /\ MessageOK(m)
        /\ m.origin.thread = t /\ m.origin.scope = 0 /\ m.origin.trail = trail[t]
    <2>1. trail[t] \in Seq(Places)
      BY DEF ProbesTypeOK
    <2>2. "key" \in Scopes \cup {"key"} /\ 0 \in Nat /\ "KeyValue" # "TS"
      OBVIOUS
    <2>3. "KeyValue" \in {"TS", "TE", "KeyValue"}
      OBVIOUS
    <2> QED
      BY <2>1, <2>2, <2>3, ProbeMessage
  <1> HIDE DEF m
  <1>4. Fits(t, m, Quitter')
    BY <1>3 DEF Fits
  <1>5. /\ thread'[t].buffering /\ thread'[t].status = "running"
        /\ thread'[t].buffer = Buffered(t, m)
    BY <1>1, <1>2 DEF ProbesTypeOK, ThreadStates
  <1>6. trail'[t] = After(m)
    <2>1. trail'[t] = Append(trail[t], Place("key", 0))
      BY <1>2 DEF ProbesTypeOK
    <2> QED
      BY <1>3, <2>1 DEF After
  <1>7. Quitter' = Quitter /\ PlainOK(t)'
    BY <1>1 DEF Quitter, WritingOK, PlainOK
  <1>8. Logs(t, m)
    BY <1>1, <1>5 DEF Logs
  <1> QED
    BY <1>1, <1>3, <1>4, <1>5, <1>6, <1>7, <1>8, LoggingKeepsWritingOK

LEMMA LogPointKeepsWritingOK ==
    ASSUME ProbesTypeOK, WritingOK, NEW t \in Threads, LogPoint(t),
           enabled = "on", enabled' = "on"
    PROVE  WritingOK'
  <1> DEFINE m == OfThread(t, "T", 1)
  <1>1. /\ StepOf(t) /\ Running(t)
        /\ UNCHANGED <<phase, exit, stack, trail, made>>
        /\ thread[t].status = "running" /\ phase # "init"
        /\ LogAny(t, m, "running")
    <2>1. Running(t) /\ UNCHANGED <<phase, exit, stack, trail, made>>
      BY DEF LogPoint
    <2>2. PICK isEnabled \in Sees :
             IF isEnabled THEN LogAny(t, m, "running") ELSE UNCHANGED <<thread, file, enabled>>
      BY DEF LogPoint
    <2>3. isEnabled = TRUE
      BY SeesOn
    <2>4. LogAny(t, m, "running")
      BY <2>2, <2>3, Zenon
    <2> QED
      BY <2>1, <2>4, LogPointIsStep, RunningFacts
  <1>2. /\ m \in Messages /\ m.kind = "T" /\ m.tid = thread[t].tid /\ MessageOK(m)
        /\ m.origin.thread = t
    <2>1. /\ m \in Messages /\ m.kind = "T" /\ m.tid = thread[t].tid /\ MessageOK(m)
          /\ m.origin = Origin(t, 0, <<>>)
      BY ThreadMessage
    <2> QED
      BY <2>1 DEF Origin
  <1> HIDE DEF m
  <1>3. Fits(t, m, Quitter')
    BY <1>2 DEF Fits, BufferKinds
  <1>4. Quitter' = Quitter /\ PlainOK(t)'
    BY <1>1 DEF Quitter, WritingOK, PlainOK
  <1> QED
    BY <1>1, <1>2, <1>3, <1>4, LogAnyKeepsWritingOK

(* A thread ends outside of its scopes, unless it quits                    *)
LEMMA EndBufferKeepsWritingOK ==
    ASSUME ProbesTypeOK, WritingOK, NEW t \in Threads, ScopesOK(t), StepOf(t),
           Running(t), EndBuffer(t), UNCHANGED <<stack, trail, made>>,
           enabled = "on", enabled' = "on", phase' # "init",
           Quitter' = Quitter \/ Quitter = 0,
           stack[t] = <<>> \/ (t # 0 /\ Quitter' = t)
    PROVE  WritingOK'
  <1> DEFINE m == OfThread(t, "TThreadEnd", 0)
  <1>1. Goes(t) \/ LogAny(t, m, "ending")
    BY DEF EndBuffer, Goes
  <1>2. CASE Goes(t)
    BY <1>2, GoingKeepsWritingOK
  <1>3. CASE LogAny(t, m, "ending")
    <2>1. /\ m \in Messages /\ m.kind = "TThreadEnd" /\ m.tid = thread[t].tid
          /\ MessageOK(m) /\ m.origin.thread = t
      <3>1. /\ m \in Messages /\ m.kind = "TThreadEnd" /\ m.tid = thread[t].tid
            /\ MessageOK(m) /\ m.origin = Origin(t, 0, <<>>)
        BY ThreadMessage
      <3> HIDE DEF m
      <3> QED
        BY <3>1 DEF Origin
    <2> HIDE DEF m
    <2>2. (\A k \in 1 .. Len(trail[t]) : trail[t][k].scope = 0)
          \/ (Quitter' # 0 /\ t = Quitter')
      <3>1. CASE stack[t] = <<>>
        <4>1. \A k \in 1 .. Len(trail[t]) : trail[t][k].scope # 0 => \E a \in 1 .. 0 : TRUE
          BY <3>1 DEF ScopesOK
        <4> QED
          BY <4>1
      <3>2. CASE t # 0 /\ Quitter' = t
        BY <3>2
      <3> QED
        BY <3>1, <3>2
    <2>3. Fits(t, m, Quitter')
      BY <2>1, <2>2 DEF Fits, BufferKinds, Tracked
    <2>4. PlainOK(t)' /\ thread[t].status = "running"
      BY RunningFacts DEF WritingOK, PlainOK
    <2> QED
      BY <1>3, <2>1, <2>3, <2>4, LogAnyKeepsWritingOK
  <1> QED
    BY <1>1, <1>2, <1>3

LEMMA EndThreadKeepsWritingOK ==
    ASSUME ProbesTypeOK, WritingOK, NEW t \in Threads, ScopesOK(t), EndThread(t),
           enabled = "on", enabled' = "on"
    PROVE  WritingOK'
  <1>1. /\ Running(t) /\ EndBuffer(t) /\ UNCHANGED <<phase, exit, stack, trail, made>>
        /\ stack[t] = <<>>
    BY DEF EndThread, auxVars
  <1>2. StepOf(t) /\ phase # "init" /\ Quitter' = Quitter
    BY <1>1, EndThreadIsStep, RunningFacts DEF Quitter
  <1> QED
    BY <1>1, <1>2, EndBufferKeepsWritingOK

LEMMA EndProcessKeepsWritingOK ==
    ASSUME ProbesTypeOK, ExitOK, WritingOK, NEW t \in Threads, ScopesOK(t),
           EndProcess(t), enabled = "on", enabled' = "on"
    PROVE  WritingOK'
  <1>1. /\ StepOf(t) /\ Running(t) /\ EndBuffer(t) /\ UNCHANGED <<stack, trail, made>>
        /\ phase = "running" /\ phase' = "exiting" /\ exit'.by = t
        /\ exit'.clean => stack[t] = <<>>
    BY EndProcessIsStep
  <1>2. Quitter = 0
    BY <1>1 DEF ExitOK, Quitter, NoExit
  <1>3. stack[t] = <<>> \/ (t # 0 /\ Quitter' = t)
    BY <1>1 DEF Quitter, Threads
  <1> QED
    BY <1>1, <1>2, <1>3, EndBufferKeepsWritingOK

LEMMA FlushLastKeepsWritingOK ==
    ASSUME ProbesTypeOK, WritingOK, NEW t \in Threads, FlushLast(t),
           enabled = "on", enabled' = "on"
    PROVE  WritingOK'
  <1>0. phase # "init"
    BY DEF WritingOK
  <1>1. /\ StepOf(t) /\ UNCHANGED <<phase, exit, stack, trail, made>>
        /\ thread[t].status = "ending"
        /\ thread' = [thread EXCEPT ![t].status = "gone", ![t].buffer = <<>>]
        /\ thread'[t].status = "gone" /\ thread'[t].buffer = <<>>
        /\ file' = Log(t)
    BY <1>0, FlushLastIsStep
  <1>2. thread'[t].buffering = thread[t].buffering
    BY <1>1 DEF ProbesTypeOK, ThreadStates
  <1>3. ThreadOK(t) /\ PlainOK(t) /\ Quitter' = Quitter
    BY <1>1 DEF WritingOK, Quitter
  <1>4. Living(t) /\ thread[t].buffering
    BY <1>1, <1>3 DEF ThreadOK, Living
  <1>5. Chain(Log(t), thread[t].tid, Quitter) /\ Free(Log(t), thread[t].tid)
    BY <1>1, <1>3, <1>4 DEF ThreadOK, Free
  <1>6. file' \in Seq(Messages)
    BY <1>1 DEF StepOf, ProbesTypeOK
  <1>7. Log(t)' = Log(t)
    <2>1. file' \o <<>> = file'
      BY <1>6, ConcatEmptySeq
    <2> QED
      BY <1>1, <2>1 DEF Log
  <1>8. ThreadOK(t)'
    <2>1. \A k \in 1 .. made[t] : Logged(Log(t), t, k)
      BY <1>3 DEF ThreadOK
    <2> QED
      BY <1>1, <1>2, <1>4, <1>7, <2>1 DEF ThreadOK, Living
  <1>9. PlainOK(t)'
    BY <1>1, <1>3 DEF PlainOK
  <1>10. thread[t].buffer \in Seq(Messages) /\ BufferOK(thread[t].buffer, thread[t].tid)
    BY ThreadTypes
  <1>11. file' = file \o thread[t].buffer
    BY <1>1 DEF Log
  <1> QED
    BY <1>0, <1>1, <1>3, <1>5, <1>8, <1>9, <1>10, <1>11, StepKeepsWritingOK

(***************************************************************************)
(* The scopes a thread is in                                               *)
(***************************************************************************)
LEMMA ScopeTypes ==
    ASSUME ProbesTypeOK, NEW t \in Threads
    PROVE  /\ stack[t] \in Seq(ScopeObjects) /\ trail[t] \in Seq(Places) /\ made[t] \in Nat
           /\ Len(stack[t]) \in Nat /\ Len(trail[t]) \in Nat
           /\ \A a \in 1 .. Len(stack[t]) : /\ stack[t][a].scope \in Nat
                                            /\ stack[t][a].logged \in BOOLEAN
           /\ \A k \in 1 .. Len(trail[t]) : trail[t][k].scope \in Nat
  <1>1. stack[t] \in Seq(ScopeObjects) /\ trail[t] \in Seq(Places) /\ made[t] \in Nat
    BY DEF ProbesTypeOK
  <1>2. /\ Len(stack[t]) \in Nat /\ Len(trail[t]) \in Nat
        /\ \A a \in 1 .. Len(stack[t]) : stack[t][a] \in ScopeObjects
        /\ \A k \in 1 .. Len(trail[t]) : trail[t][k] \in Places
    BY <1>1
  <1> QED
    BY <1>1, <1>2 DEF ScopeObjects, Places

LEMMA LogKeyValueKeepsScopesOK ==
    ASSUME ProbesTypeOK, NEW t \in Threads, ScopesOK(t), LogKeyValue(t)
    PROVE  ScopesOK(t)'
  <1>1. UNCHANGED <<stack, made>>
    BY LogKeyValueFacts
  <1>2. CASE trail' = trail
    BY <1>1, <1>2 DEF ScopesOK
  <1>3. CASE trail' = [trail EXCEPT ![t] = Append(@, Place("key", 0))]
    <2> DEFINE p == Place("key", 0)
               tr == trail[t]
    <2>1. p \in Places /\ p.scope = 0 /\ trail'[t] = Append(tr, p)
      BY <1>3 DEF Place, Places, ProbesTypeOK
    <2> HIDE DEF p
    <2>2. /\ Len(trail'[t]) = Len(tr) + 1 /\ trail'[t][Len(tr) + 1] = p
          /\ \A k \in 1 .. Len(tr) : trail'[t][k] = tr[k]
      BY <2>1, ScopeTypes, Appended
    <2>3. /\ Len(tr) \in Nat /\ made[t] \in Nat
          /\ \A k \in 1 .. Len(tr) + 1 : k \in 1 .. Len(tr) \/ k = Len(tr) + 1
          /\ \A k \in 1 .. Len(tr) : k \in 1 .. Len(tr) + 1
      BY ScopeTypes
    <2>4. \A a \in 1 .. Len(stack[t]) : stack[t][a].logged =>
             /\ stack[t][a].scope \in 1 .. made[t]
             /\ \E k \in 1 .. Len(tr) + 1 : trail'[t][k] = Place(stack[t][a].pn, stack[t][a].scope)
      BY <2>2, <2>3 DEF ScopesOK
    <2>5. \A k \in 1 .. Len(tr) + 1 :
             /\ trail'[t][k].scope <= made[t]
             /\ trail'[t][k].scope # 0 =>
                  /\ k \in 1 .. Len(tr)
                  /\ \E a \in 1 .. Len(stack[t]) :
                        stack[t][a].logged /\ stack[t][a].scope = trail'[t][k].scope
      BY <2>1, <2>2, <2>3 DEF ScopesOK
    <2>6. \A k, l \in 1 .. Len(tr) + 1 :
             k < l /\ trail'[t][k].scope # 0 /\ trail'[t][l].scope # 0
                => trail'[t][k].scope < trail'[t][l].scope
      BY <2>2, <2>5 DEF ScopesOK
    <2> QED
      BY <1>1, <2>2, <2>4, <2>5, <2>6 DEF ScopesOK
  <1> QED
    BY <1>2, <1>3, LogKeyValueFacts

LEMMA EnterScopeKeepsScopesOK ==
    ASSUME ProbesTypeOK, NEW t \in Threads, ScopesOK(t), NEW pn \in Scopes, EnterScope(t, pn)
    PROVE  ScopesOK(t)'
  <1> DEFINE s == stack[t]
             tr == trail[t]
  <1>1. PICK logged \in BOOLEAN, scope \in Nat :
                /\ stack' = [stack EXCEPT ![t] =
                        Append(@, [pn |-> pn, logged |-> logged, scope |-> scope])]
                /\ logged => /\ scope = made[t] + 1
                             /\ made' = [made EXCEPT ![t] = scope]
                             /\ trail' = [trail EXCEPT ![t] = Append(@, Place(pn, scope))]
                /\ ~logged => UNCHANGED <<made, trail>>
    BY EnterScopeFacts
  <1> DEFINE r == [pn |-> pn, logged |-> logged, scope |-> scope]
             p == Place(pn, scope)
             n == Len(s)
             m == Len(tr)
  <1>2. /\ r \in ScopeObjects /\ r.logged = logged /\ r.scope = scope /\ r.pn = pn
        /\ p \in Places /\ p.scope = scope
    BY DEF ScopeObjects, Places, Place
  <1>3. /\ s \in Seq(ScopeObjects) /\ tr \in Seq(Places) /\ made[t] \in Nat
        /\ n \in Nat /\ m \in Nat
        /\ \A a \in 1 .. n : s[a].scope \in Nat
        /\ \A k \in 1 .. m : tr[k].scope \in Nat
    BY ScopeTypes
  <1>4. stack'[t] = Append(s, r)
    BY <1>1 DEF ProbesTypeOK
  <1> HIDE DEF r
  <1>5. /\ Len(stack'[t]) = n + 1 /\ stack'[t][n + 1] = r
        /\ \A a \in 1 .. n : stack'[t][a] = s[a]
    BY <1>2, <1>3, <1>4, Appended
  <1>6. /\ \A a \in 1 .. n + 1 : a \in 1 .. n \/ a = n + 1
        /\ \A a \in 1 .. n : a \in 1 .. n + 1
    <2>1. n \in Nat
      BY <1>3
    <2> HIDE DEF s, tr, n, m
    <2> QED
      BY <2>1
  <1>7. /\ \A a \in 1 .. n : s[a].logged => /\ s[a].scope \in 1 .. made[t]
                                            /\ \E k \in 1 .. m : tr[k] = Place(s[a].pn, s[a].scope)
        /\ \A a, b \in 1 .. n : a < b /\ s[a].logged /\ s[b].logged => s[a].scope < s[b].scope
        /\ \A k \in 1 .. m : /\ tr[k].scope <= made[t]
                             /\ tr[k].scope # 0 =>
                                  \E a \in 1 .. n : s[a].logged /\ s[a].scope = tr[k].scope
        /\ \A k, l \in 1 .. m :
              k < l /\ tr[k].scope # 0 /\ tr[l].scope # 0 => tr[k].scope < tr[l].scope
    BY DEF ScopesOK
  <1>8. CASE ~logged
    <2>1. made'[t] = made[t] /\ trail'[t] = tr
      BY <1>1, <1>8
    <2>2. ~r.logged
      BY <1>2, <1>8
    <2> HIDE DEF s, tr, n, m
    <2>3. \A a \in 1 .. n + 1 : stack'[t][a].logged => a \in 1 .. n /\ stack'[t][a] = s[a]
      BY <1>5, <1>6, <2>2
    <2>4. \A a \in 1 .. n + 1 : stack'[t][a].logged =>
             /\ stack'[t][a].scope \in 1 .. made[t]
             /\ \E k \in 1 .. m : tr[k] = Place(stack'[t][a].pn, stack'[t][a].scope)
      BY <1>7, <2>3
    <2>5. \A a, b \in 1 .. n + 1 : a < b /\ stack'[t][a].logged /\ stack'[t][b].logged
             => stack'[t][a].scope < stack'[t][b].scope
      BY <1>7, <2>3
    <2>6. \A k \in 1 .. m : /\ tr[k].scope <= made[t]
                            /\ tr[k].scope # 0 => \E a \in 1 .. n + 1 :
                                 stack'[t][a].logged /\ stack'[t][a].scope = tr[k].scope
      BY <1>5, <1>6, <1>7
    <2>7. Len(trail'[t]) = m
      BY <2>1 DEF m
    <2> QED
      BY <1>5, <1>7, <2>1, <2>4, <2>5, <2>6, <2>7 DEF ScopesOK
  <1>9. CASE logged
    <2>1. made'[t] = made[t] + 1 /\ trail'[t] = Append(tr, p) /\ scope = made[t] + 1
      BY <1>1, <1>9 DEF ProbesTypeOK
    <2>2. r.logged
      BY <1>2, <1>9
    <2>3. p = Place(r.pn, r.scope)
      BY <1>2
    <2> HIDE DEF p
    <2>4. /\ Len(trail'[t]) = m + 1 /\ trail'[t][m + 1] = p
          /\ \A k \in 1 .. m : trail'[t][k] = tr[k]
      BY <1>2, <1>3, <2>1, Appended
    <2>5. /\ \A k \in 1 .. m + 1 : k \in 1 .. m \/ k = m + 1
          /\ \A k \in 1 .. m : k \in 1 .. m + 1
          /\ n + 1 \in 1 .. n + 1 /\ m + 1 \in 1 .. m + 1
          /\ \A k \in 1 .. made[t] : k \in 1 .. made[t] + 1 /\ k < made[t] + 1
          /\ \A k \in 1 .. m : ~ (m + 1 < k)
          /\ \A k \in 1 .. n : ~ (n + 1 < k)
          /\ made[t] + 1 \in 1 .. made[t] + 1
      BY <1>3
    <2>6. ASSUME NEW a \in 1 .. n + 1, stack'[t][a].logged
          PROVE  /\ stack'[t][a].scope \in 1 .. made'[t]
                 /\ \E k \in 1 .. m + 1 :
                       trail'[t][k] = Place(stack'[t][a].pn, stack'[t][a].scope)
      <3>1. CASE a = n + 1
        BY <1>2, <1>5, <2>1, <2>3, <2>4, <2>5, <3>1
      <3>2. CASE a \in 1 .. n
        <4>1. s[a].logged /\ stack'[t][a] = s[a]
          BY <1>5, <2>6, <3>2
        <4>2. s[a].scope \in 1 .. made[t]
              /\ \E k \in 1 .. m : tr[k] = Place(s[a].pn, s[a].scope)
          BY <1>7, <3>2, <4>1
        <4> QED
          BY <2>1, <2>4, <2>5, <4>1, <4>2
      <3> QED
        BY <1>6, <3>1, <3>2
    <2>7. ASSUME NEW a \in 1 .. n + 1, NEW b \in 1 .. n + 1, a < b,
                 stack'[t][a].logged, stack'[t][b].logged
          PROVE  stack'[t][a].scope < stack'[t][b].scope
      <3>1. a \in 1 .. n
        BY <1>3, <2>7
      <3>2. CASE b = n + 1
        BY <1>2, <1>5, <1>7, <2>1, <2>5, <2>7, <3>1, <3>2
      <3>3. CASE b \in 1 .. n
        BY <1>5, <1>7, <2>7, <3>1, <3>3
      <3> QED
        BY <1>6, <3>2, <3>3
    <2>8. ASSUME NEW k \in 1 .. m + 1
          PROVE  /\ trail'[t][k].scope <= made'[t]
                 /\ trail'[t][k].scope # 0 => \E a \in 1 .. n + 1 :
                        stack'[t][a].logged /\ stack'[t][a].scope = trail'[t][k].scope
      <3>1. CASE k = m + 1
        <4>1. trail'[t][k].scope = made'[t] /\ made'[t] \in Nat
          BY <1>2, <1>3, <2>1, <2>4, <3>1
        <4>2. stack'[t][n + 1].logged /\ stack'[t][n + 1].scope = trail'[t][k].scope
          BY <1>2, <1>5, <2>1, <2>2, <2>4, <3>1
        <4> QED
          BY <2>5, <4>1, <4>2
      <3>2. CASE k \in 1 .. m
        <4>1. trail'[t][k] = tr[k] /\ tr[k].scope <= made[t] /\ tr[k].scope \in Nat
          BY <1>3, <1>7, <2>4, <3>2
        <4>2. tr[k].scope # 0 => \E a \in 1 .. n + 1 :
                        stack'[t][a].logged /\ stack'[t][a].scope = tr[k].scope
          BY <1>5, <1>6, <1>7, <3>2
        <4>3. tr[k].scope <= made'[t]
          BY <1>3, <2>1, <4>1
        <4> QED
          BY <4>1, <4>2, <4>3
      <3> QED
        BY <2>5, <3>1, <3>2
    <2>9. ASSUME NEW k \in 1 .. m + 1, NEW l \in 1 .. m + 1, k < l,
                 trail'[t][k].scope # 0, trail'[t][l].scope # 0
          PROVE  trail'[t][k].scope < trail'[t][l].scope
      <3>1. k \in 1 .. m
        BY <1>3, <2>9
      <3>2. CASE l = m + 1
        <4>1. tr[k].scope <= made[t] /\ tr[k].scope \in Nat /\ trail'[t][k] = tr[k]
          BY <1>3, <1>7, <2>4, <3>1
        <4>2. trail'[t][l].scope = made[t] + 1
          BY <1>2, <2>1, <2>4, <3>2
        <4> QED
          BY <1>3, <4>1, <4>2
      <3>3. CASE l \in 1 .. m
        BY <1>7, <2>4, <2>9, <3>1, <3>3
      <3> QED
        BY <2>5, <3>2, <3>3
    <2> QED
      BY <1>5, <2>4, <2>6, <2>7, <2>8, <2>9 DEF ScopesOK
  <1> QED
    BY <1>8, <1>9

LEMMA LeaveScopeKeepsScopesOK ==
    ASSUME ProbesTypeOK, NEW t \in Threads, ScopesOK(t), LeaveScope(t)
    PROVE  ScopesOK(t)'
  <1> DEFINE s == stack[t]
             tr == trail[t]
             n == Len(s)
             m == Len(tr)
  <1>1. /\ stack' = [stack EXCEPT ![t] = SubSeq(@, 1, Len(@) - 1)]
        /\ made' = made /\ s # <<>>
    BY LeaveScopeFacts
  <1>2. PICK places \in Seq(Places) :
            Left(t, places) /\ trail' = [trail EXCEPT ![t] = places]
    BY LeaveScopeFacts
  <1>3. /\ s \in Seq(ScopeObjects) /\ tr \in Seq(Places) /\ made[t] \in Nat
        /\ n \in Nat /\ m \in Nat
        /\ \A a \in 1 .. n : s[a].scope \in Nat
        /\ \A k \in 1 .. m : tr[k].scope \in Nat
    BY ScopeTypes
  <1>4. n > 0 /\ Innermost(t) = s[n] /\ n \in 1 .. n
    BY <1>1, <1>3 DEF Innermost
  <1>5. trail'[t] = places /\ stack'[t] = SubSeq(s, 1, n - 1)
    BY <1>1, <1>2 DEF ProbesTypeOK
  <1>6. /\ Len(stack'[t]) = n - 1 /\ \A a \in 1 .. n - 1 : stack'[t][a] = s[a]
    BY <1>3, <1>4, <1>5
  <1>7. /\ \A a \in 1 .. n : s[a].logged => /\ s[a].scope \in 1 .. made[t]
                                            /\ \E k \in 1 .. m : tr[k] = Place(s[a].pn, s[a].scope)
        /\ \A a, b \in 1 .. n : a < b /\ s[a].logged /\ s[b].logged => s[a].scope < s[b].scope
        /\ \A k \in 1 .. m : /\ tr[k].scope <= made[t]
                             /\ tr[k].scope # 0 =>
                                  \E a \in 1 .. n : s[a].logged /\ s[a].scope = tr[k].scope
        /\ \A k, l \in 1 .. m :
              k < l /\ tr[k].scope # 0 /\ tr[l].scope # 0 => tr[k].scope < tr[l].scope
    BY DEF ScopesOK
  <1> HIDE DEF s, tr, n, m
  <1>8. \A a \in 1 .. n - 1 : a \in 1 .. n /\ a < n
    BY <1>3
  <1>9. \A a \in 1 .. n : a \in 1 .. n - 1 \/ a = n
    BY <1>3
  <1>10. CASE ~s[n].logged
    <2>1. places = tr
      BY <1>2, <1>4, <1>10 DEF Left, tr
    <2>2. \A k \in 1 .. m : tr[k].scope # 0 =>
             \E a \in 1 .. n - 1 : s[a].logged /\ s[a].scope = tr[k].scope
      BY <1>7, <1>9, <1>10
    <2>3. Len(trail'[t]) = m /\ \A k \in 1 .. m : trail'[t][k] = tr[k]
      BY <1>5, <2>1 DEF m
    <2>4. \A a \in 1 .. n - 1 : stack'[t][a].logged =>
             /\ stack'[t][a].scope \in 1 .. made[t]
             /\ \E l \in 1 .. m : trail'[t][l] = Place(stack'[t][a].pn, stack'[t][a].scope)
      BY <1>6, <1>7, <1>8, <2>3
    <2>5. \A a, b \in 1 .. n - 1 : a < b /\ stack'[t][a].logged /\ stack'[t][b].logged
             => stack'[t][a].scope < stack'[t][b].scope
      BY <1>6, <1>7, <1>8
    <2>6. \A k \in 1 .. m :
             /\ trail'[t][k].scope <= made[t]
             /\ trail'[t][k].scope # 0 => \E a \in 1 .. n - 1 :
                   stack'[t][a].logged /\ stack'[t][a].scope = trail'[t][k].scope
      <3> SUFFICES ASSUME NEW k \in 1 .. m
                   PROVE  /\ tr[k].scope <= made[t]
                          /\ tr[k].scope # 0 => \E a \in 1 .. n - 1 :
                                stack'[t][a].logged /\ stack'[t][a].scope = tr[k].scope
        BY <2>3
      <3>1. tr[k].scope <= made[t]
        BY <1>7
      <3> QED
        BY <1>6, <2>2, <3>1
    <2>7. \A k, l \in 1 .. m :
             k < l /\ trail'[t][k].scope # 0 /\ trail'[t][l].scope # 0
                => trail'[t][k].scope < trail'[t][l].scope
      BY <1>7, <2>3
    <2> QED
      BY <1>1, <1>6, <2>3, <2>4, <2>5, <2>6, <2>7 DEF ScopesOK
  <1>11. CASE s[n].logged
    <2>1. PICK k \in 1 .. m : tr[k] = Place(s[n].pn, s[n].scope) /\ s[n].scope # 0
                              /\ places = SubSeq(tr, 1, k - 1)
      BY <1>2, <1>4, <1>11 DEF Left, Outside, tr, m
    <2>2. /\ Len(trail'[t]) = k - 1 /\ \A l \in 1 .. k - 1 : trail'[t][l] = tr[l]
      <3>1. m = Len(tr)
        BY DEF m
      <3> QED
        BY <1>3, <1>5, <2>1, <3>1
    <2>3. tr[k].scope = s[n].scope
      BY <2>1 DEF Place
    <2>4. /\ \A l \in 1 .. k - 1 : l \in 1 .. m /\ l < k
          /\ \A l \in 1 .. m : l \in 1 .. k - 1 \/ l = k \/ k < l
      BY <1>3
    <2>5. ASSUME NEW a \in 1 .. n - 1, s[a].logged
          PROVE  \E l \in 1 .. k - 1 : tr[l] = Place(s[a].pn, s[a].scope)
      <3>1. PICK l \in 1 .. m : tr[l] = Place(s[a].pn, s[a].scope)
        BY <1>7, <1>8, <2>5
      <3>2. s[a].scope < s[n].scope /\ s[a].scope # 0
        BY <1>4, <1>7, <1>8, <1>11, <2>5
      <3>3. tr[l].scope = s[a].scope
        BY <3>1 DEF Place
      <3>4. /\ s[a].scope \in Nat /\ s[n].scope \in Nat
        BY <1>3, <1>4, <1>8
      <3>5. ~(k < l)
        BY <1>7, <2>1, <2>3, <3>2, <3>3, <3>4
      <3>6. l # k
        BY <2>3, <3>2, <3>3, <3>4
      <3> QED
        BY <2>4, <3>1, <3>5, <3>6
    <2>6. ASSUME NEW l \in 1 .. k - 1, tr[l].scope # 0
          PROVE  \E a \in 1 .. n - 1 : s[a].logged /\ s[a].scope = tr[l].scope
      <3>1. PICK a \in 1 .. n : s[a].logged /\ s[a].scope = tr[l].scope
        BY <1>7, <2>4, <2>6
      <3>2. tr[l].scope < tr[k].scope
        BY <1>7, <2>1, <2>3, <2>4, <2>6
      <3>3. a # n
        BY <1>3, <2>3, <2>4, <3>1, <3>2
      <3> QED
        BY <1>9, <3>1, <3>3
    <2>7. \A a \in 1 .. n - 1 : stack'[t][a].logged =>
             /\ stack'[t][a].scope \in 1 .. made[t]
             /\ \E l \in 1 .. k - 1 : trail'[t][l] = Place(stack'[t][a].pn, stack'[t][a].scope)
      BY <1>6, <1>7, <1>8, <2>2, <2>5
    <2>8. \A a, b \in 1 .. n - 1 : a < b /\ stack'[t][a].logged /\ stack'[t][b].logged
             => stack'[t][a].scope < stack'[t][b].scope
      BY <1>6, <1>7, <1>8
    <2>9. \A l \in 1 .. k - 1 :
             /\ trail'[t][l].scope <= made[t]
             /\ trail'[t][l].scope # 0 => \E a \in 1 .. n - 1 :
                   stack'[t][a].logged /\ stack'[t][a].scope = trail'[t][l].scope
      <3> SUFFICES ASSUME NEW l \in 1 .. k - 1
                   PROVE  /\ tr[l].scope <= made[t]
                          /\ tr[l].scope # 0 => \E a \in 1 .. n - 1 :
                                stack'[t][a].logged /\ stack'[t][a].scope = tr[l].scope
        BY <2>2
      <3>1. tr[l].scope <= made[t]
        BY <1>7, <2>4
      <3> QED
        BY <1>6, <2>6, <3>1
    <2>10. \A l, o \in 1 .. k - 1 :
              l < o /\ trail'[t][l].scope # 0 /\ trail'[t][o].scope # 0
                => trail'[t][l].scope < trail'[t][o].scope
      BY <1>7, <2>2, <2>4
    <2> QED
      BY <1>1, <1>6, <2>2, <2>7, <2>8, <2>9, <2>10 DEF ScopesOK
  <1> QED
    BY <1>10, <1>11

-----------------------------------------------------------------------------
(***************************************************************************)
(* The invariant of the program                                            *)
(***************************************************************************)
LEMMA ProbesInitially == ProbesInit => ProbesInv
  <1> SUFFICES ASSUME ProbesInit PROVE ProbesInv
    OBVIOUS
  <1>1. /\ phase = "init" /\ enabled = "off" /\ file = <<>> /\ exit = NoExit
        /\ stack = [t \in Threads |-> <<>>] /\ trail = [t \in Threads |-> <<>>]
        /\ made = [t \in Threads |-> 0]
    BY DEF ProbesInit
  <1>2. PICK tid \in Tids :
          thread = [t \in Threads |->
                      [status |-> IF t = Main THEN "running" ELSE "new",
                       tid |-> IF t = Main THEN tid ELSE NoTid,
                       buffering |-> FALSE, buffer |-> <<>>]]
    BY DEF ProbesInit
  <1>3. Main \in Threads
    BY MainIsThread
  <1>4. thread \in [Threads -> ThreadStates]
    <2>1. <<>> \in Seq(Messages)
      OBVIOUS
    <2> QED
      BY <1>2, <2>1 DEF ThreadStates, AllTids
  <1>5. \A t \in Threads :
           /\ ~thread[t].buffering /\ thread[t].buffer = <<>>
           /\ thread[t].status = (IF t = Main THEN "running" ELSE "new")
    BY <1>2
  <1>6. thread[Main].tid \in Tids
    BY <1>2, <1>3
  <1>7. ProbesTypeOK
    <2>1. \A S : <<>> \in Seq(S)
      OBVIOUS
    <2>2. NoExit \in [by : Threads \cup {0}, clean : BOOLEAN]
      BY DEF NoExit
    <2>3. file \in Seq(Messages)
      BY <1>1, <2>1
    <2>4. stack \in [Threads -> Seq(ScopeObjects)] /\ trail \in [Threads -> Seq(Places)]
      BY <1>1, <2>1
    <2>5. made \in [Threads -> Nat]
      BY <1>1
    <2>6. \A t \in Threads : BufferOK(thread[t].buffer, thread[t].tid)
      BY <1>5 DEF BufferOK
    <2> QED
      BY <1>1, <1>4, <1>5, <2>2, <2>3, <2>4, <2>5, <2>6 DEF ProbesTypeOK
  <1>8. ExitOK
    BY <1>1, <1>3, <1>5, <1>6 DEF ExitOK, NoExit
  <1>9. SealedOK /\ WritingOK
    BY <1>1 DEF SealedOK, WritingOK, Sealed
  <1>10. \A t \in Threads : ScopesOK(t)
    BY <1>1 DEF ScopesOK
  <1> QED
    BY <1>7, <1>8, <1>9, <1>10 DEF ProbesInv

(* What is left when the write of all messages fails is not sealed         *)
LEMMA OpenOutputKeeps ==
    ASSUME ProbesInv, OpenOutput
    PROVE  ProbesInv'
  <1> DEFINE s1 == Header("Start")
             s2 == Header("Metadata")
             s3 == OfThread(Main, "TStart", 1)
             x == <<s1, s2, s3>>
  <1>1. /\ phase = "init" /\ phase' = "running"
        /\ \/ file' = x /\ enabled' = "on"
           \/ file' \in Partly(x) /\ enabled' = "off"
        /\ UNCHANGED <<thread, stack, skip, exit, auxVars>>
    BY DEF OpenOutput
  <1>2. /\ file = <<>> /\ thread[Main].tid \in Tids /\ exit = NoExit
        /\ \A t \in Threads :
             /\ ~thread[t].buffering /\ thread[t].buffer = <<>>
             /\ thread[t].status = (IF t = Main THEN "running" ELSE "new")
             /\ trail[t] = <<>> /\ stack[t] = <<>> /\ made[t] = 0
    BY <1>1 DEF ProbesInv, ExitOK
  <1>3. Main \in Threads
    BY MainIsThread
  <1>4. /\ s1 \in Messages /\ s1.kind = "Start" /\ s2 \in Messages /\ s2.kind = "Metadata"
    BY DEF Header, Message, Nowhere, Origin, Messages, Kinds, AllTids
  <1>5. /\ s3 \in Messages /\ s3.kind = "TStart" /\ s3.tid = thread[Main].tid
        /\ MessageOK(s3)
    BY <1>3, ThreadMessage DEF ProbesInv
  <1>6. MessageOK(s1) /\ MessageOK(s2)
    BY <1>4 DEF MessageOK
  <1> HIDE DEF s1, s2, s3
  <1>7. /\ x \in Seq(Messages) /\ Len(x) = 3 /\ x[1] = s1 /\ x[2] = s2 /\ x[3] = s3
        /\ x # <<>>
        /\ \A i \in 1 .. 3 : i = 1 \/ i = 2 \/ i = 3
    BY <1>4, <1>5
  <1> HIDE DEF x
  <1>8. \A i \in 1 .. Len(x) : /\ x[i].kind \in {"Start", "Metadata", "TStart"}
                               /\ MessageOK(x[i])
    BY <1>4, <1>5, <1>6, <1>7
  <1>9. /\ file' \in Seq(Messages) /\ ~Sealed'
        /\ enabled' = "on" => file' = x
        /\ enabled' \in {"on", "off"}
    <2>1. file \in Seq(Messages)
      BY DEF ProbesInv, ProbesTypeOK
    <2>2. \A i \in 1 .. Len(x) : x[i].kind # "TEnd"
      BY <1>8
    <2>3. CASE file' = x /\ enabled' = "on"
      <3>1. 3 \in 1 .. Len(x)
        BY <1>7
      <3>2. file'[Len(file')].kind # "TEnd"
        BY <1>7, <2>2, <2>3, <3>1
      <3> QED
        BY <1>7, <2>3, <3>2 DEF Sealed
    <2>4. CASE file' \in Partly(x) /\ enabled' = "off"
      <3>1. /\ file' \in Seq(Messages)
            /\ file' # <<>> /\ file'[Len(file')].kind = "TEnd" => file' = file
        BY <1>7, <2>1, <2>2, <2>4, Written
      <3> QED
        BY <1>2, <2>4, <3>1 DEF Sealed
    <2> QED
      BY <1>1, <2>3, <2>4
  <1>10. UNCHANGED <<thread, stack, exit, trail, made>>
    BY <1>1 DEF auxVars
  <1>11. ProbesTypeOK'
    BY <1>1, <1>9, <1>10 DEF ProbesInv, ProbesTypeOK
  <1>12. ExitOK'
    BY <1>1, <1>2, <1>3, <1>9, <1>10 DEF ExitOK, NoExit
  <1>13. SealedOK'
    BY <1>9 DEF SealedOK
  <1>14. ASSUME NEW t \in Threads PROVE ScopesOK(t)'
    BY <1>10 DEF ProbesInv, ScopesOK
  <1>15. ASSUME enabled' = "on"
         PROVE  /\ FileOK' /\ file'[3].tid = thread'[Main].tid
                /\ \A t \in Threads : ThreadOK(t)' /\ PlainOK(t)'
                /\ \A t, u \in Threads : Living(t)' /\ Living(u)' /\ t # u
                      => thread'[t].tid # thread'[u].tid
                /\ \A tid \in AllTids : Free(file', tid)
    <2>1. file' = x
      BY <1>9, <1>15
    <2>2. \A tid, q : Chain(x, tid, q)
      BY <1>8 DEF Chain, Of, Tracked
    <2>3. \A tid : Free(x, tid)
      <3>1. \A tid : NoneIn(x, tid)
        BY <1>7, <1>8 DEF NoneIn, NoneBefore, Of, Tracked
      <3> QED
        BY <3>1 DEF Free
    <2>4. FileOK'
      <3>1. \A i \in 1 .. Len(x) : MessageOK(x[i]) /\ ~(i > 3)
        BY <1>7, <1>8
      <3>2. Len(x) >= 3 /\ x[1].kind = "Start" /\ x[2].kind = "Metadata"
            /\ x[3].kind = "TStart"
        BY <1>4, <1>5, <1>7
      <3> QED
        BY <2>1, <2>2, <3>1, <3>2 DEF FileOK
    <2>5. ASSUME NEW t \in Threads PROVE ThreadOK(t)' /\ PlainOK(t)'
      <3>1. Log(t)' = x
        <4>1. x \o <<>> = x
          BY <1>7, ConcatEmptySeq
        <4> QED
          BY <1>2, <1>10, <2>1, <4>1 DEF Log
      <3>2. PlainOK(t)'
        BY <1>2, <1>10 DEF PlainOK
      <3> QED
        BY <1>2, <1>10, <2>1, <2>2, <2>3, <3>1, <3>2 DEF ThreadOK, Living
    <2>6. \A t \in Threads : Living(t)' => t = Main
      BY <1>2, <1>10 DEF Living
    <2> QED
      BY <1>5, <1>7, <1>10, <2>1, <2>3, <2>4, <2>5, <2>6
  <1>16. WritingOK'
    <2> SUFFICES ASSUME enabled' = "on"
                 PROVE  /\ FileOK' /\ ~Sealed' /\ phase' # "init"
                        /\ file'[3].tid = thread'[Main].tid
                        /\ \A t \in Threads : ThreadOK(t)' /\ PlainOK(t)'
                        /\ \A t, u \in Threads : Living(t)' /\ Living(u)' /\ t # u
                              => thread'[t].tid # thread'[u].tid
                        /\ \A tid \in AllTids : Free(file', tid)
      BY DEF WritingOK
    <2> QED
      BY <1>1, <1>9, <1>15
  <1> QED
    BY <1>11, <1>12, <1>13, <1>14, <1>16 DEF ProbesInv

LEMMA SameScopes ==
    ASSUME NEW t \in Threads, ScopesOK(t),
           stack'[t] = stack[t], trail'[t] = trail[t], made'[t] = made[t]
    PROVE  ScopesOK(t)'
  <1> DEFINE Holds(s, tr, m) ==
        /\ \A a \in 1 .. Len(s) :
              s[a].logged => /\ s[a].scope \in 1 .. m
                             /\ \E k \in 1 .. Len(tr) : tr[k] = Place(s[a].pn, s[a].scope)
        /\ \A a, b \in 1 .. Len(s) : a < b /\ s[a].logged /\ s[b].logged => s[a].scope < s[b].scope
        /\ \A k \in 1 .. Len(tr) : /\ tr[k].scope <= m
                                   /\ tr[k].scope # 0 =>
                                        \E a \in 1 .. Len(s) : s[a].logged /\ s[a].scope = tr[k].scope
        /\ \A k, l \in 1 .. Len(tr) :
              k < l /\ tr[k].scope # 0 /\ tr[l].scope # 0 => tr[k].scope < tr[l].scope
  <1>1. Holds(stack[t], trail[t], made[t])
    BY DEF ScopesOK
  <1> HIDE DEF Holds
  <1>2. Holds(stack'[t], trail'[t], made'[t])
    BY <1>1
  <1> QED
    BY <1>2 DEF ScopesOK, Holds

LEMMA StartThreadKeeps ==
    ASSUME ProbesInv, NEW t \in Threads, StartThread(t)
    PROVE  ProbesInv'
  <1>1. /\ phase = "running" /\ thread[t].status = "new"
        /\ UNCHANGED <<phase, enabled, file, stack, exit, trail, made>>
    BY DEF StartThread
  <1>2. PICK tid \in Tids \ {thread[u].tid : u \in {v \in Threads :
                                       thread[v].status \in {"running", "ending"}}} :
          thread' = [thread EXCEPT ![t].status = "running", ![t].tid = tid]
    BY DEF StartThread
  <1>3. \A u \in Threads : Living(u) => thread[u].tid # tid
    BY <1>2 DEF Living
  <1>4. thread \in [Threads -> ThreadStates] /\ tid \in AllTids
    BY <1>2 DEF ProbesInv, ProbesTypeOK, AllTids
  <1>5. /\ thread' \in [Threads -> ThreadStates]
        /\ \A u \in Threads \ {t} : thread'[u] = thread[u]
        /\ thread'[t].status = "running" /\ thread'[t].tid = tid
        /\ thread'[t].buffering = thread[t].buffering
        /\ thread'[t].buffer = thread[t].buffer
    BY <1>2, <1>4 DEF ThreadStates
  <1>6. thread[t].buffer = <<>>
    BY <1>1 DEF ProbesInv, ProbesTypeOK
  <1>7. ProbesTypeOK'
    <2>1. \A u \in Threads : /\ thread'[u].status = "new" => thread'[u].buffer = <<>>
                             /\ BufferOK(thread'[u].buffer, thread'[u].tid)
      <3>1. BufferOK(<<>>, tid)
        BY DEF BufferOK
      <3>2. ProbesTypeOK
        BY DEF ProbesInv
      <3> QED
        BY <1>5, <1>6, <3>1, <3>2 DEF ProbesTypeOK
    <2>2. ProbesTypeOK
      BY DEF ProbesInv
    <2> QED
      BY <1>1, <1>5, <2>1, <2>2 DEF ProbesTypeOK
  <1>8. ExitOK'
    <2>1. ExitOK
      BY DEF ProbesInv
    <2>2. /\ exit' = NoExit /\ enabled' # "closed"
          /\ phase' = "running" /\ thread'[Main].status # "new"
      BY <1>1, <1>5, <2>1, MainIsThread DEF ExitOK
    <2>3. exit'.by = 0 /\ ~exit'.clean
      BY <2>2 DEF NoExit
    <2> QED
      BY <2>2, <2>3 DEF ExitOK
  <1>9. SealedOK'
    BY <1>1 DEF ProbesInv, SealedOK, Sealed
  <1>10. ASSUME NEW u \in Threads PROVE ScopesOK(u)'
    <2>1. ScopesOK(u)
      BY DEF ProbesInv
    <2>2. stack'[u] = stack[u] /\ trail'[u] = trail[u] /\ made'[u] = made[u]
      BY <1>1
    <2> QED
      BY <2>1, <2>2, SameScopes
  <1>11. WritingOK'
    <2> SUFFICES ASSUME enabled = "on" PROVE WritingOK'
      BY <1>1 DEF WritingOK
    <2>1. WritingOK
      BY DEF ProbesInv
    <2>2. FileOK' /\ ~Sealed' /\ phase' # "init" /\ Quitter' = Quitter
      BY <1>1, <2>1 DEF WritingOK, FileOK, Sealed, Quitter
    <2>3. file'[3].tid = thread'[Main].tid
      <3>1. Main \in Threads /\ Main # t
        BY <1>1, MainIsThread DEF ProbesInv, ExitOK
      <3> QED
        BY <1>1, <1>5, <2>1, <3>1 DEF WritingOK
    <2>4. Free(file, tid) /\ tid \in Tids /\ Chain(file, tid, Quitter)
      BY <1>2, <1>3, <1>4, <2>1 DEF WritingOK, FileOK
    <2>5. ThreadOK(t)'
      <3>1. ~thread[t].buffering /\ trail[t] = <<>> /\ made[t] = 0
        BY <1>1, <2>1 DEF WritingOK, ThreadOK
      <3>2. Log(t)' = file
        <4>1. file \o <<>> = file
          BY ConcatEmptySeq DEF ProbesInv, ProbesTypeOK
        <4> QED
          BY <1>1, <1>5, <1>6, <4>1 DEF Log
      <3> QED
        BY <1>1, <1>5, <1>6, <2>2, <2>4, <3>1, <3>2 DEF ThreadOK, Living
    <2>6. ASSUME NEW u \in Threads PROVE ThreadOK(u)' /\ PlainOK(u)'
      <3>1. PlainOK(u)'
        BY <1>1, <2>1 DEF WritingOK, PlainOK
      <3>2. CASE u # t
        BY <1>1, <1>5, <2>1, <2>2, <3>1, <3>2 DEF WritingOK, ThreadOK, Living, Log
      <3> QED
        BY <2>5, <3>1, <3>2
    <2>7. \A u, v \in Threads : Living(u)' /\ Living(v)' /\ u # v
             => thread'[u].tid # thread'[v].tid
      BY <1>3, <1>5, <2>1 DEF WritingOK, Living
    <2>8. ASSUME NEW id \in AllTids, \A u \in Threads : Living(u)' => thread'[u].tid # id
          PROVE  Free(file, id)
      <3>1. \A u \in Threads : Living(u) => thread[u].tid # id
        BY <1>1, <1>5, <2>8 DEF Living
      <3> QED
        BY <2>1, <3>1 DEF WritingOK
    <2> QED
      BY <1>1, <2>2, <2>3, <2>6, <2>7, <2>8 DEF WritingOK
  <1> QED
    BY <1>7, <1>8, <1>9, <1>10, <1>11 DEF ProbesInv

(* The destructor of the global Output seals the log                       *)
LEMMA Sealing ==
    ASSUME ProbesTypeOK, ExitOK, SealedOK, CloseOutput
    PROVE  /\ file' \in Seq(Messages)
           /\ Sealed' => /\ enabled = "on" /\ enabled' = "closed"
                         /\ file' = Append(file, OfThread(exit.by, "TEnd", 1))
  <1> DEFINE q == exit.by
             e == OfThread(q, "TEnd", 1)
             sealed == Append(file, e)
  <1>1. /\ phase = "exiting" /\ phase' = "ended" /\ thread[q].status = "gone"
        /\ \/ enabled = "off" /\ UNCHANGED <<file, enabled>>
           \/ enabled = "on" /\ enabled' = "closed" /\ file' = sealed
           \/ enabled = "on" /\ enabled' = "off" /\ file' \in Partly(<<e>>)
        /\ UNCHANGED <<thread, stack, exit, trail, made>>
    BY DEF CloseOutput, auxVars
  <1>2. ProbesTypeOK /\ ExitOK /\ SealedOK
    OBVIOUS
  <1>3. q \in Threads /\ q # 0 /\ q \in Nat
    BY <1>1, <1>2 DEF ExitOK, ProbesTypeOK, Threads
  <1>4. e \in Messages /\ e.kind = "TEnd" /\ e.tid = thread[q].tid /\ MessageOK(e)
    BY <1>2, <1>3, ThreadMessage
  <1> HIDE DEF e, q
  <1>5. file \in Seq(Messages) /\ ~Sealed
    BY <1>1, <1>2 DEF ProbesTypeOK, SealedOK
  <1>6. /\ sealed \in Seq(Messages) /\ Len(sealed) = Len(file) + 1 /\ Len(file) \in Nat
        /\ \A i \in 1 .. Len(file) : sealed[i] = file[i]
        /\ sealed[Len(file) + 1] = e /\ file \o <<e>> = sealed
    BY <1>4, <1>5, Appended
  <1> HIDE DEF sealed
  <1>7. file' \in Seq(Messages) /\ (Sealed' => enabled = "on" /\ enabled' = "closed" /\ file' = sealed)
    <2>1. CASE enabled = "off" /\ UNCHANGED <<file, enabled>>
      BY <1>5, <2>1 DEF Sealed
    <2>2. CASE enabled = "on" /\ enabled' = "closed" /\ file' = sealed
      BY <1>6, <2>2
    <2>3. CASE file' \in Partly(<<e>>)
      <3>1. PICK k \in 0 .. Len(<<e>>) - 1, torn \in {<<>>, <<Torn>>} :
                file' = file \o SubSeq(<<e>>, 1, k) \o torn
        BY <2>3 DEF Partly
      <3>2. k = 0
        OBVIOUS
      <3>3. SubSeq(<<e>>, 1, 0) = <<>>
        BY <1>4
      <3>4. file \o <<>> = file
        BY <1>5, ConcatEmptySeq
      <3>5. CASE torn = <<>>
        <4>1. file' = file
          BY <3>1, <3>2, <3>3, <3>4, <3>5
        <4> QED
          BY <1>5, <4>1 DEF Sealed
      <3>6. CASE torn = <<Torn>>
        <4>1. file' = Append(file, Torn)
          BY <1>5, <3>1, <3>2, <3>3, <3>4, <3>6, TornIsMessage, Appended
        <4>2. /\ file' \in Seq(Messages) /\ Len(file') = Len(file) + 1
              /\ file'[Len(file) + 1] = Torn
          BY <1>5, <4>1, TornIsMessage, Appended
        <4> QED
          BY <4>2, TornIsMessage DEF Sealed
      <3> QED
        BY <3>1, <3>5, <3>6
    <2> QED
      BY <1>1, <2>1, <2>2, <2>3
  <1> QED
    BY <1>7 DEF sealed, e, q

LEMMA CloseOutputKeeps ==
    ASSUME ProbesInv, CloseOutput
    PROVE  ProbesInv'
  <1> DEFINE q == exit.by
             e == OfThread(q, "TEnd", 1)
             sealed == Append(file, e)
  <1>1. /\ phase = "exiting" /\ phase' = "ended" /\ thread[q].status = "gone"
        /\ \/ enabled = "off" /\ UNCHANGED <<file, enabled>>
           \/ enabled = "on" /\ enabled' = "closed" /\ file' = sealed
           \/ enabled = "on" /\ enabled' = "off" /\ file' \in Partly(<<e>>)
        /\ UNCHANGED <<thread, stack, exit, trail, made>>
    BY DEF CloseOutput, auxVars
  <1>2. ProbesTypeOK /\ ExitOK /\ SealedOK /\ WritingOK
    BY DEF ProbesInv
  <1>3. q \in Threads /\ q # 0 /\ q \in Nat
    BY <1>1, <1>2 DEF ExitOK, ProbesTypeOK, Threads
  <1>4. e \in Messages /\ e.kind = "TEnd" /\ e.tid = thread[q].tid /\ MessageOK(e)
    BY <1>2, <1>3, ThreadMessage
  <1> HIDE DEF e, q
  <1>5. file \in Seq(Messages) /\ ~Sealed
    BY <1>1, <1>2 DEF ProbesTypeOK, SealedOK
  <1>6. /\ sealed \in Seq(Messages) /\ Len(sealed) = Len(file) + 1 /\ Len(file) \in Nat
        /\ \A i \in 1 .. Len(file) : sealed[i] = file[i]
        /\ sealed[Len(file) + 1] = e /\ file \o <<e>> = sealed
    BY <1>4, <1>5, Appended
  <1> HIDE DEF sealed
  <1>7. file' \in Seq(Messages) /\ (Sealed' => enabled = "on" /\ enabled' = "closed" /\ file' = sealed)
    BY <1>2, Sealing DEF sealed, e, q
  <1>8. ProbesTypeOK'
    BY <1>1, <1>2, <1>7 DEF ProbesTypeOK
  <1>9. enabled' # "on"
    BY <1>1
  <1>10. WritingOK'
    BY <1>9 DEF WritingOK
  <1>11. ASSUME NEW t \in Threads PROVE ScopesOK(t)'
    BY <1>1 DEF ProbesInv, ScopesOK
  <1>12. ExitOK'
    <2>1. enabled' = "closed" => Sealed'
      <3>1. Len(file) + 1 > 0
        BY <1>6
      <3>2. sealed # <<>> /\ sealed[Len(sealed)].kind = "TEnd"
        BY <1>4, <1>6, <3>1
      <3> QED
        BY <1>1, <1>2, <3>2 DEF Sealed, ExitOK
    <2> QED
      BY <1>1, <1>2, <1>3, <2>1 DEF ExitOK, q
  <1>13. ASSUME Sealed'
         PROVE  /\ FileOK' /\ enabled' # "on" /\ phase' \in {"ended", "gone"} /\ exit'.by # 0
                /\ exit'.clean =>
                     /\ file'[Len(file')].tid = file'[3].tid
                     /\ \A tid \in AllTids : Free(file', tid)
                     /\ \A t \in Threads : \A k \in 1 .. made'[t] : Logged(file', t, k)
    <2>1. enabled = "on" /\ file' = sealed
      BY <1>7, <1>13
    <2>2. /\ FileOK /\ file[3].tid = thread[Main].tid
          /\ \A t \in Threads : ThreadOK(t)
          /\ \A tid \in AllTids :
                (\A t \in Threads : Living(t) => thread[t].tid # tid) => Free(file, tid)
      BY <1>2, <2>1 DEF WritingOK
    <2>3. ASSUME NEW tid PROVE Keeps(file, sealed, tid, Quitter)
      <3>1. ~Of(e, tid)
        BY <1>4 DEF Of, Tracked
      <3>2. <<e>> \in Seq(Messages) /\ \A i \in 1 .. Len(<<e>>) : ~Of(<<e>>[i], tid)
        BY <1>4, <3>1
      <3>3. Keeps(file, file \o <<e>>, tid, Quitter)
        BY <1>5, <3>2, OthersAppend
      <3> QED
        BY <1>6, <3>3
    <2>4. Len(file) >= 3 /\ 1 \in 1 .. Len(file) /\ 2 \in 1 .. Len(file) /\ 3 \in 1 .. Len(file)
      BY <1>6, <2>2 DEF FileOK
    <2>5. ASSUME NEW i \in 1 .. Len(sealed)
          PROVE  /\ MessageOK(sealed[i])
                 /\ i > 3 => \/ sealed[i].kind \in BufferKinds
                             \/ sealed[i].kind = "TEnd" /\ i = Len(sealed)
      <3>1. CASE i = Len(file) + 1
        BY <1>4, <1>6, <3>1
      <3>2. CASE i \in 1 .. Len(file)
        <4>1. i = Len(file) => file[i].kind # "TEnd"
          BY <1>5, <1>6, <3>2 DEF Sealed
        <4> QED
          BY <1>6, <2>2, <3>2, <4>1 DEF FileOK
      <3> QED
        BY <1>6, <3>1, <3>2
    <2>6. FileOK'
      <3>1. /\ Len(sealed) >= 3 /\ sealed[1].kind = "Start" /\ sealed[2].kind = "Metadata"
            /\ sealed[3].kind = "TStart"
        BY <1>6, <2>2, <2>4 DEF FileOK
      <3>2. \A tid \in AllTids : Chain(sealed, tid, Quitter')
        BY <1>1, <2>2, <2>3 DEF FileOK, Keeps, Quitter
      <3> QED
        BY <2>1, <2>5, <3>1, <3>2 DEF FileOK
    <2>7. ASSUME exit.clean
          PROVE  /\ sealed[Len(sealed)].tid = sealed[3].tid
                 /\ \A tid \in AllTids : Free(sealed, tid)
                 /\ \A t \in Threads : \A k \in 1 .. made[t] : Logged(sealed, t, k)
      <3>1. q = Main /\ \A t \in Threads : thread[t].status \in {"new", "gone"}
        BY <1>1, <1>2, <2>7 DEF ExitOK, q
      <3>2. sealed[Len(sealed)].tid = sealed[3].tid
        BY <1>4, <1>6, <2>2, <2>4, <3>1
      <3>3. \A tid \in AllTids : Free(sealed, tid)
        BY <2>2, <2>3, <3>1 DEF Living, Keeps
      <3>4. ASSUME NEW t \in Threads, NEW k \in 1 .. made[t] PROVE Logged(sealed, t, k)
        <4>1. thread[t].buffer = <<>> /\ Logged(Log(t), t, k)
          BY <2>2, <3>1 DEF ThreadOK
        <4>2. Log(t) = file
          BY <1>5, <4>1, ConcatEmptySeq DEF Log
        <4> QED
          BY <2>3, <4>1, <4>2 DEF Keeps
      <3> QED
        BY <3>2, <3>3, <3>4
    <2> QED
      BY <1>1, <1>3, <1>9, <2>1, <2>6, <2>7 DEF q
  <1>14. SealedOK'
    BY <1>13 DEF SealedOK
  <1> QED
    BY <1>8, <1>10, <1>11, <1>12, <1>14 DEF ProbesInv

LEMMA NothingKeeps ==
    ASSUME ProbesInv, enabled' = enabled, file' = file, thread' = thread, stack' = stack,
           exit' = exit, trail' = trail, made' = made, phase' = phase \/ phase' = "gone"
    PROVE  ProbesInv'
  <1>1. ProbesTypeOK /\ ExitOK /\ SealedOK /\ WritingOK /\ \A t \in Threads : ScopesOK(t)
    BY DEF ProbesInv
  <1>2. ProbesTypeOK'
    BY <1>1 DEF ProbesTypeOK
  <1>3. ExitOK'
    BY <1>1 DEF ExitOK, Sealed
  <1>4. FileOK' <=> FileOK
    BY DEF FileOK, Quitter
  <1>5. SealedOK'
    BY <1>1, <1>4 DEF SealedOK, Sealed
  <1>6. \A t \in Threads : ThreadOK(t)' <=> ThreadOK(t)
    BY DEF ThreadOK, Log, Living, Quitter
  <1>7. \A t \in Threads : PlainOK(t)' <=> PlainOK(t)
    BY DEF PlainOK
  <1>8. WritingOK'
    <2>1. phase # "init" => phase' # "init"
      OBVIOUS
    <2>2. Sealed' <=> Sealed
      BY DEF Sealed
    <2>3. \A t \in Threads : Living(t)' <=> Living(t)
      BY DEF Living
    <2> QED
      BY <1>1, <1>4, <1>6, <1>7, <2>1, <2>2, <2>3 DEF WritingOK
  <1>9. \A t \in Threads : ScopesOK(t)'
    BY <1>1, SameScopes
  <1> QED
    BY <1>2, <1>3, <1>5, <1>8, <1>9 DEF ProbesInv

(* It is enough to look at the thread that has made the step               *)
LEMMA ThreadStepKeeps ==
    ASSUME ProbesInv, NEW t \in Threads, StepOf(t), ScopesOK(t)', ExitOK', SealedOK',
           enabled = "on" /\ enabled' = "on" => WritingOK'
    PROVE  ProbesInv'
  <1>1. /\ \A u \in Threads \ {t} : /\ stack'[u] = stack[u] /\ trail'[u] = trail[u]
                                    /\ made'[u] = made[u]
        /\ enabled' = enabled \/ enabled' = "off"
        /\ ProbesTypeOK'
    BY DEF StepOf
  <1>2. \A u \in Threads \ {t} : ScopesOK(u)'
    <2>1. \A u \in Threads : ScopesOK(u)
      BY DEF ProbesInv
    <2> QED
      BY <1>1, <2>1, SameScopes
  <1>3. WritingOK'
    BY <1>1 DEF WritingOK
  <1> QED
    BY <1>1, <1>2, <1>3 DEF ProbesInv

LEMMA ProbesInvIsInductive ==
    ASSUME ProbesInv, [ProbesNext]_probeVars
    PROVE  ProbesInv'
  <1>1. ProbesTypeOK /\ ExitOK /\ SealedOK /\ WritingOK /\ \A t \in Threads : ScopesOK(t)
    BY DEF ProbesInv
  <1>2. CASE UNCHANGED probeVars
    BY <1>2, NothingKeeps DEF probeVars, auxVars
  <1>3. CASE Vanish
    BY <1>3, NothingKeeps DEF Vanish, auxVars
  <1>4. CASE OpenOutput
    BY <1>4, OpenOutputKeeps
  <1>5. CASE CloseOutput
    BY <1>5, CloseOutputKeeps
  <1>6. ASSUME NEW t \in Threads, StartThread(t) PROVE ProbesInv'
    BY <1>6, StartThreadKeeps
  <1>7. ASSUME NEW t \in Threads, StepOf(t), UNCHANGED <<phase, exit>>, ScopesOK(t)',
               exit.by # t \/ thread'[t].status = "gone",
               enabled = "on" /\ enabled' = "on" => WritingOK'
        PROVE  ProbesInv'
    <2>1. ExitOK' /\ SealedOK'
      BY <1>1, <1>7, StepKeepsExitOK, StepKeepsSealedOK
    <2> QED
      BY <1>7, <2>1, ThreadStepKeeps
  <1>8. ASSUME NEW t \in Threads, UNCHANGED <<stack, trail, made>> PROVE ScopesOK(t)'
    BY <1>1, <1>8 DEF ScopesOK
  <1>9. ASSUME NEW t \in Threads, NEW pn \in Scopes, EnterScope(t, pn) PROVE ProbesInv'
    <2>1. StepOf(t) /\ UNCHANGED <<phase, exit>> /\ exit.by # t
      BY <1>1, <1>9, EnterScopeIsStep, EnterScopeFacts, RunningFacts
    <2>2. ScopesOK(t)'
      BY <1>1, <1>9, EnterScopeKeepsScopesOK
    <2>3. enabled = "on" /\ enabled' = "on" => WritingOK'
      BY <1>1, <1>9, EnterScopeKeepsWritingOK
    <2> QED
      BY <1>7, <2>1, <2>2, <2>3
  <1>10. ASSUME NEW t \in Threads, LeaveScope(t) PROVE ProbesInv'
    <2>1. StepOf(t) /\ UNCHANGED <<phase, exit>> /\ exit.by # t
      BY <1>1, <1>10, LeaveScopeIsStep, LeaveScopeFacts, RunningFacts
    <2>2. ScopesOK(t)'
      BY <1>1, <1>10, LeaveScopeKeepsScopesOK
    <2>3. enabled = "on" /\ enabled' = "on" => WritingOK'
      BY <1>1, <1>10, LeaveScopeKeepsWritingOK
    <2> QED
      BY <1>7, <2>1, <2>2, <2>3
  <1>11. ASSUME NEW t \in Threads, LogKeyValue(t) PROVE ProbesInv'
    <2>1. StepOf(t) /\ UNCHANGED <<phase, exit>> /\ exit.by # t
      BY <1>1, <1>11, LogKeyValueIsStep, LogKeyValueFacts, RunningFacts
    <2>2. ScopesOK(t)'
      BY <1>1, <1>11, LogKeyValueKeepsScopesOK
    <2>3. enabled = "on" /\ enabled' = "on" => WritingOK'
      BY <1>1, <1>11, LogKeyValueKeepsWritingOK
    <2> QED
      BY <1>7, <2>1, <2>2, <2>3
  <1>12. ASSUME NEW t \in Threads, LogPoint(t) PROVE ProbesInv'
    <2>1. Running(t) /\ UNCHANGED <<stack, trail, made>>
      BY <1>12 DEF LogPoint
    <2>2. StepOf(t) /\ UNCHANGED <<phase, exit>> /\ exit.by # t
      BY <1>1, <1>12, <2>1, LogPointIsStep, RunningFacts
    <2>3. enabled = "on" /\ enabled' = "on" => WritingOK'
      BY <1>1, <1>12, LogPointKeepsWritingOK
    <2> QED
      BY <1>7, <1>8, <2>1, <2>2, <2>3
  <1>13. ASSUME NEW t \in Threads, EndThread(t) PROVE ProbesInv'
    <2>1. Running(t) /\ UNCHANGED <<stack, trail, made>>
      BY <1>13 DEF EndThread, auxVars
    <2>2. StepOf(t) /\ UNCHANGED <<phase, exit>> /\ exit.by # t
      BY <1>1, <1>13, <2>1, EndThreadIsStep, RunningFacts
    <2>3. enabled = "on" /\ enabled' = "on" => WritingOK'
      BY <1>1, <1>13, EndThreadKeepsWritingOK
    <2> QED
      BY <1>7, <1>8, <2>1, <2>2, <2>3
  <1>14. ASSUME NEW t \in Threads, FlushLast(t) PROVE ProbesInv'
    <2>1. phase # "init"
      BY <1>1, <1>14 DEF FlushLast, ExitOK
    <2>2. /\ StepOf(t) /\ UNCHANGED <<phase, exit, stack, trail, made>>
          /\ thread'[t].status = "gone"
      BY <1>1, <1>14, <2>1, FlushLastIsStep
    <2>3. enabled = "on" /\ enabled' = "on" => WritingOK'
      BY <1>1, <1>14, FlushLastKeepsWritingOK
    <2> QED
      BY <1>7, <1>8, <2>2, <2>3
  <1>15. ASSUME NEW t \in Threads, EndProcess(t) PROVE ProbesInv'
    <2>1. StepOf(t) /\ UNCHANGED <<stack, trail, made>>
      BY <1>1, <1>15, EndProcessIsStep
    <2>2. ExitOK' /\ SealedOK'
      BY <1>1, <1>15, EndProcessKeeps
    <2>3. enabled = "on" /\ enabled' = "on" => WritingOK'
      BY <1>1, <1>15, EndProcessKeepsWritingOK
    <2> QED
      BY <1>8, <2>1, <2>2, <2>3, ThreadStepKeeps
  <1> QED
    BY <1>2, <1>3, <1>4, <1>5, <1>6, <1>9, <1>10, <1>11, <1>12, <1>13, <1>14, <1>15
       DEF ProbesNext

(* Whatever threads do and when, whatever is written and whatever fails:   *)
(* see ProbesInv                                                           *)
THEOREM ProbesInvHolds == Spec => []ProbesInv
  <1>1. Init => ProbesInv
    BY ProbesInitially DEF Init
  <1>2. ProbesInv /\ [Next]_vars => ProbesInv'
    BY ProbesInvIsInductive DEF Next, Program, Evaluate, vars
  <1> QED
    BY <1>1, <1>2, PTL DEF Spec

-----------------------------------------------------------------------------
(***************************************************************************)
(* What is read                                                            *)
(***************************************************************************)
(* The places after a message                                              *)
LEMMA AfterFacts ==
    ASSUME NEW m \in Messages
    PROVE  /\ m.origin.trail \in Seq(Places) /\ After(m) \in Seq(Places)
           /\ Len(After(m)) \in Nat /\ Len(m.origin.trail) \in Nat
           /\ m.kind \in {"TS", "KeyValue"} =>
                /\ Len(After(m)) = Len(m.origin.trail) + 1
                /\ After(m)[Len(After(m))] = Place(m.pn, m.origin.scope)
                /\ m.origin.trail = SubSeq(After(m), 1, Len(After(m)) - 1)
                /\ \A k \in 1 .. Len(m.origin.trail) :
                      /\ After(m)[k] = m.origin.trail[k]
                      /\ SubSeq(After(m), 1, k - 1) = SubSeq(m.origin.trail, 1, k - 1)
           /\ m.kind \notin {"TS", "KeyValue"} => After(m) = m.origin.trail
  <1> DEFINE tr == m.origin.trail
             p == Place(m.pn, m.origin.scope)
  <1>1. tr \in Seq(Places) /\ p \in Places
    BY DEF Messages, Places, Place
  <1>2. CASE m.kind \in {"TS", "KeyValue"}
    <2>1. After(m) = Append(tr, p)
      BY <1>2 DEF After
    <2> HIDE DEF tr, p
    <2>2. /\ Append(tr, p) \in Seq(Places) /\ Len(Append(tr, p)) = Len(tr) + 1
          /\ \A k \in 1 .. Len(tr) : Append(tr, p)[k] = tr[k]
          /\ Append(tr, p)[Len(tr) + 1] = p /\ Len(tr) \in Nat
      BY <1>1
    <2>3. \A k \in 1 .. Len(tr) + 1 : SubSeq(Append(tr, p), 1, k - 1) = SubSeq(tr, 1, k - 1)
      BY <1>1, <2>2
    <2>4. SubSeq(tr, 1, Len(tr)) = tr
      BY <1>1
    <2>5. tr = SubSeq(After(m), 1, Len(After(m)) - 1)
      BY <2>1, <2>2, <2>3, <2>4
    <2>6. /\ After(m) \in Seq(Places) /\ Len(After(m)) = Len(tr) + 1
          /\ After(m)[Len(After(m))] = p /\ Len(tr) \in Nat
          /\ \A k \in 1 .. Len(tr) :
                /\ After(m)[k] = tr[k]
                /\ SubSeq(After(m), 1, k - 1) = SubSeq(tr, 1, k - 1)
      BY <2>1, <2>2, <2>3
    <2> QED
      BY <1>2, <1>1, <2>5, <2>6 DEF tr, p
  <1>3. CASE m.kind \notin {"TS", "KeyValue"}
    BY <1>1, <1>3 DEF After
  <1> QED
    BY <1>2, <1>3

(* No two messages of an id are the last one                               *)
LEMMA OneLast ==
    ASSUME NEW log, NEW tid, NEW pos \in Nat, NEW i, LastBefore(log, tid, pos, i)
    PROVE  /\ ~NoneBefore(log, tid, pos) /\ i \in 1 .. pos - 1 /\ Of(log[i], tid)
           /\ \A j : LastBefore(log, tid, pos, j) => j = i
  <1>1. ASSUME NEW j, LastBefore(log, tid, pos, j) PROVE j = i
    <2>1. i \in 1 .. pos - 1 /\ j \in 1 .. pos - 1 /\ Of(log[i], tid) /\ Of(log[j], tid)
      BY <1>1 DEF LastBefore
    <2>2. i \notin j + 1 .. pos - 1 /\ j \notin i + 1 .. pos - 1
      BY <1>1, <2>1 DEF LastBefore
    <2> QED
      BY <2>1, <2>2
  <1> QED
    BY <1>1 DEF LastBefore, NoneBefore

LEMMA NextLast ==
    ASSUME NEW log, NEW tid, NEW pos \in Nat \ {0}
    PROVE  /\ Of(log[pos], tid) => LastBefore(log, tid, pos + 1, pos)
           /\ ~Of(log[pos], tid) =>
                /\ NoneBefore(log, tid, pos) => NoneBefore(log, tid, pos + 1)
                /\ \A i : LastBefore(log, tid, pos, i) => LastBefore(log, tid, pos + 1, i)
  BY DEF LastBefore, NoneBefore

(* Kinds and messages of the spans of the stack s remain                   *)
Keeping(sp, sp2, s) ==
    \A k \in 1 .. Len(s) : sp2[s[k]].kind = sp[s[k]].kind /\ sp2[s[k]].start = sp[s[k]].start

LEMMA StackAfterStays ==
    ASSUME NEW log, NEW sp, NEW sp2, NEW s \in Seq(Nat), NEW r \in {0, 1}, NEW m \in Messages,
           Keeping(sp, sp2, s), StackAfter(log, sp, s, r, m)
    PROVE  StackAfter(log, sp2, s, r, m)
  <1>1. CASE m.kind = "TThreadEnd"
    BY <1>1 DEF StackAfter
  <1>2. CASE m.kind # "TThreadEnd"
    <2> DEFINE a == After(m)
    <2>1. Len(a) \in Nat /\ Len(s) \in Nat
      BY AfterFacts
    <2>2. /\ Len(s) = r + 1 + Len(a)
          /\ sp[s[r + 1]].kind = "Thread"
          /\ \A k \in r + 1 .. Len(s) : log[sp[s[k]].start].origin.thread = m.origin.thread
          /\ \A k \in 1 .. Len(a) :
                IsAt(sp[s[r + 1 + k]].kind, log[sp[s[r + 1 + k]].start], a, k)
      BY <1>2 DEF StackAfter
    <2> HIDE DEF a
    <2>3. \A k \in r + 1 .. Len(s) : k \in 1 .. Len(s)
      BY <2>1
    <2>4. \A k \in 1 .. Len(a) : r + 1 + k \in 1 .. Len(s)
      BY <2>1, <2>2
    <2>5. r + 1 \in 1 .. Len(s)
      BY <2>1, <2>2
    <2>6. /\ sp2[s[r + 1]].kind = "Thread"
          /\ \A k \in r + 1 .. Len(s) : log[sp2[s[k]].start].origin.thread = m.origin.thread
          /\ \A k \in 1 .. Len(a) :
                IsAt(sp2[s[r + 1 + k]].kind, log[sp2[s[r + 1 + k]].start], a, k)
      BY <2>2, <2>3, <2>4, <2>5 DEF Keeping
    <2> QED
      BY <1>2, <2>2, <2>6 DEF StackAfter, a
  <1> QED
    BY <1>1, <1>2

(* A message of no importance to a thread                                  *)
LEMMA StackStays ==
    ASSUME NEW log \in Seq(Messages), NEW sp, NEW sp2, NEW s \in Seq(Nat), NEW tid,
           NEW pos \in 3 .. Len(log), ~Of(log[pos], tid), pos > 3 \/ tid # log[3].tid,
           Keeping(sp, sp2, s), StackFits(log, sp, s, tid, pos)
    PROVE  StackFits(log, sp2, s, tid, pos + 1)
  <1> DEFINE r == Roots(log, tid, pos)
  <1>1. /\ pos \in Nat \ {0} /\ Roots(log, tid, pos + 1) = r /\ r \in {0, 1}
    BY DEF Roots
  <1>2. r = 1 => s # <<>> /\ sp2[s[1]].kind = "Process"
    <2>1. r = 1 => s # <<>> /\ sp[s[1]].kind = "Process"
      BY DEF StackFits
    <2>2. s # <<>> => 1 \in 1 .. Len(s)
      OBVIOUS
    <2> QED
      BY <2>1, <2>2 DEF Keeping
  <1>3. CASE NoneBefore(log, tid, pos) /\ Len(s) = r
    BY <1>1, <1>2, <1>3, NextLast DEF StackFits
  <1>4. CASE \E i \in 1 .. pos - 1 : LastBefore(log, tid, pos, i) /\ StackAfter(log, sp, s, r, log[i])
    <2>1. PICK i \in 1 .. pos - 1 : LastBefore(log, tid, pos, i) /\ StackAfter(log, sp, s, r, log[i])
      BY <1>4
    <2>2. log[i] \in Messages /\ i \in 1 .. (pos + 1) - 1
      BY <1>1
    <2>3. StackAfter(log, sp2, s, r, log[i])
      BY <1>1, <2>1, <2>2, StackAfterStays
    <2>4. LastBefore(log, tid, pos + 1, i)
      BY <1>1, <2>1, NextLast
    <2> QED
      BY <1>1, <1>2, <2>2, <2>3, <2>4 DEF StackFits
  <1> QED
    BY <1>3, <1>4 DEF StackFits

(* The thread of a message                                                 *)
LEMMA StackFitsAt ==
    ASSUME NEW log, NEW sp, NEW s, NEW tid, NEW q, NEW pos \in Nat, pos > 3,
           Chained(log, tid, pos, q), StackFits(log, sp, s, tid, pos)
    PROVE  LET r == Roots(log, tid, pos)
               m == log[pos]
           IN  /\ r \in {0, 1} /\ Roots(log, tid, pos + 1) = r
               /\ r = 1 => s # <<>> /\ sp[s[1]].kind = "Process"
               /\ \/ m.kind = "TThreadStart" /\ Len(s) = r
                  \/ \E i \in 1 .. pos - 1 :
                        /\ LastBefore(log, tid, pos, i) /\ log[i].kind # "TThreadEnd"
                        /\ Follows(log[i], m, q) /\ StackAfter(log, sp, s, r, log[i])
  <1> DEFINE r == Roots(log, tid, pos)
             m == log[pos]
  <1>1. r \in {0, 1} /\ Roots(log, tid, pos + 1) = r
    BY DEF Roots
  <1>2. r = 1 => s # <<>> /\ sp[s[1]].kind = "Process"
    BY DEF StackFits
  <1>3. CASE NoneBefore(log, tid, pos) /\ m.kind = "TThreadStart"
    <2>1. \A i : ~LastBefore(log, tid, pos, i)
      BY <1>3, OneLast
    <2>2. Len(s) = r
      BY <2>1 DEF StackFits
    <2> QED
      BY <1>1, <1>2, <1>3, <2>2
  <1>4. CASE \E i \in 1 .. pos - 1 : LastBefore(log, tid, pos, i) /\ Follows(log[i], m, q)
    <2>1. PICK i \in 1 .. pos - 1 : LastBefore(log, tid, pos, i) /\ Follows(log[i], m, q)
      BY <1>4
    <2>2. ~NoneBefore(log, tid, pos) /\ \A j : LastBefore(log, tid, pos, j) => j = i
      BY <2>1, OneLast
    <2>3. StackAfter(log, sp, s, r, log[i])
      BY <2>2 DEF StackFits
    <2>4. CASE log[i].kind = "TThreadEnd"
      <3>1. m.kind = "TThreadStart"
        BY <2>1, <2>4 DEF Follows
      <3>2. Len(s) = r
        BY <2>3, <2>4 DEF StackAfter
      <3> QED
        BY <1>1, <1>2, <3>1, <3>2
    <2> QED
      BY <1>1, <1>2, <2>1, <2>3, <2>4
  <1> QED
    BY <1>3, <1>4 DEF Chained

LEMMA StackFitsNow ==
    ASSUME NEW log, NEW sp, NEW s, NEW tid, NEW pos \in Nat \ {0},
           Of(log[pos], tid), NEW r, r = Roots(log, tid, pos + 1),
           r = 1 => s # <<>> /\ sp[s[1]].kind = "Process",
           StackAfter(log, sp, s, r, log[pos])
    PROVE  StackFits(log, sp, s, tid, pos + 1)
  <1>1. LastBefore(log, tid, pos + 1, pos) /\ pos \in 1 .. (pos + 1) - 1
    BY NextLast
  <1> QED
    BY <1>1 DEF StackFits

(* A span is opened                                                        *)
Opening(sp, sp2, s, id, kind, pos) ==
    /\ Keeping(sp, sp2, s) /\ sp2[id].kind = kind /\ sp2[id].start = pos

LEMMA ThreadStartFits ==
    ASSUME NEW log \in Seq(Messages), NEW sp, NEW sp2, NEW s \in Seq(Nat), NEW id \in Nat,
           NEW tid, NEW q, NEW pos \in 4 .. Len(log),
           log[pos].kind = "TThreadStart", log[pos].tid = tid, MessageOK(log[pos]),
           Chained(log, tid, pos, q), StackFits(log, sp, s, tid, pos),
           Opening(sp, sp2, s, id, "Thread", pos)
    PROVE  StackFits(log, sp2, Append(s, id), tid, pos + 1)
  <1> DEFINE r == Roots(log, tid, pos)
             m == log[pos]
             s2 == Append(s, id)
  <1>1. pos \in Nat \ {0} /\ pos > 3 /\ m \in Messages /\ Len(s) \in Nat
    OBVIOUS
  <1>2. /\ r \in {0, 1} /\ Roots(log, tid, pos + 1) = r
        /\ r = 1 => s # <<>> /\ sp[s[1]].kind = "Process"
        /\ \/ Len(s) = r
           \/ \E i \in 1 .. pos - 1 :
                 log[i].kind # "TThreadEnd" /\ Follows(log[i], m, q)
    BY <1>1, StackFitsAt
  <1>3. Len(s) = r
    BY <1>2 DEF Follows
  <1>4. m.origin.trail = <<>> /\ After(m) = <<>>
    BY DEF MessageOK, After
  <1>5. /\ Len(s2) = r + 1 /\ s2[r + 1] = id /\ \A k \in 1 .. r : s2[k] = s[k]
    BY <1>2, <1>3, Appended
  <1> HIDE DEF r, s2
  <1>6. StackAfter(log, sp2, s2, r, m)
    <2>1. Len(After(m)) = 0
      BY <1>4
    <2>2. \A k \in r + 1 .. Len(s2) : k = r + 1
      BY <1>2, <1>5
    <2> QED
      BY <1>2, <1>5, <2>1, <2>2 DEF StackAfter, Opening
  <1>7. r = 1 => s2 # <<>> /\ sp2[s2[1]].kind = "Process"
    <2>1. r = 1 => 1 \in 1 .. Len(s) /\ 1 \in 1 .. r
      BY <1>1, <1>3
    <2>2. r = 1 => sp2[s[1]].kind = "Process"
      BY <1>2, <2>1 DEF Opening, Keeping
    <2>3. s2 # <<>>
      BY <1>2, <1>5
    <2> QED
      BY <1>5, <2>1, <2>2, <2>3
  <1>8. Of(m, tid)
    BY DEF Of, Tracked
  <1> QED
    BY <1>1, <1>2, <1>6, <1>7, <1>8, StackFitsNow DEF s2

(* A scope or a key-value goes into the innermost of the places            *)
LEMMA ScopeStartFits ==
    ASSUME NEW log \in Seq(Messages), NEW sp, NEW sp2, NEW s \in Seq(Nat), NEW id \in Nat,
           NEW tid, NEW q, NEW pos \in 4 .. Len(log),
           log[pos].kind \in {"TS", "KeyValue"}, log[pos].tid = tid, MessageOK(log[pos]),
           Chained(log, tid, pos, q), StackFits(log, sp, s, tid, pos),
           Opening(sp, sp2, s, id, IF log[pos].kind = "TS" THEN "Scope" ELSE "KeyValue", pos)
    PROVE  /\ StackFits(log, sp2, Append(s, id), tid, pos + 1)
           /\ s # <<>> /\ ParentFits(log, sp, s[Len(s)], log[pos])
  <1> DEFINE r == Roots(log, tid, pos)
             m == log[pos]
             s2 == Append(s, id)
  <1>1. pos \in Nat \ {0} /\ pos > 3 /\ m \in Messages /\ Len(s) \in Nat
    OBVIOUS
  <1>2. /\ r \in {0, 1} /\ Roots(log, tid, pos + 1) = r
        /\ r = 1 => s # <<>> /\ sp[s[1]].kind = "Process"
        /\ \E i \in 1 .. pos - 1 :
                 /\ log[i].kind # "TThreadEnd" /\ Follows(log[i], m, q)
                 /\ StackAfter(log, sp, s, r, log[i])
    BY <1>1, StackFitsAt
  <1>3. PICK i \in 1 .. pos - 1 :
                 /\ log[i].kind # "TThreadEnd" /\ Follows(log[i], m, q)
                 /\ StackAfter(log, sp, s, r, log[i])
    BY <1>2
  <1> DEFINE a == After(log[i])
             b == After(m)
  <1>4. m.origin.thread = log[i].origin.thread /\ m.origin.trail = a
    BY <1>3 DEF Follows
  <1>5. a \in Seq(Places) /\ Len(a) \in Nat
    BY <1>1, <1>3, AfterFacts
  <1>6. /\ Len(b) = Len(a) + 1 /\ b[Len(b)] = Place(m.pn, m.origin.scope)
        /\ a = SubSeq(b, 1, Len(b) - 1)
        /\ \A k \in 1 .. Len(a) : b[k] = a[k] /\ SubSeq(b, 1, k - 1) = SubSeq(a, 1, k - 1)
    <2>1. LET tr == m.origin.trail
          IN  /\ Len(b) = Len(tr) + 1 /\ b[Len(b)] = Place(m.pn, m.origin.scope)
              /\ tr = SubSeq(b, 1, Len(b) - 1)
              /\ \A k \in 1 .. Len(tr) : b[k] = tr[k] /\ SubSeq(b, 1, k - 1) = SubSeq(tr, 1, k - 1)
      BY <1>1, AfterFacts
    <2> HIDE DEF a, b
    <2> QED
      BY <1>4, <2>1
  <1>7. /\ Len(s) = r + 1 + Len(a)
        /\ sp[s[r + 1]].kind = "Thread"
        /\ \A k \in r + 1 .. Len(s) : log[sp[s[k]].start].origin.thread = m.origin.thread
        /\ \A k \in 1 .. Len(a) :
                IsAt(sp[s[r + 1 + k]].kind, log[sp[s[r + 1 + k]].start], a, k)
    BY <1>3, <1>4 DEF StackAfter
  <1>8. s2 \in Seq(Nat) /\ Len(s2) = Len(s) + 1 /\ s2[Len(s) + 1] = id
        /\ \A k \in 1 .. Len(s) : s2[k] = s[k]
    BY Appended
  <1>9. /\ sp2[id].kind = IF m.kind = "TS" THEN "Scope" ELSE "KeyValue"
        /\ sp2[id].start = pos
        /\ \A k \in 1 .. Len(s) : sp2[s[k]].kind = sp[s[k]].kind /\ sp2[s[k]].start = sp[s[k]].start
    BY DEF Opening, Keeping
  <1> HIDE DEF r, s2, a, b
  <1>a. /\ r \in Nat /\ Len(a) \in Nat /\ Len(s) = r + 1 + Len(a)
        /\ Len(b) = Len(a) + 1 /\ Len(s2) = r + 1 + Len(b)
    <2>1. r \in Nat
      BY <1>2
    <2>2. Len(s) = r + 1 + Len(a)
      BY <1>7
    <2>3. Len(b) = Len(a) + 1
      BY <1>6
    <2>4. Len(s2) = Len(s) + 1
      BY <1>8
    <2> QED
      BY <1>5, <2>1, <2>2, <2>3, <2>4
  <1>10. IsAt(sp2[id].kind, m, b, Len(b))
    <2>1. (m.kind = "TS" => m.origin.scope # 0) /\ (m.kind = "KeyValue" => m.origin.scope = 0)
      BY DEF MessageOK
    <2>2. b[Len(b)].scope = m.origin.scope
      BY <1>6 DEF Place
    <2> QED
      BY <1>4, <1>6, <1>9, <2>1, <2>2 DEF IsAt
  <1>11. ASSUME NEW k \in 1 .. Len(b)
         PROVE  IsAt(sp2[s2[r + 1 + k]].kind, log[sp2[s2[r + 1 + k]].start], b, k)
    <2>1. CASE k = Len(b)
      <3>1. s2[r + 1 + k] = id
        BY <1>a, <1>8, <2>1
      <3> QED
        BY <1>9, <1>10, <2>1, <3>1
    <2>2. CASE k # Len(b)
      <3>1. k \in 1 .. Len(a) /\ r + 1 + k \in 1 .. Len(s)
        <4>1. k \in 1 .. Len(a)
          BY <1>a, <2>2
        <4> QED
          BY <1>a, <4>1
      <3>2. IsAt(sp[s[r + 1 + k]].kind, log[sp[s[r + 1 + k]].start], a, k)
        BY <1>7, <3>1
      <3>3. b[k] = a[k] /\ SubSeq(b, 1, k - 1) = SubSeq(a, 1, k - 1)
        BY <1>6, <3>1
      <3>4. IsAt(sp[s[r + 1 + k]].kind, log[sp[s[r + 1 + k]].start], b, k)
        BY <3>2, <3>3 DEF IsAt
      <3> QED
        BY <1>8, <1>9, <3>1, <3>4
    <2> QED
      BY <2>1, <2>2
  <1>12. StackAfter(log, sp2, s2, r, m)
    <2>1. Len(s2) = r + 1 + Len(b)
      BY <1>a
    <2>4. r + 1 \in 1 .. Len(s)
      BY <1>a
    <2>2. sp2[s2[r + 1]].kind = "Thread"
      BY <1>7, <1>8, <1>9, <2>4
    <2>3. ASSUME NEW k \in r + 1 .. Len(s2)
          PROVE  log[sp2[s2[k]].start].origin.thread = m.origin.thread
      <3>1. CASE k = Len(s) + 1
        BY <1>8, <1>9, <3>1
      <3>2. CASE k # Len(s) + 1
        <4>1. k \in r + 1 .. Len(s) /\ k \in 1 .. Len(s)
          BY <1>1, <1>2, <1>8, <3>2
        <4>2. s2[k] = s[k] /\ sp2[s[k]].start = sp[s[k]].start
          BY <1>8, <1>9, <4>1
        <4> QED
          BY <1>7, <4>1, <4>2
      <3> QED
        BY <3>1, <3>2
    <2> QED
      BY <1>11, <2>1, <2>2, <2>3 DEF StackAfter, b
  <1>13. r = 1 => s2 # <<>> /\ sp2[s2[1]].kind = "Process"
    <2>1. 1 \in 1 .. Len(s) /\ s2 # <<>>
      BY <1>a, <1>8
    <2> QED
      BY <1>2, <1>8, <1>9, <2>1
  <1>14. Of(m, tid)
    BY DEF Of, Tracked
  <1>15. StackFits(log, sp2, s2, tid, pos + 1)
    BY <1>1, <1>2, <1>12, <1>13, <1>14, StackFitsNow
  <1>16. s # <<>> /\ Len(s) \in r + 1 .. Len(s)
    BY <1>a
  <1>17. ParentFits(log, sp, s[Len(s)], m)
    <2> DEFINE p == s[Len(s)]
               above == log[sp[p].start]
    <2>1. above.origin.thread = m.origin.thread
      BY <1>7, <1>16
    <2>2. CASE Len(a) = 0
      <3>1. Len(s) = r + 1 /\ m.origin.trail = <<>>
        BY <1>a, <1>4, <1>5, <2>2
      <3> QED
        BY <1>7, <2>1, <3>1 DEF ParentFits
    <2>3. CASE Len(a) # 0
      <3>1. Len(a) \in 1 .. Len(a) /\ Len(s) = r + 1 + Len(a)
        BY <1>5, <1>7, <2>3
      <3>2. IsAt(sp[p].kind, above, a, Len(a))
        BY <1>7, <3>1
      <3>3. /\ sp[p].kind \in {"Scope", "KeyValue"}
            /\ above.origin.trail = SubSeq(a, 1, Len(a) - 1)
            /\ Place(above.pn, above.origin.scope) = a[Len(a)]
        BY <3>2 DEF IsAt
      <3>4. Append(SubSeq(a, 1, Len(a) - 1), a[Len(a)]) = a
        BY <1>5, <3>1
      <3> QED
        BY <1>4, <2>1, <3>3, <3>4 DEF ParentFits
    <2> QED
      BY <2>2, <2>3
  <1> QED
    BY <1>15, <1>16, <1>17 DEF s2

LEMMA StackKept ==
    ASSUME NEW log \in Seq(Messages), NEW sp, NEW sp2, NEW s \in Seq(Nat), NEW tid,
           NEW pos \in 3 .. Len(log) + 1, Keeping(sp, sp2, s), StackFits(log, sp, s, tid, pos)
    PROVE  StackFits(log, sp2, s, tid, pos)
  <1> DEFINE r == Roots(log, tid, pos)
  <1>1. r \in {0, 1}
    BY DEF Roots
  <1>2. r = 1 => s # <<>> /\ sp2[s[1]].kind = "Process"
    <2>1. r = 1 => s # <<>> /\ sp[s[1]].kind = "Process"
      BY DEF StackFits
    <2>2. s # <<>> => 1 \in 1 .. Len(s)
      OBVIOUS
    <2> QED
      BY <2>1, <2>2 DEF Keeping
  <1>3. CASE NoneBefore(log, tid, pos) /\ Len(s) = r
    BY <1>2, <1>3 DEF StackFits
  <1>4. CASE \E i \in 1 .. pos - 1 : LastBefore(log, tid, pos, i) /\ StackAfter(log, sp, s, r, log[i])
    <2>1. PICK i \in 1 .. pos - 1 : LastBefore(log, tid, pos, i) /\ StackAfter(log, sp, s, r, log[i])
      BY <1>4
    <2>2. log[i] \in Messages
      OBVIOUS
    <2>3. StackAfter(log, sp2, s, r, log[i])
      BY <1>1, <2>1, <2>2, StackAfterStays
    <2> QED
      BY <1>2, <2>1, <2>3 DEF StackFits
  <1> QED
    BY <1>3, <1>4 DEF StackFits

(* A span is closed that has only key-values above it                      *)
Closes(sp, s, c) ==
    /\ c \in 1 .. Len(s) /\ sp[s[c]].kind # "KeyValue"
    /\ \A k \in c + 1 .. Len(s) : sp[s[k]].kind = "KeyValue"

LEMMA Earlier ==
    ASSUME NEW n \in Nat, NEW i \in 1 .. n
    PROVE  \A p \in 1 .. i - 1 : p \in 1 .. n
  OBVIOUS

LEMMA Parts ==
    ASSUME NEW S, NEW s \in Seq(S), NEW n \in 0 .. Len(s)
    PROVE  /\ SubSeq(s, 1, n) \in Seq(S) /\ Len(SubSeq(s, 1, n)) = n
           /\ \A k \in 1 .. n : /\ SubSeq(s, 1, n)[k] = s[k]
                                /\ SubSeq(SubSeq(s, 1, n), 1, k - 1) = SubSeq(s, 1, k - 1)
  OBVIOUS

LEMMA ScopeEndFits ==
    ASSUME NEW log \in Seq(Messages), NEW sp, NEW s \in Seq(Nat),
           NEW tid, NEW q, NEW pos \in 4 .. Len(log),
           log[pos].kind = "TE", log[pos].tid = tid,
           Chained(log, tid, pos, q), StackFits(log, sp, s, tid, pos)
    PROVE  \E c \in 1 .. Len(s) :
              /\ Closes(sp, s, c) /\ sp[s[c]].kind = "Scope"
              /\ LET start == log[sp[s[c]].start]
                 IN  /\ start.pn = log[pos].pn
                     /\ start.origin.thread = log[pos].origin.thread
                     /\ start.origin.scope = log[pos].origin.scope
              /\ StackFits(log, sp, SubSeq(s, 1, c - 1), tid, pos + 1)
  <1> DEFINE r == Roots(log, tid, pos)
             m == log[pos]
  <1>1. pos \in Nat \ {0} /\ pos > 3 /\ m \in Messages /\ Len(s) \in Nat
    OBVIOUS
  <1>2. /\ r \in {0, 1} /\ Roots(log, tid, pos + 1) = r
        /\ r = 1 => s # <<>> /\ sp[s[1]].kind = "Process"
        /\ \E i \in 1 .. pos - 1 :
                 /\ log[i].kind # "TThreadEnd" /\ Follows(log[i], m, q)
                 /\ StackAfter(log, sp, s, r, log[i])
    BY <1>1, StackFitsAt
  <1>3. PICK i \in 1 .. pos - 1 :
                 /\ log[i].kind # "TThreadEnd" /\ Follows(log[i], m, q)
                 /\ StackAfter(log, sp, s, r, log[i])
    BY <1>2
  <1> DEFINE a == After(log[i])
  <1>4. m.origin.thread = log[i].origin.thread /\ \E k \in 1 .. Len(a) : Leaves(m, a, k)
    BY <1>3 DEF Follows
  <1>5. a \in Seq(Places) /\ Len(a) \in Nat
    BY <1>1, <1>3, AfterFacts
  <1>6. After(m) = m.origin.trail
    BY <1>1, AfterFacts
  <1>7. /\ Len(s) = r + 1 + Len(a)
        /\ sp[s[r + 1]].kind = "Thread"
        /\ \A k \in r + 1 .. Len(s) : log[sp[s[k]].start].origin.thread = m.origin.thread
        /\ \A k \in 1 .. Len(a) :
                IsAt(sp[s[r + 1 + k]].kind, log[sp[s[r + 1 + k]].start], a, k)
    BY <1>3, <1>4 DEF StackAfter
  <1>r. r \in Nat /\ (r = 0 \/ r = 1)
    BY <1>2
  <1> HIDE DEF r, a
  <1>8. PICK k \in 1 .. Len(a) : Leaves(m, a, k)
    BY <1>4
  <1>9. /\ a[k].scope # 0 /\ a[k] = Place(m.pn, m.origin.scope)
        /\ m.origin.trail = SubSeq(a, 1, k - 1)
        /\ \A l \in k + 1 .. Len(a) : a[l].scope = 0
    BY <1>8 DEF Leaves
  <1> DEFINE c == r + 1 + k
             start == log[sp[s[c]].start]
             s2 == SubSeq(s, 1, c - 1)
             b == After(m)
  <1>10. c \in Nat /\ c \in 1 .. Len(s) /\ c - 1 \in 0 .. Len(s) /\ c - 1 = r + 1 + (k - 1)
         /\ c \in r + 1 .. Len(s) /\ k - 1 \in 0 .. Len(a)
    BY <1>1, <1>5, <1>7, <1>r
  <1>11. IsAt(sp[s[c]].kind, start, a, k)
    BY <1>7
  <1>12. sp[s[c]].kind = "Scope" /\ Place(start.pn, start.origin.scope) = a[k]
    BY <1>9, <1>11 DEF IsAt
  <1>13. start.pn = m.pn /\ start.origin.scope = m.origin.scope
    <2>1. Place(start.pn, start.origin.scope) = Place(m.pn, m.origin.scope)
      BY <1>9, <1>12
    <2>2. \A x, y, z, w : Place(x, y) = Place(z, w) => x = z /\ y = w
      BY DEF Place
    <2> HIDE DEF start, m
    <2> QED
      BY <2>1, <2>2
  <1>14. start.origin.thread = m.origin.thread
    BY <1>7, <1>10
  <1>15. ASSUME NEW l \in c + 1 .. Len(s) PROVE sp[s[l]].kind = "KeyValue"
    <2> DEFINE d == l - (r + 1)
    <2>1. d \in k + 1 .. Len(a) /\ d \in 1 .. Len(a) /\ l = r + 1 + d
      BY <1>1, <1>5, <1>7, <1>r
    <2> HIDE DEF d
    <2>2. IsAt(sp[s[l]].kind, log[sp[s[l]].start], a, d)
      BY <1>7, <2>1
    <2> QED
      BY <1>9, <2>1, <2>2 DEF IsAt
  <1>16. /\ s2 \in Seq(Nat) /\ Len(s2) = c - 1 /\ \A l \in 1 .. c - 1 : s2[l] = s[l]
    BY <1>10, Parts
  <1>17. /\ b = SubSeq(a, 1, k - 1) /\ Len(b) = k - 1
         /\ \A l \in 1 .. k - 1 : b[l] = a[l] /\ SubSeq(b, 1, l - 1) = SubSeq(a, 1, l - 1)
    BY <1>5, <1>6, <1>9, <1>10, Parts
  <1>18. StackAfter(log, sp, s2, r, m)
    <2> HIDE DEF s2, b
    <2>1. Len(s2) = r + 1 + Len(b)
      BY <1>10, <1>16, <1>17
    <2>2. sp[s2[r + 1]].kind = "Thread"
      <3>1. r + 1 \in 1 .. c - 1
        BY <1>r
      <3> QED
        BY <1>7, <1>16, <3>1
    <2>3. ASSUME NEW l \in r + 1 .. Len(s2)
          PROVE  log[sp[s2[l]].start].origin.thread = m.origin.thread
      <3>1. l \in 1 .. c - 1 /\ l \in r + 1 .. Len(s)
        BY <1>1, <1>r, <1>10, <1>16
      <3> QED
        BY <1>7, <1>16, <3>1
    <2>4. ASSUME NEW l \in 1 .. Len(b)
          PROVE  IsAt(sp[s2[r + 1 + l]].kind, log[sp[s2[r + 1 + l]].start], b, l)
      <3>1. l \in 1 .. k - 1 /\ l \in 1 .. Len(a) /\ r + 1 + l \in 1 .. c - 1
        BY <1>r, <1>5, <1>17
      <3>2. IsAt(sp[s[r + 1 + l]].kind, log[sp[s[r + 1 + l]].start], a, l)
        BY <1>7, <3>1
      <3>3. b[l] = a[l] /\ SubSeq(b, 1, l - 1) = SubSeq(a, 1, l - 1)
        BY <1>17, <3>1
      <3>4. IsAt(sp[s[r + 1 + l]].kind, log[sp[s[r + 1 + l]].start], b, l)
        BY <3>2, <3>3 DEF IsAt
      <3> QED
        BY <1>16, <3>1, <3>4
    <2> QED
      BY <2>1, <2>2, <2>3, <2>4 DEF StackAfter, b
  <1>19. r = 1 => s2 # <<>> /\ sp[s2[1]].kind = "Process"
    <2>2. 1 \in 1 .. c - 1
      BY <1>r, <1>10
    <2> HIDE DEF s2, c
    <2>1. 1 \in 1 .. c - 1 /\ s2 # <<>>
      BY <2>2, <1>10, <1>16
    <2> QED
      BY <1>2, <1>16, <2>1
  <1>20. Of(m, tid)
    BY DEF Of, Tracked
  <1>21. StackFits(log, sp, s2, tid, pos + 1)
    <2>1. r = Roots(log, tid, pos + 1)
      BY <1>2
    <2> HIDE DEF s2
    <2> QED
      BY <1>1, <2>1, <1>18, <1>19, <1>20, StackFitsNow
  <1>22. Closes(sp, s, c)
    BY <1>10, <1>12, <1>15 DEF Closes
  <1> QED
    BY <1>10, <1>12, <1>13, <1>14, <1>21, <1>22

(* A thread ends outside of its scopes, or in the middle of them when it   *)
(* has called exit                                                         *)
LEMMA ThreadEndFits ==
    ASSUME NEW log \in Seq(Messages), NEW sp, NEW s \in Seq(Nat),
           NEW tid, NEW q, NEW pos \in 4 .. Len(log),
           log[pos].kind = "TThreadEnd", log[pos].tid = tid,
           Chained(log, tid, pos, q), StackFits(log, sp, s, tid, pos)
    PROVE  \/ \E c \in 1 .. Len(s) :
                 /\ Closes(sp, s, c) /\ sp[s[c]].kind = "Thread"
                 /\ StackFits(log, sp, SubSeq(s, 1, c - 1), tid, pos + 1)
           \/ /\ q # 0
              /\ \E c \in 1 .. Len(s) : \A k \in c .. Len(s) :
                    /\ sp[s[k]].kind \in {"Scope", "KeyValue"}
                    /\ k = c => sp[s[k]].kind = "Scope"
  <1> DEFINE r == Roots(log, tid, pos)
             m == log[pos]
  <1>1. pos \in Nat \ {0} /\ pos > 3 /\ m \in Messages /\ Len(s) \in Nat
    OBVIOUS
  <1>2. /\ r \in {0, 1} /\ Roots(log, tid, pos + 1) = r
        /\ r = 1 => s # <<>> /\ sp[s[1]].kind = "Process"
        /\ \E i \in 1 .. pos - 1 :
                 /\ log[i].kind # "TThreadEnd" /\ Follows(log[i], m, q)
                 /\ StackAfter(log, sp, s, r, log[i])
    BY <1>1, StackFitsAt
  <1>3. PICK i \in 1 .. pos - 1 :
                 /\ log[i].kind # "TThreadEnd" /\ Follows(log[i], m, q)
                 /\ StackAfter(log, sp, s, r, log[i])
    BY <1>2
  <1> DEFINE a == After(log[i])
  <1>4. (\A k \in 1 .. Len(a) : a[k].scope = 0) \/ q # 0
    BY <1>3 DEF Follows
  <1>5. a \in Seq(Places) /\ Len(a) \in Nat
    BY <1>1, <1>3, AfterFacts
  <1>7. /\ Len(s) = r + 1 + Len(a)
        /\ sp[s[r + 1]].kind = "Thread"
        /\ \A k \in 1 .. Len(a) :
                IsAt(sp[s[r + 1 + k]].kind, log[sp[s[r + 1 + k]].start], a, k)
    BY <1>3 DEF StackAfter
  <1>r. r \in Nat /\ (r = 0 \/ r = 1)
    BY <1>2
  <1> HIDE DEF r, a
  <1>8. \A l \in r + 2 .. Len(s) :
           /\ l - (r + 1) \in 1 .. Len(a)
           /\ IsAt(sp[s[l]].kind, log[sp[s[l]].start], a, l - (r + 1))
    <2> TAKE l \in r + 2 .. Len(s)
    <2> DEFINE d == l - (r + 1)
    <2>1. d \in 1 .. Len(a) /\ l = r + 1 + d
      <3>1. Len(s) = r + 1 + Len(a)
        BY <1>7
      <3> QED
        BY <3>1, <1>5, <1>r
    <2> QED
      BY <1>7, <2>1
  <1>9. CASE \A k \in 1 .. Len(a) : a[k].scope = 0
    <2> DEFINE c == r + 1
               s2 == SubSeq(s, 1, c - 1)
    <2>1. c \in 1 .. Len(s) /\ c - 1 \in 0 .. Len(s) /\ c - 1 = r
      BY <1>1, <1>5, <1>7, <1>r
    <2>2. ASSUME NEW l \in c + 1 .. Len(s) PROVE sp[s[l]].kind = "KeyValue"
      <3>1. l \in r + 2 .. Len(s)
        BY <1>1, <1>r
      <3> QED
        BY <1>8, <1>9, <3>1 DEF IsAt
    <2>3. Closes(sp, s, c)
      BY <1>7, <2>1, <2>2 DEF Closes
    <2>4. s2 \in Seq(Nat) /\ Len(s2) = r /\ \A l \in 1 .. r : s2[l] = s[l]
      BY <2>1, Parts
    <2>5. StackAfter(log, sp, s2, r, m)
      BY <2>4 DEF StackAfter
    <2>6. r = 1 => s2 # <<>> /\ sp[s2[1]].kind = "Process"
      BY <1>2, <2>4
    <2>7. Of(m, tid) /\ r = Roots(log, tid, pos + 1)
      BY <1>2 DEF Of, Tracked
    <2>8. StackFits(log, sp, s2, tid, pos + 1)
      <3> HIDE DEF s2
      <3> QED
        BY <1>1, <2>5, <2>6, <2>7, StackFitsNow
    <2> QED
      BY <1>7, <2>1, <2>3, <2>8
  <1>10. CASE \E k \in 1 .. Len(a) : a[k].scope # 0
    <2>1. PICK k \in 1 .. Len(a) : a[k].scope # 0
      BY <1>10
    <2> DEFINE c == r + 1 + k
    <2>2. c \in 1 .. Len(s) /\ \A l \in c .. Len(s) : l \in r + 2 .. Len(s)
      BY <1>1, <1>5, <1>7, <1>r
    <2>3. q # 0
      BY <1>4, <2>1
    <2>4. \A l \in c .. Len(s) : sp[s[l]].kind \in {"Scope", "KeyValue"}
      BY <1>8, <2>2 DEF IsAt
    <2>5. sp[s[c]].kind = "Scope"
      BY <1>7, <2>1 DEF IsAt
    <2> QED
      BY <2>2, <2>3, <2>4, <2>5
  <1> QED
    BY <1>9, <1>10

(* When all threads have ended, nothing is on the stacks but the process   *)
LEMMA ProcessEndFits ==
    ASSUME NEW log \in Seq(Messages), NEW sp, NEW s \in Seq(Nat), NEW tid,
           Len(log) > 3, log[Len(log)].kind = "TEnd", Free(log, tid),
           StackFits(log, sp, s, tid, Len(log))
    PROVE  /\ Len(s) = IF tid = log[3].tid THEN 1 ELSE 0
           /\ tid = log[3].tid => sp[s[1]].kind = "Process"
  <1> DEFINE n == Len(log)
  <1>1. n \in Nat /\ n > 3 /\ ~Of(log[n], tid)
    BY DEF Of, Tracked
  <1>2. Roots(log, tid, n) = IF tid = log[3].tid THEN 1 ELSE 0
    BY <1>1 DEF Roots
  <1>3. Len(s) = Roots(log, tid, n)
    <2>1. CASE NoneIn(log, tid)
      <3>1. NoneBefore(log, tid, n)
        BY <1>1, <2>1 DEF NoneIn, NoneBefore
      <3>2. \A i : ~LastBefore(log, tid, n, i)
        BY <1>1, <3>1, OneLast
      <3> QED
        BY <3>2 DEF StackFits
    <2>2. CASE \E i \in 1 .. n : LastIn(log, tid, i) /\ log[i].kind = "TThreadEnd"
      <3>1. PICK i \in 1 .. n : LastIn(log, tid, i) /\ log[i].kind = "TThreadEnd"
        BY <2>2
      <3>2. i # n
        BY <1>1, <3>1 DEF LastIn, LastBefore
      <3>3. LastBefore(log, tid, n, i)
        BY <1>1, <3>1, <3>2 DEF LastIn, LastBefore
      <3>4. ~NoneBefore(log, tid, n) /\ \A j : LastBefore(log, tid, n, j) => j = i
        BY <1>1, <3>3, OneLast
      <3>5. StackAfter(log, sp, s, Roots(log, tid, n), log[i])
        BY <3>4 DEF StackFits
      <3> QED
        BY <3>1, <3>5 DEF StackAfter
    <2> QED
      BY <2>1, <2>2 DEF Free
  <1> QED
    BY <1>2, <1>3 DEF StackFits

-----------------------------------------------------------------------------
(***************************************************************************)
(* The steps of the evaluation                                             *)
(***************************************************************************)
LEMMA ReadTypes ==
    ASSUME TreeProofs!TreeInv
    PROVE  /\ spans \in Seq(TreeProofs!SpanType) /\ DOMAIN spans = 1 .. Len(spans)
           /\ Len(spans) \in Nat /\ position \in Nat
           /\ \A i \in DOMAIN spans :
                 /\ i \in Nat /\ spans[i].kind \in {"Process", "Thread", "Scope", "KeyValue"}
                 /\ spans[i].start \in 1 .. position - 1
                 /\ spans[i].end \in Nat /\ spans[i].end < position
           /\ \A tid : /\ StackOf(tid) \in Seq(Nat)
                       /\ \A k \in 1 .. Len(StackOf(tid)) : StackOf(tid)[k] \in DOMAIN spans
           /\ StackOf(TreeProofs!Message.tid) = TreeProofs!Stack
  <1>1. TreeProofs!TypeOK /\ TreeProofs!StacksOK /\ TreeProofs!PositionsOK
    BY DEF TreeProofs!TreeInv
  <1>2. /\ spans \in Seq(TreeProofs!SpanType) /\ DOMAIN spans = 1 .. Len(spans)
        /\ Len(spans) \in Nat /\ position \in Nat
    BY <1>1 DEF TreeProofs!TypeOK
  <1>3. ASSUME NEW i \in DOMAIN spans
        PROVE  /\ i \in Nat /\ spans[i].kind \in {"Process", "Thread", "Scope", "KeyValue"}
               /\ spans[i].start \in 1 .. position - 1
               /\ spans[i].end \in Nat /\ spans[i].end < position
    <2>1. i \in 1 .. Len(spans) /\ spans[i] \in TreeProofs!SpanType
      BY <1>2
    <2>2. /\ spans[i].start \in Nat /\ spans[i].end \in Nat
          /\ spans[i].kind \in {"Process", "Thread", "Scope", "KeyValue"}
      BY <2>1 DEF TreeProofs!SpanType
    <2>3. 0 < spans[i].start /\ spans[i].start < position /\ spans[i].end < position
      BY <1>1 DEF TreeProofs!PositionsOK
    <2> QED
      BY <1>2, <2>1, <2>2, <2>3
  <1>4. ASSUME NEW tid
        PROVE  /\ StackOf(tid) \in Seq(Nat)
               /\ \A k \in 1 .. Len(StackOf(tid)) : StackOf(tid)[k] \in DOMAIN spans
    <2>1. CASE tid \in DOMAIN startByThread
      BY <1>1, <2>1 DEF StackOf, TreeProofs!TypeOK, TreeProofs!StacksOK
    <2>2. CASE tid \notin DOMAIN startByThread
      BY <2>2 DEF StackOf
    <2> QED
      BY <2>1, <2>2
  <1>5. StackOf(TreeProofs!Message.tid) = TreeProofs!Stack
    BY DEF StackOf, TreeProofs!Stack, TreeProofs!HasStack
  <1> QED
    BY <1>2, <1>3, <1>4, <1>5

LEMMA LogFacts ==
    ASSUME ProbesInv, Sealed
    PROVE  /\ FileOK /\ file \in Seq(Messages) /\ Len(file) \in Nat /\ Len(file) > 3
           /\ file[1].kind = "Start" /\ file[2].kind = "Metadata"
           /\ file[3].kind = "TStart" /\ file[Len(file)].kind = "TEnd"
           /\ \A i \in 1 .. Len(file) :
                 /\ file[i] \in Messages /\ file[i].tid \in AllTids /\ MessageOK(file[i])
                 /\ file[i].kind # "Torn"
                 /\ i > 3 => \/ file[i].kind \in BufferKinds /\ i < Len(file)
                             \/ file[i].kind = "TEnd" /\ i = Len(file)
           /\ \A tid \in AllTids : Chain(file, tid, Quitter)
  <1>1. FileOK /\ file \in Seq(Messages) /\ file[Len(file)].kind = "TEnd"
    <2>1. ProbesTypeOK /\ SealedOK
      BY DEF ProbesInv
    <2> QED
      BY <2>1 DEF ProbesTypeOK, SealedOK, Sealed
  <1>2. /\ Len(file) >= 3 /\ Len(file) \in Nat
        /\ file[1].kind = "Start" /\ file[2].kind = "Metadata" /\ file[3].kind = "TStart"
        /\ \A i \in 1 .. Len(file) :
              /\ MessageOK(file[i])
              /\ i > 3 => file[i].kind \in BufferKinds \/ (file[i].kind = "TEnd" /\ i = Len(file))
        /\ \A tid \in AllTids : Chain(file, tid, Quitter)
    BY <1>1 DEF FileOK
  <1>3. Len(file) > 3
    <2>1. Len(file) # 3
      BY <1>1, <1>2
    <2>2. Len(file) >= 3 /\ Len(file) \in Nat
      BY <1>2
    <2> QED
      BY <2>1, <2>2
  <1>4. ASSUME NEW i \in 1 .. Len(file)
        PROVE  /\ file[i] \in Messages /\ file[i].tid \in AllTids /\ file[i].kind # "Torn"
               /\ i > 3 => \/ file[i].kind \in BufferKinds /\ i < Len(file)
                           \/ file[i].kind = "TEnd" /\ i = Len(file)
    <2>1. file[i] \in Messages
      BY <1>1
    <2>2. file[i].tid \in AllTids
      BY <2>1 DEF Messages
    <2>3. i > 3 => file[i].kind \in BufferKinds \/ (file[i].kind = "TEnd" /\ i = Len(file))
      BY <1>2
    <2>5. i = Len(file) => file[i].kind \notin BufferKinds
      BY <1>1 DEF BufferKinds, Tracked
    <2>6. file[i].kind \in BufferKinds => file[i].kind # "Torn"
      BY DEF BufferKinds, Tracked
    <2>7. i <= 3 => file[i].kind # "Torn"
      <3>1. i <= 3 => i = 1 \/ i = 2 \/ i = 3
        BY <1>2
      <3> QED
        BY <1>2, <3>1
    <2> QED
      BY <1>2, <2>1, <2>2, <2>3, <2>5, <2>6, <2>7
  <1> QED
    BY <1>1, <1>2, <1>3, <1>4

(* The evaluation is about to look at a message                            *)
Reading == phase = "gone" /\ status = "reading" /\ position <= Len(file)

LEMMA ReadingFacts ==
    ASSUME ProbesInv, TreeProofs!TreeInv, ReadInv, Reading
    PROVE  /\ Sealed /\ position \in 3 .. Len(file) /\ TreeProofs!Message = file[position]
           /\ file[position].tid \in AllTids /\ MessageOK(file[position])
           /\ \A i \in DOMAIN spans : SpanFits(file, spans, i)
           /\ \A tid \in AllTids : StackFits(file, spans, StackOf(tid), tid, position)
           /\ \/ position = 3 /\ file[position].kind = "TStart"
              \/ position > 3 /\ position < Len(file) /\ file[position].kind \in BufferKinds
              \/ position > 3 /\ position = Len(file) /\ file[position].kind = "TEnd"
           /\ position > 3 /\ file[position].kind \in Tracked =>
                 Chained(file, file[position].tid, position, Quitter)
  <1>1. /\ Sealed /\ position \in 3 .. Len(file) + 1
        /\ \A i \in DOMAIN spans : SpanFits(file, spans, i)
        /\ \A tid \in AllTids : StackFits(file, spans, StackOf(tid), tid, position)
    BY DEF Reading, ReadInv, ReadingOK, Active
  <1>2. position \in 3 .. Len(file) /\ position \in 1 .. Len(file)
    <2>1. Len(file) \in Nat
      BY <1>1, LogFacts
    <2> QED
      BY <1>1, <2>1 DEF Reading
  <1>3. /\ file[position].tid \in AllTids /\ MessageOK(file[position])
        /\ file[3].kind = "TStart"
        /\ position > 3 =>
              \/ file[position].kind \in BufferKinds /\ position < Len(file)
              \/ file[position].kind = "TEnd" /\ position = Len(file)
        /\ \A tid \in AllTids : Chain(file, tid, Quitter)
    BY <1>1, <1>2, LogFacts
  <1>4. position = 3 \/ position > 3
    BY <1>2
  <1>5. file[position].kind \in Tracked => Chained(file, file[position].tid, position, Quitter)
    BY <1>2, <1>3 DEF Chain, Of
  <1> QED
    BY <1>1, <1>2, <1>3, <1>4, <1>5 DEF TreeProofs!Message

(* What remains to be shown when the message has been read                 *)
Waits == phase' = phase /\ file' = file /\ exit' = exit

LEMMA MessageRead ==
    ASSUME ProbesInv, TreeProofs!TreeInv, ReadInv, Reading, Waits,
           status' = "reading", position' = position + 1,
           \A i \in DOMAIN spans : i \in DOMAIN spans' /\ spans'[i].start = spans[i].start,
           \A i \in DOMAIN spans' : SpanFits(file, spans', i),
           file[position].kind \in {"TStart", "TThreadStart", "TS"} =>
              \E i \in DOMAIN spans' : spans'[i].start = position,
           position < Len(file) => \A tid \in AllTids :
              StackFits(file, spans', StackOf(tid)', tid, position + 1),
           position = Len(file) /\ exit.clean => \A tid \in AllTids : StackOf(tid)' = <<>>
    PROVE  ReadInv'
  <1>1. /\ Sealed /\ position \in 3 .. Len(file) /\ Len(file) \in Nat /\ phase = "gone"
    BY ReadingFacts, LogFacts DEF Reading
  <1>2. /\ Sealed' /\ phase' = "gone" /\ position' \in 3 .. Len(file') + 1 /\ file' = file
        /\ exit' = exit
    BY <1>1 DEF Sealed, Waits
  <1>3. ASSUME NEW j \in 3 .. position' - 1, file[j].kind \in {"TStart", "TThreadStart", "TS"}
        PROVE  \E i \in DOMAIN spans' : spans'[i].start = j
    <2>1. CASE j = position
      BY <1>3, <2>1
    <2>2. CASE j # position
      <3>1. j \in 3 .. position - 1
        BY <1>1, <2>2
      <3>2. \A l \in 3 .. position - 1 : file[l].kind \in {"TStart", "TThreadStart", "TS"} =>
                \E i \in DOMAIN spans : spans[i].start = l
        BY DEF Reading, ReadInv, ReadingOK, Active
      <3>3. PICK i \in DOMAIN spans : spans[i].start = j
        BY <1>3, <3>1, <3>2
      <3> QED
        BY <3>3
    <2> QED
      BY <2>1, <2>2
  <1>4. position' <= Len(file') => position < Len(file)
    BY <1>1, <1>2
  <1>5. ReadingOK'
    <2>1. status' # "done" /\ status' = "reading"
      OBVIOUS
    <2> QED
      BY <1>2, <1>3, <1>4, <2>1 DEF ReadingOK
  <1>6. AcceptingOK'
    <2>1. position' = Len(file') + 1 => position = Len(file)
      BY <1>1, <1>2
    <2> QED
      BY <1>2, <2>1 DEF AcceptingOK
  <1> QED
    BY <1>5, <1>6 DEF ReadInv

LEMMA ReadFileKeeps ==
    ASSUME ProbesInv, TreeProofs!TreeInv, ReadInv, phase = "gone", Waits, TreeProofs!ReadFile
    PROVE  ReadInv'
  <1>1. /\ status = "unread" /\ position = 0
        /\ UNCHANGED <<spans, startByThread>>
    BY DEF TreeProofs!ReadFile, TreeProofs!TreeInv, TreeProofs!PositionsOK
  <1>2. DOMAIN spans = {}
    <2>1. \A i \in DOMAIN spans : spans[i].start \in 1 .. position - 1
      BY ReadTypes
    <2>2. \A i \in DOMAIN spans : FALSE
      BY <1>1, <2>1
    <2> QED
      BY <2>2
  <1>3. ASSUME NEW tid PROVE StackOf(tid) = <<>> /\ StackOf(tid)' = <<>>
    <2>1. StackOf(tid) \in Seq(Nat) /\ \A k \in 1 .. Len(StackOf(tid)) : FALSE
      BY <1>2, ReadTypes
    <2>2. StackOf(tid) = <<>>
      <3> DEFINE s == StackOf(tid)
      <3> HIDE DEF s
      <3>1. s \in Seq(Nat) /\ \A k \in 1 .. Len(s) : FALSE
        BY <2>1 DEF s
      <3>2. s # <<>> => 1 \in 1 .. Len(s)
        BY <3>1
      <3> QED
        BY <3>1, <3>2 DEF s
    <2> QED
      BY <1>1, <2>2 DEF StackOf
  <1>4. Sealed => TreeProofs!Readable
    <2> SUFFICES ASSUME Sealed PROVE TreeProofs!Readable
      OBVIOUS
    <2> QED
      BY LogFacts DEF TreeProofs!Readable
  <1>5. CASE TreeProofs!Readable
    <2>1. status' = "reading" /\ position' = 3
      BY <1>5 DEF TreeProofs!ReadFile
    <2>2. Sealed
      <3>1. file # <<>>
        BY <1>5 DEF TreeProofs!Readable
      <3> QED
        BY <1>5, <3>1 DEF TreeProofs!Readable, Sealed
    <2>3. Sealed' /\ phase' = "gone" /\ file' = file /\ DOMAIN spans' = {}
      BY <1>1, <1>2, <2>2 DEF Waits, Sealed
    <2>4. /\ Len(file) \in Nat /\ Len(file) > 3
          /\ file[1].kind = "Start" /\ file[2].kind = "Metadata"
      BY <2>2, LogFacts
    <2>5. ASSUME NEW tid \in AllTids PROVE StackFits(file', spans', StackOf(tid)', tid, position')
      <3>1. NoneBefore(file, tid, 3)
        <4>1. ~Of(file[1], tid) /\ ~Of(file[2], tid)
          BY <2>4 DEF Of, Tracked
        <4>2. \A j \in 1 .. 3 - 1 : j = 1 \/ j = 2
          OBVIOUS
        <4> QED
          BY <4>1, <4>2 DEF NoneBefore
      <3>2. Roots(file, tid, 3) = 0
        BY DEF Roots
      <3>3. Len(StackOf(tid)') = 0
        BY <1>3
      <3> QED
        BY <2>1, <2>3, <3>1, <3>2, <3>3 DEF StackFits
    <2>6. ReadingOK'
      <3>1. position' \in 3 .. Len(file') + 1 /\ 3 .. position' - 1 = {}
        BY <2>1, <2>3, <2>4
      <3> QED
        BY <2>1, <2>3, <2>5, <3>1 DEF ReadingOK
    <2>7. AcceptingOK'
      BY <1>3, <2>1 DEF AcceptingOK
    <2> QED
      BY <2>6, <2>7 DEF ReadInv
  <1>6. CASE ~TreeProofs!Readable
    <2>1. status' = "error" /\ ~Sealed'
      BY <1>4, <1>6 DEF TreeProofs!ReadFile, Waits, Sealed
    <2>2. phase' = "gone"
      BY DEF Waits
    <2> QED
      BY <2>1, <2>2 DEF ReadInv, ReadingOK, AcceptingOK, Active
  <1> QED
    BY <1>5, <1>6

LEMMA SkipMessageKeeps ==
    ASSUME ProbesInv, TreeProofs!TreeInv, ReadInv, phase = "gone", Waits,
           TreeProofs!SkipMessage
    PROVE  ReadInv'
  <1>1. /\ Reading /\ file[position].kind \in {"T", "TIO"}
        /\ status' = "reading" /\ position' = position + 1
        /\ spans' = spans /\ startByThread' = startByThread
    BY DEF TreeProofs!SkipMessage, TreeProofs!AtMessage, TreeProofs!Message, Reading
  <1>2. /\ position \in 3 .. Len(file) /\ Sealed
        /\ \A i \in DOMAIN spans : SpanFits(file, spans, i)
        /\ \A tid \in AllTids : StackFits(file, spans, StackOf(tid), tid, position)
        /\ position > 3 /\ position < Len(file)
    BY <1>1, ReadingFacts
  <1>3. ASSUME NEW tid \in AllTids
        PROVE  StackFits(file, spans', StackOf(tid)', tid, position + 1)
    <2> DEFINE s == StackOf(tid)
    <2>1. s \in Seq(Nat) /\ Keeping(spans, spans', s) /\ StackOf(tid)' = s
      BY <1>1, ReadTypes DEF Keeping, StackOf
    <2>2. ~Of(file[position], tid)
      BY <1>1 DEF Of, Tracked
    <2>3. file \in Seq(Messages)
      BY <1>2, LogFacts
    <2>4. StackFits(file, spans, s, tid, position)
      BY <1>2
    <2> HIDE DEF s
    <2> QED
      BY <1>2, <2>1, <2>2, <2>3, <2>4, StackStays
  <1> QED
    BY <1>1, <1>2, <1>3, MessageRead

LEMMA BuiltKeeps ==
    ASSUME ProbesInv, TreeProofs!TreeInv, ReadInv, phase = "gone", Waits, TreeProofs!Built
    PROVE  ReadInv'
  <1>1. /\ status = "reading" /\ position > Len(file) /\ status' = "built"
        /\ position' = position /\ spans' = spans /\ startByThread' = startByThread
    BY DEF TreeProofs!Built
  <1>2. Sealed' = Sealed /\ phase' = "gone" /\ file' = file /\ exit' = exit
    BY DEF Waits, Sealed
  <1>3. /\ Sealed /\ position \in 3 .. Len(file) + 1
    BY <1>1 DEF ReadInv, ReadingOK, Active
  <1>4. position = Len(file) + 1 /\ ~(position <= Len(file))
    <2>1. Len(file) \in Nat
      BY <1>3, LogFacts
    <2> QED
      BY <1>1, <1>3, <2>1
  <1>5. ReadingOK'
    BY <1>1, <1>2, <1>3, <1>4 DEF ReadInv, ReadingOK, Active
  <1>6. \A tid : StackOf(tid)' = StackOf(tid)
    BY <1>1 DEF StackOf
  <1>7. AcceptingOK'
    BY <1>1, <1>2, <1>6 DEF ReadInv, AcceptingOK, Active
  <1> QED
    BY <1>5, <1>7 DEF ReadInv

(* A new span on the stack of its thread: see ThreadStartFits and          *)
(* ScopeStartFits for what it has to fulfil                                *)
LEMMA SpanOpened ==
    ASSUME ProbesInv, TreeProofs!TreeInv, ReadInv, Reading, Waits,
           status' = "reading", position' = position + 1, position < Len(file),
           NEW id, id = Len(spans) + 1, NEW tid, tid = file[position].tid,
           DOMAIN spans' = DOMAIN spans \cup {id},
           \A i \in DOMAIN spans :
              /\ spans'[i].kind = spans[i].kind /\ spans'[i].parent = spans[i].parent
              /\ spans'[i].start = spans[i].start /\ spans'[i].end = spans[i].end,
           spans'[id].start = position, spans'[id].end = 0,
           SpanFits(file, spans', id),
           StackFits(file, spans', StackOf(tid)', tid, position + 1),
           \A u \in AllTids \ {tid} : StackOf(u)' = StackOf(u)
    PROVE  ReadInv'
  <1>1. /\ Sealed /\ position \in 3 .. Len(file)
        /\ \A i \in DOMAIN spans : SpanFits(file, spans, i)
        /\ \A u \in AllTids : StackFits(file, spans, StackOf(u), u, position)
    BY ReadingFacts
  <1>2. /\ DOMAIN spans = 1 .. Len(spans) /\ Len(spans) \in Nat /\ position \in Nat
        /\ \A i \in DOMAIN spans : i \in Nat /\ spans[i].end < position
    BY ReadTypes
  <1>3. ASSUME NEW i \in DOMAIN spans' PROVE SpanFits(file, spans', i)
    <2>1. CASE i = id
      BY <2>1
    <2>2. CASE i # id
      <3>1. i \in DOMAIN spans /\ SpanFits(file, spans, i)
        BY <1>1, <2>2
      <3>2. \A p \in 1 .. i - 1 : p \in DOMAIN spans
        <4>1. i \in 1 .. Len(spans)
          BY <1>2, <3>1
        <4> QED
          BY <1>2, <4>1, Earlier
      <3>3. /\ spans'[i].kind = spans[i].kind /\ spans'[i].parent = spans[i].parent
            /\ spans'[i].start = spans[i].start /\ spans'[i].end = spans[i].end
        BY <3>1
      <3>4. ASSUME NEW p \in 1 .. i - 1, NEW m, ParentFits(file, spans, p, m)
            PROVE  ParentFits(file, spans', p, m)
        <4>1. spans'[p].kind = spans[p].kind /\ spans'[p].start = spans[p].start
          BY <3>2
        <4> QED
          BY <3>4, <4>1 DEF ParentFits
      <3> QED
        BY <3>1, <3>3, <3>4 DEF SpanFits
    <2> QED
      BY <2>1, <2>2
  <1>4. ASSUME NEW u \in AllTids
        PROVE  StackFits(file, spans', StackOf(u)', u, position + 1)
    <2>1. CASE u = tid
      BY <2>1
    <2>2. CASE u # tid
      <3> DEFINE s == StackOf(u)
      <3>1. /\ s \in Seq(Nat) /\ \A k \in 1 .. Len(s) : s[k] \in DOMAIN spans
            /\ StackOf(u)' = s
        BY <2>2, ReadTypes
      <3>2. StackFits(file, spans, s, u, position)
        BY <1>1
      <3>3. ~Of(file[position], u) /\ (position > 3 \/ u # file[3].tid)
        <4>1. position = 3 \/ position > 3
          BY <1>1
        <4> QED
          BY <2>2, <4>1 DEF Of
      <3> HIDE DEF s
      <3>4. Keeping(spans, spans', s)
        BY <3>1 DEF Keeping
      <3>5. file \in Seq(Messages)
        BY <1>1, LogFacts
      <3> QED
        BY <1>1, <3>1, <3>2, <3>3, <3>4, <3>5, StackStays
    <2> QED
      BY <2>1, <2>2
  <1>5. id \in DOMAIN spans' /\ Len(file) \in Nat /\ position # Len(file)
    BY <1>1, <1>2, LogFacts
  <1> QED
    BY <1>3, <1>4, <1>5, MessageRead

LEMMA StartSpanKeeps ==
    ASSUME ProbesInv, TreeProofs!TreeInv, ReadInv, phase = "gone", Waits,
           TreeProofs!StartSpan
    PROVE  ReadInv'
  <1> DEFINE m == file[position]
             id == Len(spans) + 1
             span == TreeProofs!Span(TreeProofs!ScopeKind(m.kind), TreeProofs!Top,
                                     TreeProofs!Number)
  <1>0. PICK tid : tid = m.tid
    OBVIOUS
  <1> DEFINE s == StackOf(tid)
  <1>1. /\ Reading /\ m.kind \in {"TStart", "TThreadStart", "TS"}
        /\ status' = "reading" /\ position' = position + 1
        /\ TreeProofs!Message = m
        /\ spans' = Append(spans, span)
        /\ startByThread' = TreeProofs!With(startByThread, tid, Append(TreeProofs!Stack, id))
    BY <1>0 DEF TreeProofs!StartSpan, TreeProofs!AtMessage, TreeProofs!Message, Reading,
           TreeProofs!Starts
  <1>2. /\ Sealed /\ position \in 3 .. Len(file) /\ tid \in AllTids /\ MessageOK(m)
        /\ StackFits(file, spans, s, tid, position)
        /\ \/ position = 3 /\ m.kind = "TStart"
           \/ position > 3 /\ position < Len(file) /\ m.kind \in {"TThreadStart", "TS"}
        /\ position > 3 => Chained(file, tid, position, Quitter)
    <2>1. m.kind # "TEnd"
      BY <1>1
    <2>2. "TStart" \notin BufferKinds
      BY DEF BufferKinds, Tracked
    <2>3. m.kind \in {"TThreadStart", "TS"} => m.kind \in Tracked
      BY DEF Tracked
    <2> QED
      BY <1>0, <1>1, <2>1, <2>2, <2>3, ReadingFacts
  <1>3. /\ DOMAIN spans = 1 .. Len(spans) /\ Len(spans) \in Nat /\ position \in Nat
        /\ s \in Seq(Nat) /\ \A k \in 1 .. Len(s) : s[k] \in DOMAIN spans
        /\ s = TreeProofs!Stack /\ spans \in Seq(TreeProofs!SpanType)
    BY <1>0, <1>1, ReadTypes
  <1>4. file \in Seq(Messages) /\ Len(file) \in Nat /\ Len(file) > 3 /\ file[3].kind = "TStart"
    BY <1>2, LogFacts
  <1>5. StackOf(tid)' = Append(s, id) /\ \A u \in AllTids \ {tid} : StackOf(u)' = StackOf(u)
    <2>1. /\ DOMAIN startByThread' = DOMAIN startByThread \cup {tid}
          /\ startByThread'[tid] = Append(s, id)
          /\ \A u \in DOMAIN startByThread \ {tid} : startByThread'[u] = startByThread[u]
      BY <1>1, <1>3 DEF TreeProofs!With
    <2> QED
      BY <2>1 DEF StackOf
  <1>6. /\ TreeProofs!Top \in Nat /\ TreeProofs!Number \in Nat
    BY TreeProofs!StackFacts, TreeProofs!NumberFacts
  <1>7. /\ span.kind = (CASE m.kind = "TStart" -> "Process" [] m.kind = "TThreadStart" -> "Thread"
                            [] m.kind = "TS" -> "Scope")
        /\ span.start = position /\ span.end = 0 /\ span.parent = TreeProofs!Top
    BY <1>1 DEF TreeProofs!Span, TreeProofs!ScopeKind, TreeProofs!NoEnd
  <1>8. /\ DOMAIN spans' = DOMAIN spans \cup {id} /\ spans'[id] = span
        /\ \A i \in DOMAIN spans : spans'[i] = spans[i]
    <2> HIDE DEF span
    <2>1. /\ DOMAIN spans' = 1 .. id /\ spans'[id] = span
          /\ \A i \in 1 .. Len(spans) : spans'[i] = spans[i]
      BY <1>1, <1>3
    <2> QED
      BY <1>3, <2>1
  <1> HIDE DEF span
  <1>9. /\ \A i \in DOMAIN spans :
              /\ spans'[i].kind = spans[i].kind /\ spans'[i].parent = spans[i].parent
              /\ spans'[i].start = spans[i].start /\ spans'[i].end = spans[i].end
        /\ spans'[id].start = position /\ spans'[id].end = 0
        /\ spans'[id].parent = TreeProofs!Top /\ spans'[id].kind = span.kind
    BY <1>7, <1>8
  <1>10. Keeping(spans, spans', s)
    BY <1>3, <1>9 DEF Keeping
  <1>11. CASE position = 3 /\ m.kind = "TStart"
    <2>1. spans'[id].kind = "Process"
      BY <1>7, <1>9, <1>11
    <2>2. SpanFits(file, spans', id)
      BY <1>9, <1>11, <2>1 DEF SpanFits, StartKind
    <2>3. s = <<>>
      <3>1. Roots(file, tid, 3) = 0
        BY DEF Roots
      <3>2. ASSUME NEW i \in 1 .. 3 - 1 PROVE ~Of(file[i], tid)
        <4>1. file[1].kind = "Start" /\ file[2].kind = "Metadata"
          BY <1>2, LogFacts
        <4>2. i = 1 \/ i = 2
          OBVIOUS
        <4> QED
          BY <4>1, <4>2 DEF Of, Tracked
      <3>3. Len(s) = 0
        BY <1>2, <1>11, <3>1, <3>2 DEF StackFits, LastBefore
      <3> QED
        BY <1>3, <3>3
    <2>4. Append(s, id) = <<id>> /\ Len(<<id>>) = 1 /\ <<id>>[1] = id /\ <<id>> # <<>>
      BY <2>3
    <2>5. Roots(file, tid, 4) = 1
      BY <1>0, <1>11 DEF Roots
    <2>6. NoneBefore(file, tid, 4)
      <3>1. ASSUME NEW i \in 1 .. 4 - 1 PROVE ~Of(file[i], tid)
        <4>1. file[1].kind = "Start" /\ file[2].kind = "Metadata" /\ file[3].kind = "TStart"
          BY <1>2, LogFacts
        <4>2. i = 1 \/ i = 2 \/ i = 3
          OBVIOUS
        <4> QED
          BY <4>1, <4>2 DEF Of, Tracked
      <3> QED
        BY <3>1 DEF NoneBefore
    <2>7. StackFits(file, spans', <<id>>, tid, 4)
      BY <2>1, <2>4, <2>5, <2>6 DEF StackFits
    <2>8. StackFits(file, spans', StackOf(tid)', tid, position + 1)
      <3>1. StackOf(tid)' = <<id>>
        BY <1>5, <2>4
      <3>2. position + 1 = 4
        BY <1>11
      <3> QED
        BY <2>7, <3>1, <3>2
    <2>9. position < Len(file)
      BY <1>4, <1>11
    <2> HIDE DEF id
    <2>10. id = Len(spans) + 1
      BY DEF id
    <2> QED
      BY <1>0, <1>1, <1>5, <1>8, <1>9, <2>2, <2>8, <2>9, <2>10, SpanOpened
  <1>12. CASE position > 3 /\ position < Len(file) /\ m.kind = "TThreadStart"
    <2>1. spans'[id].kind = "Thread" /\ position \in 4 .. Len(file) /\ id \in Nat
      BY <1>2, <1>3, <1>7, <1>9, <1>12
    <2>2. SpanFits(file, spans', id)
      BY <1>9, <1>12, <2>1 DEF SpanFits, StartKind
    <2>3. Opening(spans, spans', s, id, "Thread", position)
      BY <1>9, <1>10, <2>1 DEF Opening
    <2> HIDE DEF id, s
    <2>4. StackFits(file, spans', Append(s, id), tid, position + 1)
      BY <1>0, <1>2, <1>3, <1>4, <1>12, <2>1, <2>3, ThreadStartFits
    <2>5. StackFits(file, spans', StackOf(tid)', tid, position + 1)
      BY <1>5, <2>4
    <2>10. id = Len(spans) + 1
      BY DEF id
    <2> QED
      BY <1>0, <1>1, <1>5, <1>8, <1>9, <1>12, <2>2, <2>5, <2>10, SpanOpened
  <1>13. CASE position > 3 /\ position < Len(file) /\ m.kind = "TS"
    <2>1. spans'[id].kind = "Scope" /\ position \in 4 .. Len(file) /\ id \in Nat
      BY <1>2, <1>3, <1>7, <1>9, <1>13
    <2>3. Opening(spans, spans', s, id, IF m.kind = "TS" THEN "Scope" ELSE "KeyValue", position)
      BY <1>9, <1>10, <1>13, <2>1 DEF Opening
    <2> HIDE DEF id
    <2>4. /\ StackFits(file, spans', Append(s, id), tid, position + 1)
          /\ s # <<>> /\ ParentFits(file, spans, s[Len(s)], m)
      <3> HIDE DEF s
      <3> QED
        BY <1>0, <1>2, <1>3, <1>4, <1>13, <2>1, <2>3, ScopeStartFits
    <2>5. TreeProofs!Top = s[Len(s)] /\ s[Len(s)] \in DOMAIN spans
      BY <1>3, <2>4 DEF TreeProofs!Top
    <2>6. TreeProofs!Top \in 1 .. id - 1 /\ ParentFits(file, spans', TreeProofs!Top, m)
      <3> DEFINE p == s[Len(s)]
      <3>1. p \in 1 .. id - 1
        BY <1>3, <2>5 DEF id
      <3>2. spans'[p].kind = spans[p].kind /\ spans'[p].start = spans[p].start
        BY <1>9, <2>5
      <3>3. ParentFits(file, spans, p, m)
        BY <2>4
      <3> HIDE DEF p, m
      <3>4. ParentFits(file, spans', p, m)
        BY <3>2, <3>3 DEF ParentFits
      <3> QED
        BY <2>5, <3>1, <3>4 DEF p
    <2>8. StackFits(file, spans', StackOf(tid)', tid, position + 1)
      BY <1>5, <2>4
    <2>7. SpanFits(file, spans', id)
      BY <1>9, <1>13, <2>1, <2>6 DEF SpanFits, StartKind
    <2>10. id = Len(spans) + 1
      BY DEF id
    <2> QED
      BY <1>0, <1>1, <1>5, <1>8, <1>9, <1>13, <2>7, <2>8, <2>10, SpanOpened
  <1> QED
    BY <1>2, <1>11, <1>12, <1>13

LEMMA AddKeyValueKeeps ==
    ASSUME ProbesInv, TreeProofs!TreeInv, ReadInv, phase = "gone", Waits,
           TreeProofs!AddKeyValue
    PROVE  ReadInv'
  <1> DEFINE m == file[position]
             id == Len(spans) + 1
             span == TreeProofs!Span("KeyValue", TreeProofs!Top, 0)
             old == [i \in DOMAIN spans |->
                        IF i = TreeProofs!Top
                        THEN [spans[i] EXCEPT !.children = Append(@, id)] ELSE spans[i]]
  <1>0. PICK tid : tid = m.tid
    OBVIOUS
  <1> DEFINE s == StackOf(tid)
  <1>1. Reading /\ m.kind = "KeyValue" /\ TreeProofs!Message = m
    BY DEF TreeProofs!AddKeyValue, TreeProofs!AtMessage, TreeProofs!Message, Reading
  <1>2. /\ Sealed /\ position \in 3 .. Len(file) /\ tid \in AllTids /\ MessageOK(m)
        /\ StackFits(file, spans, s, tid, position)
        /\ position > 3 /\ position < Len(file)
        /\ Chained(file, tid, position, Quitter)
    <2>1. m.kind # "TEnd" /\ m.kind # "TStart" /\ m.kind \in Tracked
      BY <1>1 DEF Tracked
    <2> QED
      BY <1>0, <1>1, <2>1, ReadingFacts
  <1>3. /\ DOMAIN spans = 1 .. Len(spans) /\ Len(spans) \in Nat /\ position \in Nat
        /\ s \in Seq(Nat) /\ \A k \in 1 .. Len(s) : s[k] \in DOMAIN spans
        /\ s = TreeProofs!Stack /\ spans \in Seq(TreeProofs!SpanType)
    BY <1>0, <1>1, ReadTypes
  <1>4. file \in Seq(Messages) /\ Len(file) \in Nat
    BY <1>2, LogFacts
  <1>5. position \in 4 .. Len(file) /\ id \in Nat
    BY <1>2, <1>3
  <1>6. s # <<>>
    <2>1. /\ Roots(file, tid, position) \in {0, 1}
          /\ \E i \in 1 .. position - 1 :
                file[i].kind # "TThreadEnd"
                /\ StackAfter(file, spans, s, Roots(file, tid, position), file[i])
      BY <1>1, <1>2, <1>3, StackFitsAt
    <2>2. PICK i \in 1 .. position - 1 :
                file[i].kind # "TThreadEnd"
                /\ StackAfter(file, spans, s, Roots(file, tid, position), file[i])
      BY <2>1
    <2>3. Len(s) = Roots(file, tid, position) + 1 + Len(After(file[i]))
      BY <2>2 DEF StackAfter
    <2>4. Len(After(file[i])) \in Nat
      <3>1. file[i] \in Messages
        BY <1>2, <1>4
      <3> QED
        BY <3>1, AfterFacts
    <2> HIDE DEF s
    <2>5. Len(s) > 0
      BY <2>1, <2>3, <2>4
    <2> QED
      BY <2>5
  <1>7. TreeProofs!HasStack
    BY <1>3, <1>6 DEF TreeProofs!Stack
  <1>8. /\ spans' = Append(old, span) /\ position' = position + 1 /\ status' = "reading"
        /\ startByThread' = [startByThread EXCEPT ![tid] = Append(@, id)]
    BY <1>0, <1>1, <1>7 DEF TreeProofs!AddKeyValue, Reading
  <1>9. StackOf(tid)' = Append(s, id) /\ \A u \in AllTids \ {tid} : StackOf(u)' = StackOf(u)
    <2>1. tid \in DOMAIN startByThread /\ s = startByThread[tid]
      BY <1>0, <1>1, <1>7 DEF TreeProofs!HasStack, StackOf
    <2> QED
      BY <1>8, <2>1 DEF StackOf
  <1>10. span.kind = "KeyValue" /\ span.start = position /\ span.end = 0
         /\ span.parent = TreeProofs!Top
    BY DEF TreeProofs!Span, TreeProofs!NoEnd
  <1>11. \A i \in DOMAIN spans :
            /\ old[i].kind = spans[i].kind /\ old[i].parent = spans[i].parent
            /\ old[i].start = spans[i].start /\ old[i].end = spans[i].end
    <2> TAKE i \in DOMAIN spans
    <2>1. spans[i] \in TreeProofs!SpanType
      BY <1>3
    <2>2. old[i] = IF i = TreeProofs!Top
                   THEN [spans[i] EXCEPT !.children = Append(@, id)] ELSE spans[i]
      OBVIOUS
    <2> QED
      BY <2>1, <2>2 DEF TreeProofs!SpanType
  <1>12. /\ DOMAIN spans' = DOMAIN spans \cup {id} /\ spans'[id] = span
         /\ \A i \in DOMAIN spans : spans'[i] = old[i]
    <2>1. DOMAIN old = 1 .. Len(spans)
      BY <1>3
    <2> HIDE DEF span, old
    <2>2. Len(old) = Len(spans)
      BY <1>3, <2>1
    <2>3. /\ DOMAIN Append(old, span) = 1 .. id /\ Append(old, span)[id] = span
          /\ \A i \in 1 .. Len(spans) : Append(old, span)[i] = old[i]
      BY <1>3, <2>1, <2>2
    <2> QED
      BY <1>3, <1>8, <2>3
  <1> HIDE DEF span, old
  <1>13. /\ \A i \in DOMAIN spans :
              /\ spans'[i].kind = spans[i].kind /\ spans'[i].parent = spans[i].parent
              /\ spans'[i].start = spans[i].start /\ spans'[i].end = spans[i].end
        /\ spans'[id].start = position /\ spans'[id].end = 0
        /\ spans'[id].parent = TreeProofs!Top /\ spans'[id].kind = "KeyValue"
    BY <1>10, <1>11, <1>12
  <1>14. Keeping(spans, spans', s)
    BY <1>3, <1>13 DEF Keeping
  <1>15. Opening(spans, spans', s, id, IF m.kind = "TS" THEN "Scope" ELSE "KeyValue", position)
    BY <1>1, <1>13, <1>14 DEF Opening
  <1> HIDE DEF id
  <1>16. /\ StackFits(file, spans', Append(s, id), tid, position + 1)
         /\ ParentFits(file, spans, s[Len(s)], m)
    <3> HIDE DEF s
    <3> QED
      BY <1>0, <1>1, <1>2, <1>3, <1>4, <1>5, <1>15, ScopeStartFits
  <1>17. TreeProofs!Top = s[Len(s)] /\ s[Len(s)] \in DOMAIN spans
    BY <1>3, <1>6 DEF TreeProofs!Top
  <1>18. TreeProofs!Top \in 1 .. id - 1 /\ ParentFits(file, spans', TreeProofs!Top, m)
    <3> DEFINE p == s[Len(s)]
    <3>1. p \in 1 .. id - 1
      BY <1>3, <1>17 DEF id
    <3>2. spans'[p].kind = spans[p].kind /\ spans'[p].start = spans[p].start
      BY <1>13, <1>17
    <3>3. ParentFits(file, spans, p, m)
      BY <1>16
    <3> HIDE DEF p, m
    <3>4. ParentFits(file, spans', p, m)
      BY <3>2, <3>3 DEF ParentFits
    <3> QED
      BY <1>17, <3>1, <3>4 DEF p
  <1>19. StackFits(file, spans', StackOf(tid)', tid, position + 1)
    BY <1>9, <1>16
  <1>20. SpanFits(file, spans', id)
    BY <1>1, <1>13, <1>18 DEF SpanFits, StartKind
  <1>21. id = Len(spans) + 1
    BY DEF id
  <1> QED
    BY <1>0, <1>1, <1>2, <1>8, <1>9, <1>12, <1>13, <1>19, <1>20, <1>21, SpanOpened

(* What an end message finds on the stack                                  *)
LEMMA OneClosing ==
    ASSUME NEW s \in Seq(Nat), NEW c, Closes(spans, s, c)
    PROVE  TreeProofs!Closing(s) = {c}
  <1>1. /\ c \in 1 .. Len(s) /\ spans[s[c]].kind # "KeyValue"
        /\ \A k \in c + 1 .. Len(s) : spans[s[k]].kind = "KeyValue"
    BY DEF Closes
  <1>2. c \in TreeProofs!Closing(s)
    BY <1>1 DEF TreeProofs!Closing, TreeProofs!IsKeyValue
  <1>3. ASSUME NEW i \in TreeProofs!Closing(s) PROVE i = c
    <2>1. /\ i \in 1 .. Len(s) /\ spans[s[i]].kind # "KeyValue"
          /\ \A k \in i + 1 .. Len(s) : spans[s[k]].kind = "KeyValue"
      BY DEF TreeProofs!Closing, TreeProofs!IsKeyValue
    <2>2. i \notin c + 1 .. Len(s) /\ c \notin i + 1 .. Len(s)
      BY <1>1, <2>1
    <2> QED
      BY <1>1, <2>1, <2>2
  <1> QED
    BY <1>2, <1>3

(* The span at c on the stack of the message's thread ends                 *)
SpanEnds(tid, c) ==
    LET s == StackOf(tid)
    IN  /\ DOMAIN spans' = DOMAIN spans
        /\ \A i \in DOMAIN spans :
              /\ spans'[i].kind = spans[i].kind /\ spans'[i].parent = spans[i].parent
              /\ spans'[i].start = spans[i].start
              /\ i # s[c] => spans'[i].end = spans[i].end
        /\ spans'[s[c]].end = position
        /\ status' = "reading" /\ position' = position + 1

Pops(tid, c) == /\ StackOf(tid)' = SubSeq(StackOf(tid), 1, c - 1)
                /\ \A u \in AllTids \ {tid} : StackOf(u)' = StackOf(u)

LEMMA EndSpanFacts ==
    ASSUME TreeProofs!TreeInv, TreeProofs!EndSpan, NEW tid, tid = file[position].tid
    PROVE  LET m == file[position]
               s == StackOf(tid)
               kind == TreeProofs!ScopeKind(m.kind)
           IN  \/ /\ TreeProofs!Closing(s) = {} /\ status' = "error"
                  /\ UNCHANGED <<position, spans, startByThread>>
               \/ \E c \in TreeProofs!Closing(s) :
                     /\ c \in 1 .. Len(s)
                     /\ \/ /\ spans[s[c]].kind # kind /\ status' = "error"
                           /\ UNCHANGED <<position, spans, startByThread>>
                        \/ /\ spans[s[c]].kind = kind /\ file[spans[s[c]].start].pn # m.pn
                           /\ status' = "panic"
                        \/ /\ spans[s[c]].kind = kind /\ file[spans[s[c]].start].pn = m.pn
                           /\ SpanEnds(tid, c) /\ Pops(tid, c)
  <1> DEFINE m == file[position]
             s == StackOf(tid)
             kind == TreeProofs!ScopeKind(m.kind)
  <1>1. TreeProofs!Message = m /\ status = "reading"
    BY DEF TreeProofs!Message, TreeProofs!EndSpan, TreeProofs!AtMessage
  <1>2. /\ s = TreeProofs!Stack /\ s \in Seq(Nat) /\ \A k \in 1 .. Len(s) : s[k] \in DOMAIN spans
        /\ spans \in Seq(TreeProofs!SpanType) /\ DOMAIN spans = 1 .. Len(spans)
    BY <1>1, ReadTypes
  <1>3. CASE TreeProofs!Closing(s) = {}
    BY <1>2, <1>3 DEF TreeProofs!EndSpan, TreeProofs!Failed
  <1>4. CASE TreeProofs!Closing(s) # {}
    <2>1. PICK c \in TreeProofs!Closing(s) : TreeProofs!Close(c)
      BY <1>2, <1>4 DEF TreeProofs!EndSpan
    <2>2. c \in 1 .. Len(s)
      BY DEF TreeProofs!Closing
    <2>3. CASE spans[s[c]].kind # kind
      BY <1>1, <1>2, <2>1, <2>2, <2>3 DEF TreeProofs!Close, TreeProofs!Failed
    <2>4. CASE spans[s[c]].kind = kind /\ file[spans[s[c]].start].pn # m.pn
      BY <1>1, <1>2, <2>1, <2>2, <2>4 DEF TreeProofs!Close, TreeProofs!Failed
    <2>5. CASE spans[s[c]].kind = kind /\ file[spans[s[c]].start].pn = m.pn
      <3>1. /\ spans' = [spans EXCEPT ![s[c]].end = position]
            /\ startByThread' = [startByThread EXCEPT ![tid] = SubSeq(@, 1, c - 1)]
            /\ position' = position + 1 /\ status' = status
        BY <1>1, <1>2, <2>1, <2>5 DEF TreeProofs!Close, TreeProofs!Below
      <3>2. s # <<>>
        BY <1>2, <2>2
      <3>3. tid \in DOMAIN startByThread /\ s = startByThread[tid]
        BY <3>2 DEF StackOf
      <3>4. Pops(tid, c)
        BY <3>1, <3>3 DEF StackOf, Pops
      <3>5. s[c] \in DOMAIN spans /\ \A i \in DOMAIN spans : spans[i] \in TreeProofs!SpanType
        BY <1>2, <2>2
      <3> DEFINE id == s[c]
      <3> HIDE DEF id
      <3>6. id \in DOMAIN spans /\ spans' = [spans EXCEPT ![id].end = position]
        BY <3>1, <3>5 DEF id
      <3>7. /\ DOMAIN spans' = DOMAIN spans
            /\ \A i \in DOMAIN spans :
                  /\ spans'[i].kind = spans[i].kind /\ spans'[i].parent = spans[i].parent
                  /\ spans'[i].start = spans[i].start
                  /\ i # id => spans'[i].end = spans[i].end
            /\ spans'[id].end = position
        BY <3>5, <3>6 DEF TreeProofs!SpanType
      <3>8. SpanEnds(tid, c)
        BY <1>1, <3>1, <3>7 DEF SpanEnds, id
      <3> QED
        BY <2>2, <2>5, <3>4, <3>8
    <2> QED
      BY <2>3, <2>4, <2>5
  <1> QED
    BY <1>3, <1>4

LEMMA FrontOf ==
    ASSUME NEW S, NEW s \in Seq(Nat), NEW c \in 1 .. Len(s), \A k \in 1 .. Len(s) : s[k] \in S
    PROVE  LET s2 == SubSeq(s, 1, c - 1)
           IN  s2 \in Seq(Nat) /\ \A k \in 1 .. Len(s2) : s2[k] \in S
  <1> DEFINE s2 == SubSeq(s, 1, c - 1)
  <1>1. Len(s) \in Nat /\ c - 1 \in 0 .. Len(s)
    OBVIOUS
  <1>2. s2 \in Seq(Nat) /\ Len(s2) = c - 1 /\ \A k \in 1 .. c - 1 : s2[k] = s[k]
    BY <1>1, Parts
  <1> HIDE DEF s2
  <1>3. \A k \in 1 .. c - 1 : k \in 1 .. Len(s)
    BY <1>1
  <1>4. \A k \in 1 .. Len(s2) : s2[k] \in S
    BY <1>2, <1>3
  <1> QED
    BY <1>2, <1>4 DEF s2

LEMMA SpanEnded ==
    ASSUME ProbesInv, TreeProofs!TreeInv, ReadInv, Reading, Waits,
           NEW tid, tid = file[position].tid, NEW c \in 1 .. Len(StackOf(tid)),
           SpanEnds(tid, c), Pops(tid, c),
           file[position].kind \in {"TEnd", "TThreadEnd", "TE"},
           position < Len(file) =>
              StackFits(file, spans, SubSeq(StackOf(tid), 1, c - 1), tid, position + 1),
           spans[StackOf(tid)[c]].kind = "Scope" =>
              LET start == file[spans[StackOf(tid)[c]].start]
              IN  /\ start.origin.thread = file[position].origin.thread
                  /\ start.origin.scope = file[position].origin.scope,
           position = Len(file) /\ exit.clean => \A u \in AllTids : StackOf(u)' = <<>>
    PROVE  ReadInv'
  <1> DEFINE s == StackOf(tid)
             id == s[c]
             s2 == SubSeq(s, 1, c - 1)
  <1>1. /\ Sealed /\ position \in 3 .. Len(file) /\ tid \in AllTids
        /\ \A i \in DOMAIN spans : SpanFits(file, spans, i)
        /\ \A u \in AllTids : StackFits(file, spans, StackOf(u), u, position)
    BY ReadingFacts
  <1>z. position > 3
    <2>1. position # 3
      BY ReadingFacts
    <2>2. Len(file) \in Nat
      BY LogFacts
    <2> HIDE DEF s, s2, id
    <2> QED
      BY <1>1, <2>1, <2>2
  <1>2. /\ DOMAIN spans = 1 .. Len(spans) /\ Len(spans) \in Nat /\ position \in Nat
        /\ s \in Seq(Nat) /\ \A k \in 1 .. Len(s) : s[k] \in DOMAIN spans
    BY ReadTypes
  <1>3. file \in Seq(Messages) /\ Len(file) \in Nat /\ position > 3
    BY <1>1, <1>z, LogFacts
  <1>4. /\ DOMAIN spans' = DOMAIN spans
        /\ \A i \in DOMAIN spans :
              /\ spans'[i].kind = spans[i].kind /\ spans'[i].parent = spans[i].parent
              /\ spans'[i].start = spans[i].start
              /\ i # id => spans'[i].end = spans[i].end
        /\ spans'[id].end = position
        /\ status' = "reading" /\ position' = position + 1
    BY DEF SpanEnds
  <1>5. ASSUME NEW i \in DOMAIN spans' PROVE SpanFits(file, spans', i)
    <2>1. i \in DOMAIN spans /\ SpanFits(file, spans, i)
      BY <1>1, <1>4
    <2>2. \A p \in 1 .. i - 1 : p \in DOMAIN spans
      <3>1. i \in 1 .. Len(spans)
        BY <1>2, <2>1
      <3> QED
        BY <1>2, <3>1, Earlier
    <2>3. ASSUME NEW p \in 1 .. i - 1, NEW m, ParentFits(file, spans, p, m)
          PROVE  ParentFits(file, spans', p, m)
      <4>1. spans'[p].kind = spans[p].kind /\ spans'[p].start = spans[p].start
        BY <1>4, <2>2
      <4> QED
        BY <2>3, <4>1 DEF ParentFits
    <2>4. /\ spans'[i].kind = spans[i].kind /\ spans'[i].parent = spans[i].parent
          /\ spans'[i].start = spans[i].start
      BY <1>4, <2>1
    <2>5. spans'[i].kind = "Scope" /\ spans'[i].end # 0 =>
             /\ file[spans'[i].end].origin.thread = file[spans'[i].start].origin.thread
             /\ file[spans'[i].end].origin.scope = file[spans'[i].start].origin.scope
      <3>1. CASE i = id
        BY <1>4, <2>4, <3>1
      <3>2. CASE i # id
        <4>1. spans'[i].end = spans[i].end
          BY <1>4, <2>1, <3>2
        <4> QED
          BY <2>1, <2>4, <4>1 DEF SpanFits
      <3> QED
        BY <3>1, <3>2
    <2>6. /\ file[spans'[i].start].kind = StartKind(spans'[i].kind)
          /\ spans'[i].kind \in {"Scope", "KeyValue"} =>
                /\ spans'[i].parent \in 1 .. i - 1
                /\ ParentFits(file, spans', spans'[i].parent, file[spans'[i].start])
      BY <2>1, <2>3, <2>4 DEF SpanFits
    <2> QED
      BY <2>5, <2>6 DEF SpanFits
  <1>6. ASSUME position < Len(file), NEW u \in AllTids
        PROVE  StackFits(file, spans', StackOf(u)', u, position + 1)
    <2>1. CASE u = tid
      <3>1. s2 \in Seq(Nat) /\ \A k \in 1 .. Len(s2) : s2[k] \in DOMAIN spans
        BY <1>2, FrontOf
      <3>2. StackFits(file, spans, s2, tid, position + 1)
        BY <1>6
      <3>3. StackOf(tid)' = s2
        BY DEF Pops
      <3> HIDE DEF s2
      <3>4. Keeping(spans, spans', s2)
        <4>1. \A k \in DOMAIN spans : spans'[k].kind = spans[k].kind /\ spans'[k].start = spans[k].start
          BY <1>4
        <4> QED
          BY <3>1, <4>1 DEF Keeping
      <3>5. position + 1 \in 3 .. Len(file) + 1
        <4>1. position \in Nat /\ Len(file) \in Nat /\ position > 3 /\ position < Len(file)
          BY <1>2, <1>3, <1>6
        <4> QED
          BY <4>1
      <3>6. StackFits(file, spans', s2, tid, position + 1)
        BY <1>3, <3>1, <3>2, <3>4, <3>5, StackKept
      <3> QED
        BY <2>1, <3>3, <3>6
    <2>2. CASE u # tid
      <3> DEFINE t == StackOf(u)
      <3>1. /\ t \in Seq(Nat) /\ \A k \in 1 .. Len(t) : t[k] \in DOMAIN spans
            /\ StackOf(u)' = t
        BY <2>2, ReadTypes DEF Pops
      <3>2. StackFits(file, spans, t, u, position)
        BY <1>1
      <3>3. ~Of(file[position], u)
        BY <2>2 DEF Of
      <3> HIDE DEF t
      <3>4. Keeping(spans, spans', t)
        BY <1>4, <3>1 DEF Keeping
      <3> QED
        BY <1>1, <1>3, <3>1, <3>2, <3>3, <3>4, StackStays
    <2> QED
      BY <2>1, <2>2
  <1> QED
    BY <1>4, <1>5, <1>6, MessageRead

(* The log of a program that called exit, or was not finished, is refused  *)
LEMMA Refused ==
    ASSUME ProbesInv, TreeProofs!TreeInv, ReadInv, Reading, Waits, status' \in {"error", "panic"},
           ~exit.clean
    PROVE  ReadInv'
  <1>1. phase' = "gone" /\ exit' = exit
    BY DEF Reading, Waits
  <1> QED
    BY <1>1 DEF ReadInv, ReadingOK, AcceptingOK, Active

LEMMA EndSpanKeeps ==
    ASSUME ProbesInv, TreeProofs!TreeInv, ReadInv, phase = "gone", Waits,
           TreeProofs!EndSpan
    PROVE  ReadInv'
  <1> DEFINE m == file[position]
             kind == TreeProofs!ScopeKind(m.kind)
  <1>0. PICK tid : tid = m.tid
    OBVIOUS
  <1> DEFINE s == StackOf(tid)
             q == Quitter
  <1>1. Reading /\ m.kind \in {"TEnd", "TThreadEnd", "TE"} /\ TreeProofs!Message = m
    BY DEF TreeProofs!EndSpan, TreeProofs!AtMessage, TreeProofs!Message, Reading, TreeProofs!Ends
  <1>2. /\ Sealed /\ position \in 3 .. Len(file) /\ tid \in AllTids /\ MessageOK(m)
        /\ \A i \in DOMAIN spans : SpanFits(file, spans, i)
        /\ \A u \in AllTids : StackFits(file, spans, StackOf(u), u, position)
        /\ \/ position > 3 /\ position < Len(file) /\ m.kind \in BufferKinds
           \/ position > 3 /\ position = Len(file) /\ m.kind = "TEnd"
        /\ m.kind \in Tracked => Chained(file, tid, position, q)
    BY <1>0, <1>1, ReadingFacts
  <1>3. /\ s \in Seq(Nat) /\ \A k \in 1 .. Len(s) : s[k] \in DOMAIN spans
        /\ \A i \in DOMAIN spans : spans[i].start \in 1 .. position - 1
        /\ \A u : StackOf(u) \in Seq(Nat)
    BY ReadTypes
  <1>4. file \in Seq(Messages) /\ Len(file) \in Nat /\ position \in 4 .. Len(file)
    BY <1>2, LogFacts
  <1>5. \/ /\ TreeProofs!Closing(s) = {} /\ status' = "error"
        \/ \E c \in TreeProofs!Closing(s) :
              /\ c \in 1 .. Len(s)
              /\ \/ spans[s[c]].kind # kind /\ status' = "error"
                 \/ /\ spans[s[c]].kind = kind /\ file[spans[s[c]].start].pn # m.pn
                    /\ status' = "panic"
                 \/ spans[s[c]].kind = kind /\ SpanEnds(tid, c) /\ Pops(tid, c)
    BY <1>0, EndSpanFacts
  <1>6. ASSUME NEW i \in DOMAIN spans, spans[i].kind \in {"Process", "Thread"}
        PROVE  file[spans[i].start].pn = "-"
    <2>1. file[spans[i].start].kind \in {"TStart", "TThreadStart"}
      BY <1>2, <1>6 DEF SpanFits, StartKind
    <2>2. MessageOK(file[spans[i].start])
      <3>1. spans[i].start \in 1 .. Len(file)
        BY <1>3, <1>4
      <3> QED
        BY <1>2, <3>1, LogFacts
    <2> QED
      BY <2>1, <2>2 DEF MessageOK
  <1> HIDE DEF s, q
  <1>7. CASE m.kind = "TE"
    <2>1. position < Len(file) /\ m.kind \in Tracked /\ kind = "Scope"
      BY <1>2, <1>7 DEF Tracked, TreeProofs!ScopeKind
    <2>2. PICK c \in 1 .. Len(s) :
              /\ Closes(spans, s, c) /\ spans[s[c]].kind = "Scope"
              /\ LET start == file[spans[s[c]].start]
                 IN  /\ start.pn = m.pn
                     /\ start.origin.thread = m.origin.thread
                     /\ start.origin.scope = m.origin.scope
              /\ StackFits(file, spans, SubSeq(s, 1, c - 1), tid, position + 1)
      <3>1. StackFits(file, spans, s, tid, position)
        BY <1>2 DEF s
      <3> QED
        BY <1>0, <1>2, <1>3, <1>4, <1>7, <2>1, <3>1, ScopeEndFits
    <2>3. TreeProofs!Closing(s) = {c}
      BY <1>3, <2>2, OneClosing
    <2>4. SpanEnds(tid, c) /\ Pops(tid, c)
      BY <1>5, <2>1, <2>2, <2>3
    <2>5. position # Len(file)
      BY <1>2, <1>7
    <2> QED
      BY <1>0, <1>1, <1>7, <2>2, <2>4, <2>5, SpanEnded DEF s
  <1>8. CASE m.kind = "TThreadEnd"
    <2>1. position < Len(file) /\ m.kind \in Tracked /\ kind = "Thread" /\ m.pn = "-"
      BY <1>2, <1>8 DEF Tracked, TreeProofs!ScopeKind, MessageOK
    <2>2. \/ \E c \in 1 .. Len(s) :
                 /\ Closes(spans, s, c) /\ spans[s[c]].kind = "Thread"
                 /\ StackFits(file, spans, SubSeq(s, 1, c - 1), tid, position + 1)
          \/ /\ q # 0
             /\ \E c \in 1 .. Len(s) : \A k \in c .. Len(s) :
                    /\ spans[s[k]].kind \in {"Scope", "KeyValue"}
                    /\ k = c => spans[s[k]].kind = "Scope"
      <3>1. StackFits(file, spans, s, tid, position)
        BY <1>2 DEF s
      <3> QED
        BY <1>0, <1>2, <1>3, <1>4, <1>8, <2>1, <3>1, ThreadEndFits
    <2>3. CASE \E c \in 1 .. Len(s) :
                 /\ Closes(spans, s, c) /\ spans[s[c]].kind = "Thread"
                 /\ StackFits(file, spans, SubSeq(s, 1, c - 1), tid, position + 1)
      <3>1. PICK c \in 1 .. Len(s) :
                 /\ Closes(spans, s, c) /\ spans[s[c]].kind = "Thread"
                 /\ StackFits(file, spans, SubSeq(s, 1, c - 1), tid, position + 1)
        BY <2>3
      <3>2. TreeProofs!Closing(s) = {c}
        BY <1>3, <3>1, OneClosing
      <3>3. file[spans[s[c]].start].pn = "-"
        BY <1>3, <1>6, <3>1 DEF s
      <3>4. SpanEnds(tid, c) /\ Pops(tid, c)
        BY <1>5, <2>1, <3>1, <3>2, <3>3
      <3>5. position # Len(file)
        BY <1>2, <1>8
      <3> QED
        BY <1>0, <1>1, <1>8, <3>1, <3>4, <3>5, SpanEnded DEF s
    <2>4. CASE /\ q # 0
               /\ \E c \in 1 .. Len(s) : \A k \in c .. Len(s) :
                    /\ spans[s[k]].kind \in {"Scope", "KeyValue"}
                    /\ k = c => spans[s[k]].kind = "Scope"
      <3>1. PICK c \in 1 .. Len(s) : \A k \in c .. Len(s) :
                    /\ spans[s[k]].kind \in {"Scope", "KeyValue"}
                    /\ k = c => spans[s[k]].kind = "Scope"
        BY <2>4
      <3>2. Len(s) \in Nat /\ c \in c .. Len(s)
        BY <1>3 DEF s
      <3>3. ~exit.clean
        BY <2>4 DEF q, Quitter
      <3>4. ASSUME NEW i \in TreeProofs!Closing(s), i \in 1 .. Len(s)
            PROVE  spans[s[i]].kind # "Thread"
        <4>1. \A k \in i + 1 .. Len(s) : spans[s[k]].kind = "KeyValue"
          BY DEF TreeProofs!Closing, TreeProofs!IsKeyValue
        <4>2. c \notin i + 1 .. Len(s)
          BY <3>1, <3>2, <4>1
        <4>3. i \in c .. Len(s)
          BY <3>2, <3>4, <4>2
        <4> QED
          BY <3>1, <4>3
      <3>5. status' = "error"
        BY <1>5, <2>1, <3>4
      <3> QED
        BY <1>1, <3>3, <3>5, Refused
    <2> QED
      BY <2>2, <2>3, <2>4
  <1>9. CASE m.kind = "TEnd"
    <2>1. position = Len(file) /\ kind = "Process" /\ m.pn = "-"
      BY <1>2, <1>9 DEF BufferKinds, Tracked, TreeProofs!ScopeKind, MessageOK
    <2>2. CASE ~exit.clean
      <3>1. CASE status' \in {"error", "panic"}
        BY <1>1, <2>2, <3>1, Refused
      <3>2. CASE status' \notin {"error", "panic"}
        <4>1. PICK c \in 1 .. Len(s) :
                 spans[s[c]].kind = kind /\ SpanEnds(tid, c) /\ Pops(tid, c)
          BY <1>5, <3>2
        <4>2. position < Len(file) => FALSE
          BY <1>4, <2>1
        <4> QED
          BY <1>0, <1>1, <2>1, <2>2, <4>1, <4>2, SpanEnded DEF s
      <3> QED
        BY <3>1, <3>2
    <2>3. CASE exit.clean
      <3>1. /\ file[Len(file)].tid = file[3].tid
            /\ \A u \in AllTids : Free(file, u)
        BY <1>2, <2>3 DEF ProbesInv, SealedOK
      <3>2. tid = file[3].tid
        BY <1>0, <2>1, <3>1
      <3>3. ASSUME NEW u \in AllTids
            PROVE  /\ Len(StackOf(u)) = IF u = tid THEN 1 ELSE 0
                   /\ u = tid => spans[StackOf(u)[1]].kind = "Process"
        <4>1. /\ Len(file) > 3 /\ file[Len(file)].kind = "TEnd" /\ Free(file, u)
              /\ StackFits(file, spans, StackOf(u), u, Len(file)) /\ StackOf(u) \in Seq(Nat)
          BY <1>2, <1>3, <2>1, <3>1, LogFacts
        <4> DEFINE t == StackOf(u)
        <4> HIDE DEF t
        <4>2. /\ t \in Seq(Nat) /\ StackFits(file, spans, t, u, Len(file)) /\ Free(file, u)
              /\ Len(file) > 3 /\ file[Len(file)].kind = "TEnd"
          BY <4>1 DEF t
        <4>3. /\ Len(t) = IF u = file[3].tid THEN 1 ELSE 0
              /\ u = file[3].tid => spans[t[1]].kind = "Process"
          BY <1>4, <4>2, ProcessEndFits
        <4> QED
          BY <3>2, <4>3 DEF t
      <3>4. Len(s) = 1 /\ spans[s[1]].kind = "Process"
        BY <1>2, <3>3 DEF s
      <3>5. Closes(spans, s, 1) /\ s[1] \in DOMAIN spans
        BY <1>3, <3>4 DEF Closes, s
      <3>6. TreeProofs!Closing(s) = {1}
        BY <1>3, <3>5, OneClosing DEF s
      <3>7. file[spans[s[1]].start].pn = "-"
        BY <1>6, <3>4, <3>5
      <3>8. SpanEnds(tid, 1) /\ Pops(tid, 1)
        BY <1>5, <2>1, <3>4, <3>6, <3>7
      <3>9. ASSUME NEW u \in AllTids PROVE StackOf(u)' = <<>>
        <4>1. CASE u = tid
          <5>1. StackOf(tid)' = SubSeq(s, 1, 1 - 1)
            BY <3>8 DEF Pops, s
          <5>2. SubSeq(s, 1, 1 - 1) = <<>>
            BY <1>3 DEF s
          <5> QED
            BY <4>1, <5>1, <5>2
        <4>2. CASE u # tid
          <5>1. Len(StackOf(u)) = 0 /\ StackOf(u) \in Seq(Nat)
            BY <1>3, <3>3, <4>2
          <5>2. StackOf(u) = <<>>
            BY <5>1
          <5>3. StackOf(u)' = StackOf(u)
            BY <3>8, <4>2 DEF Pops
          <5> QED
            BY <5>2, <5>3
        <4> QED
          BY <4>1, <4>2
      <3>10. ~(position < Len(file))
        BY <1>4, <2>1
      <3>11. 1 \in 1 .. Len(s)
        BY <3>4
      <3> QED
        BY <1>0, <1>1, <3>4, <3>8, <3>9, <3>10, <3>11, SpanEnded DEF s
    <2> QED
      BY <2>2, <2>3
  <1> QED
    BY <1>1, <1>7, <1>8, <1>9

LEMMA MakeTablesKeeps ==
    ASSUME ProbesInv, TreeProofs!TreeInv, ReadInv, phase = "gone", Waits,
           TreeProofs!MakeTables
    PROVE  ReadInv'
  <1>1. /\ status = "built" /\ position' = position /\ spans' = spans
        /\ startByThread' = startByThread
    BY DEF TreeProofs!MakeTables
  <1>2. Sealed' = Sealed /\ phase' = "gone" /\ file' = file /\ exit' = exit
    BY DEF Waits, Sealed
  <1>3. /\ Sealed /\ position = Len(file) + 1
        /\ \A i \in DOMAIN spans : SpanFits(file, spans, i)
    BY <1>1 DEF ReadInv, ReadingOK, Active
  <1>4. Len(file) \in Nat /\ ~(position <= Len(file)) /\ position \in 3 .. Len(file) + 1
    <2>1. Len(file) \in Nat /\ Len(file) > 3
      BY <1>3, LogFacts
    <2> QED
      BY <1>3, <2>1
  <1>5. /\ \A tid : StackOf(tid)' = StackOf(tid)
    BY <1>1 DEF StackOf
  <1> DEFINE Incomplete(i) == /\ spans[i].kind # "KeyValue"
                              /\ spans[i].end = 0 \/ file[spans[i].start].n = 0
  <1>6. CASE \A i \in DOMAIN spans : ~Incomplete(i)
    <2>1. status' = "done"
      BY <1>6 DEF TreeProofs!MakeTables, TreeProofs!IsKeyValue, TreeProofs!NoEnd
    <2>2. ReadingOK'
      <3>1. \A j \in 3 .. position - 1 : file[j].kind \in {"TStart", "TThreadStart", "TS"} =>
                \E i \in DOMAIN spans : spans[i].start = j
        BY <1>1 DEF ReadInv, ReadingOK, Active
      <3> QED
        BY <1>1, <1>2, <1>3, <1>4, <1>6, <2>1, <3>1 DEF ReadingOK
    <2>3. AcceptingOK'
      <3>1. Sealed /\ exit.clean => \A tid \in AllTids : StackOf(tid) = <<>>
        BY <1>1, <1>3 DEF ReadInv, AcceptingOK, Active
      <3> QED
        BY <1>2, <1>5, <2>1, <3>1 DEF AcceptingOK
    <2> QED
      BY <2>2, <2>3 DEF ReadInv
  <1>7. CASE \E i \in DOMAIN spans : Incomplete(i)
    <2>1. status' = "panic"
      BY <1>7 DEF TreeProofs!MakeTables, TreeProofs!IsKeyValue, TreeProofs!NoEnd
    <2>2. PICK i \in DOMAIN spans : Incomplete(i)
      BY <1>7
    <2>3. /\ spans[i].start \in 1 .. Len(file)
          /\ spans[i].kind \in {"Process", "Thread", "Scope", "KeyValue"}
      <3>1. spans[i].start \in 1 .. position - 1
        BY ReadTypes
      <3>2. spans[i].kind \in {"Process", "Thread", "Scope", "KeyValue"}
        BY ReadTypes
      <3> QED
        BY <1>3, <1>4, <3>1, <3>2
    <2>4. file[spans[i].start].n # 0
      <3>1. MessageOK(file[spans[i].start])
        BY <1>3, <2>3, LogFacts
      <3>2. file[spans[i].start].kind = StartKind(spans[i].kind)
        BY <1>3 DEF SpanFits
      <3>3. file[spans[i].start].kind \in {"TStart", "TThreadStart", "TS"}
        BY <2>2, <2>3, <3>2 DEF StartKind
      <3> QED
        BY <3>1, <3>3 DEF MessageOK
    <2>5. spans[i].end = 0 /\ spans[i].kind # "KeyValue"
      BY <2>2, <2>4
    <2>6. ~exit.clean
      <3> SUFFICES ASSUME exit.clean PROVE FALSE
        OBVIOUS
      <3>1. \A tid \in AllTids : StackOf(tid) = <<>>
        BY <1>1, <1>3 DEF ReadInv, AcceptingOK, Active
      <3> DEFINE tid == file[spans[i].start].tid
      <3>2. i \in TreeProofs!Scoped \ TreeProofs!Ended /\ TreeProofs!TidOf(i) = tid
        BY <2>5 DEF TreeProofs!Scoped, TreeProofs!Ended, TreeProofs!IsKeyValue,
                    TreeProofs!NoEnd, TreeProofs!TidOf
      <3>3. /\ tid \in DOMAIN startByThread
            /\ \E k \in 1 .. Len(startByThread[tid]) : startByThread[tid][k] = i
        BY <3>2 DEF TreeProofs!TreeInv, TreeProofs!StacksOK
      <3>4. tid \in AllTids
        BY <1>3, <2>3, LogFacts
      <3>5. startByThread[tid] = <<>>
        BY <3>1, <3>3, <3>4 DEF StackOf
      <3> QED
        BY <3>3, <3>5
    <2> QED
      BY <1>2, <2>1, <2>6 DEF ReadInv, ReadingOK, AcceptingOK, Active
  <1> QED
    BY <1>6, <1>7

LEMMA ReadInvIsInductive ==
    ASSUME ProbesInv, TreeProofs!TreeInv, WaitsForProgram, ReadInv, [Next]_vars
    PROVE  ReadInv'
  <1>1. CASE phase # "gone"
    <2>1. status = "unread" /\ status' = "unread"
      BY <1>1 DEF WaitsForProgram, TreeProofs!TreeInit, Next, Program, Evaluate, vars, treeVars
    <2> QED
      BY <2>1 DEF ReadInv, ReadingOK, AcceptingOK, Active
  <1>2. CASE UNCHANGED vars
    <2>1. UNCHANGED <<phase, file, exit, status, position, spans, startByThread>>
      BY <1>2 DEF vars, probeVars, treeVars
    <2>2. \A tid : StackOf(tid)' = StackOf(tid)
      BY <2>1 DEF StackOf
    <2>3. Sealed' = Sealed /\ Active' = Active
      BY <2>1 DEF Sealed, Active
    <2>4. ReadingOK'
      BY <2>1, <2>2, <2>3 DEF ReadInv, ReadingOK
    <2>5. AcceptingOK'
      BY <2>1, <2>2, <2>3 DEF ReadInv, AcceptingOK
    <2> QED
      BY <2>4, <2>5 DEF ReadInv
  <1>3. CASE phase = "gone" /\ Evaluate
    <2>1. TreeProofs!TreeNext /\ Waits
      BY <1>3, SameStep DEF Evaluate, Waits, probeVars
    <2>2. CASE TreeProofs!ReadFile
      BY <1>3, <2>1, <2>2, ReadFileKeeps
    <2>3. CASE TreeProofs!StartSpan
      BY <1>3, <2>1, <2>3, StartSpanKeeps
    <2>4. CASE TreeProofs!AddKeyValue
      BY <1>3, <2>1, <2>4, AddKeyValueKeeps
    <2>5. CASE TreeProofs!EndSpan
      BY <1>3, <2>1, <2>5, EndSpanKeeps
    <2>6. CASE TreeProofs!SkipMessage
      BY <1>3, <2>1, <2>6, SkipMessageKeeps
    <2>7. CASE TreeProofs!Built
      BY <1>3, <2>1, <2>7, BuiltKeeps
    <2>8. CASE TreeProofs!MakeTables
      BY <1>3, <2>1, <2>8, MakeTablesKeeps
    <2> QED
      BY <2>1, <2>2, <2>3, <2>4, <2>5, <2>6, <2>7, <2>8 DEF TreeProofs!TreeNext
  <1> QED
    BY <1>1, <1>2, <1>3, GoneDoesNothing DEF Next, Program

(* What the evaluator has made of the log so far: see ReadInv              *)
THEOREM ReadInvHolds == Spec => []ReadInv
  <1>1. Init => ReadInv /\ WaitsForProgram
    <2> SUFFICES ASSUME Init PROVE ReadInv /\ WaitsForProgram
      OBVIOUS
    <2>1. TreeProofs!TreeInit /\ status = "unread"
      BY SameInit DEF Init, TreeProofs!TreeInit
    <2> QED
      BY <2>1 DEF WaitsForProgram, ReadInv, ReadingOK, AcceptingOK, Active
  <1>2. WaitsForProgram /\ [Next]_vars => WaitsForProgram'
    BY WaitsForProgramIsInductive
  <1>3. ProbesInv /\ TreeProofs!TreeInv /\ WaitsForProgram /\ ReadInv /\ [Next]_vars => ReadInv'
    BY ReadInvIsInductive
  <1> QED
    BY <1>1, <1>2, <1>3, ProbesInvHolds, TreeInvHolds, PTL DEF Spec

-----------------------------------------------------------------------------
(***************************************************************************)
(* What the tree tells                                                     *)
(***************************************************************************)
LEMMA Smallest ==
    ASSUME NEW S, S \subseteq Nat, S # {}
    PROVE  \E m \in S : \A k \in S : m <= k
  <1>1. PICK m \in S : \A k \in S : <<k, m>> \notin OpToRel(<, Nat)
    BY WFMin, NatLessThanWellFounded
  <1>2. \A k \in S : ~(k < m)
    BY <1>1 DEF OpToRel
  <1> QED
    BY <1>2

(* What is above the span i if up tells it of the spans before i           *)
Above(up, i) ==
    LET p == spans[i].parent
    IN  IF p = 0 \/ spans[p].kind \in {"Thread", "Process"}
        THEN [root |-> p, trail |-> <<>>]
        ELSE [root |-> up[p].root,
              trail |-> Append(up[p].trail, [name  |-> Start(p).pn,
                                             scope |-> Start(p).origin.scope])]

LEMMA AncestryTells ==
    ASSUME NEW n \in Nat, n = Len(spans), \A i \in 1 .. n : spans[i].parent \in 0 .. i - 1
    PROVE  \A i \in 1 .. n : Ancestry[i] = Above(Ancestry, i)
  <1>1. Ancestry = CHOOSE up : up = [i \in 1 .. n |-> Above(up, i)]
    BY DEF Ancestry, Above
  <1> DEFINE Describes(up, k) == up = [i \in 1 .. k |-> Above(up, i)]
             Untold == {k \in 0 .. n : \A up : ~Describes(up, k)}
  <1>2. ASSUME NEW up, NEW up2, NEW i \in 1 .. n, \A j \in 1 .. i - 1 : up2[j] = up[j]
        PROVE  Above(up2, i) = Above(up, i)
    <2> DEFINE p == spans[i].parent
    <2>1. p = 0 \/ p \in 1 .. i - 1
      <3>1. p \in 0 .. i - 1
        OBVIOUS
      <3> HIDE DEF p
      <3> QED
        BY <3>1
    <2>2. p # 0 => up2[p] = up[p]
      BY <1>2, <2>1
    <2> QED
      BY <2>2 DEF Above
  <1>3. Untold = {}
    <2> SUFFICES ASSUME Untold # {} PROVE FALSE
      OBVIOUS
    <2>1. PICK k \in Untold : \A l \in Untold : k <= l
      <3>1. Untold \subseteq Nat
        OBVIOUS
      <3> HIDE DEF Untold
      <3> QED
        BY <3>1, Smallest
    <2>2. k \in 0 .. n /\ \A up : ~Describes(up, k)
      OBVIOUS
    <2>3. k # 0
      <3> DEFINE none == [i \in 1 .. 0 |-> 0]
      <3>1. none = [i \in 1 .. 0 |-> Above(none, i)]
        <4>1. \A i \in 1 .. 0 : none[i] = Above(none, i)
          OBVIOUS
        <4> QED
          BY <4>1
      <3>2. Describes(none, 0)
        BY <3>1
      <3> QED
        BY <2>2, <3>2
    <2>4. k - 1 \in 0 .. n /\ k - 1 \notin Untold /\ k \in 1 .. n
      <3>1. k - 1 \in 0 .. n /\ k \in 1 .. n /\ ~(k <= k - 1)
        BY <2>2, <2>3
      <3> HIDE DEF Untold
      <3> QED
        BY <2>1, <3>1
    <2>5. PICK up : Describes(up, k - 1)
      BY <2>4
    <2> DEFINE up2 == [i \in 1 .. k |-> IF i = k THEN Above(up, k) ELSE up[i]]
    <2>6. \A j \in 1 .. k - 1 : up2[j] = up[j]
      BY <2>4
    <2>7. up2[k] = Above(up, k)
      BY <2>4
    <2>8. \A i \in 1 .. k - 1 : up[i] = Above(up, i)
      BY <2>5
    <2>9. ASSUME NEW i \in 1 .. k PROVE up2[i] = Above(up2, i)
      <3> HIDE DEF up2
      <3>1. i \in 1 .. n /\ \A j \in 1 .. i - 1 : j \in 1 .. k - 1
        BY <2>4
      <3>2. Above(up2, i) = Above(up, i)
        BY <1>2, <2>6, <3>1
      <3>3. CASE i = k
        BY <2>7, <3>2, <3>3
      <3>4. CASE i # k
        <4>1. i \in 1 .. k - 1
          BY <2>4, <3>4
        <4> QED
          BY <2>6, <2>8, <3>2, <4>1
      <3> QED
        BY <3>3, <3>4
    <2>10. up2 = [i \in 1 .. k |-> Above(up2, i)]
      BY <2>9
    <2>11. Describes(up2, k)
      BY <2>10
    <2> QED
      BY <2>2, <2>11
  <1>4. \E up : Describes(up, n)
    BY <1>3
  <1>5. Describes(Ancestry, n)
    BY <1>1, <1>4
  <1> QED
    BY <1>5

LEMMA ParentsComeFirst ==
    ASSUME TreeProofs!TreeInv
    PROVE  \A i \in 1 .. Len(spans) : spans[i].parent \in 0 .. i - 1
  <1> TAKE i \in 1 .. Len(spans)
  <1>1. i \in DOMAIN spans /\ i \in Nat /\ spans[i] \in TreeProofs!SpanType
    BY ReadTypes
  <1>2. spans[i].parent \in Nat
    BY <1>1 DEF TreeProofs!SpanType
  <1>3. spans[i].parent # 0 => spans[i].parent < i
    BY <1>1 DEF TreeProofs!TreeInv, TreeProofs!SpansNest, TreeProofs!NoSpan
  <1> QED
    BY <1>1, <1>2, <1>3

LEMMA TrailsAreTold ==
    ASSUME TreeProofs!TreeInv, ReadInv, status = "done"
    PROVE  \A i \in DOMAIN spans : spans[i].kind \in {"Scope", "KeyValue"} =>
              LET up == Ancestry
              IN  /\ up[i].trail = Start(i).origin.trail
                  /\ up[i].root \in DOMAIN spans /\ spans[up[i].root].kind = "Thread"
                  /\ Start(up[i].root).origin.thread = Start(i).origin.thread
  <1> DEFINE n == Len(spans)
             up == Ancestry
             Known(i) == /\ up[i].trail = Start(i).origin.trail
                         /\ up[i].root \in DOMAIN spans /\ spans[up[i].root].kind = "Thread"
                         /\ Start(up[i].root).origin.thread = Start(i).origin.thread
             Inner == {i \in DOMAIN spans : spans[i].kind \in {"Scope", "KeyValue"}}
             Untold == {i \in Inner : ~Known(i)}
  <1>1. /\ n \in Nat /\ DOMAIN spans = 1 .. n
        /\ \A i \in DOMAIN spans : spans[i].kind \in {"Process", "Thread", "Scope", "KeyValue"}
    BY ReadTypes
  <1>2. \A i \in DOMAIN spans : SpanFits(file, spans, i)
    BY DEF ReadInv, ReadingOK, Active
  <1>4. \A i \in 1 .. n : up[i] = Above(up, i)
    BY <1>1, ParentsComeFirst, AncestryTells
  <1> HIDE DEF up, n
  <1>5. Untold = {}
    <2> SUFFICES ASSUME Untold # {} PROVE FALSE
      OBVIOUS
    <2>1. PICK i \in Untold : \A j \in Untold : i <= j
      <3>1. Untold \subseteq Nat
        BY <1>1
      <3> HIDE DEF Untold
      <3> QED
        BY <3>1, Smallest
    <2> DEFINE p == spans[i].parent
               m == Start(i)
    <2>2. i \in DOMAIN spans /\ spans[i].kind \in {"Scope", "KeyValue"} /\ ~Known(i) /\ i \in 1 .. n
      BY <1>1, <2>1
    <2>3. p \in 1 .. i - 1 /\ ParentFits(file, spans, p, m)
      BY <1>2, <2>2 DEF SpanFits, Start
    <2>4. p \in DOMAIN spans /\ p # 0 /\ ~(i <= p)
      BY <1>1, <2>2, <2>3
    <2>5. /\ Start(p).origin.thread = m.origin.thread
          /\ \/ spans[p].kind = "Thread" /\ m.origin.trail = <<>>
             \/ /\ spans[p].kind \in {"Scope", "KeyValue"}
                /\ m.origin.trail = Append(Start(p).origin.trail, Place(Start(p).pn, Start(p).origin.scope))
      BY <2>3 DEF ParentFits, Start
    <2>6. up[i] = Above(up, i)
      BY <1>4, <2>2
    <2>7. CASE spans[p].kind = "Thread"
      <3>1. up[i] = [root |-> p, trail |-> <<>>]
        BY <2>6, <2>7 DEF Above
      <3>2. m.origin.trail = <<>>
        BY <2>5, <2>7
      <3>3. Known(i)
        BY <2>4, <2>5, <2>7, <3>1, <3>2
      <3> QED
        BY <2>2, <3>3
    <2>8. CASE spans[p].kind \in {"Scope", "KeyValue"}
      <3>1. up[i] = [root |-> up[p].root,
                     trail |-> Append(up[p].trail, Place(Start(p).pn, Start(p).origin.scope))]
        BY <2>4, <2>6, <2>8 DEF Above, Place
      <3>2. Known(p)
        <4>1. p \notin Untold
          <5> HIDE DEF Untold
          <5> QED
            BY <2>1, <2>4
        <4> QED
          BY <2>4, <2>8, <4>1
      <3>3. m.origin.trail = Append(Start(p).origin.trail, Place(Start(p).pn, Start(p).origin.scope))
        BY <2>5, <2>8
      <3>4. up[i].trail = m.origin.trail /\ up[i].root = up[p].root
        <4>1. /\ up[i].trail = Append(up[p].trail, Place(Start(p).pn, Start(p).origin.scope))
              /\ up[i].root = up[p].root
          BY <3>1
        <4>2. up[p].trail = Start(p).origin.trail
          BY <3>2
        <4> QED
          <5> HIDE DEF p, m
          <5> QED
            BY <3>3, <4>1, <4>2
      <3>5. Known(i)
        BY <2>5, <3>2, <3>4
      <3> QED
        BY <2>2, <3>5
    <2> QED
      BY <2>5, <2>7, <2>8
  <1> QED
    BY <1>5 DEF up

LEMMA TreeTells ==
    ASSUME TreeProofs!TreeInv, ReadInv
    PROVE  TreeIsTheExecution
  <1> SUFFICES ASSUME status = "done", NEW i \in ScopesIn
               PROVE  LET up == Ancestry
                          origin == Start(i).origin
                      IN  /\ End(i).origin.thread = origin.thread
                          /\ End(i).origin.scope = origin.scope
                          /\ up[i].trail = origin.trail
                          /\ Start(up[i].root).kind = "TThreadStart"
                          /\ Start(up[i].root).origin.thread = origin.thread
    BY DEF TreeIsTheExecution
  <1>1. i \in DOMAIN spans /\ spans[i].kind = "Scope"
    BY DEF ScopesIn
  <1>2. /\ \A j \in DOMAIN spans : SpanFits(file, spans, j)
        /\ \A j \in DOMAIN spans : spans[j].kind # "KeyValue" => spans[j].end # 0
    BY DEF ReadInv, ReadingOK, Active
  <1>3. End(i).origin.thread = Start(i).origin.thread /\ End(i).origin.scope = Start(i).origin.scope
    BY <1>1, <1>2 DEF SpanFits, Start, End
  <1> DEFINE up == Ancestry
             root == up[i].root
  <1>4. /\ up[i].trail = Start(i).origin.trail
        /\ root \in DOMAIN spans /\ spans[root].kind = "Thread"
        /\ Start(root).origin.thread = Start(i).origin.thread
    BY <1>1, TrailsAreTold
  <1> HIDE DEF up, root
  <1>5. Start(root).kind = "TThreadStart"
    BY <1>2, <1>4 DEF SpanFits, StartKind, Start
  <1> QED
    BY <1>3, <1>4, <1>5 DEF up, root

(* Each scope of the tree has its own start and its own end, and lies      *)
(* under the scopes, the key-values and in the thread it was in            *)
THEOREM TreeTellsTheExecution == Spec => []TreeIsTheExecution
  <1>1. TreeProofs!TreeInv /\ ReadInv => TreeIsTheExecution
    BY TreeTells
  <1> QED
    BY <1>1, TreeInvHolds, ReadInvHolds, PTL

LEMMA LogIsWhole ==
    ASSUME ProbesInv, TreeProofs!TreeInv, ReadInv
    PROVE  NothingIsMissing
  <1> SUFFICES ASSUME status = "done", exit.clean PROVE NothingIsMissing
    BY DEF NothingIsMissing
  <1>1. /\ Sealed /\ position = Len(file) + 1
        /\ \A i \in DOMAIN spans : SpanFits(file, spans, i)
        /\ \A j \in 3 .. position - 1 : file[j].kind \in {"TStart", "TThreadStart", "TS"} =>
              \E i \in DOMAIN spans : spans[i].start = j
        /\ \A i \in DOMAIN spans : spans[i].kind # "KeyValue" => spans[i].end # 0
    BY DEF ReadInv, ReadingOK, Active
  <1>2. /\ Len(file) \in Nat /\ Len(file) > 3
        /\ file[1].kind = "Start" /\ file[2].kind = "Metadata"
    BY <1>1, LogFacts
  <1>3. \A t \in Threads : \A k \in 1 .. made[t] : Logged(file, t, k)
    BY <1>1 DEF ProbesInv, SealedOK
  <1>4. ASSUME NEW t \in Threads, NEW k \in 1 .. made[t]
        PROVE  \E i \in ScopesIn : Start(i).origin.thread = t /\ Start(i).origin.scope = k
    <2>1. PICK j \in 1 .. Len(file) :
             file[j].kind = "TS" /\ file[j].origin.thread = t /\ file[j].origin.scope = k
      BY <1>3 DEF Logged
    <2>2. j \in 3 .. position - 1
      <3>1. j # 1 /\ j # 2
        BY <1>2, <2>1
      <3> QED
        BY <1>1, <1>2, <3>1
    <2>3. PICK i \in DOMAIN spans : spans[i].start = j
      BY <1>1, <2>1, <2>2
    <2>4. "TS" = StartKind(spans[i].kind)
      BY <1>1, <2>1, <2>3 DEF SpanFits
    <2>5. spans[i].kind = "Scope"
      <3>1. spans[i].kind \in {"Process", "Thread", "Scope", "KeyValue"}
        BY ReadTypes
      <3> QED
        BY <2>4, <3>1 DEF StartKind
    <2> QED
      BY <2>1, <2>3, <2>5 DEF ScopesIn, Start
  <1>5. ASSUME NEW i \in ScopesIn
        PROVE  \E k \in DOMAIN spansByPn[Start(i).pn] : spansByPn[Start(i).pn][k] = i
    <2> DEFINE pn == Start(i).pn
    <2>1. i \in TreeProofs!Ended /\ TreeProofs!PnOf(i) = pn
      BY <1>1 DEF ScopesIn, TreeProofs!Ended, TreeProofs!Scoped, TreeProofs!IsKeyValue,
                  TreeProofs!NoEnd, TreeProofs!PnOf, Start
    <2>2. TreeProofs!IsIndexed(i)
      BY <2>1 DEF TreeProofs!TreeInv, TreeProofs!EndedSpansAreIndexed
    <2>3. pn \in DOMAIN spansByPn /\ \E k \in 1 .. Len(spansByPn[pn]) : spansByPn[pn][k] = i
      BY <2>1, <2>2 DEF TreeProofs!IsIndexed
    <2>4. spansByPn[pn] \in Seq(Nat)
      BY <2>3 DEF TreeProofs!TreeInv, TreeProofs!TypeOK
    <2> HIDE DEF pn
    <2>5. DOMAIN spansByPn[pn] = 1 .. Len(spansByPn[pn])
      BY <2>4
    <2> QED
      BY <2>3, <2>5 DEF pn
  <1> QED
    BY <1>4, <1>5 DEF NothingIsMissing

(* A log is accepted when it is whole, and only then: whatever the threads *)
(* do, and whichever writes fail                                           *)
THEOREM LogsAreWholeOrRefused == Spec => []LogIsWholeOrRefused
  <1>1. ProbesInv /\ TreeProofs!TreeInv /\ ReadInv => LogIsWholeOrRefused
    <2> SUFFICES ASSUME ProbesInv, TreeProofs!TreeInv, ReadInv PROVE LogIsWholeOrRefused
      OBVIOUS
    <2>1. NothingIsMissing
      BY LogIsWhole
    <2>2. CleanLogIsAccepted
      BY DEF CleanLogIsAccepted, ReadInv, AcceptingOK, ProbesInv, ExitOK
    <2> QED
      BY <2>1, <2>2 DEF LogIsWholeOrRefused
  <1> QED
    BY <1>1, ProbesInvHolds, TreeInvHolds, ReadInvHolds, PTL

-----------------------------------------------------------------------------
(***************************************************************************)
(* What is counted.                                                        *)
(***************************************************************************)
(* The messages of the log that are in M                                   *)
In(log, M) == {k \in 1 .. Len(log) : log[k] \in M}
Number(log, M) == Cardinality(In(log, M))

StartsBy(t) == {m \in Messages : m.kind = "TThreadStart" /\ m.origin.thread = t}
CallsBy(t) ==
    {m \in Messages : m.kind = "TS" /\ m.pn = EveryProbe /\ m.origin.thread = t}

(* What a message is about                                                 *)
NameOK(m) ==
    /\ m.kind = "TS" => m.pn \in Scopes /\ m.n = IF m.pn = EveryProbe THEN EveryN ELSE 1
    /\ m.kind = "KeyValue" => m.pn = "key"
    /\ m.kind = "TThreadStart" => m.origin.thread \in Threads

OwnOK ==
    /\ \A i \in 1 .. Len(file) : NameOK(file[i])
    /\ \A t \in Threads : \A k \in 1 .. Len(thread[t].buffer) :
          NameOK(thread[t].buffer[k]) /\ thread[t].buffer[k].origin.thread = t

(* No thread announces itself twice                                        *)
StartsOK ==
    \A t \in Threads : Number(file, StartsBy(t)) + Number(thread[t].buffer, StartsBy(t))
                          <= IF thread[t].buffering THEN 1 ELSE 0

(* The calls are accounted for in rounds of EveryN, of which skip remain   *)
CallsOK ==
    /\ skip \in [Threads -> 0 .. EveryN - 1] /\ calls \in [Threads -> Nat]
    /\ phase = "init" => \A t \in Threads : skip[t] = 0 /\ calls[t] = 0
    /\ enabled = "on" => \A t \in Threads :
          EveryN * (Number(file, CallsBy(t)) + Number(thread[t].buffer, CallsBy(t)))
             = calls[t] + skip[t]
    /\ Sealed /\ exit.clean => \A t \in Threads :
          EveryN * Number(file, CallsBy(t)) = calls[t] + skip[t]

CountsInv == OwnOK /\ StartsOK /\ CallsOK

(* A thread has ended before the next one with its id starts               *)
ThreadsOK ==
    Active => \A i, j \in DOMAIN spans :
        i < j /\ spans[i].kind = "Thread" /\ spans[j].kind = "Thread"
              /\ Start(i).tid = Start(j).tid
           => spans[i].end # 0 /\ spans[i].end < spans[j].start

LEMMA InFacts ==
    ASSUME NEW log \in Seq(Messages), NEW M
    PROVE  /\ In(log, M) \subseteq 1 .. Len(log) /\ IsFiniteSet(In(log, M))
           /\ Number(log, M) \in Nat
  <1>1. Len(log) \in Nat
    OBVIOUS
  <1>2. IsFiniteSet(1 .. Len(log))
    BY <1>1, FS_Interval
  <1>3. In(log, M) \subseteq 1 .. Len(log)
    BY DEF In
  <1>4. IsFiniteSet(In(log, M))
    BY <1>2, <1>3, FS_Subset
  <1> QED
    BY <1>3, <1>4, FS_CardinalityType DEF Number

LEMMA NumberOfNone ==
    ASSUME NEW log \in Seq(Messages), NEW M, \A k \in 1 .. Len(log) : log[k] \notin M
    PROVE  Number(log, M) = 0
  <1>1. In(log, M) = {}
    BY DEF In
  <1> QED
    BY <1>1, FS_EmptySet DEF Number

LEMMA NumberOfEmpty ==
    ASSUME NEW M
    PROVE  Number(<<>>, M) = 0
  <1>1. <<>> \in Seq(Messages) /\ Len(<<>>) = 0
    OBVIOUS
  <1>2. \A k \in 1 .. Len(<<>>) : <<>>[k] \notin M
    BY <1>1
  <1> QED
    BY <1>1, <1>2, NumberOfNone

LEMMA NumberOfOne ==
    ASSUME NEW m \in Messages, NEW M
    PROVE  Number(<<m>>, M) = IF m \in M THEN 1 ELSE 0
  <1>1. <<m>> \in Seq(Messages) /\ Len(<<m>>) = 1 /\ <<m>>[1] = m
    OBVIOUS
  <1>2. CASE m \in M
    <2>1. In(<<m>>, M) = {1}
      BY <1>1, <1>2 DEF In
    <2> QED
      BY <1>2, <2>1, FS_Singleton DEF Number
  <1>3. CASE m \notin M
    <2>1. \A k \in 1 .. Len(<<m>>) : <<m>>[k] \notin M
      BY <1>1, <1>3
    <2> QED
      BY <1>1, <1>3, <2>1, NumberOfNone
  <1> QED
    BY <1>2, <1>3

(* The messages of two logs                                                *)
LEMMA NumberJoined ==
    ASSUME NEW log \in Seq(Messages), NEW x \in Seq(Messages), NEW M
    PROVE  /\ log \o x \in Seq(Messages)
           /\ Number(log \o x, M) = Number(log, M) + Number(x, M)
  <1> DEFINE big == log \o x
             n == Len(log)
             A == In(log, M)
             B == In(x, M)
             C == {k \in In(big, M) : k > n}
  <1>1. /\ big \in Seq(Messages) /\ Len(big) = n + Len(x)
        /\ \A i \in 1 .. n : big[i] = log[i]
        /\ \A i \in 1 .. Len(x) : big[n + i] = x[i]
    BY Joined
  <1>2. n \in Nat /\ Len(x) \in Nat
    OBVIOUS
  <1>3. /\ IsFiniteSet(A) /\ IsFiniteSet(B) /\ A \subseteq 1 .. n /\ B \subseteq 1 .. Len(x)
        /\ IsFiniteSet(In(big, M)) /\ Number(log, M) \in Nat /\ Number(x, M) \in Nat
    BY <1>1, InFacts
  <1> HIDE DEF big, n
  <1>4. In(big, M) = A \cup C
    <2>1. ASSUME NEW k \in 1 .. Len(big), k <= n PROVE k \in In(big, M) <=> k \in A
      <3>1. k \in 1 .. n /\ big[k] = log[k]
        BY <1>1, <1>2, <2>1
      <3> QED
        BY <3>1 DEF In, n
    <2>2. \A k \in A : k \in 1 .. Len(big) /\ k <= n
      BY <1>1, <1>2, <1>3
    <2>3. \A k \in In(big, M) : k \in 1 .. Len(big)
      BY DEF In
    <2>4. \A k \in 1 .. Len(big) : k <= n \/ k > n
      BY <1>1, <1>2
    <2> HIDE DEF A
    <2> QED
      BY <2>1, <2>2, <2>3, <2>4
  <1>5. A \cap C = {}
    BY <1>2, <1>3
  <1>6. IsFiniteSet(C) /\ Cardinality(C) = Cardinality(B)
    <2> DEFINE f == [i \in B |-> n + i]
    <2>1. \A i \in B : f[i] \in C
      <3>1. SUFFICES ASSUME NEW i \in B PROVE n + i \in C
        OBVIOUS
      <3>2. i \in 1 .. Len(x) /\ x[i] \in M
        BY DEF In
      <3>3. n + i \in 1 .. Len(big) /\ n + i > n /\ big[n + i] = x[i]
        BY <1>1, <1>2, <3>2
      <3> QED
        BY <3>2, <3>3 DEF In
    <2>2. \A i, j \in B : f[i] = f[j] => i = j
      BY <1>2, <1>3
    <2>3. \A k \in C : \E i \in B : f[i] = k
      <3> SUFFICES ASSUME NEW k \in C PROVE \E i \in B : n + i = k
        OBVIOUS
      <3>1. k \in 1 .. Len(big) /\ big[k] \in M /\ k > n
        BY DEF In
      <3>2. k - n \in 1 .. Len(x) /\ n + (k - n) = k
        BY <1>1, <1>2, <3>1
      <3>3. x[k - n] = big[k]
        BY <1>1, <3>2
      <3>4. k - n \in B
        BY <3>1, <3>2, <3>3 DEF In
      <3> QED
        BY <3>2, <3>4
    <2> HIDE DEF C, B
    <2>4. f \in Bijection(B, C)
      BY <2>1, <2>2, <2>3 DEF Bijection, Injection, IsInjective, Surjection
    <2>5. ExistsBijection(B, C)
      BY <2>4 DEF ExistsBijection
    <2> QED
      BY <1>3, <2>5, FS_Bijection
  <1>7. Cardinality(A \cup C) = Cardinality(A) + Cardinality(C)
    <2>1. Cardinality(A \cap C) = 0
      BY <1>5, FS_EmptySet
    <2>2. Cardinality(A \cup C) = Cardinality(A) + Cardinality(C) - Cardinality(A \cap C)
      BY <1>3, <1>6, FS_Union
    <2>3. Cardinality(A) \in Nat /\ Cardinality(C) \in Nat
      BY <1>3, <1>6, FS_CardinalityType
    <2> HIDE DEF A, C
    <2> QED
      BY <2>1, <2>2, <2>3
  <1>8. Number(big, M) = Number(log, M) + Number(x, M)
    BY <1>4, <1>6, <1>7 DEF Number
  <1> QED
    BY <1>1, <1>8 DEF big

LEMMA NumberOfPart ==
    ASSUME NEW x \in Seq(Messages), NEW k \in 0 .. Len(x), NEW M
    PROVE  /\ SubSeq(x, 1, k) \in Seq(Messages)
           /\ Number(SubSeq(x, 1, k), M) <= Number(x, M)
           /\ \A i \in 1 .. Len(SubSeq(x, 1, k)) : i \in 1 .. Len(x) /\ SubSeq(x, 1, k)[i] = x[i]
  <1> DEFINE s == SubSeq(x, 1, k)
  <1>1. /\ s \in Seq(Messages) /\ Len(s) = k
        /\ \A i \in 1 .. k : i \in 1 .. Len(x) /\ s[i] = x[i]
    OBVIOUS
  <1> HIDE DEF s
  <1>2. In(s, M) \subseteq In(x, M)
    BY <1>1 DEF In
  <1>3. IsFiniteSet(In(x, M))
    BY InFacts
  <1>4. Cardinality(In(s, M)) <= Cardinality(In(x, M))
    BY <1>2, <1>3, FS_Subset
  <1> QED
    BY <1>1, <1>4 DEF Number, s

(* Of what a write may leave, whether it fails or not                      *)
LEMMA WrittenNumber ==
    ASSUME file \in Seq(Messages), NEW x \in Seq(Messages),
           NEW new \in {file, file \o x} \cup Partly(x)
    PROVE  /\ new \in Seq(Messages)
           /\ \A M : Torn \notin M => Number(new, M) <= Number(file, M) + Number(x, M)
           /\ \A i \in 1 .. Len(new) : \/ new[i] = Torn
                                       \/ \E k \in 1 .. Len(file) : new[i] = file[k]
                                       \/ \E k \in 1 .. Len(x) : new[i] = x[k]
  <1>1. \E k \in 0 .. Len(x), torn \in {<<>>, <<Torn>>} :
            new = (file \o SubSeq(x, 1, k)) \o torn
    <2>1. Len(x) \in Nat
      OBVIOUS
    <2>2. CASE new = file
      <3>1. SubSeq(x, 1, 0) = <<>> /\ file \o <<>> = file
        BY ConcatEmptySeq
      <3>2. 0 \in 0 .. Len(x)
        BY <2>1
      <3> QED
        BY <2>2, <3>1, <3>2
    <2>3. CASE new = file \o x
      <3>1. SubSeq(x, 1, Len(x)) = x /\ file \o x \in Seq(Messages)
        OBVIOUS
      <3>2. (file \o x) \o <<>> = file \o x
        BY <3>1, ConcatEmptySeq
      <3>3. Len(x) \in 0 .. Len(x)
        BY <2>1
      <3> QED
        BY <2>3, <3>1, <3>2, <3>3
    <2>4. CASE new \in Partly(x)
      <3>1. PICK k \in 0 .. Len(x) - 1, torn \in {<<>>, <<Torn>>} :
                new = (file \o SubSeq(x, 1, k)) \o torn
        BY <2>4 DEF Partly
      <3>2. k \in 0 .. Len(x)
        BY <2>1
      <3> QED
        BY <3>1, <3>2
    <2> QED
      BY <2>2, <2>3, <2>4
  <1>2. PICK k \in 0 .. Len(x), torn \in {<<>>, <<Torn>>} :
            new = (file \o SubSeq(x, 1, k)) \o torn
    BY <1>1
  <1> DEFINE s == SubSeq(x, 1, k)
             fs == file \o s
  <1>3. /\ s \in Seq(Messages) /\ \A M : Number(s, M) <= Number(x, M)
        /\ \A i \in 1 .. Len(s) : i \in 1 .. Len(x) /\ s[i] = x[i]
    BY NumberOfPart
  <1>4. torn \in Seq(Messages) /\ \A i \in 1 .. Len(torn) : torn[i] = Torn
    <2>1. <<>> \in Seq(Messages) /\ <<Torn>> \in Seq(Messages)
      BY TornIsMessage
    <2>2. CASE torn = <<>>
      BY <2>1, <2>2
    <2>3. CASE torn = <<Torn>>
      BY <2>1, <2>3
    <2> QED
      BY <2>2, <2>3
  <1> HIDE DEF s
  <1>5. /\ fs \in Seq(Messages) /\ \A M : Number(fs, M) = Number(file, M) + Number(s, M)
        /\ Len(fs) = Len(file) + Len(s)
        /\ \A i \in 1 .. Len(file) : fs[i] = file[i]
        /\ \A i \in 1 .. Len(s) : fs[Len(file) + i] = s[i]
    BY <1>3, NumberJoined, Joined
  <1> HIDE DEF fs
  <1>6. /\ new \in Seq(Messages) /\ \A M : Number(new, M) = Number(fs, M) + Number(torn, M)
        /\ Len(new) = Len(fs) + Len(torn)
        /\ \A i \in 1 .. Len(fs) : new[i] = fs[i]
        /\ \A i \in 1 .. Len(torn) : new[Len(fs) + i] = torn[i]
    <2> DEFINE n == fs \o torn
    <2>1. /\ n \in Seq(Messages) /\ \A M : Number(n, M) = Number(fs, M) + Number(torn, M)
          /\ Len(n) = Len(fs) + Len(torn)
          /\ \A i \in 1 .. Len(fs) : n[i] = fs[i]
          /\ \A i \in 1 .. Len(torn) : n[Len(fs) + i] = torn[i]
      <3>1. \A M : Number(n, M) = Number(fs, M) + Number(torn, M)
        BY <1>4, <1>5, NumberJoined
      <3>2. /\ n \in Seq(Messages) /\ Len(n) = Len(fs) + Len(torn)
            /\ \A i \in 1 .. Len(fs) : n[i] = fs[i]
            /\ \A i \in 1 .. Len(torn) : n[Len(fs) + i] = torn[i]
        <4>1. fs \in Seq(Messages) /\ torn \in Seq(Messages)
          BY <1>4, <1>5
        <4> QED
          BY <4>1, Joined
      <3> QED
        BY <3>1, <3>2
    <2>2. new = n
      BY <1>2 DEF fs, s
    <2> HIDE DEF n
    <2> QED
      BY <2>1, <2>2
  <1>7. ASSUME NEW M, Torn \notin M PROVE Number(new, M) <= Number(file, M) + Number(x, M)
    <2>1. Number(torn, M) = 0
      BY <1>4, <1>7, NumberOfNone
    <2>2. /\ Number(file, M) \in Nat /\ Number(x, M) \in Nat /\ Number(s, M) \in Nat
          /\ Number(new, M) = Number(fs, M) + Number(torn, M)
          /\ Number(fs, M) = Number(file, M) + Number(s, M)
          /\ Number(s, M) <= Number(x, M)
      BY <1>3, <1>5, <1>6, InFacts
    <2> QED
      BY <2>1, <2>2
  <1>8. Len(file) \in Nat /\ Len(s) \in Nat /\ Len(fs) \in Nat /\ Len(torn) \in Nat
    BY <1>3, <1>4, <1>5
  <1>9. ASSUME NEW i \in 1 .. Len(new)
        PROVE  \/ new[i] = Torn
               \/ \E l \in 1 .. Len(file) : new[i] = file[l]
               \/ \E l \in 1 .. Len(x) : new[i] = x[l]
    <2>1. CASE i <= Len(file)
      <3>1. i \in 1 .. Len(file) /\ i \in 1 .. Len(fs)
        BY <1>5, <1>6, <1>8, <2>1
      <3>2. new[i] = file[i]
        BY <1>5, <1>6, <3>1
      <3> QED
        BY <3>1, <3>2
    <2>2. CASE i > Len(file) /\ i <= Len(fs)
      <3>1. /\ i \in 1 .. Len(fs) /\ i - Len(file) \in 1 .. Len(s)
            /\ Len(file) + (i - Len(file)) = i
        BY <1>5, <1>6, <1>8, <2>2
      <3>2. new[i] = fs[i] /\ fs[i] = s[i - Len(file)]
        BY <1>5, <1>6, <3>1
      <3>3. i - Len(file) \in 1 .. Len(x) /\ s[i - Len(file)] = x[i - Len(file)]
        BY <1>3, <3>1
      <3> QED
        BY <3>2, <3>3
    <2>3. CASE i > Len(fs)
      <3>1. /\ i - Len(fs) \in 1 .. Len(torn) /\ Len(fs) + (i - Len(fs)) = i
        BY <1>6, <1>8, <2>3
      <3>2. new[i] = torn[i - Len(fs)]
        BY <1>6, <3>1
      <3> QED
        BY <1>4, <3>1, <3>2
    <2> QED
      BY <1>5, <1>6, <1>8, <2>1, <2>2, <2>3
  <1> QED
    BY <1>6, <1>7, <1>9

-----------------------------------------------------------------------------
(***************************************************************************)
(* What a step of a thread counts                                          *)
(***************************************************************************)
Own(x, t) == \A k \in 1 .. Len(x) : NameOK(x[k]) /\ x[k].origin.thread = t

(* The thread has written or still has what it had, with e calls more      *)
Counts(t, e) ==
    \E x, rest \in Seq(Messages) :
        /\ file' \in {file, file \o x} \cup Partly(x)
        /\ thread'[t].buffer = rest
        /\ Own(x, t) /\ Own(rest, t)
        /\ thread[t].buffering => thread'[t].buffering
        /\ Number(x, StartsBy(t)) + Number(rest, StartsBy(t))
              <= Number(thread[t].buffer, StartsBy(t))
                 + (IF ~thread[t].buffering /\ thread'[t].buffering THEN 1 ELSE 0)
        /\ enabled = "on" /\ enabled' = "on" =>
              /\ file' = file \o x
              /\ Number(x, CallsBy(t)) + Number(rest, CallsBy(t))
                    = Number(thread[t].buffer, CallsBy(t)) + e

LEMMA TornIsNotCounted == \A t : Torn \notin StartsBy(t) /\ Torn \notin CallsBy(t)
  BY TornIsMessage DEF StartsBy, CallsBy

LEMMA CountsKeeps ==
    ASSUME ProbesTypeOK, ProbesTypeOK', OwnOK, StartsOK, NEW t \in Threads, NEW e \in Nat,
           Counts(t, e), \A u \in Threads \ {t} : thread'[u] = thread[u]
    PROVE  /\ OwnOK' /\ StartsOK'
           /\ enabled = "on" /\ enabled' = "on" => \A u \in Threads :
                 Number(file', CallsBy(u)) + Number(thread'[u].buffer, CallsBy(u))
                    = Number(file, CallsBy(u)) + Number(thread[u].buffer, CallsBy(u))
                      + (IF u = t THEN e ELSE 0)
  <1>1. PICK x \in Seq(Messages), rest \in Seq(Messages) :
        /\ file' \in {file, file \o x} \cup Partly(x)
        /\ thread'[t].buffer = rest
        /\ Own(x, t) /\ Own(rest, t)
        /\ thread[t].buffering => thread'[t].buffering
        /\ Number(x, StartsBy(t)) + Number(rest, StartsBy(t))
              <= Number(thread[t].buffer, StartsBy(t))
                 + (IF ~thread[t].buffering /\ thread'[t].buffering THEN 1 ELSE 0)
        /\ enabled = "on" /\ enabled' = "on" =>
              /\ file' = file \o x
              /\ Number(x, CallsBy(t)) + Number(rest, CallsBy(t))
                    = Number(thread[t].buffer, CallsBy(t)) + e
    BY DEF Counts
  <1>2. file \in Seq(Messages)
    BY DEF ProbesTypeOK
  <1>3. \A u \in Threads : /\ thread[u].buffer \in Seq(Messages) /\ thread'[u].buffer \in Seq(Messages)
                           /\ thread[u].buffering \in BOOLEAN /\ thread'[u].buffering \in BOOLEAN
    BY DEF ProbesTypeOK, ThreadStates
  <1>4. /\ file' \in Seq(Messages)
        /\ \A M : Torn \notin M => Number(file', M) <= Number(file, M) + Number(x, M)
        /\ \A i \in 1 .. Len(file') : \/ file'[i] = Torn
                                      \/ \E k \in 1 .. Len(file) : file'[i] = file[k]
                                      \/ \E k \in 1 .. Len(x) : file'[i] = x[k]
    <2>1. PICK new : new = file'
      OBVIOUS
    <2>2. new \in {file, file \o x} \cup Partly(x)
      BY <1>1, <2>1
    <2>3. /\ new \in Seq(Messages)
          /\ \A M : Torn \notin M => Number(new, M) <= Number(file, M) + Number(x, M)
          /\ \A i \in 1 .. Len(new) : \/ new[i] = Torn
                                      \/ \E k \in 1 .. Len(file) : new[i] = file[k]
                                      \/ \E k \in 1 .. Len(x) : new[i] = x[k]
      BY <1>2, <2>2, WrittenNumber
    <2> QED
      BY <2>1, <2>3
  <1>5. ASSUME NEW u \in Threads, u # t
        PROVE  Number(x, StartsBy(u)) = 0 /\ Number(x, CallsBy(u)) = 0
    <2>1. \A k \in 1 .. Len(x) : x[k] \notin StartsBy(u) /\ x[k] \notin CallsBy(u)
      BY <1>1, <1>5 DEF Own, StartsBy, CallsBy
    <2> QED
      BY <2>1, NumberOfNone
  <1>6. \A M : \A u \in Threads :
           /\ Number(file, M) \in Nat /\ Number(file', M) \in Nat /\ Number(x, M) \in Nat
           /\ Number(thread[u].buffer, M) \in Nat /\ Number(thread'[u].buffer, M) \in Nat
    BY <1>2, <1>3, <1>4, InFacts
  <1>7. OwnOK'
    <2>1. NameOK(Torn)
      BY TornIsMessage DEF NameOK
    <2>2. \A i \in 1 .. Len(file') : NameOK(file'[i])
      BY <1>1, <1>4, <2>1 DEF OwnOK, Own
    <2>3. ASSUME NEW u \in Threads
          PROVE  \A k \in 1 .. Len(thread'[u].buffer) :
                    NameOK(thread'[u].buffer[k]) /\ thread'[u].buffer[k].origin.thread = u
      <3>1. CASE u = t
        BY <1>1, <3>1 DEF Own
      <3>2. CASE u # t
        BY <3>2 DEF OwnOK
      <3> QED
        BY <3>1, <3>2
    <2> QED
      BY <2>2, <2>3 DEF OwnOK, NameOK
  <1>8. StartsOK'
    <2> SUFFICES ASSUME NEW u \in Threads
                 PROVE  Number(file', StartsBy(u)) + Number(thread'[u].buffer, StartsBy(u))
                           <= IF thread'[u].buffering THEN 1 ELSE 0
      BY DEF StartsOK, Number, In, StartsBy
    <2> DEFINE S == StartsBy(u)
    <2>1. /\ Number(file', S) <= Number(file, S) + Number(x, S)
          /\ Number(file, S) + Number(thread[u].buffer, S) <= IF thread[u].buffering THEN 1 ELSE 0
          /\ Number(file, S) \in Nat /\ Number(file', S) \in Nat /\ Number(x, S) \in Nat
          /\ Number(thread[u].buffer, S) \in Nat /\ Number(thread'[u].buffer, S) \in Nat
      BY <1>4, <1>6, TornIsNotCounted DEF StartsOK
    <2>2. CASE u = t
      <3>1. /\ Number(x, S) + Number(thread'[u].buffer, S)
                  <= Number(thread[u].buffer, S)
                     + (IF ~thread[u].buffering /\ thread'[u].buffering THEN 1 ELSE 0)
            /\ thread[u].buffering => thread'[u].buffering
        BY <1>1, <2>2
      <3> HIDE DEF S
      <3> DEFINE was == IF thread[u].buffering THEN 1 ELSE 0
                 more == IF ~thread[u].buffering /\ thread'[u].buffering THEN 1 ELSE 0
                 is == IF thread'[u].buffering THEN 1 ELSE 0
      <3>2. was \in Nat /\ more \in Nat /\ was + more = is
        BY <1>3, <3>1
      <3> HIDE DEF was, more, is
      <3>3. /\ Number(file, S) + Number(thread[u].buffer, S) <= was
            /\ Number(x, S) + Number(thread'[u].buffer, S) <= Number(thread[u].buffer, S) + more
        BY <2>1, <3>1 DEF was, more
      <3>4. Number(file', S) + Number(thread'[u].buffer, S) <= was + more
        <4>1. PICK f, f2, b, b2, n : /\ f = Number(file, S) /\ f2 = Number(file', S)
                                     /\ b = Number(thread[u].buffer, S)
                                     /\ b2 = Number(thread'[u].buffer, S) /\ n = Number(x, S)
          OBVIOUS
        <4>2. /\ f \in Nat /\ f2 \in Nat /\ b \in Nat /\ b2 \in Nat /\ n \in Nat
              /\ f2 <= f + n /\ f + b <= was /\ n + b2 <= b + more
          BY <2>1, <3>3, <4>1, Zenon
        <4>3. f2 + b2 <= was + more
          BY <3>2, <4>2
        <4> QED
          BY <4>1, <4>3, Zenon
      <3> QED
        BY <3>2, <3>4 DEF S, is
    <2>3. CASE u # t
      <3>1. Number(x, S) = 0 /\ thread'[u] = thread[u]
        BY <1>5, <2>3
      <3> HIDE DEF S
      <3> QED
        BY <2>1, <3>1 DEF S
    <2> QED
      BY <2>2, <2>3
  <1>9. ASSUME enabled = "on", enabled' = "on", NEW u \in Threads
        PROVE  Number(file', CallsBy(u)) + Number(thread'[u].buffer, CallsBy(u))
                  = Number(file, CallsBy(u)) + Number(thread[u].buffer, CallsBy(u))
                    + (IF u = t THEN e ELSE 0)
    <2> DEFINE S == CallsBy(u)
    <2>1. Number(file', S) = Number(file, S) + Number(x, S)
      <3>1. file' = file \o x
        BY <1>1, <1>9
      <3>2. Number(file \o x, S) = Number(file, S) + Number(x, S)
        BY <1>2, NumberJoined
      <3> QED
        BY <3>1, <3>2
    <2>2. /\ Number(file, S) \in Nat /\ Number(file', S) \in Nat /\ Number(x, S) \in Nat
          /\ Number(thread[u].buffer, S) \in Nat /\ Number(thread'[u].buffer, S) \in Nat
      BY <1>6
    <2>3. CASE u = t
      <3>1. Number(x, S) + Number(thread'[u].buffer, S) = Number(thread[u].buffer, S) + e
        BY <1>1, <1>9, <2>3
      <3> HIDE DEF S
      <3>2. Number(file', S) + Number(thread'[u].buffer, S)
               = Number(file, S) + Number(thread[u].buffer, S) + e
        <4>1. PICK f, f2, b, b2, n : /\ f = Number(file, S) /\ f2 = Number(file', S)
                                     /\ b = Number(thread[u].buffer, S)
                                     /\ b2 = Number(thread'[u].buffer, S) /\ n = Number(x, S)
          OBVIOUS
        <4>2. /\ f \in Nat /\ f2 \in Nat /\ b \in Nat /\ b2 \in Nat /\ n \in Nat
              /\ f2 = f + n /\ n + b2 = b + e
          BY <2>1, <2>2, <3>1, <4>1, Zenon
        <4>3. f2 + b2 = f + b + e
          BY <4>2
        <4> QED
          BY <4>1, <4>3, Zenon
      <3> QED
        BY <2>3, <3>2 DEF S
    <2>4. CASE u # t
      <3>1. Number(x, S) = 0 /\ thread'[u] = thread[u]
        BY <1>5, <2>4
      <3> HIDE DEF S
      <3> QED
        BY <2>1, <2>2, <2>4, <3>1 DEF S
    <2> QED
      BY <2>3, <2>4
  <1> QED
    BY <1>7, <1>8, <1>9

(* A thread that does not log                                              *)
LEMMA QuietCounts ==
    ASSUME ProbesTypeOK, OwnOK, NEW t \in Threads, file' = file,
           thread'[t].buffer = thread[t].buffer, thread'[t].buffering = thread[t].buffering
    PROVE  Counts(t, 0)
  <1> DEFINE b == thread[t].buffer
  <1>1. b \in Seq(Messages) /\ file \in Seq(Messages) /\ <<>> \in Seq(Messages)
    BY ThreadTypes DEF ProbesTypeOK
  <1>2. file \o <<>> = file
    BY <1>1, ConcatEmptySeq
  <1>3. Own(<<>>, t) /\ Own(b, t)
    BY DEF Own, OwnOK
  <1>4. /\ \A M : Number(<<>>, M) = 0
        /\ Number(b, StartsBy(t)) \in Nat /\ Number(b, CallsBy(t)) \in Nat
    BY <1>1, NumberOfEmpty, InFacts
  <1>5. thread'[t].buffer = b
    OBVIOUS
  <1> HIDE DEF b
  <1>6. (IF ~thread[t].buffering /\ thread'[t].buffering THEN 1 ELSE 0) \in Nat
    OBVIOUS
  <1>7. /\ Number(<<>>, StartsBy(t)) + Number(b, StartsBy(t))
              <= Number(b, StartsBy(t))
                 + (IF ~thread[t].buffering /\ thread'[t].buffering THEN 1 ELSE 0)
        /\ Number(<<>>, CallsBy(t)) + Number(b, CallsBy(t)) = Number(b, CallsBy(t)) + 0
    BY <1>4, <1>6
  <1>8. b = thread[t].buffer
    BY DEF b
  <1>9. /\ file' \in {file, file \o <<>>} \cup Partly(<<>>)
        /\ thread'[t].buffer = b
        /\ Own(<<>>, t) /\ Own(b, t)
        /\ thread[t].buffering => thread'[t].buffering
        /\ Number(<<>>, StartsBy(t)) + Number(b, StartsBy(t))
              <= Number(thread[t].buffer, StartsBy(t))
                 + (IF ~thread[t].buffering /\ thread'[t].buffering THEN 1 ELSE 0)
        /\ enabled = "on" /\ enabled' = "on" =>
              /\ file' = file \o <<>>
              /\ Number(<<>>, CallsBy(t)) + Number(b, CallsBy(t))
                    = Number(thread[t].buffer, CallsBy(t)) + 0
    BY <1>2, <1>3, <1>5, <1>7, <1>8
  <1> QED
    BY <1>1, <1>9 DEF Counts

LEMMA BufferedCounts ==
    ASSUME ProbesTypeOK, OwnOK, NEW t \in Threads, NEW m \in Messages,
           NameOK(m), m.origin.thread = t, m.kind # "TThreadStart"
    PROVE  LET x == Buffered(t, m)
               b == thread[t].buffer
           IN  /\ x \in Seq(Messages) /\ Own(x, t)
               /\ Number(x, StartsBy(t)) <= Number(b, StartsBy(t))
                                            + (IF thread[t].buffering THEN 0 ELSE 1)
               /\ (~thread[t].buffering => b = <<>>) =>
                     Number(x, CallsBy(t)) = Number(b, CallsBy(t))
                                             + (IF m \in CallsBy(t) THEN 1 ELSE 0)
  <1> DEFINE b == thread[t].buffer
             s == OfThread(t, "TThreadStart", 1)
             h == IF thread[t].buffering THEN b ELSE <<s>>
  <1>1. b \in Seq(Messages) /\ Own(b, t)
    BY ThreadTypes DEF Own, OwnOK
  <1>2. s \in Messages /\ s.kind = "TThreadStart" /\ s.origin.thread = t
    <2>1. s \in Messages /\ s.kind = "TThreadStart" /\ s.origin = Origin(t, 0, <<>>)
      BY ThreadMessage
    <2> HIDE DEF s
    <2> QED
      BY <2>1 DEF Origin
  <1>3. NameOK(s) /\ s \in StartsBy(t) /\ s \notin CallsBy(t) /\ m \notin StartsBy(t)
    BY <1>2 DEF NameOK, StartsBy, CallsBy
  <1>4. Buffered(t, m) = h \o <<m>>
    BY DEF Buffered
  <1> HIDE DEF s
  <1>5. /\ \A M : Number(b, M) \in Nat
        /\ Number(<<s>>, StartsBy(t)) = 1 /\ Number(<<s>>, CallsBy(t)) = 0
        /\ Number(<<m>>, StartsBy(t)) = 0
        /\ Number(<<m>>, CallsBy(t)) = IF m \in CallsBy(t) THEN 1 ELSE 0
    BY <1>1, <1>2, <1>3, NumberOfOne, InFacts
  <1>6. /\ h \in Seq(Messages) /\ Own(h, t)
        /\ Number(h, StartsBy(t)) <= Number(b, StartsBy(t))
                                     + (IF thread[t].buffering THEN 0 ELSE 1)
        /\ (~thread[t].buffering => b = <<>>) => Number(h, CallsBy(t)) = Number(b, CallsBy(t))
    <2>1. CASE thread[t].buffering
      <3>1. h = b /\ (IF thread[t].buffering THEN 0 ELSE 1) = 0
        BY <2>1, Zenon
      <3> HIDE DEF h, b
      <3> QED
        BY <1>1, <1>5, <3>1
    <2>2. CASE ~thread[t].buffering
      <3>1. h = <<s>> /\ (IF thread[t].buffering THEN 0 ELSE 1) = 1
        BY <2>2, Zenon
      <3>2. <<s>> \in Seq(Messages) /\ Len(<<s>>) = 1 /\ <<s>>[1] = s
        BY <1>2
      <3>3. Own(<<s>>, t)
        BY <1>2, <1>3, <3>2 DEF Own
      <3>4. b = <<>> => Number(b, CallsBy(t)) = 0
        BY NumberOfEmpty
      <3> HIDE DEF h, b
      <3>5. Number(<<s>>, StartsBy(t)) <= Number(b, StartsBy(t)) + 1
        BY <1>5
      <3>6. (~thread[t].buffering => b = <<>>) => Number(<<s>>, CallsBy(t)) = Number(b, CallsBy(t))
        BY <1>5, <2>2, <3>4, Zenon
      <3> QED
        BY <3>1, <3>2, <3>3, <3>5, <3>6, Zenon
    <2> QED
      BY <2>1, <2>2
  <1> HIDE DEF h, b
  <1> DEFINE x == h \o <<m>>
  <1>7. /\ x \in Seq(Messages) /\ Len(x) = Len(h) + 1 /\ Len(h) \in Nat
        /\ \A i \in 1 .. Len(h) : x[i] = h[i]
        /\ x[Len(h) + 1] = m
    BY <1>6, Appended
  <1>8. /\ \A M : Number(x, M) = Number(h, M) + Number(<<m>>, M)
        /\ \A M : Number(h, M) \in Nat
    <2>1. <<m>> \in Seq(Messages)
      OBVIOUS
    <2> QED
      BY <1>6, <2>1, NumberJoined, InFacts
  <1> HIDE DEF x
  <1>9. Own(x, t)
    BY <1>6, <1>7 DEF Own
  <1>10. Number(x, StartsBy(t)) = Number(h, StartsBy(t))
    BY <1>5, <1>8
  <1>11. Number(x, CallsBy(t)) = Number(h, CallsBy(t)) + (IF m \in CallsBy(t) THEN 1 ELSE 0)
    BY <1>5, <1>8
  <1>12. Buffered(t, m) = x
    BY <1>4 DEF x
  <1> QED
    BY <1>6, <1>7, <1>9, <1>10, <1>11, <1>12, Zenon DEF b

(* A thread that logs a message                                            *)
LEMMA LogAnyCounts ==
    ASSUME ProbesTypeOK, OwnOK, NEW t \in Threads, NEW m \in Messages,
           m.kind \in BufferKinds, m.tid = thread[t].tid, MessageOK(m),
           NEW st \in {"running", "ending"}, LogAny(t, m, st),
           NameOK(m), m.origin.thread = t, m.kind # "TThreadStart",
           enabled = "on" => ThreadOK(t)
    PROVE  Counts(t, IF m \in CallsBy(t) THEN 1 ELSE 0)
  <1> DEFINE x == Buffered(t, m)
             b == thread[t].buffer
             e == IF m \in CallsBy(t) THEN 1 ELSE 0
             tio == OfThread(t, "TIO", 1)
             full == Len(x) > BufMax
             more == IF ~thread[t].buffering /\ thread'[t].buffering THEN 1 ELSE 0
             S == StartsBy(t)
             C == CallsBy(t)
  <1>1. /\ x \in Seq(Messages) /\ Own(x, t)
        /\ Number(x, S) <= Number(b, S) + (IF thread[t].buffering THEN 0 ELSE 1)
        /\ (~thread[t].buffering => b = <<>>) => Number(x, C) = Number(b, C) + e
    BY BufferedCounts
  <1>2. /\ thread'[t].buffering
        /\ full => WriteAll(x) /\ thread'[t].buffer = <<tio>>
        /\ ~full => file' = file /\ enabled' = enabled /\ thread'[t].buffer = x
    <2>1. thread \in [Threads -> ThreadStates]
      BY DEF ProbesTypeOK
    <2>2. thread' = [thread EXCEPT ![t] =
              [@ EXCEPT !.status = st, !.buffering = TRUE,
                        !.buffer = IF full THEN <<tio>> ELSE x]]
      BY DEF LogAny
    <2>3. IF full THEN WriteAll(x) ELSE UNCHANGED <<file, enabled>>
      BY DEF LogAny
    <2> HIDE DEF x, tio
    <2>4. /\ thread'[t].buffering
          /\ thread'[t].buffer = IF full THEN <<tio>> ELSE x
      BY <2>1, <2>2 DEF ThreadStates
    <2> QED
      BY <2>3, <2>4
  <1>3. enabled = "on" => (~thread[t].buffering => b = <<>>)
    BY DEF ThreadOK
  <1>4. more = IF thread[t].buffering THEN 0 ELSE 1
    BY <1>2, Zenon
  <1>5. tio \in Messages /\ tio.kind = "TIO" /\ tio.origin.thread = t
    <2>1. tio \in Messages /\ tio.kind = "TIO" /\ tio.origin = Origin(t, 0, <<>>)
      BY ThreadMessage
    <2> HIDE DEF tio
    <2> QED
      BY <2>1 DEF Origin
  <1>6. /\ <<tio>> \in Seq(Messages) /\ Own(<<tio>>, t)
        /\ Number(<<tio>>, S) = 0 /\ Number(<<tio>>, C) = 0
    <2> HIDE DEF tio
    <2>1. <<tio>> \in Seq(Messages) /\ Len(<<tio>>) = 1 /\ <<tio>>[1] = tio
      BY <1>5
    <2>2. tio \notin S /\ tio \notin C /\ NameOK(tio)
      BY <1>5 DEF StartsBy, CallsBy, NameOK
    <2> QED
      BY <1>5, <2>1, <2>2, NumberOfOne DEF Own
  <1>7. Own(<<>>, t) /\ <<>> \in Seq(Messages) /\ Number(<<>>, S) = 0 /\ Number(<<>>, C) = 0
    BY NumberOfEmpty DEF Own
  <1>8. /\ file \in Seq(Messages) /\ file \o <<>> = file
        /\ enabled \in {"on", "off", "closed"}
    BY ConcatEmptySeq DEF ProbesTypeOK
  <1>9. /\ Number(x, S) \in Nat /\ Number(x, C) \in Nat
    BY <1>1, InFacts
  <1>10. Number(x, S) <= Number(b, S) + more
    BY <1>1, <1>4
  <1>11. enabled = "on" => Number(x, C) = Number(b, C) + e
    BY <1>1, <1>3
  <1> HIDE DEF x, b, e, tio, more, S, C, full
  <1>12. CASE full
    <2>1. /\ file' \in {file, file \o x} \cup Partly(x)
          /\ enabled = "on" /\ enabled' = "on" => file' = file \o x
      <3>1. WriteAll(x)
        BY <1>2, <1>12
      <3>2. CASE FALSE \in Sees /\ UNCHANGED <<file, enabled>>
        BY <3>2, SeesOn
      <3>3. CASE TRUE \in Sees /\ file' = file \o x /\ UNCHANGED enabled
        BY <3>3
      <3>4. CASE file' \in Partly(x) /\ enabled' = "off"
        BY <3>4
      <3> QED
        BY <3>1, <3>2, <3>3, <3>4 DEF WriteAll
    <2>2. Number(x, S) + Number(<<tio>>, S) <= Number(b, S) + more
      BY <1>6, <1>9, <1>10
    <2>3. enabled = "on" => Number(x, C) + Number(<<tio>>, C) = Number(b, C) + e
      BY <1>6, <1>9, <1>11
    <2>4. \E r \in Seq(Messages) :
            /\ thread'[t].buffer = r /\ Own(r, t)
            /\ Number(x, S) + Number(r, S) <= Number(b, S) + more
            /\ enabled = "on" => Number(x, C) + Number(r, C) = Number(b, C) + e
      BY <1>2, <1>6, <1>12, <2>2, <2>3
    <2>5. Counts(t, e)
      BY <1>1, <1>2, <2>1, <2>4, Zenon DEF Counts, b, more, S, C
    <2> QED
      BY <2>5 DEF e, C
  <1>13. CASE ~full
    <2>1. file' \in {file, file \o <<>>} \cup Partly(<<>>) /\ file' = file \o <<>>
      BY <1>2, <1>8, <1>13
    <2>2. Number(<<>>, S) + Number(x, S) <= Number(b, S) + more
      BY <1>7, <1>9, <1>10
    <2>3. enabled = "on" => Number(<<>>, C) + Number(x, C) = Number(b, C) + e
      BY <1>7, <1>9, <1>11
    <2>4. \E y \in Seq(Messages) :
            /\ file' \in {file, file \o y} \cup Partly(y) /\ file' = file \o y /\ Own(y, t)
            /\ Number(y, S) + Number(x, S) <= Number(b, S) + more
            /\ enabled = "on" => Number(y, C) + Number(x, C) = Number(b, C) + e
      BY <1>7, <2>1, <2>2, <2>3
    <2>5. thread'[t].buffer = x
      BY <1>2, <1>13
    <2>6. Counts(t, e)
      BY <1>1, <1>2, <2>4, <2>5, Zenon DEF Counts, b, more, S, C
    <2> QED
      BY <2>6 DEF e, C
  <1> QED
    BY <1>12, <1>13

(* The calls of a thread are counted in rounds of EveryN                   *)
Rounds(t, e) ==
    /\ calls'[t] + skip'[t] = calls[t] + skip[t] + EveryN * e
    /\ skip' \in [Threads -> 0 .. EveryN - 1] /\ calls' \in [Threads -> Nat]
    /\ \A u \in Threads \ {t} : skip'[u] = skip[u] /\ calls'[u] = calls[u]

LEMMA SameRounds ==
    ASSUME CallsOK, NEW t \in Threads, UNCHANGED <<skip, calls>>
    PROVE  Rounds(t, 0)
  <1>1. /\ skip \in [Threads -> 0 .. EveryN - 1] /\ calls \in [Threads -> Nat]
        /\ skip[t] \in 0 .. EveryN - 1 /\ calls[t] \in Nat
    BY DEF CallsOK
  <1>2. EveryN * 0 = 0 /\ EveryN \in Nat
    BY ProbesAssumption
  <1>3. calls[t] + skip[t] = calls[t] + skip[t] + EveryN * 0
    BY <1>1, <1>2
  <1> QED
    BY <1>1, <1>3 DEF Rounds

LEMMA CountsInvStep ==
    ASSUME ProbesInv, ProbesInv', CountsInv, NEW t \in Threads, StepOf(t),
           phase' # "init", exit' = exit \/ phase = "running",
           NEW e \in {0, 1}, Counts(t, e), Rounds(t, e)
    PROVE  CountsInv'
  <1>1. /\ ProbesTypeOK /\ ProbesTypeOK' /\ ExitOK /\ SealedOK /\ OwnOK /\ StartsOK /\ CallsOK
        /\ \A u \in Threads \ {t} : thread'[u] = thread[u]
        /\ enabled' = enabled \/ enabled' = "off"
    BY DEF ProbesInv, CountsInv, StepOf
  <1>2. /\ OwnOK' /\ StartsOK'
        /\ enabled = "on" /\ enabled' = "on" => \A u \in Threads :
              Number(file', CallsBy(u)) + Number(thread'[u].buffer, CallsBy(u))
                 = Number(file, CallsBy(u)) + Number(thread[u].buffer, CallsBy(u))
                   + (IF u = t THEN e ELSE 0)
    BY <1>1, CountsKeeps
  <1>3. skip' \in [Threads -> 0 .. EveryN - 1] /\ calls' \in [Threads -> Nat]
    BY DEF Rounds
  <1>4. ASSUME enabled' = "on", NEW u \in Threads
        PROVE  EveryN * (Number(file', CallsBy(u)) + Number(thread'[u].buffer, CallsBy(u)))
                  = calls'[u] + skip'[u]
    <2>1. PICK n, n2 : /\ n = Number(file, CallsBy(u)) + Number(thread[u].buffer, CallsBy(u))
                       /\ n2 = Number(file', CallsBy(u)) + Number(thread'[u].buffer, CallsBy(u))
      OBVIOUS
    <2>2. enabled = "on"
      BY <1>1, <1>4
    <2>3. n \in Nat
      <3>1. file \in Seq(Messages) /\ thread[u].buffer \in Seq(Messages)
        BY <1>1, ThreadTypes DEF ProbesTypeOK
      <3>2. Number(file, CallsBy(u)) \in Nat /\ Number(thread[u].buffer, CallsBy(u)) \in Nat
        BY <3>1, InFacts
      <3> QED
        BY <2>1, <3>2
    <2>4. /\ n2 = n + (IF u = t THEN e ELSE 0)
          /\ EveryN * n = calls[u] + skip[u]
      BY <1>1, <1>2, <1>4, <2>1, <2>2 DEF CallsOK
    <2>5. EveryN \in Nat /\ calls[u] \in Nat /\ skip[u] \in Nat /\ calls'[u] \in Nat /\ skip'[u] \in Nat
      BY <1>1, <1>3, ProbesAssumption DEF CallsOK
    <2>6. CASE u # t
      <3>1. n2 = n
        BY <2>3, <2>4, <2>6
      <3>2. calls'[u] = calls[u] /\ skip'[u] = skip[u]
        BY <2>6 DEF Rounds
      <3> QED
        BY <2>1, <2>4, <3>1, <3>2
    <2>7. CASE u = t
      <3>1. n2 = n + e
        BY <2>4, <2>7
      <3>2. calls'[u] + skip'[u] = calls[u] + skip[u] + EveryN * e
        BY <2>7 DEF Rounds
      <3>3. EveryN * (n + e) = EveryN * n + EveryN * e
        <4>1. CASE e = 0
          BY <2>3, <2>5, <4>1
        <4>2. CASE e = 1
          BY <2>3, <2>5, <4>2
        <4> QED
          BY <4>1, <4>2
      <3> QED
        BY <2>1, <2>4, <3>1, <3>2, <3>3
    <2> QED
      BY <2>6, <2>7
  <1>5. ~(Sealed' /\ exit'.clean)
    <2> SUFFICES ASSUME Sealed', exit'.clean PROVE FALSE
      OBVIOUS
    <2>1. Sealed
      BY DEF StepOf, Sealed
    <2>2. phase \in {"ended", "gone"} /\ phase \notin {"init", "gone"} /\ Living(t)
      BY <1>1, <2>1 DEF SealedOK, StepOf
    <2>3. exit.clean
      BY <2>2
    <2> QED
      BY <1>1, <2>2, <2>3, NobodyAfterCleanExit
  <1>6. CallsOK'
    <2>1. \A u \in Threads : CallsBy(u)' = CallsBy(u)
      BY DEF CallsBy
    <2> QED
      BY <1>3, <1>4, <1>5, <2>1 DEF CallsOK
  <1> QED
    BY <1>2, <1>6 DEF CountsInv

LEMMA EnterScopeCounts ==
    ASSUME ProbesTypeOK, OwnOK, CallsOK, NEW t \in Threads, NEW pn \in Scopes,
           EnterScope(t, pn), enabled = "on" => ThreadOK(t), ProbesTypeOK'
    PROVE  \E e \in {0, 1} : Counts(t, e) /\ Rounds(t, e)
  <1>1. PICK isEnabled \in Sees : BeginScope(t, pn, isEnabled)
    BY DEF EnterScope
  <1> DEFINE every == pn = EveryProbe
             counts == every /\ isEnabled
             logged == isEnabled /\ (counts => skip[t] = 0)
             scope == IF logged THEN made[t] + 1 ELSE 0
             n == IF every THEN EveryN ELSE 1
             m == StartMessage(t, pn, n, scope)
  <1>2. /\ skip' = IF counts THEN [skip EXCEPT ![t] = NextSkip(@)] ELSE skip
        /\ calls' = IF counts THEN [calls EXCEPT ![t] = @ + 1] ELSE calls
        /\ logged => LogAny(t, m, "running")
        /\ ~logged => UNCHANGED <<thread, file, enabled>>
    BY <1>1, Zenon DEF BeginScope, StartMessage
  <1>3. isEnabled \in BOOLEAN
    <2>1. enabled \in {"on", "off", "closed"}
      BY DEF ProbesTypeOK
    <2> QED
      BY <2>1 DEF Sees
  <1>4. EveryN \in Nat /\ EveryN # 0 /\ made[t] \in Nat /\ trail[t] \in Seq(Places)
    BY ProbesAssumption DEF ProbesTypeOK
  <1>5. logged => /\ m \in Messages /\ m.kind = "TS" /\ m.kind \in BufferKinds
                  /\ m.tid = thread[t].tid /\ MessageOK(m) /\ m.origin.thread = t
                  /\ m.pn = pn /\ m.n = n
    <2> SUFFICES ASSUME logged
                 PROVE  /\ m \in Messages /\ m.kind = "TS" /\ m.kind \in BufferKinds
                        /\ m.tid = thread[t].tid /\ MessageOK(m) /\ m.origin.thread = t
                        /\ m.pn = pn /\ m.n = n
      OBVIOUS
    <2>1. scope = made[t] + 1
      BY Zenon
    <2>2. scope \in Nat /\ scope # 0 /\ n \in Nat /\ n # 0
      <3> HIDE DEF scope
      <3> QED
        BY <1>4, <2>1
    <2>3. pn \in Scopes \cup {"key"} /\ "TS" \in {"TS", "TE", "KeyValue"} /\ "TS" # "KeyValue"
      OBVIOUS
    <2> HIDE DEF n, scope
    <2> DEFINE w == Message("TS", pn, thread[t].tid, n, Origin(t, scope, trail[t]))
    <2>4. w \in Messages /\ w.kind \in BufferKinds /\ w.tid = thread[t].tid /\ MessageOK(w)
      <3>1. PICK sc, k : sc = scope /\ k = n
        OBVIOUS
      <3>2. sc \in Nat /\ k \in Nat /\ sc # 0 /\ k # 0 /\ trail[t] \in Seq(Places)
        BY <1>4, <2>2, <3>1
      <3> DEFINE v == Message("TS", pn, thread[t].tid, k, Origin(t, sc, trail[t]))
      <3>3. v \in Messages /\ v.kind \in BufferKinds /\ v.tid = thread[t].tid /\ MessageOK(v)
        BY <2>3, <3>2, ProbeMessage
      <3> QED
        BY <3>1, <3>3
    <2>5. w.kind = "TS" /\ w.pn = pn /\ w.n = n /\ w.origin.thread = t
      BY DEF Message, Origin
    <2>6. m = w
      BY DEF StartMessage
    <2> HIDE DEF m, w
    <2> QED
      BY <2>4, <2>5, <2>6
  <1>6. logged => /\ NameOK(m) /\ m.kind # "TThreadStart"
                  /\ (IF m \in CallsBy(t) THEN 1 ELSE 0) = IF every THEN 1 ELSE 0
    <2> HIDE DEF m, logged
    <2> QED
      BY <1>5 DEF NameOK, CallsBy
  <1> DEFINE e == IF logged /\ every THEN 1 ELSE 0
  <1>7. e \in {0, 1}
    OBVIOUS
  <1>8. Counts(t, e)
    <2>1. CASE logged
      <3>1. LogAny(t, m, "running")
        BY <1>2, <2>1
      <3>2. (IF m \in CallsBy(t) THEN 1 ELSE 0) = e
        BY <1>6, <2>1, Zenon
      <3> HIDE DEF m, e, logged
      <3>3. Counts(t, IF m \in CallsBy(t) THEN 1 ELSE 0)
        BY <1>5, <1>6, <2>1, <3>1, LogAnyCounts
      <3> QED
        BY <3>2, <3>3
    <2>2. CASE ~logged
      <3>1. e = 0 /\ UNCHANGED <<thread, file, enabled>>
        BY <1>2, <2>2, Zenon
      <3> HIDE DEF e
      <3> QED
        BY <3>1, QuietCounts
    <2> QED
      BY <2>1, <2>2
  <1>9. Rounds(t, e)
    <2>1. /\ skip \in [Threads -> 0 .. EveryN - 1] /\ calls \in [Threads -> Nat]
          /\ skip[t] \in 0 .. EveryN - 1 /\ calls[t] \in Nat
      BY DEF CallsOK
    <2>2. CASE ~counts
      <3>1. UNCHANGED <<skip, calls>>
        BY <1>2, <2>2
      <3>2. e = 0
        BY <2>2, Zenon
      <3> HIDE DEF e
      <3> QED
        BY <3>1, <3>2, SameRounds
    <2>3. CASE counts
      <3>1. /\ skip' = [skip EXCEPT ![t] = NextSkip(skip[t])]
            /\ calls' = [calls EXCEPT ![t] = calls[t] + 1]
        BY <1>2, <2>3
      <3>2. e = IF skip[t] = 0 THEN 1 ELSE 0
        BY <2>3, Zenon
      <3> HIDE DEF e, counts, logged
      <3>3. NextSkip(skip[t]) \in 0 .. EveryN - 1
        BY <1>4, <2>1 DEF NextSkip
      <3>4. /\ skip' \in [Threads -> 0 .. EveryN - 1] /\ calls' \in [Threads -> Nat]
            /\ \A u \in Threads \ {t} : skip'[u] = skip[u] /\ calls'[u] = calls[u]
            /\ skip'[t] = NextSkip(skip[t]) /\ calls'[t] = calls[t] + 1
        BY <2>1, <3>1, <3>3
      <3>5. calls[t] + 1 + NextSkip(skip[t]) = calls[t] + skip[t] + EveryN * e
        <4>1. CASE skip[t] = 0
          <5>1. e = 1 /\ NextSkip(skip[t]) = EveryN - 1
            BY <3>2, <4>1 DEF NextSkip
          <5> QED
            BY <1>4, <2>1, <4>1, <5>1
        <4>2. CASE skip[t] # 0
          <5>1. e = 0 /\ NextSkip(skip[t]) = skip[t] - 1 /\ EveryN * 0 = 0
            BY <1>4, <2>1, <3>2, <4>2 DEF NextSkip
          <5> QED
            BY <1>4, <2>1, <4>2, <5>1
        <4> QED
          BY <4>1, <4>2
      <3> QED
        BY <3>4, <3>5 DEF Rounds
    <2> QED
      BY <2>2, <2>3
  <1> QED
    BY <1>7, <1>8, <1>9

LEMMA LeaveScopeCounts ==
    ASSUME ProbesTypeOK, OwnOK, CallsOK, NEW t \in Threads, ScopesOK(t),
           LeaveScope(t), enabled = "on" => ThreadOK(t)
    PROVE  Counts(t, 0) /\ Rounds(t, 0)
  <1>1. /\ stack[t] # <<>>
        /\ \E places \in Seq(Places) :
              \/ UNCHANGED <<thread, file, enabled>>
              \/ LogAny(t, EndMessage(t, places), "running")
    BY LeaveScopeFacts
  <1>2. UNCHANGED <<skip, calls>>
    BY DEF LeaveScope
  <1>3. PICK places \in Seq(Places) : \/ UNCHANGED <<thread, file, enabled>>
                                      \/ LogAny(t, EndMessage(t, places), "running")
    BY <1>1
  <1> DEFINE m == EndMessage(t, places)
  <1>4. /\ m \in Messages /\ m.kind = "TE" /\ m.kind \in BufferKinds
        /\ m.tid = thread[t].tid /\ MessageOK(m) /\ m.origin.thread = t
    <2>1. Innermost(t).pn \in Scopes /\ Innermost(t).scope \in Nat
      BY <1>1, LeavingFacts DEF Innermost
    <2>2. m \in Messages /\ m.kind \in BufferKinds /\ m.tid = thread[t].tid /\ MessageOK(m)
      BY <2>1, ProbeMessage DEF EndMessage
    <2>3. m.kind = "TE" /\ m.origin.thread = t
      BY DEF EndMessage, Message, Origin
    <2> HIDE DEF m
    <2> QED
      BY <2>2, <2>3
  <1> HIDE DEF m
  <1>5. NameOK(m) /\ m.kind # "TThreadStart" /\ m \notin CallsBy(t)
    BY <1>4 DEF NameOK, CallsBy
  <1>6. CASE UNCHANGED <<thread, file, enabled>>
    BY <1>2, <1>6, QuietCounts, SameRounds
  <1>7. CASE LogAny(t, m, "running")
    <2>1. (IF m \in CallsBy(t) THEN 1 ELSE 0) = 0
      BY <1>5
    <2>2. Counts(t, IF m \in CallsBy(t) THEN 1 ELSE 0)
      BY <1>4, <1>5, <1>7, LogAnyCounts
    <2> QED
      BY <1>2, <2>1, <2>2, SameRounds
  <1> QED
    BY <1>3, <1>6, <1>7 DEF m

LEMMA LogPointCounts ==
    ASSUME ProbesTypeOK, OwnOK, CallsOK, NEW t \in Threads,
           LogPoint(t), enabled = "on" => ThreadOK(t)
    PROVE  Counts(t, 0) /\ Rounds(t, 0)
  <1> DEFINE m == OfThread(t, "T", 1)
  <1>1. /\ \/ UNCHANGED <<thread, file, enabled>>
           \/ LogAny(t, m, "running")
        /\ UNCHANGED <<skip, calls>>
    BY DEF LogPoint
  <1>2. /\ m \in Messages /\ m.kind = "T" /\ m.tid = thread[t].tid /\ MessageOK(m)
        /\ m.origin = Origin(t, 0, <<>>)
    BY ThreadMessage
  <1> HIDE DEF m
  <1>3. /\ NameOK(m) /\ m.kind # "TThreadStart" /\ m \notin CallsBy(t)
        /\ m.origin.thread = t /\ m.kind \in BufferKinds
    BY <1>2 DEF NameOK, CallsBy, Origin, BufferKinds
  <1>4. CASE UNCHANGED <<thread, file, enabled>>
    BY <1>1, <1>4, QuietCounts, SameRounds
  <1>5. CASE LogAny(t, m, "running")
    <2>1. (IF m \in CallsBy(t) THEN 1 ELSE 0) = 0
      BY <1>3
    <2>2. Counts(t, IF m \in CallsBy(t) THEN 1 ELSE 0)
      BY <1>2, <1>3, <1>5, LogAnyCounts
    <2> QED
      BY <1>1, <2>1, <2>2, SameRounds
  <1> QED
    BY <1>1, <1>4, <1>5

LEMMA EndBufferCounts ==
    ASSUME ProbesTypeOK, OwnOK, CallsOK, NEW t \in Threads, EndBuffer(t),
           UNCHANGED <<skip, calls>>, enabled = "on" => ThreadOK(t)
    PROVE  Counts(t, 0) /\ Rounds(t, 0)
  <1> DEFINE m == OfThread(t, "TThreadEnd", 0)
  <1>1. \/ thread' = [thread EXCEPT ![t].status = "gone"] /\ UNCHANGED <<file, enabled>>
        \/ LogAny(t, m, "ending")
    BY DEF EndBuffer
  <1>2. /\ m \in Messages /\ m.kind = "TThreadEnd" /\ m.tid = thread[t].tid /\ MessageOK(m)
        /\ m.origin = Origin(t, 0, <<>>)
    BY ThreadMessage
  <1> HIDE DEF m
  <1>3. /\ NameOK(m) /\ m.kind # "TThreadStart" /\ m \notin CallsBy(t)
        /\ m.origin.thread = t /\ m.kind \in BufferKinds
    BY <1>2 DEF NameOK, CallsBy, Origin, BufferKinds, Tracked
  <1>4. CASE thread' = [thread EXCEPT ![t].status = "gone"] /\ UNCHANGED <<file, enabled>>
    <2>1. thread'[t].buffer = thread[t].buffer /\ thread'[t].buffering = thread[t].buffering
      BY <1>4 DEF ProbesTypeOK, ThreadStates
    <2> QED
      BY <1>4, <2>1, QuietCounts, SameRounds
  <1>5. CASE LogAny(t, m, "ending")
    <2>1. (IF m \in CallsBy(t) THEN 1 ELSE 0) = 0
      BY <1>3
    <2>2. Counts(t, IF m \in CallsBy(t) THEN 1 ELSE 0)
      BY <1>2, <1>3, <1>5, LogAnyCounts
    <2> QED
      BY <2>1, <2>2, SameRounds
  <1> QED
    BY <1>1, <1>4, <1>5

LEMMA LogKeyValueCounts ==
    ASSUME ProbesTypeOK, OwnOK, CallsOK, NEW t \in Threads,
           LogKeyValue(t), enabled = "on" => ThreadOK(t)
    PROVE  Counts(t, 0) /\ Rounds(t, 0)
  <1> DEFINE m == Message("KeyValue", "key", thread[t].tid, 0, Origin(t, 0, trail[t]))
             x == Buffered(t, m)
             b == thread[t].buffer
             S == StartsBy(t)
             C == CallsBy(t)
             more == IF ~thread[t].buffering /\ thread'[t].buffering THEN 1 ELSE 0
  <1>1. /\ UNCHANGED <<file, enabled>>
        /\ \/ UNCHANGED thread
           \/ thread' = [thread EXCEPT ![t].buffering = TRUE, ![t].buffer = x]
    BY LogKeyValueFacts
  <1>2. UNCHANGED <<skip, calls>>
    BY DEF LogKeyValue
  <1>3. CASE UNCHANGED thread
    BY <1>1, <1>2, <1>3, QuietCounts, SameRounds
  <1>4. CASE thread' = [thread EXCEPT ![t].buffering = TRUE, ![t].buffer = x]
    <2>1. m \in Messages /\ m.kind = "KeyValue" /\ m.pn = "key" /\ m.origin.thread = t
      <3>1. trail[t] \in Seq(Places) /\ "key" \in Scopes \cup {"key"} /\ 0 \in Nat
        BY DEF ProbesTypeOK
      <3>2. "KeyValue" \in {"TS", "TE", "KeyValue"} /\ "KeyValue" # "TS"
        OBVIOUS
      <3>3. m \in Messages
        BY <3>1, <3>2, ProbeMessage
      <3>4. m.kind = "KeyValue" /\ m.pn = "key" /\ m.origin.thread = t
        BY DEF Message, Origin
      <3> HIDE DEF m
      <3> QED
        BY <3>3, <3>4
    <2> HIDE DEF m
    <2>2. NameOK(m) /\ m \notin C /\ (IF m \in C THEN 1 ELSE 0) = 0
      BY <2>1 DEF NameOK, CallsBy
    <2>3. /\ x \in Seq(Messages) /\ Own(x, t)
          /\ Number(x, S) <= Number(b, S) + (IF thread[t].buffering THEN 0 ELSE 1)
          /\ (~thread[t].buffering => b = <<>>) =>
                Number(x, C) = Number(b, C) + (IF m \in C THEN 1 ELSE 0)
      BY <2>1, <2>2, BufferedCounts
    <2>4. thread'[t].buffering = TRUE /\ thread'[t].buffer = x
      <3> HIDE DEF x
      <3> QED
        BY <1>4 DEF ProbesTypeOK, ThreadStates
    <2>5. enabled = "on" => (~thread[t].buffering => b = <<>>)
      BY DEF ThreadOK
    <2>6. more = IF thread[t].buffering THEN 0 ELSE 1
      BY <2>4, Zenon
    <2>7. Number(x, S) \in Nat /\ Number(x, C) \in Nat
      BY <2>3, InFacts
    <2>8. Own(<<>>, t) /\ <<>> \in Seq(Messages) /\ Number(<<>>, S) = 0 /\ Number(<<>>, C) = 0
      BY NumberOfEmpty DEF Own
    <2>9. file' \in {file, file \o <<>>} \cup Partly(<<>>) /\ file' = file \o <<>>
      BY <1>1, ConcatEmptySeq DEF ProbesTypeOK
    <2>10. Number(x, S) <= Number(b, S) + more
      BY <2>3, <2>6
    <2>11. enabled = "on" => Number(x, C) = Number(b, C) + 0
      BY <2>2, <2>3, <2>5
    <2> HIDE DEF x, b, more, S, C
    <2>12. /\ Number(<<>>, S) + Number(x, S) <= Number(b, S) + more
           /\ enabled = "on" => Number(<<>>, C) + Number(x, C) = Number(b, C) + 0
      BY <2>7, <2>8, <2>10, <2>11
    <2>13. \E y \in Seq(Messages) :
             /\ file' \in {file, file \o y} \cup Partly(y) /\ file' = file \o y /\ Own(y, t)
             /\ Number(y, S) + Number(x, S) <= Number(b, S) + more
             /\ enabled = "on" => Number(y, C) + Number(x, C) = Number(b, C) + 0
      BY <2>8, <2>9, <2>12
    <2>14. Counts(t, 0)
      BY <2>3, <2>4, <2>13, Zenon DEF Counts, b, more, S, C
    <2> QED
      BY <1>2, <2>14, SameRounds
  <1> QED
    BY <1>1, <1>3, <1>4

LEMMA FlushLastCounts ==
    ASSUME ProbesTypeOK, OwnOK, CallsOK, NEW t \in Threads, FlushLast(t), phase # "init"
    PROVE  Counts(t, 0) /\ Rounds(t, 0)
  <1> DEFINE b == thread[t].buffer
             S == StartsBy(t)
             C == CallsBy(t)
             more == IF ~thread[t].buffering /\ thread'[t].buffering THEN 1 ELSE 0
  <1>1. /\ thread' = [thread EXCEPT ![t].status = "gone", ![t].buffer = <<>>]
        /\ WriteAll(b) /\ UNCHANGED <<skip, calls>>
    BY DEF FlushLast, auxVars
  <1>2. enabled = "on" /\ enabled' = "on" => file' = file \o b
    BY FlushLastIsStep DEF Log
  <1>3. file' \in {file, file \o b} \cup Partly(b)
    BY <1>1 DEF WriteAll
  <1>4. thread'[t].buffer = <<>> /\ thread'[t].buffering = thread[t].buffering
    BY <1>1 DEF ProbesTypeOK, ThreadStates
  <1>5. b \in Seq(Messages) /\ Own(b, t)
    BY ThreadTypes DEF Own, OwnOK
  <1>6. Own(<<>>, t) /\ <<>> \in Seq(Messages) /\ Number(<<>>, S) = 0 /\ Number(<<>>, C) = 0
    BY NumberOfEmpty DEF Own
  <1>7. Number(b, S) \in Nat /\ Number(b, C) \in Nat /\ more \in Nat
    BY <1>5, InFacts
  <1> HIDE DEF b, S, C, more
  <1>8. /\ Number(b, S) + Number(<<>>, S) <= Number(b, S) + more
        /\ Number(b, C) + Number(<<>>, C) = Number(b, C) + 0
    BY <1>6, <1>7
  <1>9. \E r \in Seq(Messages) :
            /\ thread'[t].buffer = r /\ Own(r, t)
            /\ Number(b, S) + Number(r, S) <= Number(b, S) + more
            /\ Number(b, C) + Number(r, C) = Number(b, C) + 0
    BY <1>4, <1>6, <1>8
  <1>10. Counts(t, 0)
    <2>1. thread[t].buffering => thread'[t].buffering
      BY <1>4
    <2> QED
      BY <1>2, <1>3, <1>5, <1>9, <2>1, Zenon DEF Counts, b, more, S, C
  <1> QED
    BY <1>1, <1>10, SameRounds

LEMMA OpenOutputCounts ==
    ASSUME ProbesTypeOK, ExitOK, CountsInv, OpenOutput
    PROVE  CountsInv'
  <1> DEFINE s1 == Header("Start")
             s2 == Header("Metadata")
             s3 == OfThread(Main, "TStart", 1)
             x == <<s1, s2, s3>>
  <1>1. /\ phase = "init" /\ phase' = "running"
        /\ \/ file' = x /\ enabled' = "on"
           \/ file' \in Partly(x) /\ enabled' = "off"
        /\ UNCHANGED <<thread, skip, calls, exit>>
    BY DEF OpenOutput, auxVars
  <1>2. /\ file = <<>> /\ file \in Seq(Messages) /\ exit = NoExit
        /\ \A t \in Threads : ~thread[t].buffering /\ thread[t].buffer = <<>>
        /\ \A t \in Threads : skip[t] = 0 /\ calls[t] = 0
    BY <1>1 DEF ExitOK, CountsInv, CallsOK, ProbesTypeOK
  <1>3. /\ s1 \in Messages /\ s1.kind = "Start" /\ s2 \in Messages /\ s2.kind = "Metadata"
    BY DEF Header, Message, Nowhere, Origin, Messages, Kinds, AllTids
  <1>4. s3 \in Messages /\ s3.kind = "TStart"
    BY <1>1, MainIsThread, ThreadMessage
  <1> HIDE DEF s1, s2, s3
  <1>5. /\ x \in Seq(Messages) /\ Len(x) = 3 /\ x[1] = s1 /\ x[2] = s2 /\ x[3] = s3
        /\ \A i \in 1 .. 3 : i = 1 \/ i = 2 \/ i = 3
        /\ <<>> \o x = x
    BY <1>3, <1>4, ConcatEmptySeq
  <1> HIDE DEF x
  <1>6. \A k \in 1 .. Len(x) : x[k].kind \notin {"TThreadStart", "TS", "KeyValue"}
    BY <1>3, <1>4, <1>5
  <1>7. /\ file' \in Seq(Messages)
        /\ \A i \in 1 .. Len(file') : file'[i].kind \notin {"TThreadStart", "TS", "KeyValue"}
    <2>1. PICK new : new = file'
      OBVIOUS
    <2>2. new \in {file, file \o x} \cup Partly(x)
      BY <1>1, <1>2, <1>5, <2>1
    <2>3. /\ new \in Seq(Messages)
          /\ \A i \in 1 .. Len(new) : \/ new[i] = Torn
                                      \/ \E k \in 1 .. Len(file) : new[i] = file[k]
                                      \/ \E k \in 1 .. Len(x) : new[i] = x[k]
      BY <1>2, <1>5, <2>2, WrittenNumber
    <2>4. ~ \E k \in 1 .. Len(file) : TRUE
      BY <1>2
    <2> QED
      BY <1>6, <2>1, <2>3, <2>4, TornIsMessage
  <1>8. ASSUME NEW t \in Threads
        PROVE  /\ Number(file', StartsBy(t)) = 0 /\ Number(file', CallsBy(t)) = 0
               /\ Number(thread'[t].buffer, StartsBy(t)) = 0
               /\ Number(thread'[t].buffer, CallsBy(t)) = 0
    <2>1. \A i \in 1 .. Len(file') : file'[i] \notin StartsBy(t) /\ file'[i] \notin CallsBy(t)
      BY <1>7 DEF StartsBy, CallsBy
    <2>2. PICK new \in Seq(Messages) : new = file'
      BY <1>7
    <2>3. Number(new, StartsBy(t)) = 0 /\ Number(new, CallsBy(t)) = 0
      BY <2>1, <2>2, NumberOfNone
    <2>4. thread'[t].buffer = <<>>
      BY <1>1, <1>2
    <2> QED
      BY <2>2, <2>3, <2>4, NumberOfEmpty
  <1>9. OwnOK'
    <2>1. \A i \in 1 .. Len(file') : NameOK(file'[i])
      BY <1>7 DEF NameOK
    <2>2. \A t \in Threads : Len(thread'[t].buffer) = 0
      BY <1>1, <1>2
    <2> QED
      BY <2>1, <2>2 DEF OwnOK, NameOK
  <1>10. StartsOK'
    <2>1. \A t \in Threads : 0 + 0 <= IF thread'[t].buffering THEN 1 ELSE 0
      OBVIOUS
    <2> QED
      BY <1>8, <2>1 DEF StartsOK, StartsBy
  <1>11. CallsOK'
    <2>1. skip \in [Threads -> 0 .. EveryN - 1] /\ calls \in [Threads -> Nat]
      BY DEF CountsInv, CallsOK
    <2>2. EveryN * (0 + 0) = 0 + 0
      BY ProbesAssumption
    <2>3. \A t \in Threads :
            EveryN * (Number(file', CallsBy(t)) + Number(thread'[t].buffer, CallsBy(t)))
               = calls'[t] + skip'[t]
      BY <1>1, <1>2, <1>8, <2>2
    <2>4. ~exit'.clean
      BY <1>1, <1>2 DEF NoExit
    <2> QED
      BY <1>1, <2>1, <2>3, <2>4 DEF CallsOK, CallsBy
  <1> QED
    BY <1>9, <1>10, <1>11 DEF CountsInv

(* When main has waited for its threads, everything is in the file         *)
LEMMA CloseOutputCounts ==
    ASSUME ProbesInv, ProbesInv', CountsInv, CloseOutput
    PROVE  CountsInv'
  <1>1. PICK q \in Threads : q = exit.by
    BY DEF CloseOutput, ProbesInv, ExitOK, ProbesTypeOK
  <1> DEFINE e == OfThread(q, "TEnd", 1)
  <1>2. /\ phase = "exiting" /\ phase' = "ended" /\ thread[q].status = "gone"
        /\ \/ enabled = "off" /\ UNCHANGED <<file, enabled>>
           \/ enabled = "on" /\ enabled' = "closed" /\ file' = Append(file, e)
           \/ enabled = "on" /\ enabled' = "off" /\ file' \in Partly(<<e>>)
        /\ UNCHANGED <<thread, skip, calls, exit>>
    BY <1>1 DEF CloseOutput, auxVars
  <1>3. ProbesTypeOK /\ ProbesTypeOK' /\ ExitOK /\ SealedOK /\ WritingOK
        /\ OwnOK /\ StartsOK /\ CallsOK
    BY DEF ProbesInv, CountsInv
  <1>4. e \in Messages /\ e.kind = "TEnd" /\ e.origin.thread = q
    <2>1. e \in Messages /\ e.kind = "TEnd" /\ e.origin = Origin(q, 0, <<>>)
      BY <1>3, ThreadMessage
    <2> HIDE DEF e
    <2> QED
      BY <2>1 DEF Origin
  <1>5. Sealed' => enabled = "on" /\ file' = Append(file, e)
    BY <1>1, <1>3, Sealing
  <1> HIDE DEF e
  <1>6. /\ file \in Seq(Messages) /\ <<e>> \in Seq(Messages) /\ Len(<<e>>) = 1 /\ <<e>>[1] = e
        /\ Append(file, e) = file \o <<e>>
    <2>1. file \in Seq(Messages)
      BY <1>3 DEF ProbesTypeOK
    <2> QED
      BY <1>4, <2>1, Appended
  <1>7. \A t \in Threads : Number(<<e>>, StartsBy(t)) = 0 /\ Number(<<e>>, CallsBy(t)) = 0
    <2>1. \A t : e \notin StartsBy(t) /\ e \notin CallsBy(t)
      BY <1>4 DEF StartsBy, CallsBy
    <2> QED
      BY <1>4, <2>1, NumberOfOne
  <1>8. Counts(q, 0)
    <2> DEFINE x == <<e>>
               b == thread[q].buffer
               more == IF ~thread[q].buffering /\ thread'[q].buffering THEN 1 ELSE 0
    <2>1. x \in Seq(Messages) /\ Own(x, q)
      BY <1>4, <1>6 DEF Own, NameOK
    <2>2. b \in Seq(Messages) /\ Own(b, q)
      BY <1>3, ThreadTypes DEF Own, OwnOK
    <2>3. file' \in {file, file \o x} \cup Partly(x) /\ ~(enabled = "on" /\ enabled' = "on")
      BY <1>2, <1>6
    <2>4. thread'[q].buffer = b /\ (thread[q].buffering => thread'[q].buffering)
      BY <1>2
    <2>5. Number(x, StartsBy(q)) = 0 /\ Number(b, StartsBy(q)) \in Nat /\ more \in Nat
      BY <1>7, <2>2, InFacts
    <2> HIDE DEF x, b, more
    <2>6. Number(x, StartsBy(q)) + Number(b, StartsBy(q)) <= Number(b, StartsBy(q)) + more
      BY <2>5
    <2> QED
      BY <2>1, <2>2, <2>3, <2>4, <2>6, Zenon DEF Counts, b, more
  <1>9. OwnOK' /\ StartsOK'
    <2>1. \A u \in Threads \ {q} : thread'[u] = thread[u]
      BY <1>2
    <2> QED
      BY <1>3, <1>8, <2>1, CountsKeeps
  <1>10. ASSUME Sealed', exit'.clean, NEW t \in Threads
         PROVE  EveryN * Number(file', CallsBy(t)) = calls'[t] + skip'[t]
    <2>1. enabled = "on" /\ file' = file \o <<e>> /\ exit.clean
      BY <1>2, <1>5, <1>6, <1>10
    <2>2. thread[t].buffer = <<>>
      <3>1. exit.by = Main /\ \A u \in Threads \ {Main} : thread[u].status \in {"new", "gone"}
        BY <1>3, <2>1 DEF ExitOK
      <3>2. thread[t].status \in {"new", "gone"}
        BY <1>1, <1>2, <3>1
      <3> QED
        BY <1>3, <2>1, <3>2 DEF WritingOK, ThreadOK
    <2>3. /\ Number(file, CallsBy(t)) \in Nat /\ Number(thread[t].buffer, CallsBy(t)) = 0
      BY <1>6, <2>2, InFacts, NumberOfEmpty
    <2>4. Number(file \o <<e>>, CallsBy(t)) = Number(file, CallsBy(t)) + 0
      <3>1. Number(file \o <<e>>, CallsBy(t)) = Number(file, CallsBy(t)) + Number(<<e>>, CallsBy(t))
        BY <1>6, NumberJoined
      <3> QED
        BY <1>7, <3>1
    <2>5. EveryN * (Number(file, CallsBy(t)) + 0) = calls[t] + skip[t]
      BY <1>3, <2>1, <2>3 DEF CallsOK
    <2> QED
      BY <1>2, <2>1, <2>4, <2>5
  <1>11. CallsOK'
    <2>1. skip \in [Threads -> 0 .. EveryN - 1] /\ calls \in [Threads -> Nat]
      BY <1>3 DEF CallsOK
    <2> QED
      BY <1>2, <1>10, <2>1 DEF CallsOK, CallsBy
  <1> QED
    BY <1>9, <1>11 DEF CountsInv

LEMMA NothingCounts ==
    ASSUME CountsInv, file' = file, enabled' = enabled, exit' = exit, skip' = skip,
           calls' = calls, phase' = "init" => phase = "init",
           \A t \in Threads : /\ thread'[t].buffer = thread[t].buffer
                              /\ thread'[t].buffering = thread[t].buffering
    PROVE  CountsInv'
  <1>1. OwnOK'
    BY DEF CountsInv, OwnOK, NameOK
  <1>2. StartsOK'
    BY DEF CountsInv, StartsOK, StartsBy
  <1>3. CallsOK'
    BY DEF CountsInv, CallsOK, CallsBy, Sealed
  <1> QED
    BY <1>1, <1>2, <1>3 DEF CountsInv

LEMMA CountsInitially == ProbesInit => CountsInv
  <1> SUFFICES ASSUME ProbesInit PROVE CountsInv
    OBVIOUS
  <1>1. /\ file = <<>> /\ enabled = "off"
        /\ skip = [t \in Threads |-> 0] /\ calls = [t \in Threads |-> 0]
        /\ \A t \in Threads : thread[t].buffer = <<>>
    BY DEF ProbesInit
  <1>2. OwnOK
    BY <1>1 DEF OwnOK
  <1>3. StartsOK
    <2>1. \A M : Number(<<>>, M) = 0
      BY NumberOfEmpty
    <2>2. \A t \in Threads : 0 + 0 <= IF thread[t].buffering THEN 1 ELSE 0
      OBVIOUS
    <2> QED
      BY <1>1, <2>1, <2>2 DEF StartsOK
  <1>4. CallsOK
    <2>1. 0 \in 0 .. EveryN - 1
      BY ProbesAssumption
    <2>2. ~Sealed
      BY <1>1 DEF Sealed
    <2> QED
      BY <1>1, <2>1, <2>2 DEF CallsOK
  <1> QED
    BY <1>2, <1>3, <1>4 DEF CountsInv

LEMMA CountsInvIsInductive ==
    ASSUME ProbesInv, ProbesInv', CountsInv, [ProbesNext]_probeVars
    PROVE  CountsInv'
  <1>1. /\ ProbesTypeOK /\ ProbesTypeOK' /\ ExitOK /\ OwnOK /\ CallsOK
        /\ \A t \in Threads : ScopesOK(t)
        /\ enabled = "on" => \A t \in Threads : ThreadOK(t)
    BY DEF ProbesInv, CountsInv, WritingOK
  <1>2. CASE UNCHANGED probeVars
    BY <1>2, NothingCounts DEF probeVars, auxVars
  <1>3. CASE Vanish
    BY <1>3, NothingCounts DEF Vanish, auxVars
  <1>4. CASE OpenOutput
    BY <1>1, <1>4, OpenOutputCounts
  <1>5. CASE CloseOutput
    BY <1>5, CloseOutputCounts
  <1>6. ASSUME NEW t \in Threads, StartThread(t) PROVE CountsInv'
    <2>1. /\ UNCHANGED <<phase, enabled, file, skip, exit, calls>>
          /\ \E tid : thread' = [thread EXCEPT ![t].status = "running", ![t].tid = tid]
      BY <1>6 DEF StartThread
    <2>2. \A u \in Threads : /\ thread'[u].buffer = thread[u].buffer
                             /\ thread'[u].buffering = thread[u].buffering
      BY <1>1, <2>1 DEF ProbesTypeOK, ThreadStates
    <2> QED
      BY <2>1, <2>2, NothingCounts
  <1>7. ASSUME NEW t \in Threads, NEW e \in {0, 1}, Counts(t, e), Rounds(t, e),
               StepOf(t), UNCHANGED <<phase, exit>>
        PROVE  CountsInv'
    BY <1>7, CountsInvStep DEF StepOf
  <1>8. ASSUME NEW t \in Threads, NEW pn \in Scopes, EnterScope(t, pn) PROVE CountsInv'
    BY <1>1, <1>7, <1>8, EnterScopeIsStep, EnterScopeCounts
  <1>9. ASSUME NEW t \in Threads, LeaveScope(t) PROVE CountsInv'
    BY <1>1, <1>7, <1>9, LeaveScopeIsStep, LeaveScopeCounts
  <1>10. ASSUME NEW t \in Threads, LogKeyValue(t) PROVE CountsInv'
    BY <1>1, <1>7, <1>10, LogKeyValueIsStep, LogKeyValueCounts
  <1>11. ASSUME NEW t \in Threads, LogPoint(t) PROVE CountsInv'
    BY <1>1, <1>7, <1>11, LogPointIsStep, LogPointCounts
  <1>12. ASSUME NEW t \in Threads, EndThread(t) PROVE CountsInv'
    <2>1. EndBuffer(t) /\ UNCHANGED <<skip, calls>>
      BY <1>12 DEF EndThread, auxVars
    <2> QED
      BY <1>1, <1>7, <1>12, <2>1, EndThreadIsStep, EndBufferCounts
  <1>13. ASSUME NEW t \in Threads, FlushLast(t) PROVE CountsInv'
    <2>1. phase # "init"
      BY <1>1, <1>13 DEF FlushLast, ExitOK
    <2> QED
      BY <1>1, <1>7, <1>13, <2>1, FlushLastIsStep, FlushLastCounts
  <1>14. ASSUME NEW t \in Threads, EndProcess(t) PROVE CountsInv'
    <2>1. EndBuffer(t) /\ UNCHANGED <<skip, calls>>
      BY <1>14 DEF EndProcess, auxVars
    <2>2. StepOf(t) /\ phase = "running" /\ phase' = "exiting"
      BY <1>1, <1>14, EndProcessIsStep
    <2>3. Counts(t, 0) /\ Rounds(t, 0)
      BY <1>1, <2>1, EndBufferCounts
    <2> QED
      BY <2>2, <2>3, CountsInvStep
  <1> QED
    BY <1>2, <1>3, <1>4, <1>5, <1>6, <1>8, <1>9, <1>10, <1>11, <1>12, <1>13, <1>14
       DEF ProbesNext

(* Whatever threads do and when, no message is told of another thread, no  *)
(* thread announces itself twice, and the calls are accounted for          *)
THEOREM CountsInvHolds == Spec => []CountsInv
  <1>1. Init => CountsInv
    BY CountsInitially DEF Init
  <1>2. CountsInv /\ ProbesInv /\ ProbesInv' /\ [Next]_vars => CountsInv'
    BY CountsInvIsInductive DEF Next, Program, Evaluate, vars
  <1> QED
    BY <1>1, <1>2, ProbesInvHolds, PTL DEF Spec

-----------------------------------------------------------------------------
(***************************************************************************)
(* What the tables count                                                   *)
(***************************************************************************)
LEMMA SpansHaveStarts ==
    ASSUME ProbesInv, TreeProofs!TreeInv, ReadInv, Active
    PROVE  /\ Sealed /\ file \in Seq(Messages) /\ Len(file) \in Nat
           /\ \A i \in DOMAIN spans :
                 /\ i \in Nat /\ spans[i].start \in 1 .. Len(file) /\ Start(i) \in Messages
                 /\ SpanFits(file, spans, i)
                 /\ spans[i].kind \in {"Process", "Thread", "Scope", "KeyValue"}
                 /\ spans[i].kind = "Process" <=> Start(i).kind = "TStart"
                 /\ spans[i].kind = "Thread" <=> Start(i).kind = "TThreadStart"
                 /\ spans[i].kind = "Scope" <=> Start(i).kind = "TS"
                 /\ spans[i].kind = "KeyValue" <=> Start(i).kind = "KeyValue"
           /\ \A i, j \in DOMAIN spans : i < j => spans[i].start < spans[j].start
           /\ \A i, j \in DOMAIN spans : spans[i].start = spans[j].start => i = j
  <1>1. /\ Sealed /\ position \in 3 .. Len(file) + 1
        /\ \A i \in DOMAIN spans : SpanFits(file, spans, i)
    BY DEF ReadInv, ReadingOK
  <1>2. /\ file \in Seq(Messages) /\ Len(file) \in Nat
        /\ \A i \in 1 .. Len(file) : file[i] \in Messages
    BY <1>1, LogFacts
  <1>3. \A i \in DOMAIN spans :
           /\ i \in Nat /\ spans[i].kind \in {"Process", "Thread", "Scope", "KeyValue"}
           /\ spans[i].start \in 1 .. position - 1
    BY ReadTypes
  <1>4. ASSUME NEW i \in DOMAIN spans
        PROVE  /\ spans[i].start \in 1 .. Len(file) /\ Start(i) \in Messages
               /\ Start(i).kind = StartKind(spans[i].kind)
    <2>1. spans[i].start \in 1 .. Len(file)
      BY <1>1, <1>2, <1>3
    <2> QED
      BY <1>1, <1>2, <2>1 DEF SpanFits, Start
  <1>5. \A i, j \in DOMAIN spans : i < j => spans[i].start < spans[j].start
    BY DEF TreeProofs!TreeInv, TreeProofs!PositionsOK
  <1>6. ASSUME NEW i \in DOMAIN spans, NEW j \in DOMAIN spans, spans[i].start = spans[j].start
        PROVE  i = j
    <2>1. i \in Nat /\ j \in Nat /\ spans[i].start \in Nat /\ spans[j].start \in Nat
      BY <1>2, <1>3, <1>4
    <2>2. ~(i < j) /\ ~(j < i)
      BY <1>5, <1>6, <2>1
    <2> QED
      BY <2>1, <2>2
  <1>7. ASSUME NEW i \in DOMAIN spans
        PROVE  /\ spans[i].kind = "Process" <=> Start(i).kind = "TStart"
               /\ spans[i].kind = "Thread" <=> Start(i).kind = "TThreadStart"
               /\ spans[i].kind = "Scope" <=> Start(i).kind = "TS"
               /\ spans[i].kind = "KeyValue" <=> Start(i).kind = "KeyValue"
    BY <1>3, <1>4 DEF StartKind
  <1> QED
    BY <1>1, <1>2, <1>3, <1>4, <1>5, <1>6, <1>7

LEMMA WeightsAreRight ==
    ASSUME ProbesInv, CountsInv, TreeProofs!TreeInv, ReadInv
    PROVE  WeightsCountCalls
  <1> SUFFICES ASSUME status = "done", exit.clean, NEW t \in Threads
               PROVE  LET logged == {i \in ScopesIn : Start(i).pn = EveryProbe
                                                      /\ Start(i).origin.thread = t}
                      IN  /\ \A i \in logged : Start(i).n = EveryN
                          /\ LET counted == EveryN * Cardinality(logged)
                             IN  calls[t] <= counted /\ counted < calls[t] + EveryN
    BY DEF WeightsCountCalls
  <1> DEFINE logged == {i \in ScopesIn : Start(i).pn = EveryProbe
                                         /\ Start(i).origin.thread = t}
             M == CallsBy(t)
             f == [i \in logged |-> spans[i].start]
  <1>1. Active
    BY DEF Active
  <1>2. /\ Sealed /\ file \in Seq(Messages) /\ Len(file) \in Nat
        /\ \A i \in DOMAIN spans :
              /\ spans[i].start \in 1 .. Len(file) /\ Start(i) \in Messages
              /\ spans[i].kind = "Scope" <=> Start(i).kind = "TS"
        /\ \A i, j \in DOMAIN spans : spans[i].start = spans[j].start => i = j
    BY <1>1, SpansHaveStarts
  <1>3. ASSUME NEW i \in logged
        PROVE  f[i] \in In(file, M) /\ Start(i).n = EveryN
    <2>1. i \in DOMAIN spans /\ spans[i].kind = "Scope" /\ Start(i).pn = EveryProbe
          /\ Start(i).origin.thread = t
      BY DEF ScopesIn
    <2>2. spans[i].start \in 1 .. Len(file) /\ Start(i) \in Messages /\ Start(i).kind = "TS"
      BY <1>2, <2>1
    <2>3. NameOK(Start(i))
      BY <2>2 DEF CountsInv, OwnOK, Start
    <2>4. Start(i) \in M
      BY <2>1, <2>2 DEF CallsBy
    <2>5. spans[i].start \in In(file, M)
      BY <2>2, <2>4 DEF In, Start
    <2> QED
      BY <2>1, <2>2, <2>3, <2>5 DEF NameOK
  <1>4. ASSUME NEW k \in In(file, M)
        PROVE  \E i \in logged : f[i] = k
    <2>1. /\ k \in 1 .. Len(file) /\ file[k].kind = "TS" /\ file[k].pn = EveryProbe
          /\ file[k].origin.thread = t
      BY DEF In, CallsBy
    <2>2. file[1].kind = "Start" /\ file[2].kind = "Metadata"
      BY <1>2, LogFacts
    <2>3. position = Len(file) + 1
      BY <1>1 DEF ReadInv, ReadingOK
    <2>4. k \in 3 .. position - 1
      <3>1. k # 1 /\ k # 2
        BY <2>1, <2>2
      <3> QED
        BY <1>2, <2>1, <2>3, <3>1
    <2>5. PICK i \in DOMAIN spans : spans[i].start = k
      BY <1>1, <2>1, <2>4 DEF ReadInv, ReadingOK
    <2>6. i \in logged
      BY <1>2, <2>1, <2>5 DEF ScopesIn, Start
    <2> QED
      BY <2>5, <2>6
  <1>5. \A i, j \in logged : f[i] = f[j] => i = j
    BY <1>2 DEF ScopesIn
  <1> HIDE DEF M
  <1>6. f \in Bijection(logged, In(file, M))
    <2> HIDE DEF logged
    <2>1. f \in [logged -> In(file, M)]
      BY <1>3
    <2> QED
      BY <1>4, <1>5, <2>1 DEF Bijection, Injection, IsInjective, Surjection
  <1>7. IsFiniteSet(In(file, M)) /\ Number(file, M) \in Nat
    BY <1>2, InFacts
  <1>8. Cardinality(logged) = Number(file, M)
    <2>1. logged \subseteq 1 .. Len(spans) /\ IsFiniteSet(1 .. Len(spans))
      BY ReadTypes, FS_Interval DEF ScopesIn
    <2> HIDE DEF logged, f
    <2>2. IsFiniteSet(logged)
      BY <2>1, FS_Subset
    <2>3. ExistsBijection(logged, In(file, M))
      BY <1>6 DEF ExistsBijection
    <2> QED
      BY <2>2, <2>3, FS_Bijection DEF Number
  <1>9. EveryN * Number(file, M) = calls[t] + skip[t]
    BY <1>2 DEF CountsInv, CallsOK, M
  <1>10. skip[t] \in 0 .. EveryN - 1 /\ calls[t] \in Nat /\ EveryN \in Nat
    BY ProbesAssumption DEF CountsInv, CallsOK
  <1> DEFINE counted == EveryN * Cardinality(logged)
  <1>11. counted = calls[t] + skip[t]
    BY <1>8, <1>9
  <1>12. calls[t] <= counted /\ counted < calls[t] + EveryN
    <2> HIDE DEF counted
    <2> QED
      BY <1>10, <1>11
  <1> QED
    BY <1>3, <1>12

(* The calls the tables count are the calls the program has made, but for  *)
(* less than a round of the divider in each thread                         *)
THEOREM WeightsAreCalls == Spec => []WeightsCountCalls
  <1>1. ProbesInv /\ CountsInv /\ TreeProofs!TreeInv /\ ReadInv => WeightsCountCalls
    BY WeightsAreRight
  <1> QED
    BY <1>1, ProbesInvHolds, CountsInvHolds, TreeInvHolds, ReadInvHolds, PTL

-----------------------------------------------------------------------------
(***************************************************************************)
(* Threads of the same id                                                  *)
(***************************************************************************)
(* Spans that keep their kinds, their starts and the ends that they have   *)
LEMMA ThreadsKept ==
    ASSUME ThreadsOK, Active, file' = file, TreeProofs!TreeInv, position' >= position,
           \A i \in DOMAIN spans' : spans'[i].kind = "Thread" => i \in DOMAIN spans,
           \A i \in DOMAIN spans :
              /\ spans'[i].kind = spans[i].kind /\ spans'[i].start = spans[i].start
              /\ spans[i].end # 0 => spans'[i].end = spans[i].end
    PROVE  ThreadsOK'
  <1> SUFFICES ASSUME NEW i \in DOMAIN spans', NEW j \in DOMAIN spans', i < j,
                      spans'[i].kind = "Thread", spans'[j].kind = "Thread",
                      file[spans'[i].start].tid = file[spans'[j].start].tid
               PROVE  spans'[i].end # 0 /\ spans'[i].end < spans'[j].start
    BY DEF ThreadsOK, Start
  <1>1. /\ i \in DOMAIN spans /\ j \in DOMAIN spans
        /\ spans[i].kind = "Thread" /\ spans[j].kind = "Thread"
        /\ file[spans[i].start].tid = file[spans[j].start].tid
    OBVIOUS
  <1>2. spans[i].end # 0 /\ spans[i].end < spans[j].start
    BY <1>1 DEF ThreadsOK, Start
  <1> QED
    BY <1>1, <1>2

(* The stack of an id that starts a thread has no span of a thread         *)
LEMMA ThreadIsTheFirst ==
    ASSUME ProbesInv, TreeProofs!TreeInv, ReadInv, Reading,
           file[position].kind = "TThreadStart",
           NEW i \in DOMAIN spans, spans[i].kind = "Thread",
           Start(i).tid = file[position].tid
    PROVE  spans[i].end # 0
  <1> SUFFICES ASSUME spans[i].end = 0 PROVE FALSE
    OBVIOUS
  <1>1. PICK tid : tid = file[position].tid
    OBVIOUS
  <1> DEFINE s == StackOf(tid)
             r == Roots(file, tid, position)
  <1>2. /\ position > 3 /\ position \in Nat /\ tid \in AllTids
        /\ StackFits(file, spans, s, tid, position)
        /\ Chained(file, tid, position, Quitter)
    <2>1. file[position].kind \in Tracked /\ file[position].kind # "TStart"
      BY DEF Tracked
    <2> QED
      BY <1>1, <2>1, ReadingFacts, ReadTypes
  <1>3. /\ r \in {0, 1}
        /\ r = 1 => spans[s[1]].kind = "Process"
        /\ \/ Len(s) = r
           \/ \E k \in 1 .. position - 1 :
                 file[k].kind # "TThreadEnd" /\ Follows(file[k], file[position], Quitter)
    BY <1>2, StackFitsAt
  <1>4. Len(s) = r
    BY <1>3 DEF Follows
  <1>5. PICK k \in 1 .. Len(s) : s[k] = i
    <2>1. i \in TreeProofs!Scoped \ TreeProofs!Ended /\ TreeProofs!TidOf(i) = tid
      BY <1>1 DEF TreeProofs!Scoped, TreeProofs!Ended, TreeProofs!IsKeyValue,
                  TreeProofs!NoEnd, TreeProofs!TidOf, Start
    <2>2. /\ tid \in DOMAIN startByThread
          /\ \E k \in 1 .. Len(startByThread[tid]) : startByThread[tid][k] = i
      BY <2>1 DEF TreeProofs!TreeInv, TreeProofs!StacksOK
    <2> QED
      BY <2>2 DEF StackOf
  <1>6. k = 1 /\ r = 1
    <2>1. r \in {0, 1} /\ Len(s) = r /\ k \in 1 .. Len(s)
      BY <1>3, <1>4
    <2> HIDE DEF r, s
    <2> QED
      BY <2>1
  <1> QED
    BY <1>3, <1>5, <1>6

LEMMA StartSpanThreads ==
    ASSUME ProbesInv, TreeProofs!TreeInv, ReadInv, ThreadsOK, phase = "gone", Waits,
           TreeProofs!StartSpan
    PROVE  ThreadsOK'
  <1> DEFINE m == file[position]
             id == Len(spans) + 1
             span == TreeProofs!Span(TreeProofs!ScopeKind(m.kind), TreeProofs!Top,
                                     TreeProofs!Number)
  <1>1. /\ Reading /\ m.kind \in {"TStart", "TThreadStart", "TS"} /\ Active
        /\ spans' = Append(spans, span) /\ position' = position + 1 /\ file' = file
    BY DEF TreeProofs!StartSpan, TreeProofs!AtMessage, TreeProofs!Message, Reading,
           TreeProofs!Starts, Waits, Active
  <1>2. /\ DOMAIN spans = 1 .. Len(spans) /\ Len(spans) \in Nat /\ position \in Nat
        /\ spans \in Seq(TreeProofs!SpanType)
        /\ \A i \in DOMAIN spans : spans[i].end \in Nat /\ spans[i].end < position
    BY ReadTypes
  <1>3. span.start = position /\ (span.kind = "Thread" => m.kind = "TThreadStart")
    BY <1>1 DEF TreeProofs!Span, TreeProofs!ScopeKind
  <1> HIDE DEF span
  <1>4. /\ DOMAIN spans' = DOMAIN spans \cup {id} /\ spans'[id] = span
        /\ \A i \in DOMAIN spans : spans'[i] = spans[i]
    <2>1. /\ DOMAIN spans' = 1 .. id /\ spans'[id] = span
          /\ \A i \in 1 .. Len(spans) : spans'[i] = spans[i]
      BY <1>1, <1>2
    <2> QED
      BY <1>2, <2>1
  <1>5. CASE span.kind # "Thread"
    <2>1. \A i \in DOMAIN spans' : spans'[i].kind = "Thread" => i \in DOMAIN spans
      BY <1>4, <1>5
    <2>2. position' >= position
      BY <1>1, <1>2
    <2> QED
      BY <1>1, <1>4, <2>1, <2>2, ThreadsKept
  <1>6. CASE span.kind = "Thread"
    <2>1. m.kind = "TThreadStart"
      BY <1>3, <1>6
    <2> SUFFICES ASSUME NEW i \in DOMAIN spans', NEW j \in DOMAIN spans', i < j,
                        spans'[i].kind = "Thread", spans'[j].kind = "Thread",
                        file[spans'[i].start].tid = file[spans'[j].start].tid
                 PROVE  spans'[i].end # 0 /\ spans'[i].end < spans'[j].start
      BY <1>1 DEF ThreadsOK, Start
    <2>2. i \in DOMAIN spans /\ spans'[i] = spans[i]
      <3>1. i # id
        BY <1>2, <1>4
      <3> QED
        BY <1>4, <3>1
    <2>3. CASE j = id
      <3>1. spans'[j].start = position
        BY <1>3, <1>4, <2>3
      <3>2. spans[i].kind = "Thread" /\ Start(i).tid = m.tid
        BY <2>2, <3>1 DEF Start
      <3>3. spans[i].end # 0
        BY <1>1, <2>1, <2>2, <3>2, ThreadIsTheFirst
      <3> QED
        BY <1>2, <2>2, <3>1, <3>3
    <2>4. CASE j # id
      <3>1. j \in DOMAIN spans /\ spans'[j] = spans[j]
        BY <1>4, <2>4
      <3> QED
        BY <1>1, <2>2, <3>1 DEF ThreadsOK, Start
    <2> QED
      BY <2>3, <2>4
  <1> QED
    BY <1>5, <1>6

LEMMA AddKeyValueThreads ==
    ASSUME ProbesInv, TreeProofs!TreeInv, ReadInv, ThreadsOK, phase = "gone", Waits,
           TreeProofs!AddKeyValue
    PROVE  ThreadsOK'
  <1> DEFINE id == Len(spans) + 1
             span == TreeProofs!Span("KeyValue", TreeProofs!Top, 0)
             old == [i \in DOMAIN spans |->
                        IF i = TreeProofs!Top
                        THEN [spans[i] EXCEPT !.children = Append(@, id)] ELSE spans[i]]
  <1>1. file' = file /\ Active
    BY DEF TreeProofs!AddKeyValue, TreeProofs!AtMessage, Waits, Active
  <1>2. CASE ~TreeProofs!HasStack
    BY <1>2 DEF TreeProofs!AddKeyValue, ThreadsOK, Active
  <1>3. CASE TreeProofs!HasStack
    <2>1. spans' = Append(old, span) /\ position' = position + 1
      BY <1>3 DEF TreeProofs!AddKeyValue
    <2>2. /\ DOMAIN spans = 1 .. Len(spans) /\ Len(spans) \in Nat /\ position \in Nat
          /\ spans \in Seq(TreeProofs!SpanType)
      BY ReadTypes
    <2>3. span.kind = "KeyValue"
      BY DEF TreeProofs!Span
    <2>4. ASSUME NEW i \in DOMAIN spans
          PROVE  /\ old[i].kind = spans[i].kind /\ old[i].start = spans[i].start
                 /\ old[i].end = spans[i].end
      <3>1. spans[i] \in TreeProofs!SpanType
        BY <2>2
      <3>2. old[i] = IF i = TreeProofs!Top
                     THEN [spans[i] EXCEPT !.children = Append(@, id)] ELSE spans[i]
        OBVIOUS
      <3> QED
        BY <3>1, <3>2 DEF TreeProofs!SpanType
    <2>5. /\ DOMAIN spans' = DOMAIN spans \cup {id} /\ spans'[id] = span
          /\ \A i \in DOMAIN spans : spans'[i] = old[i]
      <3>1. DOMAIN old = 1 .. Len(spans)
        BY <2>2
      <3> HIDE DEF span, old
      <3>2. Len(old) = Len(spans)
        BY <2>2, <3>1
      <3>3. /\ DOMAIN Append(old, span) = 1 .. id /\ Append(old, span)[id] = span
            /\ \A i \in 1 .. Len(spans) : Append(old, span)[i] = old[i]
        BY <2>2, <3>1, <3>2
      <3> QED
        BY <2>1, <2>2, <3>3
    <2> HIDE DEF span, old
    <2>6. \A i \in DOMAIN spans' : spans'[i].kind = "Thread" => i \in DOMAIN spans
      BY <2>3, <2>5
    <2>7. position' >= position
      BY <2>1, <2>2
    <2> QED
      BY <1>1, <2>4, <2>5, <2>6, <2>7, ThreadsKept
  <1> QED
    BY <1>2, <1>3

LEMMA EndSpanThreads ==
    ASSUME ProbesInv, TreeProofs!TreeInv, ReadInv, ThreadsOK, phase = "gone", Waits,
           TreeProofs!EndSpan
    PROVE  ThreadsOK'
  <1> DEFINE m == file[position]
             kind == TreeProofs!ScopeKind(m.kind)
  <1>0. PICK tid : tid = m.tid
    OBVIOUS
  <1> DEFINE s == StackOf(tid)
  <1>1. file' = file /\ Active
    BY DEF TreeProofs!EndSpan, TreeProofs!AtMessage, Waits, Active
  <1>2. \/ status' = "error" \/ status' = "panic"
        \/ \E c \in TreeProofs!Closing(s) : c \in 1 .. Len(s) /\ SpanEnds(tid, c)
    BY <1>0, EndSpanFacts
  <1>3. CASE status' = "error" \/ status' = "panic"
    BY <1>3 DEF ThreadsOK, Active
  <1>4. CASE \E c \in TreeProofs!Closing(s) : c \in 1 .. Len(s) /\ SpanEnds(tid, c)
    <2>1. PICK c \in 1 .. Len(s) : SpanEnds(tid, c)
      BY <1>4
    <2>2. spans[s[c]].end = 0
      <3>1. tid \in DOMAIN startByThread /\ s = startByThread[tid]
        BY <2>1 DEF StackOf
      <3> QED
        BY <3>1 DEF TreeProofs!TreeInv, TreeProofs!StacksOK, TreeProofs!NoEnd
    <2>3. /\ DOMAIN spans' = DOMAIN spans /\ position' = position + 1
          /\ \A i \in DOMAIN spans :
                /\ spans'[i].kind = spans[i].kind /\ spans'[i].start = spans[i].start
                /\ i # s[c] => spans'[i].end = spans[i].end
      BY <2>1 DEF SpanEnds
    <2>4. \A i \in DOMAIN spans : spans[i].end # 0 => spans'[i].end = spans[i].end
      BY <2>2, <2>3
    <2>5. position' >= position
      BY <2>3, ReadTypes
    <2> QED
      BY <1>1, <2>3, <2>4, <2>5, ThreadsKept
  <1> QED
    BY <1>2, <1>3, <1>4

LEMMA ThreadsOKIsInductive ==
    ASSUME ProbesInv, TreeProofs!TreeInv, WaitsForProgram, ReadInv, ThreadsOK, [Next]_vars
    PROVE  ThreadsOK'
  <1>1. CASE phase # "gone"
    <2>1. status' = "unread"
      BY <1>1 DEF WaitsForProgram, TreeProofs!TreeInit, Next, Program, Evaluate, vars, treeVars
    <2> QED
      BY <2>1 DEF ThreadsOK, Active
  <1>2. CASE UNCHANGED vars
    BY <1>2 DEF vars, probeVars, treeVars, ThreadsOK, Active, Start
  <1>3. CASE phase = "gone" /\ Evaluate
    <2>1. TreeProofs!TreeNext /\ Waits
      BY <1>3, SameStep DEF Evaluate, Waits, probeVars
    <2>2. CASE TreeProofs!ReadFile
      <3>1. status = "unread"
        BY <2>2 DEF TreeProofs!ReadFile
      <3>2. position = 0
        BY <3>1 DEF TreeProofs!TreeInv, TreeProofs!PositionsOK
      <3>3. \A i \in DOMAIN spans : spans[i].start \in 1 .. 0 - 1
        BY <3>2, ReadTypes
      <3>4. DOMAIN spans = {}
        BY <3>3
      <3> QED
        BY <2>2, <3>4 DEF TreeProofs!ReadFile, ThreadsOK
    <2>3. CASE TreeProofs!StartSpan
      BY <1>3, <2>1, <2>3, StartSpanThreads
    <2>4. CASE TreeProofs!AddKeyValue
      BY <1>3, <2>1, <2>4, AddKeyValueThreads
    <2>5. CASE TreeProofs!EndSpan
      BY <1>3, <2>1, <2>5, EndSpanThreads
    <2>6. CASE TreeProofs!SkipMessage \/ TreeProofs!Built \/ TreeProofs!MakeTables
      BY <2>1, <2>6 DEF TreeProofs!SkipMessage, TreeProofs!AtMessage, TreeProofs!Built,
                        TreeProofs!MakeTables, Waits, ThreadsOK, Active, Start
    <2> QED
      BY <2>1, <2>2, <2>3, <2>4, <2>5, <2>6 DEF TreeProofs!TreeNext
  <1> QED
    BY <1>1, <1>2, <1>3, GoneDoesNothing DEF Next, Program

(* The threads that the log tells of by the same id have run one after the *)
(* other, and so has the tree                                              *)
THEOREM ThreadsFollow == Spec => []ThreadsOK
  <1>1. Init => ThreadsOK /\ WaitsForProgram
    <2> SUFFICES ASSUME Init PROVE ThreadsOK /\ WaitsForProgram
      OBVIOUS
    <2>1. TreeProofs!TreeInit /\ status = "unread"
      BY SameInit DEF Init, TreeProofs!TreeInit
    <2> QED
      BY <2>1 DEF WaitsForProgram, ThreadsOK, Active
  <1>2. WaitsForProgram /\ [Next]_vars => WaitsForProgram'
    BY WaitsForProgramIsInductive
  <1>3. ProbesInv /\ TreeProofs!TreeInv /\ WaitsForProgram /\ ReadInv /\ ThreadsOK /\ [Next]_vars
            => ThreadsOK'
    BY ThreadsOKIsInductive
  <1> QED
    BY <1>1, <1>2, <1>3, ProbesInvHolds, TreeInvHolds, ReadInvHolds, PTL DEF Spec

(* The thread of a scope is the one span of a thread with its number, and  *)
(* the one whose messages come from the thread of the program              *)
LEMMA OneSpanPerThread ==
    ASSUME ProbesInv, CountsInv, TreeProofs!TreeInv, ReadInv, ThreadsOK, Active,
           NEW a \in DOMAIN spans, NEW b \in DOMAIN spans,
           spans[a].kind = "Thread", spans[b].kind = "Thread",
           \/ spans[a].threadNumber = spans[b].threadNumber
           \/ Start(a).origin.thread = Start(b).origin.thread
    PROVE  a = b
  <1>1. /\ file \in Seq(Messages) /\ Len(file) \in Nat
        /\ \A i \in DOMAIN spans :
              /\ i \in Nat /\ spans[i].start \in 1 .. Len(file) /\ Start(i) \in Messages
              /\ spans[i].kind = "Thread" <=> Start(i).kind = "TThreadStart"
        /\ \A i, j \in DOMAIN spans : spans[i].start = spans[j].start => i = j
    BY SpansHaveStarts
  <1>2. CASE spans[a].threadNumber = spans[b].threadNumber
    <2>1. ASSUME NEW i \in {a, b}, NEW j \in {a, b}, i < j PROVE FALSE
      <3>1. /\ i \in DOMAIN spans /\ j \in DOMAIN spans
            /\ spans[i].kind = "Thread" /\ spans[j].kind = "Thread"
            /\ spans[i].threadNumber = spans[j].threadNumber
        BY <1>2
      <3>2. i \in TreeProofs!Scoped /\ j \in TreeProofs!Scoped
        BY <3>1 DEF TreeProofs!Scoped, TreeProofs!IsKeyValue
      <3>3. /\ TreeProofs!TidOf(i) = TreeProofs!TidOf(j)
            /\ ~(i \in TreeProofs!Ended /\ spans[i].end < spans[j].start)
        BY <3>1, <3>2 DEF TreeProofs!TreeInv, TreeProofs!ThreadNumbersTellThreads
      <3>4. Start(i).tid = Start(j).tid
        BY <3>3 DEF TreeProofs!TidOf, Start
      <3>5. spans[i].end # 0 /\ spans[i].end < spans[j].start
        BY <2>1, <3>1, <3>4 DEF ThreadsOK
      <3> QED
        BY <3>2, <3>3, <3>5 DEF TreeProofs!Ended, TreeProofs!NoEnd
    <2>2. ~(a < b) /\ ~(b < a)
      BY <2>1
    <2> QED
      BY <1>1, <2>2
  <1>3. CASE Start(a).origin.thread = Start(b).origin.thread
    <2> SUFFICES ASSUME a # b PROVE FALSE
      OBVIOUS
    <2>1. PICK t : t = Start(a).origin.thread
      OBVIOUS
    <2>2. Start(a).kind = "TThreadStart" /\ Start(b).kind = "TThreadStart"
      BY <1>1
    <2>3. t \in Threads
      <3>1. NameOK(Start(a))
        BY <1>1 DEF CountsInv, OwnOK, Start
      <3> QED
        BY <2>1, <2>2, <3>1 DEF NameOK
    <2> DEFINE x == spans[a].start
               y == spans[b].start
               M == StartsBy(t)
    <2>4. Start(a) \in M /\ Start(b) \in M
      BY <1>1, <1>3, <2>1, <2>2 DEF StartsBy
    <2> HIDE DEF M
    <2>5. x \in In(file, M) /\ y \in In(file, M) /\ x # y
      BY <1>1, <2>4 DEF In, Start
    <2> HIDE DEF x, y
    <2>6. IsFiniteSet({x}) /\ Cardinality({x}) = 1
      BY FS_Singleton
    <2>7. IsFiniteSet({x} \cup {y}) /\ Cardinality({x} \cup {y}) = 2
      <3>1. y \notin {x}
        BY <2>5
      <3>2. Cardinality({x} \cup {y}) = Cardinality({x}) + 1 /\ IsFiniteSet({x} \cup {y})
        BY <2>6, <3>1, FS_AddElement
      <3> QED
        BY <2>6, <3>2
    <2>8. IsFiniteSet(In(file, M)) /\ Number(file, M) \in Nat
      BY <1>1, InFacts
    <2>9. 2 <= Number(file, M)
      <3>1. {x} \cup {y} \subseteq In(file, M)
        BY <2>5
      <3> QED
        BY <2>7, <2>8, <3>1, FS_Subset DEF Number
    <2>10. /\ Number(file, M) + Number(thread[t].buffer, M) \in Int
           /\ Number(file, M) + Number(thread[t].buffer, M) <= 1
           /\ Number(thread[t].buffer, M) \in Nat
      <3>1. Number(thread[t].buffer, M) \in Nat
        <4>1. thread[t].buffer \in Seq(Messages)
          BY <2>3 DEF ProbesInv, ProbesTypeOK, ThreadStates
        <4> QED
          BY <4>1, InFacts
      <3>2. Number(file, M) + Number(thread[t].buffer, M) <= IF thread[t].buffering THEN 1 ELSE 0
        BY <2>3 DEF CountsInv, StartsOK, M
      <3> QED
        BY <2>8, <3>1, <3>2
    <2> QED
      BY <2>8, <2>9, <2>10
  <1> QED
    BY <1>2, <1>3

-----------------------------------------------------------------------------
(***************************************************************************)
(* Paths                                                                   *)
(***************************************************************************)
Tables == {Tree!AcrossThreads, Tree!AcrossThreadsReversed, Tree!ByThread, Tree!ByThreadReversed}
Elements == [name : Scopes \cup {"-", "key", "thread"}, number : Int]
Inside(i) == spans[i].kind \in {"Scope", "KeyValue"}
Depth(i) == Len(Start(i).origin.trail)

(* The element k of the way from the thread down to the span i, and the    *)
(* names of i in a table                                                   *)
NameAt(i, opts, k) ==
    IF k = 1 THEN Tree!Root(spans[Ancestry[i].root], opts)
    ELSE Tree!Element(IF k = Depth(i) + 2 THEN Start(i).pn
                      ELSE Start(i).origin.trail[k - 1].name, Tree!NoNumber)
NamesOf(i, opts) ==
    [k \in 1 .. Depth(i) + 2 |-> NameAt(i, opts, IF opts.reversed THEN Depth(i) + 3 - k ELSE k)]
PathOf(i, opts) ==
    [prefix |-> opts.prefix,
     names |-> IF Inside(i) THEN NamesOf(i, opts) ELSE <<Tree!Root(spans[i], opts)>>]

(* What the path of the span i is, given those of the spans before it      *)
Extends(path, i, opts) ==
    LET span == spans[i]
        self == <<Tree!Element(file[span.start].pn, Tree!NoNumber)>>
        up == path[span.parent]
    IN  CASE span.kind \in {"Process", "Thread"} ->
               [prefix |-> opts.prefix, names |-> <<Tree!Root(span, opts)>>]
          [] span.kind \notin {"Process", "Thread"} /\ span.parent = Tree!NoSpan ->
               [prefix |-> "", names |-> self]
          [] OTHER ->
               [up EXCEPT !.names = IF opts.reversed THEN self \o @ ELSE @ \o self]

LEMMA TableOptions ==
    /\ \A opts \in Tables : opts.reversed \in BOOLEAN /\ opts.numbered \in BOOLEAN
    /\ \A o1, o2 \in Tables : o1.prefix = o2.prefix => o1 = o2
    /\ ~Tree!AcrossThreads.numbered /\ ~Tree!AcrossThreadsReversed.numbered
    /\ Tree!ByThread.numbered /\ Tree!ByThreadReversed.numbered
  BY DEF Tables, Tree!AcrossThreads, Tree!AcrossThreadsReversed, Tree!ByThread,
         Tree!ByThreadReversed, Tree!Options

(* A name after or before the other ones                                   *)
LEMMA OneAfter ==
    ASSUME NEW S, NEW g \in Seq(S), NEW x \in S, NEW f, f = [k \in 1 .. Len(g) + 1 |-> f[k]],
           f[Len(g) + 1] = x, \A k \in 1 .. Len(g) : f[k] = g[k]
    PROVE  f = g \o <<x>>
  <1>1. /\ g \o <<x>> \in Seq(S) /\ Len(g \o <<x>>) = Len(g) + 1 /\ Len(g) \in Nat
        /\ \A k \in 1 .. Len(g) : (g \o <<x>>)[k] = g[k]
        /\ (g \o <<x>>)[Len(g) + 1] = x
    OBVIOUS
  <1> DEFINE h == g \o <<x>>
  <1> HIDE DEF h
  <1>2. h = [k \in 1 .. Len(g) + 1 |-> h[k]]
    BY <1>1 DEF h
  <1>3. ASSUME NEW k \in 1 .. Len(g) + 1 PROVE f[k] = h[k]
    <2>1. k = Len(g) + 1 \/ k \in 1 .. Len(g)
      BY <1>1
    <2> QED
      BY <1>1, <2>1 DEF h
  <1>4. f = h
    BY <1>2, <1>3
  <1> QED
    BY <1>4 DEF h

LEMMA OneBefore ==
    ASSUME NEW S, NEW g \in Seq(S), NEW x \in S, NEW f, f = [k \in 1 .. Len(g) + 1 |-> f[k]],
           f[1] = x, \A k \in 1 .. Len(g) : f[k + 1] = g[k]
    PROVE  f = <<x>> \o g
  <1>1. /\ <<x>> \o g \in Seq(S) /\ Len(<<x>> \o g) = Len(g) + 1 /\ Len(g) \in Nat
        /\ \A k \in 1 .. Len(g) : (<<x>> \o g)[k + 1] = g[k]
        /\ (<<x>> \o g)[1] = x
    OBVIOUS
  <1> DEFINE h == <<x>> \o g
  <1> HIDE DEF h
  <1>2. h = [k \in 1 .. Len(g) + 1 |-> h[k]]
    BY <1>1 DEF h
  <1>3. ASSUME NEW k \in 1 .. Len(g) + 1 PROVE f[k] = h[k]
    <2>1. CASE k = 1
      BY <1>1, <2>1 DEF h
    <2>2. CASE k # 1
      <3>1. k - 1 \in 1 .. Len(g) /\ (k - 1) + 1 = k
        BY <1>1, <2>2
      <3>2. PICK l \in 1 .. Len(g) : l + 1 = k
        BY <3>1
      <3> QED
        BY <1>1, <3>2 DEF h
    <2> QED
      BY <2>1, <2>2
  <1>4. f = h
    BY <1>2, <1>3
  <1> QED
    BY <1>4 DEF h

LEMMA RootIsThread ==
    ASSUME NEW i, spans[i].kind = "Thread", NEW opts
    PROVE  Tree!Root(spans[i], opts)
              = Tree!Element("thread", IF opts.numbered THEN spans[i].threadNumber ELSE -1)
  BY DEF Tree!Root, Tree!NoNumber

LEMMA InsideFacts ==
    ASSUME ProbesInv, TreeProofs!TreeInv, ReadInv, status = "done",
           NEW i \in DOMAIN spans, Inside(i), NEW opts \in Tables
    PROVE  /\ Depth(i) \in Nat /\ Start(i).pn \in Scopes \cup {"-", "key"}
           /\ Start(i).origin.trail \in Seq(Places)
           /\ Ancestry[i].root \in DOMAIN spans /\ spans[Ancestry[i].root].kind = "Thread"
           /\ \A k \in 1 .. Depth(i) + 2 : NameAt(i, opts, k) \in Elements
           /\ NamesOf(i, opts) \in Seq(Elements) /\ Len(NamesOf(i, opts)) = Depth(i) + 2
           /\ \A k \in 1 .. Depth(i) + 2 :
                 NamesOf(i, opts)[k] = NameAt(i, opts, IF opts.reversed THEN Depth(i) + 3 - k ELSE k)
  <1> DEFINE r == Ancestry[i].root
             d == Depth(i)
             trl == Start(i).origin.trail
  <1>1. /\ d \in Nat /\ Start(i).pn \in Scopes \cup {"-", "key"} /\ trl \in Seq(Places)
        /\ \A k \in 1 .. d : trl[k].name \in Scopes \cup {"-", "key"}
    <2>1. Start(i) \in Messages
      BY SpansHaveStarts DEF Active
    <2>2. Start(i).pn \in Scopes \cup {"-", "key"} /\ trl \in Seq(Places)
      BY <2>1 DEF Messages
    <2>3. \A k \in 1 .. d : trl[k] \in Places
      BY <2>2 DEF Depth
    <2> QED
      BY <2>2, <2>3 DEF Depth, Places
  <1>2. r \in DOMAIN spans /\ spans[r].kind = "Thread"
    BY TrailsAreTold DEF Inside
  <1>3. Tree!Root(spans[r], opts) \in Elements
    <2>1. spans[r].threadNumber \in Nat
      <3>1. spans[r] \in TreeProofs!SpanType
        BY <1>2, ReadTypes
      <3> QED
        BY <3>1 DEF TreeProofs!SpanType
    <2> DEFINE number == IF opts.numbered THEN spans[r].threadNumber ELSE -1
    <2>2. number \in Int
      BY <2>1
    <2>3. Tree!Root(spans[r], opts) = Tree!Element("thread", number)
      BY <1>2, RootIsThread
    <2> HIDE DEF number
    <2> QED
      BY <2>2, <2>3 DEF Tree!Element, Elements
  <1>4. ASSUME NEW k \in 1 .. d + 2 PROVE NameAt(i, opts, k) \in Elements
    <2> DEFINE name == IF k = d + 2 THEN Start(i).pn ELSE trl[k - 1].name
    <2>1. k # 1 => name \in Scopes \cup {"-", "key"}
      <3>1. k # 1 /\ k # d + 2 => k - 1 \in 1 .. d
        <4> HIDE DEF d
        <4> QED
          BY <1>1
      <3> HIDE DEF d, trl
      <3> QED
        BY <1>1, <3>1
    <2>2. NameAt(i, opts, k) = IF k = 1 THEN Tree!Root(spans[r], opts)
                               ELSE Tree!Element(name, -1)
      BY DEF NameAt, Tree!NoNumber
    <2> HIDE DEF name, d, r
    <2>3. k # 1 => Tree!Element(name, -1) \in Elements
      BY <2>1 DEF Tree!Element, Elements
    <2> QED
      BY <1>3, <2>2, <2>3
  <1> DEFINE at(k) == IF opts.reversed THEN d + 3 - k ELSE k
  <1>5. NamesOf(i, opts) = [k \in 1 .. d + 2 |-> NameAt(i, opts, at(k))]
    BY DEF NamesOf
  <1>6. \A k \in 1 .. d + 2 : at(k) \in 1 .. d + 2
    <2> HIDE DEF d
    <2> QED
      BY <1>1
  <1>7. \A k \in 1 .. d + 2 : NamesOf(i, opts)[k] = NameAt(i, opts, at(k))
    BY <1>5
  <1> HIDE DEF at, d
  <1>8. NamesOf(i, opts) \in Seq(Elements) /\ Len(NamesOf(i, opts)) = d + 2
    <2> DEFINE f == [k \in 1 .. d + 2 |-> NameAt(i, opts, at(k))]
    <2>1. f \in [1 .. d + 2 -> Elements]
      BY <1>4, <1>6
    <2> HIDE DEF f
    <2>2. f \in Seq(Elements) /\ Len(f) = d + 2
      BY <1>1, <2>1
    <2> QED
      BY <1>5, <2>2 DEF f
  <1> QED
    BY <1>1, <1>2, <1>4, <1>7, <1>8 DEF at, d, r

(* The way down to a span is the way down to its parent, and its own name  *)
LEMMA NamesExtend ==
    ASSUME ProbesInv, TreeProofs!TreeInv, ReadInv, status = "done",
           NEW i \in DOMAIN spans, Inside(i), NEW opts \in Tables
    PROVE  LET p == spans[i].parent
               self == <<Tree!Element(Start(i).pn, Tree!NoNumber)>>
               above == PathOf(p, opts).names
           IN  /\ p \in DOMAIN spans /\ p # 0 /\ p < i
               /\ NamesOf(i, opts) = IF opts.reversed THEN self \o above ELSE above \o self
  <1> DEFINE p == spans[i].parent
             me == Tree!Element(Start(i).pn, Tree!NoNumber)
             above == PathOf(p, opts).names
             d == Depth(i)
  <1>1. /\ SpanFits(file, spans, i) /\ DOMAIN spans = 1 .. Len(spans) /\ Len(spans) \in Nat
        /\ i \in 1 .. Len(spans)
    BY ReadTypes DEF ReadInv, ReadingOK, Active
  <1>2. p \in 1 .. i - 1 /\ ParentFits(file, spans, p, Start(i))
    BY <1>1 DEF SpanFits, Inside, Start
  <1>3. p \in DOMAIN spans /\ p # 0 /\ p < i
    <2> HIDE DEF p
    <2> QED
      BY <1>1, <1>2
  <1>4. /\ \/ spans[p].kind = "Thread" /\ Start(i).origin.trail = <<>>
           \/ /\ Inside(p)
              /\ Start(i).origin.trail = Append(Start(p).origin.trail,
                                                Place(Start(p).pn, Start(p).origin.scope))
    BY <1>2, Zenon DEF ParentFits, Start, Inside
  <1>5. Ancestry[i] = Above(Ancestry, i)
    BY <1>1, ParentsComeFirst, AncestryTells, Zenon
  <1>6. /\ d \in Nat /\ \A k \in 1 .. d + 2 : NameAt(i, opts, k) \in Elements
        /\ \A k \in 1 .. d + 2 :
              NamesOf(i, opts)[k] = NameAt(i, opts, IF opts.reversed THEN d + 3 - k ELSE k)
    BY InsideFacts
  <1>7. NameAt(i, opts, d + 2) = me /\ me \in Elements
    <2>1. d + 2 # 1 /\ d + 2 \in 1 .. d + 2
      BY <1>6
    <2>2. NameAt(i, opts, d + 2) = me
      BY <2>1 DEF NameAt
    <2> QED
      BY <1>6, <2>1, <2>2
  <1>8. /\ above \in Seq(Elements) /\ Len(above) = d + 1
        /\ \A k \in 1 .. d + 1 :
              above[k] = NameAt(i, opts, IF opts.reversed THEN d + 2 - k ELSE k)
    <2>1. CASE spans[p].kind = "Thread"
      <3>1. d = 0
        BY <1>4, <2>1 DEF Depth, Inside
      <3>2. Ancestry[i].root = p
        BY <1>5, <2>1 DEF Above
      <3>3. above = <<Tree!Root(spans[p], opts)>>
        BY <2>1 DEF PathOf, Inside
      <3>4. NameAt(i, opts, 1) = Tree!Root(spans[p], opts)
        BY <3>2 DEF NameAt
      <3> DEFINE x == Tree!Root(spans[p], opts)
      <3>5. x \in Elements
        <4>1. 1 \in 1 .. d + 2
          BY <1>6
        <4> QED
          BY <1>6, <3>4, <4>1
      <3> HIDE DEF d, x, above
      <3>6. above = <<x>>
        BY <3>3 DEF x
      <3>7. above \in Seq(Elements) /\ Len(above) = 1 /\ above[1] = x
        BY <3>5, <3>6
      <3>8. ASSUME NEW k \in 1 .. d + 1
            PROVE  above[k] = NameAt(i, opts, IF opts.reversed THEN d + 2 - k ELSE k)
        <4>1. k = 1 /\ (IF opts.reversed THEN d + 2 - k ELSE k) = 1
          BY <3>1
        <4> QED
          BY <3>4, <3>7, <4>1 DEF x
      <3> QED
        BY <3>1, <3>7, <3>8
    <2>2. CASE Inside(p)
      <3> DEFINE tr2 == Start(p).origin.trail
                 e == Depth(p)
      <3>1. /\ e \in Nat /\ tr2 \in Seq(Places) /\ Start(p).pn \in Scopes \cup {"-", "key"}
            /\ NamesOf(p, opts) \in Seq(Elements) /\ Len(NamesOf(p, opts)) = e + 2
            /\ \A k \in 1 .. e + 2 :
                 NamesOf(p, opts)[k] = NameAt(p, opts, IF opts.reversed THEN e + 3 - k ELSE k)
        BY <1>3, <2>2, InsideFacts
      <3>2. Start(p).origin.scope \in Nat
        <4>1. Start(p) \in Messages
          BY <1>3, SpansHaveStarts DEF Active
        <4> QED
          BY <4>1 DEF Messages
      <3>3. /\ d = e + 1 /\ Start(i).origin.trail[e + 1].name = Start(p).pn
            /\ \A k \in 1 .. e : Start(i).origin.trail[k] = tr2[k]
        <4> DEFINE place == Place(Start(p).pn, Start(p).origin.scope)
        <4>1. place \in Places /\ place.name = Start(p).pn
          BY <3>1, <3>2 DEF Place, Places
        <4>2. Start(i).origin.trail = Append(tr2, place)
          BY <1>4, <2>2 DEF Inside
        <4>3. e = Len(tr2) /\ d = Len(Start(i).origin.trail)
          BY DEF Depth
        <4> HIDE DEF place, tr2, d, e
        <4>4. /\ Len(Append(tr2, place)) = e + 1 /\ Append(tr2, place)[e + 1] = place
              /\ \A k \in 1 .. e : Append(tr2, place)[k] = tr2[k]
          BY <3>1, <4>1, <4>3
        <4> QED
          BY <4>1, <4>2, <4>3, <4>4
      <3>4. Ancestry[i].root = Ancestry[p].root
        BY <1>3, <1>5, <2>2 DEF Above, Inside
      <3>5. above = NamesOf(p, opts)
        BY <2>2 DEF PathOf
      <3>6. ASSUME NEW k \in 1 .. e + 2 PROVE NameAt(p, opts, k) = NameAt(i, opts, k)
        <4>1. CASE k = 1
          BY <3>4, <4>1 DEF NameAt
        <4>2. CASE k = e + 2
          <5>1. k # 1 /\ k # d + 2 /\ k - 1 = e + 1
            <6> HIDE DEF d, e
            <6> QED
              BY <3>1, <3>3, <4>2
          <5>2. NameAt(i, opts, k) = Tree!Element(Start(i).origin.trail[e + 1].name, Tree!NoNumber)
            BY <5>1 DEF NameAt
          <5>3. NameAt(p, opts, k) = Tree!Element(Start(p).pn, Tree!NoNumber)
            BY <4>2, <5>1 DEF NameAt
          <5> QED
            BY <3>3, <5>2, <5>3
        <4>3. CASE k # 1 /\ k # e + 2
          <5>1. k # d + 2 /\ k - 1 \in 1 .. e
            <6> HIDE DEF d, e
            <6> QED
              BY <3>1, <3>3, <4>3
          <5>2. /\ NameAt(i, opts, k) = Tree!Element(Start(i).origin.trail[k - 1].name, Tree!NoNumber)
                /\ NameAt(p, opts, k) = Tree!Element(tr2[k - 1].name, Tree!NoNumber)
            BY <4>3, <5>1 DEF NameAt
          <5> QED
            BY <3>3, <5>1, <5>2
        <4> QED
          BY <4>1, <4>2, <4>3
      <3> HIDE DEF d, e, above
      <3>7. ASSUME NEW k \in 1 .. d + 1
            PROVE  above[k] = NameAt(i, opts, IF opts.reversed THEN d + 2 - k ELSE k)
        <4> DEFINE l == IF opts.reversed THEN d + 2 - k ELSE k
        <4>1. k \in 1 .. e + 2 /\ l \in 1 .. e + 2 /\ l = IF opts.reversed THEN e + 3 - k ELSE k
          BY <3>1, <3>3
        <4>2. above[k] = NameAt(p, opts, l)
          BY <3>1, <3>5, <4>1
        <4> HIDE DEF l
        <4>3. above[k] = NameAt(i, opts, l)
          BY <3>6, <4>1, <4>2
        <4> QED
          BY <4>3 DEF l
      <3>8. d + 1 = e + 2
        BY <3>1, <3>3
      <3> QED
        BY <3>1, <3>5, <3>7, <3>8
    <2> QED
      BY <1>4, <2>1, <2>2
  <1> DEFINE f == NamesOf(i, opts)
  <1>9. f = [k \in 1 .. d + 2 |-> f[k]]
    BY DEF NamesOf
  <1> HIDE DEF f, d, above, me
  <1>10. Len(above) + 1 = d + 2
    BY <1>6, <1>8
  <1>11. CASE opts.reversed
    <2>1. \A k \in 1 .. d + 2 : f[k] = NameAt(i, opts, d + 3 - k)
      BY <1>6, <1>11 DEF f
    <2>2. f[1] = me
      <3>1. 1 \in 1 .. d + 2 /\ d + 3 - 1 = d + 2
        BY <1>6
      <3> QED
        BY <1>7, <2>1, <3>1
    <2>3. ASSUME NEW k \in 1 .. Len(above) PROVE f[k + 1] = above[k]
      <3>1. k \in 1 .. d + 1 /\ k + 1 \in 1 .. d + 2 /\ d + 3 - (k + 1) = d + 2 - k
        BY <1>6, <1>8
      <3> QED
        BY <1>8, <1>11, <2>1, <3>1
    <2>4. f = <<me>> \o above
      BY <1>7, <1>8, <1>9, <1>10, <2>2, <2>3, OneBefore
    <2> QED
      BY <1>3, <1>11, <2>4 DEF f, me, above
  <1>12. CASE ~opts.reversed
    <2>1. \A k \in 1 .. d + 2 : f[k] = NameAt(i, opts, k)
      BY <1>6, <1>12 DEF f
    <2>2. f[Len(above) + 1] = me
      <3>1. d + 2 \in 1 .. d + 2
        BY <1>6
      <3> QED
        BY <1>7, <1>10, <2>1, <3>1
    <2>3. ASSUME NEW k \in 1 .. Len(above) PROVE f[k] = above[k]
      <3>1. k \in 1 .. d + 1 /\ k \in 1 .. d + 2
        BY <1>6, <1>8
      <3> QED
        BY <1>8, <1>12, <2>1, <3>1
    <2>4. f = above \o <<me>>
      BY <1>7, <1>8, <1>9, <1>10, <2>2, <2>3, OneAfter
    <2> QED
      BY <1>3, <1>12, <2>4 DEF f, me, above
  <1> QED
    BY <1>11, <1>12

LEMMA PathsAreTold ==
    ASSUME ProbesInv, TreeProofs!TreeInv, ReadInv, status = "done", NEW opts \in Tables
    PROVE  \A i \in DOMAIN spans : Tree!PathStrings(opts)[i] = PathOf(i, opts)
  <1> DEFINE n == Len(spans)
             path == Tree!PathStrings(opts)
             told == [i \in 1 .. n |-> PathOf(i, opts)]
             Untold == {i \in 1 .. n : path[i] # PathOf(i, opts)}
             Describes(f) == f = [i \in 1 .. n |-> Extends(f, i, opts)]
  <1>1. path = CHOOSE f : Describes(f)
    BY DEF Tree!PathStrings, Extends
  <1>2. /\ n \in Nat /\ DOMAIN spans = 1 .. n
        /\ \A i \in DOMAIN spans : spans[i].kind \in {"Process", "Thread", "Scope", "KeyValue"}
    BY ReadTypes
  <1>3. ASSUME NEW f, NEW i \in 1 .. n,
               Inside(i) => f[spans[i].parent] = PathOf(spans[i].parent, opts)
        PROVE  Extends(f, i, opts) = PathOf(i, opts)
    <2>1. CASE Inside(i)
      <3> DEFINE p == spans[i].parent
                 self == <<Tree!Element(Start(i).pn, Tree!NoNumber)>>
                 above == PathOf(p, opts).names
                 names == IF opts.reversed THEN self \o above ELSE above \o self
      <3>1. p # 0 /\ NamesOf(i, opts) = names
        BY <1>2, <2>1, NamesExtend
      <3>2. spans[i].kind \notin {"Process", "Thread"}
        BY <2>1 DEF Inside
      <3>3. f[p] = [prefix |-> opts.prefix, names |-> above]
        BY <1>3, <2>1 DEF PathOf
      <3>4. Extends(f, i, opts)
              = [f[p] EXCEPT !.names = IF opts.reversed THEN self \o @ ELSE @ \o self]
        BY <3>1, <3>2, Zenon DEF Extends, Tree!NoSpan, Start
      <3> HIDE DEF p, self, above
      <3>5. [f[p] EXCEPT !.names = IF opts.reversed THEN self \o @ ELSE @ \o self]
              = [prefix |-> opts.prefix, names |-> names]
        <4>1. f[p].names = above
          BY <3>3
        <4>2. ASSUME NEW x
              PROVE  [f[p] EXCEPT !.names = x] = [prefix |-> opts.prefix, names |-> x]
          BY <3>3
        <4> QED
          BY <4>1, <4>2, Zenon
      <3> HIDE DEF names
      <3>6. PathOf(i, opts) = [prefix |-> opts.prefix, names |-> names]
        BY <2>1, <3>1 DEF PathOf
      <3> QED
        BY <3>4, <3>5, <3>6
    <2>2. CASE ~Inside(i)
      <3>1. spans[i].kind \in {"Process", "Thread"}
        BY <1>2, <2>2 DEF Inside
      <3>2. Extends(f, i, opts) = [prefix |-> opts.prefix, names |-> <<Tree!Root(spans[i], opts)>>]
        BY <3>1, Zenon DEF Extends
      <3> QED
        BY <2>2, <3>2 DEF PathOf
    <2> QED
      BY <2>1, <2>2
  <1>4. \A i \in 1 .. n : Inside(i) => spans[i].parent \in 1 .. n /\ ~(i <= spans[i].parent)
    <2> TAKE i \in 1 .. n
    <2> HAVE Inside(i)
    <2>1. spans[i].parent \in DOMAIN spans /\ spans[i].parent < i
      BY <1>2, NamesExtend
    <2> QED
      BY <1>2, <2>1
  <1>5. Describes(told)
    <2>1. ASSUME NEW i \in 1 .. n PROVE PathOf(i, opts) = Extends(told, i, opts)
      <3>1. Inside(i) => told[spans[i].parent] = PathOf(spans[i].parent, opts)
        BY <1>4
      <3> HIDE DEF told
      <3> QED
        BY <1>3, <3>1
    <2> QED
      BY <2>1
  <1>6. Describes(path)
    <2> HIDE DEF told, path
    <2> QED
      BY <1>1, <1>5
  <1> HIDE DEF path, told, n
  <1>7. Untold = {}
    <2> SUFFICES ASSUME Untold # {} PROVE FALSE
      OBVIOUS
    <2>1. PICK i \in Untold : \A j \in Untold : i <= j
      <3>1. Untold \subseteq Nat
        BY <1>2
      <3> HIDE DEF Untold
      <3> QED
        BY <3>1, Smallest
    <2>2. i \in 1 .. n /\ path[i] # PathOf(i, opts)
      OBVIOUS
    <2>3. ASSUME Inside(i) PROVE path[spans[i].parent] = PathOf(spans[i].parent, opts)
      <3>1. spans[i].parent \in 1 .. n /\ ~(i <= spans[i].parent)
        BY <1>4, <2>2, <2>3
      <3>2. spans[i].parent \notin Untold
        <4> HIDE DEF Untold
        <4> QED
          BY <2>1, <3>1
      <3> QED
        BY <3>1, <3>2
    <2>4. path[i] = Extends(path, i, opts)
      BY <1>6, <2>2
    <2> QED
      BY <1>3, <2>2, <2>3, <2>4
  <1> QED
    BY <1>2, <1>7 DEF path

(* The names of the places a span is in                                    *)
Nest(i) == [k \in DOMAIN Start(i).origin.trail |-> Start(i).origin.trail[k].name]

LEMMA NestFacts ==
    ASSUME ProbesInv, TreeProofs!TreeInv, ReadInv, status = "done",
           NEW i \in DOMAIN spans, Inside(i)
    PROVE  /\ Depth(i) \in Nat /\ Len(Nest(i)) = Depth(i)
           /\ Nest(i) = [k \in 1 .. Depth(i) |-> Start(i).origin.trail[k].name]
  <1> DEFINE trl == Start(i).origin.trail
  <1>1. trl \in Seq(Places)
    <2>1. Tree!ByThread \in Tables
      BY DEF Tables
    <2> QED
      BY <2>1, InsideFacts
  <1> DEFINE f == [k \in 1 .. Depth(i) |-> trl[k].name]
  <1>2. Depth(i) \in Nat /\ DOMAIN trl = 1 .. Depth(i) /\ \A k \in 1 .. Depth(i) : trl[k] \in Places
    BY <1>1 DEF Depth
  <1>3. Nest(i) = f
    BY <1>2 DEF Nest
  <1> HIDE DEF trl
  <1>4. f \in Seq(Scopes \cup {"-", "key"}) /\ Len(f) = Depth(i)
    <2>1. f \in [1 .. Depth(i) -> Scopes \cup {"-", "key"}]
      BY <1>2 DEF Places
    <2> HIDE DEF f
    <2> QED
      BY <1>2, <2>1
  <1> QED
    BY <1>2, <1>3, <1>4 DEF trl

(* A path is the same for the spans of one nest of names, and of one       *)
(* thread if it is numbered                                                *)
LEMMA RootsAgree ==
    ASSUME ProbesInv, CountsInv, TreeProofs!TreeInv, ReadInv, ThreadsOK, status = "done",
           NEW i \in DOMAIN spans, NEW j \in DOMAIN spans, Inside(i), Inside(j),
           NEW opts \in Tables
    PROVE  Tree!Root(spans[Ancestry[i].root], opts) = Tree!Root(spans[Ancestry[j].root], opts)
              <=> (opts.numbered => Start(i).origin.thread = Start(j).origin.thread)
  <1> DEFINE a == Ancestry[i].root
             b == Ancestry[j].root
  <1>1. /\ a \in DOMAIN spans /\ spans[a].kind = "Thread"
        /\ Start(a).origin.thread = Start(i).origin.thread
        /\ b \in DOMAIN spans /\ spans[b].kind = "Thread"
        /\ Start(b).origin.thread = Start(j).origin.thread
    BY TrailsAreTold DEF Inside
  <1>2. Active
    BY DEF Active
  <1> HIDE DEF a, b
  <1>3. spans[a].threadNumber = spans[b].threadNumber
           <=> Start(i).origin.thread = Start(j).origin.thread
    BY <1>1, <1>2, OneSpanPerThread
  <1>4. /\ Tree!Root(spans[a], opts)
             = Tree!Element("thread", IF opts.numbered THEN spans[a].threadNumber ELSE -1)
        /\ Tree!Root(spans[b], opts)
             = Tree!Element("thread", IF opts.numbered THEN spans[b].threadNumber ELSE -1)
    BY <1>1, RootIsThread
  <1>5. \A x, y : Tree!Element("thread", x) = Tree!Element("thread", y) <=> x = y
    BY DEF Tree!Element
  <1>6. CASE opts.numbered
    BY <1>3, <1>4, <1>5, <1>6 DEF a, b
  <1>7. CASE ~opts.numbered
    BY <1>4, <1>7 DEF a, b
  <1> QED
    BY <1>6, <1>7

LEMMA NamesAgree ==
    ASSUME ProbesInv, CountsInv, TreeProofs!TreeInv, ReadInv, ThreadsOK, status = "done",
           NEW i \in DOMAIN spans, NEW j \in DOMAIN spans, Inside(i), Inside(j),
           NEW opts \in Tables
    PROVE  NamesOf(i, opts) = NamesOf(j, opts)
              <=> /\ Nest(i) = Nest(j) /\ Start(i).pn = Start(j).pn
                  /\ opts.numbered => Start(i).origin.thread = Start(j).origin.thread
  <1> DEFINE d == Depth(i)
             e == Depth(j)
             at(k) == IF opts.reversed THEN d + 3 - k ELSE k
             f == NamesOf(i, opts)
             g == NamesOf(j, opts)
             Roots2 == Tree!Root(spans[Ancestry[i].root], opts)
                         = Tree!Root(spans[Ancestry[j].root], opts)
             same(k) == Start(i).origin.trail[k].name = Start(j).origin.trail[k].name
  <1>1. /\ d \in Nat /\ Len(f) = d + 2
        /\ \A k \in 1 .. d + 2 : f[k] = NameAt(i, opts, at(k))
        /\ e \in Nat /\ Len(g) = e + 2
    BY InsideFacts
  <1>2. e = d => \A k \in 1 .. d + 2 : g[k] = NameAt(j, opts, at(k))
    BY InsideFacts
  <1>3. f = g => d = e
    <2> HIDE DEF f, g, d, e
    <2> QED
      BY <1>1
  <1>4. Nest(i) = Nest(j) => d = e
    <2>1. Len(Nest(i)) = d /\ Len(Nest(j)) = e
      BY NestFacts
    <2> QED
      BY <2>1
  <1>5. CASE d = e
    <2>1. Nest(i) = Nest(j) <=> \A k \in 1 .. d : same(k)
      <3>1. /\ Nest(i) = [k \in 1 .. d |-> Start(i).origin.trail[k].name]
            /\ Nest(j) = [k \in 1 .. d |-> Start(j).origin.trail[k].name]
        BY <1>5, NestFacts
      <3> HIDE DEF d
      <3>2. ASSUME Nest(i) = Nest(j), NEW k \in 1 .. d PROVE same(k)
        <4>1. /\ Nest(i)[k] = Start(i).origin.trail[k].name
              /\ Nest(j)[k] = Start(j).origin.trail[k].name
          BY <3>1
        <4> QED
          BY <3>2, <4>1
      <3>3. ASSUME \A k \in 1 .. d : same(k) PROVE Nest(i) = Nest(j)
        BY <3>1, <3>3
      <3> QED
        BY <3>2, <3>3
    <2>2. \A k \in 1 .. d + 2 : at(k) \in 1 .. d + 2 /\ at(at(k)) = k
      <3> HIDE DEF d
      <3> QED
        BY <1>1
    <2>3. f = g <=> \A k \in 1 .. d + 2 : NameAt(i, opts, k) = NameAt(j, opts, k)
      <3>1. /\ f = [k \in 1 .. d + 2 |-> NameAt(i, opts, at(k))]
            /\ g = [k \in 1 .. d + 2 |-> NameAt(j, opts, at(k))]
        BY <1>5 DEF NamesOf
      <3>2. ASSUME f = g, NEW k \in 1 .. d + 2 PROVE NameAt(i, opts, k) = NameAt(j, opts, k)
        <4> DEFINE l == at(k)
        <4>1. l \in 1 .. d + 2 /\ at(l) = k
          BY <2>2
        <4> HIDE DEF l, at, f, g
        <4>2. f[l] = NameAt(i, opts, at(l)) /\ g[l] = NameAt(j, opts, at(l))
          BY <1>1, <1>2, <1>5, <4>1
        <4> QED
          BY <3>2, <4>1, <4>2
      <3>3. ASSUME \A k \in 1 .. d + 2 : NameAt(i, opts, k) = NameAt(j, opts, k) PROVE f = g
        <4> HIDE DEF f, g, at, d
        <4>1. \A k \in 1 .. d + 2 : NameAt(i, opts, at(k)) = NameAt(j, opts, at(k))
          BY <2>2, <3>3
        <4> QED
          BY <3>1, <4>1
      <3> QED
        BY <3>2, <3>3
    <2> HIDE DEF f, g, Roots2
    <2>4. \A x, y : Tree!Element(x, Tree!NoNumber) = Tree!Element(y, Tree!NoNumber) <=> x = y
      BY DEF Tree!Element
    <2>5. NameAt(i, opts, 1) = NameAt(j, opts, 1) <=> Roots2
      BY DEF NameAt, Roots2
    <2>6. NameAt(i, opts, d + 2) = NameAt(j, opts, d + 2) <=> Start(i).pn = Start(j).pn
      <3>1. d + 2 # 1
        BY <1>1
      <3> QED
        BY <1>5, <2>4, <3>1 DEF NameAt
    <2>7. ASSUME NEW k \in 1 .. d
          PROVE  NameAt(i, opts, k + 1) = NameAt(j, opts, k + 1) <=> same(k)
      <3>1. k + 1 # 1 /\ k + 1 # d + 2 /\ (k + 1) - 1 = k
        <4> HIDE DEF d
        <4> QED
          BY <1>1
      <3> QED
        BY <1>5, <2>4, <3>1 DEF NameAt
    <2> HIDE DEF d, same
    <2>8. (\A k \in 1 .. d + 2 : NameAt(i, opts, k) = NameAt(j, opts, k))
             <=> Roots2 /\ Start(i).pn = Start(j).pn /\ \A k \in 1 .. d : same(k)
      <3>1. ASSUME \A k \in 1 .. d + 2 : NameAt(i, opts, k) = NameAt(j, opts, k)
            PROVE  Roots2 /\ Start(i).pn = Start(j).pn /\ \A k \in 1 .. d : same(k)
        <4>1. /\ 1 \in 1 .. d + 2 /\ d + 2 \in 1 .. d + 2
              /\ \A k \in 1 .. d : k + 1 \in 1 .. d + 2
          BY <1>1
        <4> QED
          BY <2>5, <2>6, <2>7, <3>1, <4>1
      <3>2. ASSUME Roots2, Start(i).pn = Start(j).pn, \A k \in 1 .. d : same(k),
                   NEW k \in 1 .. d + 2
            PROVE  NameAt(i, opts, k) = NameAt(j, opts, k)
        <4>1. k = 1 \/ k = d + 2 \/ \E l \in 1 .. d : k = l + 1
          <5>1. k # 1 /\ k # d + 2 => k - 1 \in 1 .. d /\ k = (k - 1) + 1
            BY <1>1
          <5> QED
            BY <5>1
        <4> QED
          BY <2>5, <2>6, <2>7, <3>2, <4>1
      <3> QED
        BY <3>1, <3>2
    <2>9. Roots2 <=> (opts.numbered => Start(i).origin.thread = Start(j).origin.thread)
      BY RootsAgree DEF Roots2
    <2> QED
      BY <2>1, <2>3, <2>8, <2>9 DEF f, g
  <1> QED
    BY <1>3, <1>4, <1>5

LEMMA PathsAgree ==
    ASSUME ProbesInv, CountsInv, TreeProofs!TreeInv, ReadInv, ThreadsOK, status = "done",
           NEW i \in ScopesIn, NEW j \in DOMAIN spans, NEW opts \in Tables, NEW opts2 \in Tables
    PROVE  PathOf(j, opts2) = PathOf(i, opts)
              <=> /\ opts2 = opts /\ j \in ScopesIn
                  /\ Nest(i) = Nest(j) /\ Start(i).pn = Start(j).pn
                  /\ opts.numbered => Start(i).origin.thread = Start(j).origin.thread
  <1>1. i \in DOMAIN spans /\ spans[i].kind = "Scope" /\ Inside(i)
    BY DEF ScopesIn, Inside
  <1>2. PathOf(i, opts) = [prefix |-> opts.prefix, names |-> NamesOf(i, opts)]
    BY <1>1 DEF PathOf
  <1>3. CASE ~Inside(j)
    <2>1. j \notin ScopesIn
      BY <1>3 DEF ScopesIn, Inside
    <2>2. PathOf(j, opts2).names = <<Tree!Root(spans[j], opts2)>>
      BY <1>3 DEF PathOf
    <2>3. Len(NamesOf(i, opts)) = Depth(i) + 2 /\ Depth(i) \in Nat
      BY <1>1, InsideFacts
    <2>4. \A x : Len(<<x>>) = 1
      OBVIOUS
    <2>5. NamesOf(i, opts) # <<Tree!Root(spans[j], opts2)>>
      <3>1. Len(NamesOf(i, opts)) # 1
        BY <2>3
      <3> QED
        BY <2>4, <3>1
    <2>6. PathOf(i, opts).names = NamesOf(i, opts)
      BY <1>2
    <2> QED
      BY <2>1, <2>2, <2>5, <2>6
  <1>4. CASE Inside(j)
    <2>1. PathOf(j, opts2) = [prefix |-> opts2.prefix, names |-> NamesOf(j, opts2)]
      BY <1>4 DEF PathOf
    <2>2. PathOf(j, opts2) = PathOf(i, opts)
             <=> opts2.prefix = opts.prefix /\ NamesOf(j, opts2) = NamesOf(i, opts)
      BY <1>2, <2>1
    <2>3. opts2.prefix = opts.prefix <=> opts2 = opts
      BY TableOptions
    <2>4. NamesOf(i, opts) = NamesOf(j, opts)
             <=> /\ Nest(i) = Nest(j) /\ Start(i).pn = Start(j).pn
                 /\ opts.numbered => Start(i).origin.thread = Start(j).origin.thread
      BY <1>1, <1>4, NamesAgree
    <2>5. Start(i).pn = Start(j).pn => j \in ScopesIn
      <3>1. /\ spans[i].start \in 1 .. Len(file) /\ Start(i).kind = "TS"
            /\ spans[j].start \in 1 .. Len(file)
            /\ spans[j].kind = "KeyValue" => Start(j).kind = "KeyValue"
        BY <1>1, SpansHaveStarts DEF Active
      <3>2. NameOK(Start(i)) /\ NameOK(Start(j))
        BY <3>1 DEF CountsInv, OwnOK, Start
      <3>3. Start(i).pn \in Scopes /\ (spans[j].kind = "KeyValue" => Start(j).pn = "key")
        BY <3>1, <3>2 DEF NameOK
      <3>4. Start(i).pn = Start(j).pn => spans[j].kind # "KeyValue"
        BY <3>3, ProbesAssumption
      <3> QED
        BY <1>4, <3>4 DEF ScopesIn, Inside
    <2> QED
      BY <2>2, <2>3, <2>4, <2>5
  <1> QED
    BY <1>3, <1>4

LEMMA IndexTells ==
    ASSUME ProbesInv, CountsInv, TreeProofs!TreeInv, ReadInv, ThreadsOK, status = "done",
           NEW i \in ScopesIn, NEW opts \in Tables
    PROVE  Tree!SpansByCallPath(Tables)[Tree!PathStrings(opts)[i]]
              = {j \in ScopesIn : /\ Nest(i) = Nest(j) /\ Start(i).pn = Start(j).pn
                                  /\ opts.numbered => Start(i).origin.thread = Start(j).origin.thread}
  <1> DEFINE path == Tree!PathStrings(opts)[i]
             All == UNION {{Tree!PathStrings(o)[j] : j \in DOMAIN spans} : o \in Tables}
             At(p) == {j \in DOMAIN spans : \E o \in Tables : Tree!PathStrings(o)[j] = p}
             Same(j) == /\ Nest(i) = Nest(j) /\ Start(i).pn = Start(j).pn
                        /\ opts.numbered => Start(i).origin.thread = Start(j).origin.thread
  <1>1. Tree!SpansByCallPath(Tables) = [p \in All |-> At(p)]
    <2> DEFINE paths == [o \in Tables |-> Tree!PathStrings(o)]
    <2>1. \A o \in Tables : paths[o] = Tree!PathStrings(o)
      OBVIOUS
    <2>2. Tree!SpansByCallPath(Tables)
            = [p \in UNION {{paths[o][j] : j \in DOMAIN spans} : o \in Tables} |->
                  {j \in DOMAIN spans : \E o \in Tables : paths[o][j] = p}]
      BY DEF Tree!SpansByCallPath
    <2> HIDE DEF paths
    <2>3. UNION {{paths[o][j] : j \in DOMAIN spans} : o \in Tables} = All
      BY <2>1
    <2>4. \A p : {j \in DOMAIN spans : \E o \in Tables : paths[o][j] = p} = At(p)
      BY <2>1
    <2> HIDE DEF All, At
    <2> QED
      BY <2>2, <2>3, <2>4
  <1>2. i \in DOMAIN spans
    BY DEF ScopesIn
  <1>3. path \in All
    BY <1>2
  <1>4. ASSUME NEW j \in DOMAIN spans
        PROVE  (\E o \in Tables : Tree!PathStrings(o)[j] = path) <=> j \in ScopesIn /\ Same(j)
    <2>1. path = PathOf(i, opts)
      BY <1>2, PathsAreTold
    <2>2. \A o \in Tables : Tree!PathStrings(o)[j] = PathOf(j, o)
      BY PathsAreTold
    <2>3. \A o \in Tables : PathOf(j, o) = PathOf(i, opts) <=> o = opts /\ j \in ScopesIn /\ Same(j)
      BY PathsAgree
    <2> HIDE DEF path, Same
    <2> QED
      BY <2>1, <2>2, <2>3
  <1>5. At(path) = {j \in ScopesIn : Same(j)}
    <2>1. ScopesIn \subseteq DOMAIN spans
      BY DEF ScopesIn
    <2> HIDE DEF path, Same
    <2> QED
      BY <1>4, <2>1
  <1> HIDE DEF path, All, At
  <1>6. Tree!SpansByCallPath(Tables)[path] = At(path)
    BY <1>1, <1>3
  <1> QED
    BY <1>5, <1>6 DEF path

(* A path by thread has the scopes of one nest of names in one thread, and *)
(* a path across threads has them of all threads                           *)
THEOREM PathsTellThreads == Spec => []CallPathsTellThreads
  <1>1. ASSUME ProbesInv, CountsInv, TreeProofs!TreeInv, ReadInv, ThreadsOK
        PROVE  CallPathsTellThreads
    <2> SUFFICES ASSUME status = "done" PROVE CallPathsTellThreads
      BY DEF CallPathsTellThreads
    <2> DEFINE index == Tree!SpansByCallPath(Tables)
               SameNest(i) == {j \in ScopesIn : Nest(i) = Nest(j) /\ Start(i).pn = Start(j).pn}
               SameThread(i) == {j \in ScopesIn : Start(i).origin.thread = Start(j).origin.thread}
    <2>1. ASSUME NEW i \in ScopesIn, NEW opts \in Tables, ~opts.numbered
          PROVE  index[Tree!PathStrings(opts)[i]] = SameNest(i)
      <3>1. index[Tree!PathStrings(opts)[i]]
              = {j \in ScopesIn : /\ Nest(i) = Nest(j) /\ Start(i).pn = Start(j).pn
                                  /\ opts.numbered => Start(i).origin.thread = Start(j).origin.thread}
        BY <1>1, IndexTells
      <3> HIDE DEF index
      <3> QED
        BY <2>1, <3>1
    <2>2. ASSUME NEW i \in ScopesIn, NEW opts \in Tables, opts.numbered
          PROVE  index[Tree!PathStrings(opts)[i]] = SameNest(i) \cap SameThread(i)
      <3>1. index[Tree!PathStrings(opts)[i]]
              = {j \in ScopesIn : /\ Nest(i) = Nest(j) /\ Start(i).pn = Start(j).pn
                                  /\ opts.numbered => Start(i).origin.thread = Start(j).origin.thread}
        BY <1>1, IndexTells
      <3> HIDE DEF index
      <3> QED
        BY <2>2, <3>1
    <2>3. \A i \in ScopesIn :
             /\ index[Tree!PathStrings(Tree!AcrossThreads)[i]] = SameNest(i)
             /\ index[Tree!PathStrings(Tree!AcrossThreadsReversed)[i]] = SameNest(i)
             /\ index[Tree!PathStrings(Tree!ByThread)[i]] = SameNest(i) \cap SameThread(i)
             /\ index[Tree!PathStrings(Tree!ByThreadReversed)[i]] = SameNest(i) \cap SameThread(i)
      <3>1. /\ Tree!AcrossThreads \in Tables /\ Tree!AcrossThreadsReversed \in Tables
            /\ Tree!ByThread \in Tables /\ Tree!ByThreadReversed \in Tables
        BY DEF Tables
      <3> HIDE DEF index, SameNest, SameThread
      <3> QED
        BY <2>1, <2>2, <3>1, TableOptions
    <2> QED
      BY <2>3 DEF CallPathsTellThreads, Tables, Nest
  <1>2. ProbesInv /\ CountsInv /\ TreeProofs!TreeInv /\ ReadInv /\ ThreadsOK => CallPathsTellThreads
    BY <1>1
  <1> QED
    BY <1>2, ProbesInvHolds, CountsInvHolds, TreeInvHolds, ReadInvHolds, ThreadsFollow, PTL
=============================================================================
