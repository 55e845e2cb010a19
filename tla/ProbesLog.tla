------------------------------- MODULE ProbesLog -------------------------------
(***************************************************************************)
(* The log that a benchmarked program writes (evobench-probes: the classes *)
(* Output, Buffer, Scope and ScopeEveryN).  Every thread collects its      *)
(* messages in a buffer of its own, which is written to the file under a   *)
(* mutex when it is full and when the thread ends; the process announces   *)
(* its start in the constructor and its end in the destructor of the       *)
(* global Output.                                                          *)
(*                                                                         *)
(* A message carries, besides what the program logs, the field `origin`:   *)
(* what really happened when it was logged.  Nobody reads it but the       *)
(* properties.                                                             *)
(***************************************************************************)
EXTENDS Naturals, Sequences

CONSTANTS
    NThreads,       \* bound: threads of the program, the first is main
    Tids,           \* thread ids the system gives, also repeatedly
    NoTid,          \* no thread id
    Probes,         \* names of EVOBENCH_SCOPE probes
    EveryProbe,     \* name of the EVOBENCH_SCOPE_EVERY probe
    EveryN,         \* its divider
    BufMax,         \* BUF_MAX_SIZE, in messages
    Budgets         \* bounds, one of which a behaviour has: threads started,
                    \* evaluations of scope probes and of other probes (key-
                    \* values and points), and whether a write may fail

Threads == 1 .. NThreads
Main == 1
Scopes == Probes \cup {EveryProbe}

ASSUME ProbesAssumption ==
    /\ NThreads \in Nat \ {0}
    /\ EveryN \in Nat \ {0} /\ BufMax \in Nat \ {0}
    /\ Budgets \subseteq [threads : Nat, scopes : Nat, others : Nat, fail : BOOLEAN]
    /\ NoTid \notin Tids /\ EveryProbe \notin Probes
    /\ "key" \notin Scopes  \* a scope is "module|action", a key-value "key=value"

VARIABLES
    phase,      \* of the process
    enabled,    \* output.is_enabled, see Sees
    file,       \* the messages in the log file
    thread,     \* the threads: whether they run, tid and local_buffer
    stack,      \* the Scope and ScopeEveryN objects of each thread
    skip,       \* the counter of the EVOBENCH_SCOPE_EVERY place, per thread
    exit,       \* which thread ended the process, and whether properly
    trail,      \* auxiliary: the logged scopes and the key-values each
                \* thread is in
    made,       \* auxiliary: scopes that each thread has logged
    calls,      \* auxiliary: evaluations of the EveryProbe in each thread
    left        \* what is left of the budget

auxVars == <<trail, made, calls, left>>
probeVars == <<phase, enabled, file, thread, stack, skip, exit, auxVars>>

NoExit == [by |-> 0, clean |-> FALSE]

(***************************************************************************)
(* Messages.  A message that was written in part, or that is no JSON, is   *)
(* Torn.                                                                   *)
(***************************************************************************)
(* The places are those around the message; where a scope ends, those that *)
(* are left                                                                *)
Origin(t, scope, places) == [thread |-> t, scope |-> scope, trail |-> places]
Nowhere == Origin(0, 0, <<>>)
Place(name, scope) == [name |-> name, scope |-> scope]

Message(kind, pn, tid, n, origin) ==
    [kind |-> kind, pn |-> pn, tid |-> tid, n |-> n, origin |-> origin]
Header(kind) == Message(kind, "-", NoTid, 0, Nowhere)
Torn == Header("Torn")

(* What the thread t logs itself, outside of all its scopes *)
OfThread(t, kind, n) ==
    Message(kind, "-", thread[t].tid, n, Origin(t, 0, <<>>))

(***************************************************************************)
(* Output.  is_enabled is "on" or "off" (never enabled, or a write failed, *)
(* which is set under the mutex); the destructor sets it without the mutex *)
(* ("closed"), then other threads may still see the old value.  That they  *)
(* may see the old value of "off", too, makes no difference: write_all     *)
(* looks again under the mutex.                                            *)
(***************************************************************************)
Sees == CASE enabled = "on"     -> {TRUE}
          [] enabled = "off"    -> {FALSE}
          [] enabled = "closed" -> BOOLEAN

(* What is in the file when the write of the messages fails *)
Partly(messages) ==
    {file \o SubSeq(messages, 1, k) \o torn :
        k \in 0 .. Len(messages) - 1, torn \in {<<>>, <<Torn>>}}

(* Mutant: goes on logging after a write that has failed as a whole *)
WriteAll_StaysEnabled(messages) ==
    \/ FALSE \in Sees /\ UNCHANGED <<file, enabled>>
    \/ TRUE \in Sees /\ file' = file \o messages /\ UNCHANGED enabled
    \/ TRUE \in Sees /\ left.fail /\ UNCHANGED <<file, enabled>>

(* Output::write_all; a failing write leaves some of the data *)
WriteAll(messages) ==
    \/ FALSE \in Sees /\ UNCHANGED <<file, enabled>>
    \/ TRUE \in Sees /\ file' = file \o messages /\ UNCHANGED enabled
    \/ /\ TRUE \in Sees /\ left.fail
       /\ file' \in Partly(messages) /\ enabled' = "off"

(* local_buffer, which announces the thread when it is made at its first   *)
(* use, and then takes the message                                         *)
Buffered(t, message) ==
    (IF thread[t].buffering THEN thread[t].buffer
                            ELSE <<OfThread(t, "TThreadStart", 1)>>)
    \o <<message>>

(* _log_any: the thread logs the message, and flushes an overly full buffer *)
LogAny(t, message, status) ==
    LET buffer == Buffered(t, message)
        full == Len(buffer) > BufMax
    IN  /\ thread' = [thread EXCEPT ![t] =
              [@ EXCEPT !.status = status, !.buffering = TRUE,
                        !.buffer = IF full THEN <<OfThread(t, "TIO", 1)>>
                                           ELSE buffer]]
        /\ IF full THEN WriteAll(buffer)
                   ELSE UNCHANGED <<file, enabled>>

(***************************************************************************)
(* The process                                                             *)
(***************************************************************************)
ProbesInit ==
    /\ phase = "init" /\ enabled = "off" /\ file = <<>> /\ exit = NoExit
    /\ \E tid \in Tids :
          thread = [t \in Threads |->
                      [status |-> IF t = Main THEN "running" ELSE "new",
                       tid |-> IF t = Main THEN tid ELSE NoTid,
                       buffering |-> FALSE, buffer |-> <<>>]]
    /\ stack = [t \in Threads |-> <<>>] /\ skip = [t \in Threads |-> 0]
    /\ trail = [t \in Threads |-> <<>>]
    /\ made = [t \in Threads |-> 0] /\ calls = [t \in Threads |-> 0]
    /\ left \in Budgets

(* Output::Output; an error of the write leaves the process running        *)
OpenOutput ==
    /\ phase = "init" /\ phase' = "running"
    /\ LET messages == <<Header("Start"), Header("Metadata"),
                         OfThread(Main, "TStart", 1)>>
       IN  \/ file' = messages /\ enabled' = "on"
           \/ left.fail /\ file' \in Partly(messages) /\ enabled' = "off"
    /\ UNCHANGED <<thread, stack, skip, exit, auxVars>>

Running(t) == phase \in {"running", "exiting", "ended"}
              /\ thread[t].status = "running" /\ exit.by # t

(* A thread gets an id that no living thread has *)
StartThread(t) ==
    /\ phase = "running" /\ thread[t].status = "new"
    /\ left.threads > 0 /\ left' = [left EXCEPT !.threads = @ - 1]
    /\ \A u \in 1 .. t - 1 : thread[u].status # "new"
    /\ \E tid \in Tids \ {thread[u].tid : u \in {v \in Threads :
                                       thread[v].status \in {"running", "ending"}}} :
          thread' = [thread EXCEPT ![t].status = "running", ![t].tid = tid]
    /\ UNCHANGED <<phase, enabled, file, stack, skip, exit, trail, made, calls>>

(***************************************************************************)
(* Probes                                                                  *)
(***************************************************************************)
(* The counter of the calls to skip of an EVOBENCH_SCOPE_EVERY place *)
NextSkip_OneMore(k) == IF k > 0 THEN k - 1 ELSE EveryN    \* mutant
NextSkip(k) == IF k > 0 THEN k - 1 ELSE EveryN - 1

(* The constructors of Scope and ScopeEveryN.  The scopes that a           *)
(* thread logs have the numbers 1, 2, ...                                  *)
BeginScope(t, pn, isEnabled) ==
    LET counts == pn = EveryProbe /\ isEnabled
        logged == isEnabled /\ (counts => skip[t] = 0)
        scope == IF logged THEN made[t] + 1 ELSE 0
        n == IF pn = EveryProbe THEN EveryN ELSE 1
    IN  /\ stack' = [stack EXCEPT ![t] =
                       Append(@, [pn |-> pn, logged |-> logged, scope |-> scope])]
        /\ skip' = IF counts THEN [skip EXCEPT ![t] = NextSkip(@)] ELSE skip
        /\ calls' = IF counts THEN [calls EXCEPT ![t] = @ + 1] ELSE calls
        /\ IF logged
           THEN /\ LogAny(t, Message("TS", pn, thread[t].tid, n,
                                 Origin(t, scope, trail[t])), "running")
                /\ made' = [made EXCEPT ![t] = scope]
                /\ trail' = [trail EXCEPT ![t] = Append(@, Place(pn, scope))]
           ELSE UNCHANGED <<thread, file, enabled, made, trail>>

EnterScope(t, pn) ==
    /\ Running(t) /\ left.scopes > 0
    /\ \E isEnabled \in Sees : BeginScope(t, pn, isEnabled)
    /\ left' = [left EXCEPT !.scopes = @ - 1]
    /\ UNCHANGED <<phase, exit>>

(* Their destructors: what ends is logged if the start was.  (A plain      *)
(* Scope does not remember that, but logging is never enabled again.)      *)
LogsEnd(scope) == scope.pn = EveryProbe => scope.logged

(* The scopes of a thread end in reverse order *)
LeaveScope(t) ==
    LET top == stack[t][Len(stack[t])]
        inside == {k \in 1 .. Len(trail[t]) : trail[t][k].scope = top.scope}
        outside == IF top.logged
                   THEN LET k == CHOOSE k \in inside : TRUE
                        IN  SubSeq(trail[t], 1, k - 1)
                   ELSE trail[t]
    IN  /\ Running(t) /\ stack[t] # <<>>
        /\ stack' = [stack EXCEPT ![t] = SubSeq(@, 1, Len(@) - 1)]
        /\ trail' = [trail EXCEPT ![t] = outside]
        /\ \E isEnabled \in Sees :
              IF isEnabled /\ LogsEnd(top)
              THEN LogAny(t, Message("TE", top.pn, thread[t].tid, 0,
                                     Origin(t, top.scope, outside)), "running")
              ELSE UNCHANGED <<thread, file, enabled>>
        /\ UNCHANGED <<phase, skip, exit, made, calls, left>>

(* log_key_value never flushes *)
LogKeyValue(t) ==
    /\ Running(t) /\ left.others > 0
    /\ left' = [left EXCEPT !.others = @ - 1]
    /\ \E isEnabled \in Sees :
          IF isEnabled
          THEN /\ thread' = [thread EXCEPT ![t].buffering = TRUE,
                     ![t].buffer = Buffered(t, Message("KeyValue", "key",
                                        thread[t].tid, 0,
                                        Origin(t, 0, trail[t])))]
               /\ trail' = [trail EXCEPT ![t] = Append(@, Place("key", 0))]
          ELSE UNCHANGED <<thread, trail>>
    /\ UNCHANGED <<phase, enabled, file, stack, skip, exit, made, calls>>

(* log_point *)
LogPoint(t) ==
    /\ Running(t) /\ left.others > 0
    /\ left' = [left EXCEPT !.others = @ - 1]
    /\ \E isEnabled \in Sees :
          IF isEnabled THEN LogAny(t, OfThread(t, "T", 1), "running")
                       ELSE UNCHANGED <<thread, file, enabled>>
    /\ UNCHANGED <<phase, stack, skip, exit, trail, made, calls>>

(***************************************************************************)
(* Ends of threads and of the process                                      *)
(***************************************************************************)
(* ~Buffer, the first half: the end of the thread is logged.  A thread     *)
(* without a buffer has none to destroy.                                   *)
EndBuffer(t) ==
    \/ /\ thread[t].buffering /\ TRUE \in Sees
       /\ LogAny(t, OfThread(t, "TThreadEnd", 0), "ending")
    \/ /\ ~thread[t].buffering \/ FALSE \in Sees
       /\ thread' = [thread EXCEPT ![t].status = "gone"]
       /\ UNCHANGED <<file, enabled>>

(* A thread other than main returns from its function *)
EndThread(t) ==
    /\ t # Main /\ Running(t) /\ stack[t] = <<>>
    /\ EndBuffer(t)
    /\ UNCHANGED <<phase, stack, skip, exit, auxVars>>

(* ~Buffer, the second half: flush *)
FlushLast(t) ==
    /\ phase # "gone" /\ thread[t].status = "ending"
    /\ thread' = [thread EXCEPT ![t].status = "gone", ![t].buffer = <<>>]
    /\ WriteAll(thread[t].buffer)
    /\ UNCHANGED <<phase, stack, skip, exit, auxVars>>

(* main returns, or a thread calls exit, which does not leave its scopes;  *)
(* the thread-local objects of the calling thread are destroyed first      *)
EndProcess(t) ==
    /\ phase = "running" /\ Running(t)
    /\ phase' = "exiting"
    /\ exit' = [by |-> t,
                clean |-> /\ t = Main /\ stack[t] = <<>>
                          /\ \A u \in Threads \ {t} : thread[u].status \in {"new", "gone"}]
    /\ EndBuffer(t)
    /\ UNCHANGED <<stack, skip, auxVars>>

(* Output::~Output *)
CloseOutput ==
    /\ phase = "exiting" /\ thread[exit.by].status = "gone"
    /\ phase' = "ended"
    /\ \/ enabled = "off" /\ UNCHANGED <<file, enabled>>
       \/ /\ enabled = "on" /\ enabled' = "closed"
          /\ file' = Append(file, OfThread(exit.by, "TEnd", 1))
       \/ /\ enabled = "on" /\ left.fail /\ enabled' = "off"
          /\ file' \in Partly(<<OfThread(exit.by, "TEnd", 1)>>)
    /\ UNCHANGED <<thread, stack, skip, exit, auxVars>>

(* The process is over, with all its threads: at last, or killed before *)
Vanish ==
    /\ phase # "gone" /\ phase' = "gone"
    /\ UNCHANGED <<enabled, file, thread, stack, skip, exit, auxVars>>

ProbesNext ==
    \/ OpenOutput
    \/ \E t \in Threads :
          \/ StartThread(t)
          \/ \E pn \in Scopes : EnterScope(t, pn)
          \/ LeaveScope(t)
          \/ LogKeyValue(t)
          \/ LogPoint(t)
          \/ EndThread(t)
          \/ FlushLast(t)
          \/ EndProcess(t)
    \/ CloseOutput
    \/ Vanish
================================================================================
