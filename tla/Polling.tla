------------------------------ MODULE Polling ------------------------------
(***************************************************************************)
(* `evobench insert` and `evobench poll` (bin/evobench.rs): a process asks *)
(* the polling pool about commits, inserts the jobs for valid ones, and    *)
(* regenerates the index files if there are signals; the daemon's thread   *)
(* regenerates them as well.                                               *)
(***************************************************************************)
EXTENDS PollingPool, IndexFiles

CONSTANT Daemon       \* the thread that spawn_runner_thread starts

VARIABLE inserting    \* where each process is after its calls of the pool
vars == <<poolVars, indexVars, inserting>>

ASSUME RegeneratorsAssumption == Regenerators = Pollers \cup {Daemon} /\ Daemon \notin Pollers

TypeOK ==
    /\ PoolTypeOK /\ IndexTypeOK
    /\ inserting \in [Pollers -> {"no", "signal", "run_one", "done"}]

Init == PoolInit /\ IndexInit /\ inserting = [p \in Pollers |-> "no"]

At(p, from, to) == inserting[p] = from /\ inserting' = [inserting EXCEPT ![p] = to]

\* insert_jobs has found a commit to be valid: it inserts the job.
Insert(p) ==
    /\ step[p] = "idle" /\ kind[p] = "commit" /\ answer[p] = "valid"
    /\ At(p, "no", "signal")
    /\ ChangeState
    /\ UNCHANGED poolVars

Signal(p) ==
    /\ At(p, "signal", "run_one")
    /\ SendSignal
    /\ UNCHANGED poolVars
DieBeforeSignal(p) ==
    /\ At(p, "signal", "done")
    /\ NoSignal /\ trouble < MaxTrouble
    /\ trouble' = trouble + 1
    /\ UNCHANGED <<remote, dirs, commits, current, locked, copy, step, using, asks,
                   kind, answer, calls, lacked, had, pushes>>

\* run_one of the command; nothing to do if all signals are handled.
RunOne(p) ==
    /\ inserting[p] = "run_one"
    /\ \/ Regenerate(p) \/ RegenerateFails(p)
       \/ signals = done /\ regen[p] = "idle" /\ UNCHANGED indexVars
    /\ inserting' = IF regen'[p] = "idle" THEN [inserting EXCEPT ![p] = "done"] ELSE inserting
    /\ UNCHANGED poolVars

DaemonRegenerates == Regenerate(Daemon) /\ UNCHANGED <<poolVars, inserting>>
DaemonFails == RegenerateFails(Daemon) /\ UNCHANGED <<poolVars, inserting>>

PoolStep(p) == /\ inserting[p] = "no" /\ PollerNext(p)
               /\ UNCHANGED <<indexVars, inserting>>
Pushed == Push /\ UNCHANGED <<indexVars, inserting>>

Next == \/ Pushed \/ DaemonRegenerates \/ DaemonFails
        \/ \E p \in Pollers : \/ PoolStep(p) \/ Insert(p) \/ Signal(p)
                              \/ DieBeforeSignal(p) \/ RunOne(p)

\* The thread runs run_one every half second.
Spec == Init /\ [][Next]_vars /\ WF_vars(DaemonRegenerates)

-----------------------------------------------------------------------------
\* IndexFiles, with the changes that the processes have not signalled yet.
IndexShowsTheQueues ==
    IndexIsCurrent(Cardinality({p \in Pollers : inserting[p] = "signal"}))

\* A signal is handled at some time, also after errors, and however many arrive
\* meanwhile (spawn_runner_thread).
SignalsAreHandled == []<>(signals = done)
=============================================================================
