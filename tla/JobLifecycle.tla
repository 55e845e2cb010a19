---------------------------- MODULE JobLifecycle ----------------------------
(***************************************************************************)
(* What the run queues promise about one job, without files, snapshots,    *)
(* daemon steps and deaths: every job is at one place, moves only forward  *)
(* through the pipeline, and every move is paid for by one execution, a    *)
(* success by its remaining_count, a failure by its remaining error budget *)
(* (BenchmarkingJobState in run/benchmarking_job.rs).                      *)
(***************************************************************************)
EXTENDS Integers

CONSTANTS
    Jobs,
    Length,       \* number of queues in the pipeline
    Keeps(_),     \* the queue takes a job back after a successful run
    Executes(_)   \* the queue runs its jobs

VARIABLES
    place,        \* job -> outside, a position, or one of the ends
    count,        \* job -> executions still to succeed
    budget        \* job -> failures that end the job

vars == <<place, count, budget>>

Outside == 0
Errored == Length + 1
Done == Length + 2
Dropped == Length + 3

Init ==
    /\ place = [j \in Jobs |-> Outside]
    /\ count \in [Jobs -> Nat] /\ budget \in [Jobs -> Nat]

Move(j, p) == place' = [place EXCEPT ![j] = p]

(* A job enters the first queue *)
Enter(j) ==
    /\ place[j] = Outside
    /\ Move(j, 1)
    /\ UNCHANGED <<count, budget>>

CanRun(j) ==
    /\ place[j] \in 1 .. Length /\ Executes(place[j])
    /\ count[j] > 0 /\ budget[j] > 0

(* The job leaves the pipeline, which closes its account *)
Leave(j, end) ==
    /\ Move(j, end)
    /\ count' = [count EXCEPT ![j] = 0]
    /\ budget' = [budget EXCEPT ![j] = 0]

(* A successful execution leaves the job in a queue that keeps jobs, or    *)
(* takes it one queue on                                                   *)
Succeed(j) ==
    /\ CanRun(j) /\ count[j] > 1
    /\ count' = [count EXCEPT ![j] = @ - 1]
    /\ IF Keeps(place[j]) THEN Move(j, place[j])
       ELSE place[j] < Length /\ Move(j, place[j] + 1)
    /\ UNCHANGED budget

(* The last one asked for finishes the job, and so does a visit to a queue *)
(* without any asked for                                                   *)
Finish(j) ==
    /\ place[j] \in 1 .. Length /\ Executes(place[j])
    /\ count[j] \in {0, 1} /\ budget[j] > 0
    /\ Leave(j, Done)

(* A success in the last queue with executions left: the job drops off *)
DropOff(j) ==
    /\ CanRun(j) /\ count[j] > 1
    /\ place[j] = Length /\ ~Keeps(place[j])
    /\ Leave(j, Dropped)

(* A failed execution leaves the job where it is *)
Fail(j) ==
    /\ CanRun(j) /\ budget[j] > 1
    /\ budget' = [budget EXCEPT ![j] = @ - 1]
    /\ UNCHANGED <<place, count>>

(* The last failure allowed, or none allowed in the first place *)
GiveUp(j) ==
    /\ place[j] \in 1 .. Length /\ Executes(place[j])
    /\ budget[j] \in {0, 1}
    /\ budget[j] = 1 => count[j] > 0
    /\ Leave(j, Errored)

Next == \E j \in Jobs : Enter(j) \/ Succeed(j) \/ Finish(j) \/ DropOff(j)
                                 \/ Fail(j) \/ GiveUp(j)

Spec == Init /\ [][Next]_vars
=============================================================================
