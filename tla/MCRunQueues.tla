---------------------------- MODULE MCRunQueues ----------------------------
(* Instances of RunQueues for TLC *)
EXTENDS RunQueues, TLC

Condition(kind, priority, repeatedly, move, cmd) ==
    [kind |-> kind, priority |-> priority, repeatedly |-> repeatedly,
     move_when_time_window_ends |-> move, stop_start |-> cmd]

Immediately == Condition("Immediately", 0, FALSE, FALSE, NoCmd)

(* Priorities in halves: 3 is TIMED_QUEUE_DEFAULT_PRIORITY = 1.5 *)
Nightly == Condition("LocalNaiveTimeWindow", 3, TRUE, TRUE, "nightly")
Evening == Condition("LocalNaiveTimeWindow", 1, FALSE, FALSE, "evening")
Inactive == Condition("Inactive", 0, FALSE, FALSE, NoCmd)

(* Each kind of queue once, ending in the Inactive queue for leftovers *)
PipelineWithInactive ==
    <<Immediately, [Nightly EXCEPT !.repeatedly = FALSE], Evening, Inactive>>

(* A last queue that keeps its jobs until they are finished *)
PipelineKeeping == <<Immediately, Nightly>>

Job(count, budget, priority, boost) ==
    [count |-> count, budget |-> budget, priority |-> priority,
     boost |-> boost]

ParamsFew == {Job(4, 1, 0, 3), Job(1, 2, 1, 0)}
ParamsLive == {Job(3, 2, 0, 0), Job(0, 1, 4, 0), Job(1, 0, 0, 0)}

Symmetry == Permutations(Jobs)
=============================================================================
