------------------------------ MODULE RunQueues ------------------------------
(***************************************************************************)
(* The pipeline of run queues and the run daemon that works on it          *)
(* (run/run_queues.rs, run/run_queue.rs, run/run_context.rs,               *)
(* run/stop_start_status.rs, and the loop of bin/evobench.rs run_queues).  *)
(*                                                                         *)
(* The queues are directories: they outlive the daemon and are changed by  *)
(* the inserting commands and by whoever removes a job file.  The daemon   *)
(* works from a snapshot of them (RunQueues::data), and one loop iteration *)
(* is a sequence of steps on the file system between which it can die.     *)
(*                                                                         *)
(* Operators whose name has an underscore followed by a capital are        *)
(* mistaken variants of the operator after them, kept to see that the      *)
(* properties below notice the mistake.                                    *)
(***************************************************************************)
EXTENDS Integers, Sequences, FiniteSets

CONSTANTS
    Jobs,               \* identities of inserted jobs
    Params,             \* the parameters a job can be inserted with
    Pipeline,           \* config: sequence of schedule conditions
    HasErroneousQueue,  \* config: erroneous_jobs_queue is given
    HasDoneQueue,       \* config: done_jobs_queue is given
    NoCmd,              \* no stop_start command
    NoItem,             \* no queue item selected
    CrashPoints,        \* the steps before which the daemon may die
    MaxCrashes,         \* bound: how often it dies
    MaxWithdrawals      \* bound: how many job files are removed by hand

-----------------------------------------------------------------------------
(* Configuration *)

Positions == 1 .. Len(Pipeline)
Nowhere == 0
ErroneousQueue == Len(Pipeline) + 1
DoneQueue == Len(Pipeline) + 2
QueueIds == Positions \cup {ErroneousQueue, DoneQueue}

Kinds == {"Immediately", "LocalNaiveTimeWindow", "Inactive"}

ParamsType == [count: Nat, budget: Nat, priority: Int, boost: Int]

(* RunQueues::check_run_queues: at least one queue, at most one Inactive   *)
(* queue, and that one last.  Positions stand for the distinct names.      *)
CheckRunQueues ==
    /\ Len(Pipeline) > 0
    /\ \A q \in Positions : Pipeline[q].kind = "Inactive" => q = Len(Pipeline)

ASSUME ConfigAssumption ==
    /\ Len(Pipeline) \in Nat
    /\ \A q \in Positions :
        /\ Pipeline[q].kind \in Kinds
        /\ Pipeline[q].priority \in Int
        /\ Pipeline[q].repeatedly \in BOOLEAN
        /\ Pipeline[q].move_when_time_window_ends \in BOOLEAN
    /\ CheckRunQueues
    /\ Params \subseteq ParamsType
    /\ HasErroneousQueue \in BOOLEAN /\ HasDoneQueue \in BOOLEAN
    /\ MaxCrashes \in Nat /\ MaxWithdrawals \in Nat

WindowQueues == {q \in Positions : Pipeline[q].kind = "LocalNaiveTimeWindow"}
InactiveQueues == {q \in Positions : Pipeline[q].kind = "Inactive"}

(* ScheduleCondition::stop_start, the command of a window queue if any *)
StopStart(q) == IF q \in WindowQueues THEN Pipeline[q].stop_start ELSE NoCmd
Cmds == {StopStart(q) : q \in Positions} \ {NoCmd}

(* ScheduleCondition::priority; only a window queue can configure one.     *)
QueuePriority(q) == IF q \in WindowQueues THEN Pipeline[q].priority ELSE 0

(* RunQueueWithNext::next, the successor of a queue in the pipeline *)
NextQueue(q) == IF q + 1 \in Positions THEN q + 1 ELSE Nowhere

Entry == [key: Nat, queue: QueueIds, job: Jobs, count: Nat, budget: Nat,
          priority: Int, boost: Int]

ASSUME NoItemAssumption == NoItem \notin Entry

-----------------------------------------------------------------------------
(* State *)

VARIABLES
    entries,      \* the job files in all queue directories
    nextKey,      \* TimeKey::now: the clock, assumed monotonic, with pid and id
    openWindows,  \* the window queues whose time window contains now
    pc,           \* the daemon's next step, "down" without a daemon process
    snapshot,     \* RunQueuesData: the pipeline's entries as last read
    item,         \* the selected QueueItem with the job as read
    verdict,      \* where run_job sends the job, and the JobStatus it returns
    stopStart,    \* StopStartStatus::current_stop_start
    openQueues,   \* RunContext::open_queues
    stopped       \* external: commands run with "stop" and not yet "start"

(* Auxiliary: what happened so far.  The daemon's guards do not read these, *)
(* except for the bounds.                                                  *)
VARIABLES
    params,       \* the parameters each job is inserted with (fixed)
    inserted,     \* the jobs inserted so far
    runs,         \* successful executions of each job
    errors,       \* failed executions of each job
    fate,         \* how a job left for good without a queue to hold it
    rerun,        \* jobs with a run_job cut off between run and delete
    doubled,      \* those cut off between push and delete
    orphans,      \* commands left in "stop" by a daemon that went away
    crashes, withdrawals

daemonVars == <<pc, snapshot, item, verdict, stopStart, openQueues>>
auxVars == <<params, inserted, runs, errors, fate, rerun, doubled, orphans,
             crashes, withdrawals>>
vars == <<entries, nextKey, openWindows, daemonVars, stopped, auxVars>>

PCs == {"down", "data", "select", "stop_start", "run_job", "push", "delete",
        "loop_end"}
Statuses == {"Active", "Done", "Dropped", "Error"}
VerdictType == [queue: QueueIds \cup {Nowhere}, count: Nat, budget: Nat,
                status: Statuses]
NoVerdict == [queue |-> Nowhere, count |-> 0, budget |-> 0, status |-> "Active"]

Gone(j) == fate[j] # "Active"
EntriesOf(j) == {e \in entries : e.job = j}
InPipeline(j) == \E e \in EntriesOf(j) : e.queue \in Positions

TypeOK ==
    /\ entries \in SUBSET Entry
    /\ nextKey \in Nat
    /\ openWindows \in SUBSET WindowQueues
    /\ pc \in PCs
    /\ snapshot \in SUBSET Entry
    /\ item \in Entry \cup {NoItem}
    /\ verdict \in VerdictType
    /\ stopStart \in Cmds \cup {NoCmd}
    /\ openQueues \in SUBSET WindowQueues
    /\ stopped \in SUBSET Cmds
    /\ params \in [Jobs -> Params] /\ inserted \in SUBSET Jobs
    /\ runs \in [Jobs -> Nat] /\ errors \in [Jobs -> Nat]
    /\ fate \in [Jobs -> Statuses \cup {"Withdrawn"}]
    /\ rerun \in SUBSET Jobs /\ doubled \in SUBSET Jobs
    /\ orphans \in SUBSET Cmds
    /\ crashes \in Nat /\ withdrawals \in Nat

Init ==
    /\ entries = {} /\ nextKey = 1
    /\ openWindows \in SUBSET WindowQueues
    /\ pc = "down" /\ snapshot = {} /\ item = NoItem /\ verdict = NoVerdict
    /\ stopStart = NoCmd /\ openQueues = {} /\ stopped = {}
    /\ params \in [Jobs -> Params] /\ inserted = {}
    /\ runs = [j \in Jobs |-> 0] /\ errors = [j \in Jobs |-> 0]
    /\ fate = [j \in Jobs |-> "Active"] /\ rerun = {} /\ doubled = {} /\ orphans = {}
    /\ crashes = 0 /\ withdrawals = 0


-----------------------------------------------------------------------------
(* The world outside the daemon *)

(* RunQueue::push_front: a new file under the current time.  A job that    *)
(* run_job reinserts has lost its boost (clone_for_queue_reinsertion).     *)
NewEntry(q, j, count, budget, boost) ==
    [key |-> nextKey, queue |-> q, job |-> j, count |-> count,
     budget |-> budget, priority |-> params[j].priority, boost |-> boost]

PushFront(e) ==
    /\ entries' = entries \cup {e}
    /\ nextKey' = nextKey + 1

(* An insert or poll command puts a job into the first queue *)
Insert(j) ==
    /\ j \notin inserted
    /\ inserted' = inserted \cup {j}
    /\ PushFront(NewEntry(1, j, params[j].count, params[j].budget,
                          params[j].boost))
    /\ UNCHANGED <<openWindows, daemonVars, stopped, params, runs, errors,
                   fate, rerun, doubled, orphans, crashes, withdrawals>>

OpenWindow(q) ==
    /\ q \in WindowQueues \ openWindows
    /\ openWindows' = openWindows \cup {q}
    /\ UNCHANGED <<entries, nextKey, daemonVars, stopped, auxVars>>

CloseWindow(q) ==
    /\ q \in openWindows
    /\ openWindows' = openWindows \ {q}
    /\ UNCHANGED <<entries, nextKey, daemonVars, stopped, auxVars>>

(* Somebody removes a job file from the pipeline *)
Withdraw(e) ==
    /\ withdrawals < MaxWithdrawals
    /\ e.queue \in Positions
    /\ entries' = entries \ {e}
    /\ fate' = [fate EXCEPT ![e.job] = "Withdrawn"]
    /\ withdrawals' = withdrawals + 1
    /\ UNCHANGED <<nextKey, openWindows, daemonVars, stopped, params, inserted,
                   runs, errors, rerun, doubled, orphans, crashes>>

-----------------------------------------------------------------------------
(* Selection *)

(* ScheduleCondition::is_runnable_at *)
Runnable(q) == Pipeline[q].kind = "Immediately" \/ q \in openWindows

TotalPriority(e) == e.priority + e.boost + QueuePriority(e.queue)

FirstOfItsQueue_MaxByKey(e) ==
    \A f \in snapshot : f.queue = e.queue =>
        \/ TotalPriority(f) < TotalPriority(e)
        \/ TotalPriority(f) = TotalPriority(e) /\ f.key <= e.key

(* min_by_key over a queue's entries, which are in key order: the first of *)
(* those with the highest total priority                                   *)
FirstOfItsQueue(e) ==
    \A f \in snapshot : f.queue = e.queue =>
        \/ TotalPriority(f) < TotalPriority(e)
        \/ TotalPriority(f) = TotalPriority(e) /\ e.key <= f.key

(* min_by_key over the runnable queues, which are in pipeline order *)
MostPrioritized(e) ==
    /\ Runnable(e.queue) /\ FirstOfItsQueue(e)
    /\ \A f \in snapshot : Runnable(f.queue) /\ FirstOfItsQueue(f) =>
        \/ TotalPriority(f) < TotalPriority(e)
        \/ TotalPriority(f) = TotalPriority(e) /\ e.queue <= f.queue


-----------------------------------------------------------------------------
(* One iteration of the daemon's loop *)

(* The process ends, for whatever reason: its memory is lost, also what a  *)
(* stop_start command still has to be started again for.                   *)
GoDown ==
    /\ pc' = "down" /\ snapshot' = {} /\ item' = NoItem
    /\ verdict' = NoVerdict /\ stopStart' = NoCmd /\ openQueues' = {}

Start ==
    /\ pc = "down"
    /\ pc' = "data"
    /\ UNCHANGED <<entries, nextKey, openWindows, snapshot, item, verdict,
                   stopStart, openQueues, stopped, auxVars>>

(* RunQueues::data.  The queues are read first to last and the only        *)
(* concurrent insertions go to the first one, so a single read is as good. *)
ReadQueues ==
    /\ pc = "data"
    /\ \A e \in entries : e.queue \notin InactiveQueues
    /\ snapshot' = {e \in entries : e.queue \in Positions}
    /\ pc' = "select"
    /\ UNCHANGED <<entries, nextKey, openWindows, item, verdict, stopStart,
                   openQueues, stopped, auxVars>>

(* RunQueue::data expects a priority of every queue that holds a job, and  *)
(* an Inactive queue has none                                              *)
ReadQueuesPanics ==
    /\ pc = "data"
    /\ \E e \in entries : e.queue \in InactiveQueues
    /\ GoDown
    /\ orphans' = orphans \cup stopped
    /\ UNCHANGED <<entries, nextKey, openWindows, stopped, params, inserted,
                   runs, errors, fate, rerun, doubled, crashes, withdrawals>>

SelectJob_DeleteFirst ==
    /\ pc = "select"
    /\ \E e \in snapshot :
        /\ MostPrioritized(e) /\ e \in entries
        /\ item' = e /\ entries' = entries \ {e}
    /\ pc' = "stop_start"
    /\ UNCHANGED <<nextKey, openWindows, snapshot, verdict, stopStart,
                   openQueues, stopped, auxVars>>

(* most_prioritized_job, when the selected file is still there *)
SelectJob ==
    /\ pc = "select"
    /\ \E e \in snapshot :
        /\ MostPrioritized(e) /\ e \in entries
        /\ item' = e
    /\ pc' = "stop_start"
    /\ UNCHANGED <<entries, nextKey, openWindows, snapshot, verdict,
                   stopStart, openQueues, stopped, auxVars>>

(* ... when no runnable queue had a job, or the file has disappeared *)
SelectNothing ==
    /\ pc = "select"
    /\ \A e \in snapshot : MostPrioritized(e) => e \notin entries
    /\ item' = NoItem
    /\ pc' = "stop_start"
    /\ UNCHANGED <<entries, nextKey, openWindows, snapshot, verdict,
                   stopStart, openQueues, stopped, auxVars>>

Wanted == IF item = NoItem THEN NoCmd ELSE StopStart(item.queue)

AfterSwitch_NoStart(cmd) == stopped \cup ({cmd} \ {NoCmd})

(* "start" for the command in "stop" so far, then "stop" for the wanted one *)
AfterSwitch(cmd) == (stopped \ {stopStart}) \cup ({cmd} \ {NoCmd})

(* RunContext::stop_start_be (StopStartStatus::be), and for a job from a   *)
(* window queue running_job_in_windowed_queue                              *)
StopStartBe ==
    /\ pc = "stop_start"
    /\ stopStart' = Wanted
    /\ stopped' = IF Wanted = stopStart THEN stopped ELSE AfterSwitch(Wanted)
    /\ orphans' = IF Wanted = stopStart THEN orphans
                  ELSE orphans \ {stopStart, Wanted}
    /\ openQueues' =
         IF item # NoItem /\ item.queue \in WindowQueues
                          /\ Pipeline[item.queue].move_when_time_window_ends
         THEN openQueues \cup {item.queue} ELSE openQueues
    /\ pc' = IF item = NoItem THEN "loop_end" ELSE "run_job"
    /\ UNCHANGED <<entries, nextKey, openWindows, snapshot, item, verdict,
                   params, inserted, runs, errors, fate, rerun, doubled,
                   crashes, withdrawals>>

(* One of the two commands fails, which ends the daemon.  A failed "stop"  *)
(* may or may not have had its effect.                                     *)
StopStartFails ==
    /\ pc = "stop_start" /\ pc \in CrashPoints /\ crashes < MaxCrashes
    /\ Wanted # stopStart
    /\ \/ stopped' = stopped /\ stopStart # NoCmd
       \/ stopped' = stopped \ {stopStart}
       \/ stopped' = AfterSwitch(Wanted) /\ Wanted # NoCmd
    /\ orphans' = stopped'
    /\ GoDown
    /\ crashes' = crashes + 1
    /\ UNCHANGED <<entries, nextKey, openWindows, params, inserted, runs,
                   errors, fate, rerun, doubled, withdrawals>>

-----------------------------------------------------------------------------
(* RunQueueWithNext::run_job: execute, push to where the job goes, delete  *)

Verdict(q, count, budget, status) ==
    [queue |-> q, count |-> count, budget |-> budget, status |-> status]

Finished(count, budget) ==
    Verdict(IF HasDoneQueue THEN DoneQueue ELSE Nowhere, count, budget, "Done")

OutOfErrorBudget(count) ==
    Verdict(IF HasErroneousQueue THEN ErroneousQueue ELSE Nowhere, count, 0,
            "Error")

(* Only a `repeatedly` window queue keeps the job *)
KeepsJobs(q) == q \in WindowQueues /\ Pipeline[q].repeatedly

QueueAfter_AlwaysNext(q) == NextQueue(q)
QueueAfter(q) == IF KeepsJobs(q) THEN q ELSE NextQueue(q)

AfterSuccess_OneLess(e) ==
    IF e.count <= 2 THEN Finished(0, e.budget)
    ELSE Verdict(QueueAfter(e.queue), e.count - 1, e.budget,
                 IF QueueAfter(e.queue) = Nowhere THEN "Dropped" ELSE "Active")

AfterSuccess(e) ==
    IF e.count = 1 THEN Finished(0, e.budget)
    ELSE Verdict(QueueAfter(e.queue), e.count - 1, e.budget,
                 IF QueueAfter(e.queue) = Nowhere THEN "Dropped" ELSE "Active")

AfterFailure_SaysError(e) ==
    IF e.budget = 1 THEN OutOfErrorBudget(e.count)
    ELSE Verdict(e.queue, e.count, e.budget - 1, "Error")

AfterFailure(e) ==
    IF e.budget = 1 THEN OutOfErrorBudget(e.count)
    ELSE Verdict(e.queue, e.count, e.budget - 1, "Active")

RunSucceeds ==
    /\ pc = "run_job" /\ item.budget > 0 /\ item.count > 0
    /\ verdict' = AfterSuccess(item)
    /\ runs' = [runs EXCEPT ![item.job] = @ + 1]
    /\ pc' = "push"
    /\ UNCHANGED <<entries, nextKey, openWindows, snapshot, item, stopStart,
                   openQueues, stopped, params, inserted, errors, fate, rerun,
                   doubled, orphans, crashes, withdrawals>>

RunFails ==
    /\ pc = "run_job" /\ item.budget > 0 /\ item.count > 0
    /\ verdict' = AfterFailure(item)
    /\ errors' = [errors EXCEPT ![item.job] = @ + 1]
    /\ pc' = "push"
    /\ UNCHANGED <<entries, nextKey, openWindows, snapshot, item, stopStart,
                   openQueues, stopped, params, inserted, runs, fate, rerun,
                   doubled, orphans, crashes, withdrawals>>

(* "should never get here normally": nothing is executed *)
RunNotNeeded ==
    /\ pc = "run_job" /\ (item.budget = 0 \/ item.count = 0)
    /\ verdict' = IF item.budget = 0 THEN OutOfErrorBudget(item.count)
                  ELSE Finished(item.count, item.budget)
    /\ pc' = "push"
    /\ UNCHANGED <<entries, nextKey, openWindows, snapshot, item, stopStart,
                   openQueues, stopped, auxVars>>

Push ==
    /\ pc = "push"
    /\ IF verdict.queue = Nowhere THEN UNCHANGED <<entries, nextKey>>
       ELSE PushFront(NewEntry(verdict.queue, item.job, verdict.count,
                               verdict.budget, 0))
    /\ pc' = "delete"
    /\ UNCHANGED <<openWindows, snapshot, item, verdict, stopStart, openQueues,
                   stopped, auxVars>>

Delete ==
    /\ pc = "delete"
    /\ entries' = entries \ {item}
    /\ fate' = IF verdict.queue # Nowhere THEN fate
               ELSE [fate EXCEPT ![item.job] = verdict.status]
    /\ item' = NoItem /\ verdict' = NoVerdict
    /\ pc' = "loop_end"
    /\ UNCHANGED <<nextKey, openWindows, snapshot, stopStart, openQueues,
                   stopped, params, inserted, runs, errors, rerun, doubled,
                   orphans, crashes, withdrawals>>

Loop_KeepSnapshot ==
    /\ pc = "loop_end"
    /\ pc' = "select"
    /\ UNCHANGED <<entries, nextKey, openWindows, snapshot, item, verdict,
                   stopStart, openQueues, stopped, auxVars>>

(* The end of the iteration: go on ... *)
Loop ==
    /\ pc = "loop_end"
    /\ pc' = "data" /\ snapshot' = {}
    /\ UNCHANGED <<entries, nextKey, openWindows, item, verdict, stopStart,
                   openQueues, stopped, auxVars>>

(* ... or leave it (want_exit: stop, restart, config change, upgrade; once) *)
Exit ==
    /\ pc = "loop_end"
    /\ GoDown
    /\ orphans' = orphans \cup stopped
    /\ UNCHANGED <<entries, nextKey, openWindows, stopped, params, inserted,
                   runs, errors, fate, rerun, doubled, crashes, withdrawals>>

(* The daemon is killed, or a step returns an error, which leaves the loop *)
Crash ==
    /\ pc \in CrashPoints \ {"down"} /\ crashes < MaxCrashes
    /\ GoDown
    /\ crashes' = crashes + 1
    /\ orphans' = orphans \cup stopped
    /\ rerun' = IF pc \in {"push", "delete"} THEN rerun \cup {item.job}
                ELSE rerun
    /\ doubled' = IF pc = "delete" THEN doubled \cup {item.job} ELSE doubled
    /\ UNCHANGED <<entries, nextKey, openWindows, stopped, params, inserted,
                   runs, errors, fate, withdrawals>>


-----------------------------------------------------------------------------

Daemon ==
    \/ ReadQueues \/ ReadQueuesPanics
    \/ SelectJob \/ SelectNothing
    \/ StopStartBe \/ RunSucceeds \/ RunFails \/ RunNotNeeded
    \/ Push \/ Delete \/ Loop

World ==
    \/ \E j \in Jobs : Insert(j)
    \/ \E q \in WindowQueues : OpenWindow(q) \/ CloseWindow(q)
    \/ \E e \in entries : Withdraw(e)

Next == Start \/ Daemon \/ Exit \/ StopStartFails \/ Crash \/ World

Spec == Init /\ [][Next]_vars

(* The daemon's process keeps taking steps and is restarted when it ended  *)
(* (restart_on_failures), and it looks at the queues every second, so that *)
(* a window that keeps opening is noticed open, and used.                  *)
Fairness ==
    /\ WF_vars(Start) /\ WF_vars(Daemon)
    /\ \A q \in WindowQueues : SF_vars(pc = "select" /\ OpenWindow(q))
    /\ SF_vars(SelectJob)

FairSpec == Spec /\ Fairness

(* ... and nothing is assumed of the windows *)

-----------------------------------------------------------------------------
(* Properties *)

(* A job that was inserted is in some queue until it has been dropped or   *)
(* withdrawn, whenever the daemon dies: run_job pushes before it deletes.  *)
NoJobLost == \A j \in inserted : Gone(j) \/ EntriesOf(j) # {}

(* A job is in one queue at a time, except while run_job is between its    *)
(* push and its delete, or when the daemon died in between.                *)
OneHolder ==
    \A e, f \in entries : e.job = f.job /\ e # f =>
        \/ e.job \in doubled
        \/ pc = "delete" /\ item \in {e, f}

(* A job is in the pipeline, in the done or in the erroneous queue, in one *)
(* of them, unless it was dropped or withdrawn; and only a daemon that has *)
(* died between its push and its delete leaves it in two.                  *)
InOneQueue == NoJobLost /\ OneHolder

Executed == pc \in {"push", "delete"}

AccountOf(j, count, budget) ==
    /\ runs[j] + count >= params[j].count
    /\ j \notin rerun => /\ runs[j] + count = params[j].count
                        /\ errors[j] + budget = params[j].budget

(* The state of a job file accounts for every execution of the job: a job  *)
(* that ends in the done queue ran as often as asked for, and only a       *)
(* daemon that died after an execution makes it run more often.            *)
RunsAccounted ==
    \A e \in entries : ~(Executed /\ e = item) =>
        AccountOf(e.job, e.count, e.budget)

(* A job in the done queue ran as often as asked for, and more often only  *)
(* when a daemon died after an execution (run_job: finish_completed_job is *)
(* called when the count is used up, in whichever queue).  The docs of     *)
(* JobStatus::Done and Dropped say the reverse: that a job can be done     *)
(* with a count left, when it is at the end of the pipeline, and is        *)
(* dropped when its count is used up before that (run_queue.rs:132-142).   *)
DoneRanAsAsked ==
    \A e \in entries : e.queue = DoneQueue =>
        /\ e.count = 0 /\ runs[e.job] >= params[e.job].count
        /\ e.job \notin rerun => runs[e.job] = params[e.job].count

(* Every execution of a job is accounted for, in the pipeline and after it *)
(* has left it, however often daemons die and whatever fails.              *)
RanAsAsked == RunsAccounted /\ DoneRanAsAsked

(* Of all jobs with the same maximum priority the oldest in the earliest   *)
(* queue is chosen, out of the queues that may run now.                    *)
ChoosesOldestOfMostUrgent ==
    [][SelectJob => \A f \in snapshot : Runnable(f.queue) =>
        \/ TotalPriority(f) < TotalPriority(item')
        \/ /\ TotalPriority(f) = TotalPriority(item')
           /\ \/ item'.queue < f.queue
              \/ item'.queue = f.queue /\ item'.key <= f.key]_vars

(* While a job executes, its queue's command is in "stop" and no other is, *)
(* except what an earlier daemon left behind; and when there was no job to *)
(* run, nothing is.                                                        *)
JobRunsUnderItsCommand ==
    /\ pc \in {"run_job", "push", "delete"} =>
         stopped \ orphans = {StopStart(item.queue)} \ {NoCmd}
    /\ pc = "data" /\ stopStart = NoCmd => stopped \subseteq orphans

WillStillRun(j, files) ==
    \E e \in files : e.job = j /\ e.queue \in Positions \ InactiveQueues

(* The JobStatus that run_job returns decides whether caches kept for the  *)
(* whole execution of a job are deleted (can_run_again): it is Active just *)
(* when the job has a file in a queue that is run.  Left out are jobs that *)
(* move to an Inactive queue: they are Active as well, although they are   *)
(* never run, against the docs of JobStatus::Active, "It will still be     *)
(* run", and of Inactive, which is never returned (run_queue.rs:130-139).  *)
StatusTellsWhetherRunAgain ==
    [][Delete /\ item.job \notin doubled /\ ~Gone(item.job)
              /\ verdict.queue \notin InactiveQueues =>
        (verdict.status = "Active" <=> WillStillRun(item.job, entries'))]_vars

(* The queues that are read for a selection hold no job that cannot be     *)
(* given a priority ("no inactive queue in pipeline").                     *)
NoInactiveQueueInPipeline ==
    pc = "data" => \A e \in entries : e.queue \notin InactiveQueues

(* Every inserted job leaves the pipeline at some point *)
EveryJobLeaves == \A j \in Jobs : j \in inserted ~> ~InPipeline(j)

-----------------------------------------------------------------------------
(* The inductive invariant behind the invariants above *)

Selected == pc \in {"stop_start", "run_job", "push", "delete"} /\ item # NoItem

(* Keys only grow, so that what is pushed differs from what is there *)
KeysBelowNext ==
    /\ \A e \in entries \cup snapshot : e.key < nextKey
    /\ item # NoItem => item.key < nextKey

(* Nobody knows of a job before it is inserted *)
OnlyInserted ==
    /\ \A e \in entries \cup snapshot : e.job \in inserted
    /\ item # NoItem => item.job \in inserted
    /\ \A j \in Jobs \ inserted : runs[j] = 0 /\ errors[j] = 0

(* What the daemon knows at each of its steps *)
DaemonKnows ==
    /\ \A e \in snapshot : e.queue \in Positions
    /\ item # NoItem => item.queue \in Positions
    /\ pc \in {"down", "data", "select", "loop_end"} => item = NoItem
    /\ pc \in {"run_job", "push", "delete"} =>
         item # NoItem /\ stopStart = StopStart(item.queue)
    /\ pc = "down" => stopStart = NoCmd

(* A job stays in the pipeline just when it is Active, and is done just    *)
(* when nothing is left to execute                                         *)
VerdictIsConsistent ==
    Executed => /\ verdict.status = "Active" <=> verdict.queue \in Positions
                /\ verdict.queue = DoneQueue => verdict.count = 0

DoneHaveNoCount == \A e \in entries : e.queue = DoneQueue => e.count = 0

(* Between push and delete, the job's other file is its successor *)
SuccessorPushed ==
    pc = "delete" =>
        /\ verdict.queue # Nowhere /\ ~Gone(item.job) =>
             \E e \in EntriesOf(item.job) : e # item /\ e.queue = verdict.queue
        /\ item.job \notin doubled =>
             \A e \in EntriesOf(item.job) : e # item => e.queue = verdict.queue

(* Until the push, the selected file is its job's only one *)
SelectedIsSole ==
    Selected /\ pc # "delete" /\ item.job \notin doubled =>
        \A e \in EntriesOf(item.job) : e = item

(* The accounts of the selected file before, of its successor after the    *)
(* execution, and what a daemon that dies in between leaves                *)
SelectedAccounted ==
    /\ Selected /\ ~Executed => AccountOf(item.job, item.count, item.budget)
    /\ Executed =>
         /\ AccountOf(item.job, verdict.count, verdict.budget)
         /\ runs[item.job] + item.count >= params[item.job].count

DoubledWereRerun == doubled \subseteq rerun

(* In "stop" are the daemon's own command and those of its predecessors *)
StoppedByWhom ==
    IF pc = "down" THEN stopped \subseteq orphans
    ELSE stopped \ orphans = {stopStart} \ {NoCmd}

IInv ==
    /\ TypeOK /\ KeysBelowNext /\ OnlyInserted /\ DaemonKnows
    /\ VerdictIsConsistent /\ SuccessorPushed /\ SelectedIsSole
    /\ SelectedAccounted /\ DoubledWereRerun /\ StoppedByWhom
    /\ NoJobLost /\ OneHolder /\ RunsAccounted /\ DoneHaveNoCount

-----------------------------------------------------------------------------
(* The queues implement JobLifecycle as long as the daemon does not die    *)
(* between push and delete and no job file is removed.                     *)

(* The file that holds a job, disregarding one about to be deleted after   *)
(* its successor was pushed                                                *)
Holds(e) == ~(pc = "delete" /\ e = item /\ verdict.queue # Nowhere)
Current(j) == CHOOSE e \in EntriesOf(j) : Holds(e)

Place(j) ==
    IF j \notin inserted THEN 0
    ELSE IF EntriesOf(j) # {} THEN Current(j).queue
    ELSE IF fate[j] = "Error" THEN ErroneousQueue
    ELSE IF fate[j] = "Done" THEN DoneQueue
    ELSE Len(Pipeline) + 3

(* A job outside brings its parameters, one that has left has no account *)
PlaceOf == [j \in Jobs |-> Place(j)]
CountOf == [j \in Jobs |-> IF j \notin inserted THEN params[j].count
                           ELSE IF Place(j) \in Positions
                           THEN Current(j).count ELSE 0]
BudgetOf == [j \in Jobs |-> IF j \notin inserted THEN params[j].budget
                            ELSE IF Place(j) \in Positions
                            THEN Current(j).budget ELSE 0]

ExecutesJobs(q) == q \notin InactiveQueues

Lifecycle == INSTANCE JobLifecycle WITH
    Length <- Len(Pipeline), Keeps <- KeepsJobs, Executes <- ExecutesJobs,
    place <- PlaceOf, count <- CountOf, budget <- BudgetOf

(* Every job moves forward through the pipeline only, at the price of one  *)
(* execution per move, and ends where its count and budget say             *)
ImplementsLifecycle == Lifecycle!Spec

=============================================================================
