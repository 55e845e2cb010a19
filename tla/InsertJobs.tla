------------------------------ MODULE InsertJobs ------------------------------
(***************************************************************************)
(* Insertion of jobs by `evobench insert` and `evobench poll`              *)
(* (run/insert_jobs.rs): a batch of jobs is checked against the table of   *)
(* the already inserted job parameters and pushed to the first queue, by   *)
(* processes that share the table through key_val_fs/key_val.rs.           *)
(*                                                                         *)
(* A KeyVal has a single open file for its lock.  flock ties a lock to     *)
(* the open file: KeyVal::insert gets the lock that its own process holds  *)
(* already, and releases it at its end.                                    *)
(***************************************************************************)
EXTENDS Integers, Sequences

CONSTANTS
    Processes,    \* processes that insert jobs
    Params,       \* hashes of job parameters
    Calls,        \* the calls of insert_jobs that can be made
    Mortal,       \* the processes that may be killed
    MaxCalls,     \* bound: how many calls are made
    Nobody

CallType == [batch: Seq(Params), force: BOOLEAN, quiet: BOOLEAN,
             dry_run: BOOLEAN]

ASSUME CallsAssumption == Calls \subseteq CallType
ASSUME NobodyAssumption == Nobody \notin Processes /\ MaxCalls \in Nat

VARIABLES
    table,      \* already_inserted: the insertion times, {} without an entry
    lock,       \* the process that has the lock on the table
    pushed,     \* the jobs pushed to the first queue, with their times
    clock,      \* SystemTime::now, advanced by every push
    pc,         \* next step of a process
    call,       \* arguments of its call
    todo,       \* benchmarking_jobs not yet checked
    known,      \* jobs_already_inserted is not empty
    jobs,       \* jobs_to_insert, with the insertion times as read
    now,        \* the time of its last push
    num,        \* num_inserted
    outcome     \* what the last call returned

(* Auxiliary: what happened with some job parameters *)
VARIABLES
    forced,     \* pushed by a call with --force
    cut,        \* pushed, but the process died or failed before it recorded it
    late,       \* pushed by a call that had inserted another job before
    calls       \* number of calls made

stateVars == <<table, lock, pushed, clock>>
callVars == <<pc, call, todo, known, jobs, now, num, outcome>>
auxVars == <<forced, cut, late, calls>>
vars == <<stateVars, callVars, auxVars>>

JobType == [params: Params, times: SUBSET Nat]
Outcomes == {"none", "ok", "already_inserted", "invalid_commit", "key_exists"}
NoCall == [batch |-> <<>>, force |-> FALSE, quiet |-> FALSE, dry_run |-> FALSE]

TypeOK ==
    /\ table \in [Params -> SUBSET Nat]
    /\ lock \in Processes \cup {Nobody}
    /\ pushed \in SUBSET [params: Params, time: Nat]
    /\ clock \in Nat
    /\ pc \in [Processes -> {"idle", "lock", "check", "push", "unlist", "record"}]
    /\ call \in [Processes -> CallType]
    /\ todo \in [Processes -> Seq(Params)]
    /\ known \in [Processes -> BOOLEAN]
    /\ jobs \in [Processes -> Seq(JobType)]
    /\ now \in [Processes -> Nat] /\ num \in [Processes -> Nat]
    /\ outcome \in [Processes -> Outcomes]
    /\ forced \in SUBSET Params /\ cut \in SUBSET Params
    /\ late \in SUBSET Params /\ calls \in Nat

Init ==
    /\ table = [p \in Params |-> {}] /\ lock = Nobody
    /\ pushed = {} /\ clock = 0
    /\ pc = [i \in Processes |-> "idle"] /\ call = [i \in Processes |-> NoCall]
    /\ todo = [i \in Processes |-> <<>>] /\ known = [i \in Processes |-> FALSE]
    /\ jobs = [i \in Processes |-> <<>>]
    /\ now = [i \in Processes |-> 0] /\ num = [i \in Processes |-> 0]
    /\ outcome = [i \in Processes |-> "none"]
    /\ forced = {} /\ cut = {} /\ late = {} /\ calls = 0

-----------------------------------------------------------------------------

Goto(i, step) == pc' = [pc EXCEPT ![i] = step]

Begin(i) ==
    /\ pc[i] = "idle" /\ calls < MaxCalls
    /\ \E c \in Calls :
        /\ call' = [call EXCEPT ![i] = c]
        /\ todo' = [todo EXCEPT ![i] = c.batch]
    /\ known' = [known EXCEPT ![i] = FALSE] /\ num' = [num EXCEPT ![i] = 0]
    /\ outcome' = [outcome EXCEPT ![i] = "none"]
    /\ Goto(i, "lock") /\ calls' = calls + 1
    /\ UNCHANGED <<stateVars, jobs, now, forced, cut, late>>

Lock_Missing(i) ==
    /\ pc[i] = "lock"
    /\ Goto(i, "check")
    /\ UNCHANGED <<stateVars, call, todo, known, jobs, now, num, outcome, auxVars>>

Lock(i) ==
    /\ pc[i] = "lock" /\ lock = Nobody
    /\ lock' = i
    /\ Goto(i, "check")
    /\ UNCHANGED <<table, pushed, clock, call, todo, known, jobs, now, num, outcome,
                   auxVars>>

(* The call returns, or its process is gone: the guard is dropped *)
Finish(i, result) ==
    /\ Goto(i, "idle")
    /\ lock' = IF lock = i THEN Nobody ELSE lock
    /\ todo' = [todo EXCEPT ![i] = <<>>] /\ jobs' = [jobs EXCEPT ![i] = <<>>]
    /\ outcome' = [outcome EXCEPT ![i] = result]

-----------------------------------------------------------------------------
(* The first loop: what is to be inserted *)

Skips(i) == table[Head(todo[i])] # {} /\ ~call[i].force

SkipKnown(i) ==
    /\ pc[i] = "check" /\ todo[i] # <<>> /\ Skips(i)
    /\ known' = [known EXCEPT ![i] = @ \/ ~call[i].quiet]
    /\ todo' = [todo EXCEPT ![i] = Tail(@)]
    /\ UNCHANGED <<stateVars, pc, call, jobs, now, num, outcome, auxVars>>

(* An error of upstream ends the call, too *)
CommitInvalid(i) ==
    /\ pc[i] = "check" /\ todo[i] # <<>> /\ ~Skips(i)
    /\ Finish(i, "invalid_commit")
    /\ UNCHANGED <<table, pushed, clock, call, known, now, num, auxVars>>

Accept_InsertsAtOnce(i) ==
    /\ pc[i] = "check" /\ todo[i] # <<>> /\ ~Skips(i)
    /\ pushed' = pushed \cup {[params |-> Head(todo[i]), time |-> clock]}
    /\ table' = [table EXCEPT ![Head(todo[i])] = @ \cup {clock}]
    /\ clock' = clock + 1 /\ num' = [num EXCEPT ![i] = @ + 1]
    /\ todo' = [todo EXCEPT ![i] = Tail(@)]
    /\ UNCHANGED <<lock, pc, call, known, jobs, now, outcome, auxVars>>

Accept(i) ==
    /\ pc[i] = "check" /\ todo[i] # <<>> /\ ~Skips(i)
    /\ LET p == Head(todo[i])
       IN jobs' = [jobs EXCEPT ![i] =
                      Append(@, [params |-> p, times |-> table[p]])]
    /\ todo' = [todo EXCEPT ![i] = Tail(@)]
    /\ UNCHANGED <<stateVars, pc, call, known, now, num, outcome, auxVars>>

Refuse(i) ==
    /\ pc[i] = "check" /\ todo[i] = <<>> /\ known[i]
    /\ Finish(i, "already_inserted")
    /\ UNCHANGED <<table, pushed, clock, call, known, now, num, auxVars>>

DryRun(i) ==
    /\ pc[i] = "check" /\ todo[i] = <<>> /\ ~known[i] /\ call[i].dry_run
    /\ Finish(i, "ok")
    /\ UNCHANGED <<table, pushed, clock, call, known, now, num, auxVars>>

StartInserting(i) ==
    /\ pc[i] = "check" /\ todo[i] = <<>> /\ ~known[i] /\ ~call[i].dry_run
    /\ Goto(i, "push")
    /\ UNCHANGED <<stateVars, call, todo, known, jobs, now, num, outcome, auxVars>>
-----------------------------------------------------------------------------
(* The second loop: push a job, then replace its entry in the table *)

Job(i) == Head(jobs[i])
Pushed(p) == {e \in pushed : e.params = p}
Times(p) == {e.time : e \in Pushed(p)}

Push(i) ==
    /\ pc[i] = "push" /\ jobs[i] # <<>>
    /\ pushed' = pushed \cup {[params |-> Job(i).params, time |-> clock]}
    /\ now' = [now EXCEPT ![i] = clock] /\ clock' = clock + 1
    /\ num' = [num EXCEPT ![i] = @ + 1]
    /\ Goto(i, "unlist")
    /\ forced' = IF call[i].force THEN forced \cup {Job(i).params} ELSE forced
    /\ late' = IF num[i] > 0 THEN late \cup {Job(i).params} ELSE late
    /\ UNCHANGED <<table, lock, call, todo, known, jobs, outcome, cut, calls>>

Unlist(i) ==
    /\ pc[i] = "unlist"
    /\ table' = [table EXCEPT ![Job(i).params] = {}]
    /\ Goto(i, "record")
    /\ UNCHANGED <<lock, pushed, clock, call, todo, known, jobs, now, num,
                   outcome, auxVars>>

CanInsert_OtherOpenFile(i) == lock = Nobody

(* KeyVal::insert takes the lock, even if its process has it already ... *)
CanInsert(i) == lock \in {Nobody, i}

Record_LosesTimes(i) ==
    /\ pc[i] = "record" /\ CanInsert(i) /\ table[Job(i).params] = {}
    /\ table' = [table EXCEPT ![Job(i).params] = {now[i]}]
    /\ lock' = Nobody
    /\ jobs' = [jobs EXCEPT ![i] = Tail(@)]
    /\ Goto(i, "push")
    /\ UNCHANGED <<pushed, clock, call, todo, known, now, num, outcome, auxVars>>

(* ... and releases it, for the whole process *)
Record(i) ==
    /\ pc[i] = "record" /\ CanInsert(i) /\ table[Job(i).params] = {}
    /\ table' = [table EXCEPT ![Job(i).params] = Job(i).times \cup {now[i]}]
    /\ lock' = Nobody
    /\ jobs' = [jobs EXCEPT ![i] = Tail(@)]
    /\ Goto(i, "push")
    /\ UNCHANGED <<pushed, clock, call, todo, known, now, num, outcome, auxVars>>

(* KeyExists: another process recorded the same parameters in between *)
RecordExists(i) ==
    /\ pc[i] = "record" /\ CanInsert(i) /\ table[Job(i).params] # {}
    /\ Finish(i, "key_exists")
    /\ cut' = cut \cup {Job(i).params}
    /\ UNCHANGED <<table, pushed, clock, call, known, now, num, forced, late,
                   calls>>

Done(i) ==
    /\ pc[i] = "push" /\ jobs[i] = <<>>
    /\ Finish(i, "ok")
    /\ UNCHANGED <<table, pushed, clock, call, known, now, num, auxVars>>

(* The process is killed, or a file cannot be written *)
Die(i) ==
    /\ i \in Mortal /\ pc[i] # "idle"
    /\ Finish(i, "none")
    /\ cut' = IF pc[i] \in {"unlist", "record"} THEN cut \cup {Job(i).params}
              ELSE cut
    /\ UNCHANGED <<table, pushed, clock, call, known, now, num, forced, late,
                   calls>>

-----------------------------------------------------------------------------

Step(i) ==
    \/ Lock(i) \/ SkipKnown(i) \/ CommitInvalid(i) \/ Accept(i)
    \/ Refuse(i) \/ DryRun(i) \/ StartInserting(i)
    \/ Push(i) \/ Unlist(i) \/ Record(i) \/ RecordExists(i) \/ Done(i)

Next == \E i \in Processes : Begin(i) \/ Step(i) \/ Die(i)

Spec == Init /\ [][Next]_vars

(* A process goes on, and is given the lock some time after it is free *)
FairSpec ==
    /\ Spec
    /\ \A i \in Processes :
        WF_vars(Step(i)) /\ SF_vars(Lock(i)) /\ SF_vars(Record(i))

-----------------------------------------------------------------------------
(* Properties *)

(* The same job parameters can only be inserted once: that holds for the   *)
(* first job of every call, unless a process is forced or cut off.         *)
InsertedOnceUnlessLate ==
    \A p \in Params \ (forced \cup cut \cup late) :
        \A d, e \in Pushed(p) : d = e

(* The table tells of every insertion, also of the forced ones, except for *)
(* the one that a process is about to record.                              *)
Recording(i, p) == pc[i] \in {"unlist", "record"} /\ Job(i).params = p
TableTellsAllInsertions ==
    \A p \in Params \ (cut \cup late) :
        table[p] = Times(p) \/ \E i \in Processes : Recording(i, p)

(* What the table tells of was inserted: a process that is cut off leaves  *)
(* parameters that can be inserted again, rather than ones that never can. *)
ListedWereInserted == \A p \in Params : table[p] \subseteq Times(p)

(* The table and the queue agree, though two insertions make one: it tells *)
(* of nothing else than insertions, and of all of those that are recorded. *)
TableTellsInsertions == TableTellsAllInsertions /\ ListedWereInserted

(* A call that refuses its jobs because some were inserted already, or     *)
(* because of an unknown commit, has not inserted any of them.             *)
RefusalInsertsNothing ==
    \A i \in Processes :
        outcome[i] \in {"already_inserted", "invalid_commit"} => num[i] = 0

(* Every call comes to an end *)
CallsReturn == \A i \in Processes : pc[i] # "idle" ~> pc[i] = "idle"

-----------------------------------------------------------------------------
(* The inductive invariant behind the safety properties *)

Inserting(i) == pc[i] \in {"unlist", "record"}

(* Before its first insertion into the table a process has the lock, and   *)
(* after it never again                                                    *)
First(i) == \/ pc[i] = "check"
            \/ pc[i] = "push" /\ num[i] = 0
            \/ Inserting(i) /\ num[i] = 1

LockUntilFirstRecord == \A i \in Processes : First(i) <=> lock = i

CallKnows ==
    \A i \in Processes :
        /\ pc[i] \in {"idle", "lock"} => jobs[i] = <<>>
        /\ pc[i] \in {"lock", "check"} => num[i] = 0
        /\ pc[i] # "idle" => outcome[i] = "none"
        /\ Inserting(i) => jobs[i] # <<>> /\ num[i] > 0
        /\ ~call[i].force => \A n \in DOMAIN jobs[i] : jobs[i][n].times = {}

(* What a process has read of the table is true until it inserts, but for  *)
(* the jobs of processes that go on without the lock                       *)
LateAreKnown ==
    \A i \in Processes : Inserting(i) /\ num[i] > 1 => Job(i).params \in late

ReadIsTrue ==
    \A i \in Processes : First(i) /\ ~Inserting(i) =>
        \A n \in DOMAIN jobs[i] :
            LET p == jobs[i][n].params
            IN p \in cut \cup late \/ jobs[i][n].times = table[p]

RecordsWhatIsPushed ==
    \A i \in Processes : Inserting(i) =>
        \/ Job(i).params \in cut \cup late
        \/ Times(Job(i).params) = Job(i).times \cup {now[i]}

TimesWerePushed ==
    \A i \in Processes :
        /\ \A n \in DOMAIN jobs[i] : jobs[i][n].times \subseteq Times(jobs[i][n].params)
        /\ Inserting(i) => now[i] \in Times(Job(i).params)

IInv ==
    /\ TypeOK /\ LockUntilFirstRecord /\ CallKnows /\ LateAreKnown
    /\ ReadIsTrue /\ RecordsWhatIsPushed /\ TimesWerePushed
    /\ InsertedOnceUnlessLate /\ TableTellsAllInsertions
    /\ ListedWereInserted /\ RefusalInsertsNothing

=============================================================================
