----------------------------- MODULE JobResults -----------------------------
(***************************************************************************)
(* The second half of a job: the files that the benchmarked program leaves *)
(* are moved to the output directory, evaluated and summed up              *)
(* (run/run_job.rs, run/output_directory/post_process.rs), by daemons that *)
(* may end at any moment and whose temporary files a child deletes         *)
(* (CleanupDaemon).  All runs are for one key: they are in one KeyDir.     *)
(***************************************************************************)
EXTENDS CleanupDaemon, FiniteSets

CONSTANTS Runs,         \* 1 .. N: runs of jobs, in the order of their timestamps
          Situations,   \* ScheduleCondition::situation of the queues
          MaxFaults     \* bound: kills of a daemon or of its child, and operations
                        \* on files or tools that fail

VARIABLES
    newest,     \* the daemon started last
    pid,        \* its process id, by daemon: a re-exec keeps the id
    lock,       \* processes that have the open file with the run lock: the
                \* daemon (Daemon) and children of daemons
    pc,         \* where the daemon is
    run,        \* the current or last run
    situation,  \* of each run: that of the queue it comes from
    temps,      \* the files of the TemporaryFiles of the run
    todo,       \* destructors still to run: deletions and cancellations
    pending,    \* situations that generate_summaries_for_key_dir has to do
    disk,       \* for each file, its content
    programs,   \* benchmarked programs that run
    summary,    \* for each situation and "all", the runs summed up in its files
    outcome,    \* auxiliary: of each run, what run_job returned
    wrote,      \* auxiliary: the temporary files that the program of a run wrote
    outlived,   \* auxiliary: process ids of daemons that were killed while
                \* their program was running
    deaths, failures \* how often something died or failed
jobVars == <<newest, pid, lock, pc, run, situation, temps, todo, pending, disk,
             programs, summary, outcome, wrote, outlived, deaths, failures>>
vars == <<jobVars, cleanupVars>>
cleaning == <<open, pipe, items, cleaner, registered>>
identity == <<newest, pid, lock, run, situation>>
ghosts == <<wrote, outlived, deaths, failures>>
plans == <<temps, todo, pending>>

-----------------------------------------------------------------------------
(* Files.  The ones for the program are named by process id, below         *)
(* bench_tmp_dir(); the others by run.                                     *)

EvobenchLog(id) == <<"evobench.log", id>>
BenchOutput(id) == <<"bench-output.log", id>>
Standard(r) == <<"standard_log", r>>         \* in the working directory
RunFile(r, name) == <<name, r>>              \* in the RunDir of r
PublishedLog(r) == RunFile(r, "evobench.log.zstd")
LogExtract(r) == RunFile(r, "log_extract")   \* all that are configured
RunFiles == {"evobench.log.zstd.tmp", "evobench.log.zstd", "bench_output.log.zstd",
             "standard.log.zstd", "schedule_condition.ron", "log_extract"}
Files == {EvobenchLog(id) : id \in Processes} \cup {BenchOutput(id) : id \in Processes}
         \cup {Standard(r) : r \in Runs} \cup (RunFiles \X Runs)

\* Content: the run it is of, and whether it is only partly written, a log that
\* evobench-eval refuses, or whole.
Absent == [of |-> 0, is |-> "absent"]
Holds(r, is) == [of |-> r, is |-> is]
Contents == {Absent} \cup [of : Runs, is : {"partial", "broken", "whole"}]
ASSUME FilesAssumption ==
    /\ IsFiniteSet(Runs) /\ Runs = 1 .. Cardinality(Runs)
    /\ IsFiniteSet(Processes) /\ Processes = 1 .. Cardinality(Processes)
    /\ Items = Files /\ Situations # {} /\ "all" \notin Situations

Daemon == 0
Exists(f) == disk[f] # Absent

Id == pid[newest]
Alive == pc \notin {"down", "execs"}
Live == Alive /\ todo = <<>>

TypeOK ==
    /\ CleanupTypeOK /\ open \subseteq {newest}
    /\ newest \in Processes \cup {0} /\ pid \in [Processes -> Processes \cup {0}]
    /\ lock \subseteq Processes \cup {Daemon}
    /\ run \in Runs \cup {0} /\ situation \in [Runs -> Situations]
    /\ temps \subseteq Files /\ todo \in Seq([op : {"delete", "cancel"}, file : Files])
    /\ disk \in [Files -> Contents]
    /\ programs \subseteq [run : Runs, id : Processes]
    /\ summary \in [Situations \cup {"all"} -> SUBSET Runs]

Init ==
    /\ CleanupInit
    /\ newest = 0 /\ pid = [p \in Processes |-> 0] /\ lock = {} /\ pc = "down"
    /\ run = 0 /\ situation \in [Runs -> Situations]
    /\ temps = {} /\ todo = <<>> /\ pending = {}
    /\ disk = [f \in Files |-> Absent]
    /\ programs = {} /\ summary = [s \in Situations \cup {"all"} |-> {}]
    /\ outcome = [r \in Runs |-> "none"] /\ wrote = [r \in Runs |-> {}]
    /\ outlived = {} /\ deaths = 0 /\ failures = 0

-----------------------------------------------------------------------------
(* Temporary files: what happens when a TemporaryFile is dropped.          *)

DropOps_CancelFirst(f) == <<[op |-> "cancel", file |-> f], [op |-> "delete", file |-> f]>>

\* ItemWithCleanup::cleanup_now: delete, then cancel.
DropOps(f) == <<[op |-> "delete", file |-> f], [op |-> "cancel", file |-> f]>>

\* Variables that are still alive are dropped in the reverse order of declaration.
DropAll ==
    LET Drops(f) == IF f \in temps THEN DropOps(f) ELSE <<>>
    IN  Drops(Standard(run)) \o Drops(BenchOutput(Id)) \o Drops(EvobenchLog(Id))

Put(f, content) == disk' = [disk EXCEPT ![f] = content]

\* The first destructor's deletion; a file that is missing already is fine.
DropDelete ==
    /\ Alive /\ todo # <<>> /\ Head(todo).op = "delete"
    /\ Put(Head(todo).file, Absent)
    /\ todo' = Tail(todo)
    /\ UNCHANGED <<identity, pc, temps, pending, programs, summary, outcome,
                   ghosts, cleaning>>

\* An error of the deletion returns before the cancellation: the file is left to
\* the child.
DropFails ==
    /\ Alive /\ todo # <<>> /\ Head(todo).op = "delete"
    /\ Exists(Head(todo).file)
    /\ deaths + failures < MaxFaults
    /\ failures' = failures + 1
    /\ todo' = SubSeq(todo, 3, Len(todo))
    /\ UNCHANGED <<identity, pc, temps, pending, disk, programs, summary,
                   outcome, wrote, outlived, deaths, cleaning>>

\* An error of the cancellation is a warning.

DropCancel ==
    /\ Alive /\ todo # <<>> /\ Head(todo).op = "cancel"
    /\ IF CanSend(newest) THEN CancelCleanup(newest, Head(todo).file)
                          ELSE UNCHANGED cleaning
    /\ todo' = Tail(todo)
    /\ UNCHANGED <<identity, pc, temps, pending, disk, programs, summary,
                   outcome, ghosts>>

-----------------------------------------------------------------------------
(* Start and end of daemons (RunMode::One and RunMode::Daemon of           *)
(* bin/evobench.rs).                                                       *)

\* get_run_lock: an error if any process has the open file with the lock.
Start ==
    /\ pc \in {"down", "execs"} /\ lock = {} /\ newest + 1 \in Processes
    /\ newest' = newest + 1
    /\ pid' = [pid EXCEPT ![newest + 1] = IF pc = "execs" THEN Id ELSE newest + 1]
    /\ lock' = {Daemon}
    /\ pc' = "locked"
    /\ UNCHANGED <<run, situation, plans, disk, programs, summary, outcome,
                   ghosts, cleaning>>

\* CleanupHandler::start: the child shares the open file with the run lock.
StartHandler ==
    /\ pc = "locked"
    /\ StartCleaner(newest)
    /\ lock' = lock \cup {newest}
    /\ pc' = "idle"
    /\ UNCHANGED <<newest, pid, run, situation, plans, disk, programs, summary,
                   outcome, ghosts>>

\* run_queues returns: the guard of the run lock unlocks the open file, for the
\* child as well.  Then the process ends or, for an upgrade or another
\* configuration, executes itself again with the same process id.
Return(exec) ==
    /\ pc = "idle" /\ todo = <<>>
    /\ lock' = {}
    /\ ProcessEnds(newest)
    /\ pc' = IF exec THEN "execs" ELSE "down"
    /\ UNCHANGED <<newest, pid, run, situation, plans, disk, programs, summary,
                   outcome, ghosts>>

\* The daemon is killed; the child has the lock until it has cleaned up.
Killed ==
    /\ Alive /\ deaths + failures < MaxFaults
    /\ deaths' = deaths + 1
    /\ lock' = lock \ {Daemon}
    /\ ProcessEnds(newest)
    /\ pc' = "down" /\ temps' = {} /\ todo' = <<>> /\ pending' = {}
    /\ outcome' = IF pc \in {"locked", "idle"} THEN outcome
                  ELSE [outcome EXCEPT ![run] = "killed"]
    /\ outlived' = outlived \cup {p.id : p \in programs}
    /\ UNCHANGED <<newest, pid, run, situation, disk, programs, summary, wrote,
                   failures>>

-----------------------------------------------------------------------------
(* The child.                                                              *)

ChildReads(p) == ReadMessage(p) /\ UNCHANGED jobVars
ChildSeesEnd(p) == SeeEnd(p) /\ UNCHANGED jobVars

ChildDeletes(p, f) ==
    /\ CleanItem(p, f)
    /\ \/ /\ Put(f, Absent)
          /\ UNCHANGED failures
       \/ /\ Exists(f) /\ deaths + failures < MaxFaults
          /\ failures' = failures + 1
          /\ UNCHANGED disk
    /\ UNCHANGED <<identity, pc, plans, programs, summary, outcome, wrote,
                   outlived, deaths>>

\* With its process, its reference to the run lock goes.
ChildEnds(p) ==
    /\ \/ CleanerEnds(p) /\ UNCHANGED deaths
       \/ CleanerDies(p) /\ deaths + failures < MaxFaults /\ deaths' = deaths + 1
    /\ lock' = lock \ {p}
    /\ UNCHANGED <<newest, pid, pc, run, situation, plans, disk, programs,
                   summary, outcome, wrote, outlived, failures>>

-----------------------------------------------------------------------------
(* run_job: one step for each file or message.                             *)

\* run_job returns: its TemporaryFiles are dropped.
Ends(result) ==
    /\ outcome' = [outcome EXCEPT ![run] = result]
    /\ todo' = DropAll /\ temps' = {}
    /\ pending' = {}
    /\ pc' = "idle"

Goes(from, to) == Live /\ pc = from /\ pc' = to

\* The next job.
ChooseRun ==
    /\ Goes("idle", "log") /\ run + 1 \in Runs
    /\ run' = run + 1
    /\ UNCHANGED <<newest, pid, lock, situation, plans, disk, programs, summary, outcome,
                   ghosts, cleaning>>

\* register_temporary_file, which fails if the child is gone.
Register(from, to, f) ==
    /\ Live /\ pc = from
    /\ IF CanSend(newest)
       THEN /\ RegisterCleanup(newest, f)
            /\ temps' = temps \cup {f}
            /\ pc' = to
            /\ UNCHANGED <<todo, pending, outcome>>
       ELSE Ends("error") /\ UNCHANGED cleaning
    /\ UNCHANGED <<identity, disk, programs, summary, ghosts>>
RegisterLog == Register("log", "output", EvobenchLog(Id))
RegisterOutput == Register("output", "stale", BenchOutput(Id))
RegisterStandard == Register("keep standard", "condition", Standard(run))

\* Files of the same names that an earlier run of a process with this id has
\* left, after a failed deletion.  The run goes on if their removal fails, too; of
\* such failures there can be one in each run, so that MaxFaults need not bound them.
RemoveStale ==
    /\ Goes("stale", "start")
    /\ \E kept \in SUBSET {f \in {EvobenchLog(Id), BenchOutput(Id)} : Exists(f)} :
          /\ disk' = [f \in Files |-> IF f \in {EvobenchLog(Id), BenchOutput(Id)} \ kept
                                     THEN Absent ELSE disk[f]]
          /\ failures' = IF kept = {} THEN failures ELSE failures + 1
    /\ UNCHANGED <<identity, plans, programs, summary, outcome, wrote, outlived, deaths,
                   cleaning>>

StartProgram_RegistersOutput ==
    /\ Goes("start", "program")
    /\ Put(Standard(run), Holds(run, "partial"))
    /\ programs' = programs \cup {[run |-> run, id |-> Id]}
    /\ temps' = temps \cup {Standard(run)}
    /\ UNCHANGED <<identity, todo, pending, summary, outcome, ghosts, cleaning>>

\* The directory has the commit; the program starts, its output captured.
StartProgram ==
    /\ Goes("start", "program")
    /\ Put(Standard(run), Holds(run, "partial"))
    /\ programs' = programs \cup {[run |-> run, id |-> Id]}
    /\ UNCHANGED <<identity, plans, summary, outcome, ghosts, cleaning>>

\* The program opens its files, which truncates them, and writes to them; a log
\* that is not closed is one that evobench-eval refuses.  It goes on when its
\* daemon is killed.
ProgramWrites(p) ==
    /\ p \in programs
    /\ \E f \in {EvobenchLog(p.id), BenchOutput(p.id)} :
         /\ IF f = BenchOutput(p.id)
            THEN f \notin wrote[p.run] /\ Put(f, Holds(p.run, "whole"))
            ELSE \/ f \notin wrote[p.run] /\ Put(f, Holds(p.run, "broken"))
                 \/ disk[f] = Holds(p.run, "broken") /\ Put(f, Holds(p.run, "whole"))
         /\ wrote' = [wrote EXCEPT ![p.run] = @ \cup {f}]
    /\ UNCHANGED <<identity, pc, plans, programs, summary, outcome, outlived,
                   deaths, failures, cleaning>>

\* The program ends with success or not.
ProgramEnds(p) ==
    /\ p \in programs
    /\ programs' = programs \ {p}
    /\ IF Alive /\ pc = "program" /\ p.run = run
       THEN /\ Put(Standard(run), Holds(run, "whole"))
            /\ \/ /\ pc' = "bench output"
                  /\ UNCHANGED <<plans, outcome>>
               \/ Ends("error")
       ELSE UNCHANGED <<pc, plans, outcome, disk>>
    /\ UNCHANGED <<identity, summary, ghosts, cleaning>>

\* compress_file: the target is there before it is complete.  A source that is
\* deleted meanwhile can still be read to its end, as it is open.
Compress(from, to, source, target) ==
    /\ Live /\ pc = from
    /\ IF ~Exists(target)
       THEN IF Exists(source)
            THEN /\ Put(target, Holds(run, "partial"))
                 /\ UNCHANGED <<pc, plans, outcome>>
            ELSE Ends("error") /\ UNCHANGED disk
       ELSE /\ Put(target, IF Exists(source) THEN disk[source] ELSE Holds(run, "whole"))
            /\ pc' = to
            /\ UNCHANGED <<plans, outcome>>
    /\ UNCHANGED <<identity, programs, summary, ghosts, cleaning>>
TmpLog(r) == RunFile(r, "evobench.log.zstd.tmp")

\* The optional output of the program, if there is any.
CompressOutput ==
    /\ pc = "bench output"
    /\ \/ Exists(BenchOutput(Id)) \/ Exists(RunFile(run, "bench_output.log.zstd"))
    /\ Compress("bench output", "drop output", BenchOutput(Id),
                RunFile(run, "bench_output.log.zstd"))

NoOutput ==
    /\ Goes("bench output", "tmp")
    /\ ~Exists(BenchOutput(Id)) /\ ~Exists(RunFile(run, "bench_output.log.zstd"))
    /\ UNCHANGED <<identity, plans, disk, programs, summary, outcome, ghosts,
                   cleaning>>

CompressLog == Compress("tmp", "standard", EvobenchLog(Id), TmpLog(run))

CompressStandard ==
    Compress("standard", "keep standard", Standard(run), RunFile(run, "standard.log.zstd"))

\* The file is written in place as well.
SaveCondition ==
    LET f == RunFile(run, "schedule_condition.ron")
    IN  /\ Live /\ pc = "condition"
        /\ IF Exists(f) THEN Put(f, Holds(run, "whole")) /\ pc' = "evaluate"
                        ELSE Put(f, Holds(run, "partial")) /\ UNCHANGED pc
        /\ UNCHANGED <<identity, plans, programs, summary, outcome, ghosts,
                       cleaning>>

\* Dropping one TemporaryFile before the end of run_job.
DropsOne(from, to, f) ==
    /\ Goes(from, to)
    /\ todo' = DropOps(f)
    /\ temps' = temps \ {f}
    /\ UNCHANGED <<identity, pending, disk, programs, summary, outcome, ghosts,
                   cleaning>>
DropOutput == DropsOne("drop output", "tmp", BenchOutput(Id))
DropLog == DropsOne("drop log", "rename", EvobenchLog(Id))
DropStandard == DropsOne("drop standard", "summarize", Standard(run))

\* evobench-eval single reads the log at its first place.
Evaluate_Not ==
    /\ Goes("evaluate", "drop log")
    /\ UNCHANGED <<identity, plans, disk, programs, summary, outcome, ghosts,
                   cleaning>>

Evaluate ==
    /\ Live /\ pc = "evaluate"
    /\ IF disk[EvobenchLog(Id)].is = "whole"
       THEN pc' = "drop log" /\ UNCHANGED <<plans, outcome>>
       ELSE Ends("error")
    /\ UNCHANGED <<identity, disk, programs, summary, ghosts, cleaning>>

\* rename_tmp_path
Publish ==
    /\ Goes("rename", "extract")
    /\ disk' = [disk EXCEPT ![PublishedLog(run)] = disk[TmpLog(run)],
                            ![TmpLog(run)] = Absent]
    /\ UNCHANGED <<identity, plans, programs, summary, outcome, ghosts, cleaning>>

\* The log extracts of the target, of the captured output, are written in place
\* into the directory that is published already ...
WriteExtract ==
    LET f == LogExtract(run)
    IN  /\ Live /\ pc = "extract"
        /\ IF Exists(f) THEN Put(f, Holds(run, "whole")) /\ pc' = "drop standard"
                        ELSE Put(f, Holds(run, "partial")) /\ UNCHANGED pc
        /\ UNCHANGED <<identity, plans, programs, summary, outcome, ghosts,
                       cleaning>>

\* ... if any are configured, and the output has the lines that they look for ...
NoExtract ==
    /\ Goes("extract", "drop standard")
    /\ ~Exists(LogExtract(run))
    /\ UNCHANGED <<identity, plans, disk, programs, summary, outcome, ghosts,
                   cleaning>>

\* ... once only and in the order of time: else the run ends in an error, with
\* the extracts written so far.
ExtractIsRefused ==
    /\ Live /\ pc = "extract"
    /\ Ends("error")
    /\ UNCHANGED <<identity, disk, programs, summary, ghosts, cleaning>>

\* generate_summaries_for_key_dir: first over all runs; then the runs of each
\* situation, which it takes from the files; one that cannot be parsed is an
\* error.  evobench-eval refuses a bad log, and panics without any.
Published(rs) == {r \in rs : Exists(PublishedLog(r))}
CanSumUp(rs) == /\ Published(rs) # {}
                /\ \A r \in Published(rs) : disk[PublishedLog(r)].is = "whole"
Condition(r) == disk[RunFile(r, "schedule_condition.ron")]
InSituation(s) == {r \in Runs : Condition(r).is = "whole" /\ situation[r] = s}

SumUp(s, rs) == summary' = [summary EXCEPT ![s] = Published(rs)]

SummarizeAll ==
    /\ Live /\ pc = "summarize"
    /\ IF CanSumUp(Runs) THEN SumUp("all", Runs) ELSE UNCHANGED summary
    /\ IF CanSumUp(Runs) /\ \A r \in Runs : Condition(r).is # "partial"
       THEN /\ pc' = "situations"
            /\ pending' = {s \in Situations : InSituation(s) # {}}
            /\ UNCHANGED <<temps, todo, outcome>>
       ELSE Ends("error")
    /\ UNCHANGED <<identity, disk, programs, ghosts, cleaning>>
Summarize(s) ==
    /\ Live /\ pc = "situations" /\ s \in pending
    /\ IF CanSumUp(InSituation(s))
       THEN /\ SumUp(s, InSituation(s))
            /\ pending' = pending \ {s}
            /\ UNCHANGED <<pc, temps, todo, outcome>>
       ELSE Ends("error") /\ UNCHANGED summary
    /\ UNCHANGED <<identity, disk, programs, ghosts, cleaning>>
RunIsDone ==
    /\ Live /\ pc = "situations" /\ pending = {}
    /\ Ends("ok")
    /\ UNCHANGED <<identity, disk, programs, summary, ghosts, cleaning>>

\* Any operation of the run fails: no space, a tool that does not work.
StepFails ==
    /\ Live /\ pc \notin {"locked", "idle", "program"}
    /\ deaths + failures < MaxFaults /\ failures' = failures + 1
    /\ Ends("error")
    /\ UNCHANGED <<identity, disk, programs, summary, wrote, outlived, deaths,
                   cleaning>>

Next ==
    \/ Start \/ StartHandler \/ Return(TRUE) \/ Return(FALSE) \/ Killed
    \/ DropDelete \/ DropFails \/ DropCancel
    \/ ChooseRun \/ RegisterLog \/ RegisterOutput \/ RemoveStale \/ StartProgram
    \/ \E p \in programs : ProgramWrites(p) \/ ProgramEnds(p)
    \/ CompressOutput \/ NoOutput \/ DropOutput \/ CompressLog
    \/ CompressStandard \/ RegisterStandard \/ SaveCondition
    \/ Evaluate \/ DropLog \/ Publish
    \/ WriteExtract \/ NoExtract \/ ExtractIsRefused \/ DropStandard
    \/ SummarizeAll \/ (\E s \in Situations : Summarize(s)) \/ RunIsDone \/ StepFails
    \/ \E p \in Processes : \/ ChildReads(p) \/ ChildSeesEnd(p) \/ ChildEnds(p)
                            \/ \E f \in items[p] : ChildDeletes(p, f)

Spec == Init /\ [][Next]_vars

-----------------------------------------------------------------------------
(* Properties.                                                             *)

\* A log is of the run that it lies with, unless a deletion has failed and the
\* program of the run wrote no log: then the one that its removal could not
\* remove either (RemoveStale) is taken for its own.
OwnLog(r, log) ==
    \/ log.of = r
    \/ failures > 0 /\ \A id \in Processes : EvobenchLog(id) \notin wrote[r]

\* "that no invalid files end up in the results pool!" (post_process.rs): at any
\* moment, also after a kill, a published log is a whole log, of its own run; and
\* the summaries sum up published logs, those of a situation only its own.
OnlyValidLogsArePublished ==
    /\ \A r \in Runs : Exists(PublishedLog(r)) =>
          disk[PublishedLog(r)].is = "whole" /\ OwnLog(r, disk[PublishedLog(r)])
    /\ \A s \in DOMAIN summary : \A r \in summary[s] :
          Exists(PublishedLog(r)) /\ (s = "all" \/ situation[r] = s)

\* The log is published after all else that the run writes: with it, the directory
\* has the captured output, the condition and the output of the program, whole
\* (run_job.rs, the moving of the results).  The log extracts alone come after it
\* and may be missing or cut short; but there are none without the log.
RunIsCompleteWhenPublished ==
    \A r \in Runs :
        /\ Exists(PublishedLog(r)) =>
             /\ disk[RunFile(r, "standard.log.zstd")] = Holds(r, "whole")
             /\ Condition(r) = Holds(r, "whole")
             /\ failures = 0 /\ (\E id \in Processes : BenchOutput(id) \in wrote[r])
                => disk[RunFile(r, "bench_output.log.zstd")] = Holds(r, "whole")
        /\ Exists(LogExtract(r)) => Exists(PublishedLog(r))

\* A run is published whole but for its log extracts, or not at all; and a run that
\* has ended well is published, in both of its summaries, its extracts whole.
PublishedRunsAreWhole ==
    /\ OnlyValidLogsArePublished /\ RunIsCompleteWhenPublished
    /\ \A r \in Runs : outcome[r] = "ok" =>
          /\ Exists(PublishedLog(r)) /\ disk[LogExtract(r)].is # "partial"
          /\ r \in summary["all"] \cap summary[situation[r]]

\* What the program said is never lost: its captured output stays beside the
\* working directory until it is whole in the directory of the run, however the
\* run or the daemon ends (run_job.rs, register_temporary_file of the standard log).
OutputIsNeverLost ==
    \A r \in Runs : wrote[r] # {} =>
        \/ Exists(Standard(r))
        \/ disk[RunFile(r, "standard.log.zstd")] = Holds(r, "whole")

\* When all processes are gone, no file for a program is left in bench_tmp_dir,
\* unless a deletion failed, a cleanup daemon was killed, or a program outlived
\* its daemon (cleanup_daemon.rs, drop of TemporaryFile and run_cleanup).
NothingTemporaryRemains ==
    /\ pc = "down" /\ failures = 0
    /\ \A p \in Processes : cleaner[p] \in {"none", "ended"}
    => \A id \in Processes \ outlived :
          ~Exists(EvobenchLog(id)) /\ ~Exists(BenchOutput(id))

\* No cleanup daemon deletes the log of a later run, whose file has the same name
\* when the daemon has executed itself again (cleanup_now cancels before the end;
\* run_job.rs names the files by process id).
RunFindsItsLog ==
    /\ Live /\ failures = 0 /\ run # 0 /\ EvobenchLog(Id) \in wrote[run]
    /\ pc \in {"program", "bench output", "drop output", "tmp", "standard",
               "keep standard", "condition", "evaluate"}
    => disk[EvobenchLog(Id)].of = run

\* As long as no deletion has failed, what the children of the daemon's process id
\* will delete when they see the end of their pipes is what the daemon has guards
\* for at the moment, or is about to cancel: nothing is left of what the runs before
\* or the daemon before a re-execution have registered, and no guard is unknown to
\* the child, however far it is behind (cleanup_daemon.rs, TemporaryFile).
ChildrenKnowTheGuards ==
    failures = 0 /\ pc # "down" =>
        /\ \A p \in Processes, f \in Files :
              /\ pid[p] = Id
              /\ \/ cleaner[p] = "reads" /\ WillClean(p, f)
                 \/ cleaner[p] = "cleans" /\ f \in items[p]
              => /\ p = newest
                 /\ \/ f \in temps
                    \/ [op |-> "cancel", file |-> f] \in {todo[k] : k \in 1 .. Len(todo)}
        /\ \A f \in temps : cleaner[newest] = "reads" => WillClean(newest, f)

\* Whatever is deleted is no longer needed: neither the only copy of an output,
\* nor a file that a later run under the same name uses.
NothingIsDeletedEarly == OutputIsNeverLost /\ RunFindsItsLog
=============================================================================
