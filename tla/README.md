# Verification of evobench

This directory holds TLA+ modules that model the job scheduling core of
evobench, the way of a measurement from a probe to its row in a table and into
the output directory, and the algorithms that these use; TLC configurations
that check them on small instances; and TLAPS proofs about them.
Source paths below are relative to `src/evobench-tools/src/` unless they begin
with `src/`.

1. [The system](#the-system)
2. [Modules](#modules)
3. [Runs](#runs)
4. [Fairness](#fairness)
5. [Proofs](#proofs)
6. [Disagreements found](#disagreements-found)
7. [What is not modelled](#what-is-not-modelled)
8. [Plan](#plan)

To check: `tlc -config X.cfg MCX.tla` for a run, `tlapm X_proofs.tla` for
proofs.

## The system

evobench benchmarks commits of a target project. *Insert* and *poll* commands
put jobs into the first of a configured pipeline of queues; one *run daemon*
takes jobs out of the queues, one at a time, runs each in a clone of the target
project, and publishes the measurements, which probes linked into the target
wrote to a log. There is no server: processes share directories, and `flock`
is the only lock.

| Component | State | Operations | Uses |
|---|---|---|---|
| Run queues and daemon loop (`run/run_queues.rs`, `run_queue.rs`, `run_context.rs`, `stop_start_status.rs`, loop of `bin/evobench.rs`) | job files in queue directories; snapshot of them; the command in "stop" | read, select, stop/start, run, push, delete; exit, restart | queue of files, pool, job execution |
| Queue of files (`key_val_fs/`, `io_utils/lockable_file.rs`) with its tool `bin/jobqueue.rs` | one file per entry, temporary files, lock per entry and per directory | insert, iterate with options, wait, delete, lock | |
| Job insertion (`run/insert_jobs.rs`) | table of inserted parameters, lock of the table | check a batch, push, record | queue of files as table, polling pool |
| Working directory pool (`run/working_directory_pool.rs`, `working_directory.rs`) and `evobench wd` (`run/sub_command/wd.rs`) | clones, a status file each, symlink `current`; a copy of all that in each process | open, clone, choose, check out, process, clean up; mark, unmark, recycle, delete, cleanup, enter | git, signals |
| Polling pool (`run/polling_pool.rs`) | a pool of one clone | validity and names of commits, branch heads | pool |
| Job execution (`run/run_job.rs`, `bench_tmp_dir.rs`, `versioned_dataset_dir.rs`) | temporary files, result directories | run the program, move and compress results, post-process | pool, output, cleanup daemon |
| Output directory (`run/output_directory/`) | tree of keys and runs, summaries | publish by rename, evaluate | evaluator |
| Cleanup daemon (`utillib/cleanup_daemon.rs`) | set of files, pipe | add, cancel, clean up at the end of the parent | |
| Index regeneration (`run/open_run_queues.rs`) | thread, signal counter | regenerate on a signal | |
| Probes (`src/evobench-probes/`) | a buffer and a skip counter per thread, the flag `is_enabled`, the log file | open; begin and end a scope, log a key-value or a point; flush; end of a thread, of the process | |
| Evaluator and statistics (`evaluator/`, `stats_tables/`, `join.rs`) | none that outlives a call | log → tree of scopes → tables | the log of the probes |
| Git history (`git.rs`, `git_tags.rs`) | graph of commits | add a history, ancestors, closest dataset | |
| Times and numbers (`times.rs`, `date_and_time/`, `serde_types/priority.rs`, `digit_num.rs`) | | sums, windows, priorities | |
| Configuration (`config_file.rs`, `run/config.rs`, `benchmarking_job.rs`, `sub_command/insert.rs`) | the file, what was read of it | find, load, reload, check; make jobs | |
| Listing, command logs, migration (`sub_command/list*.rs`, `output_table/`, `output_capture_log.rs`, `command_log_file.rs`, `util/grep_diff.rs`, `migrate.rs`) | logs, tables of old format | list, capture and search logs, migrate | queue of files |

What is hard in it, and what each part has to guarantee:

* **Death of a process between two file operations.** The daemon pushes a job
  to its next queue, then deletes the old file; an inserter writes a temporary
  file, then renames it; the insertion pushes a job, then replaces its table
  entry. No job may get lost in between, and what is done twice must be
  explained by a death.
* **State read before it is used.** Queues are read before a job is chosen;
  `jobqueue` lists keys before it opens them, and opens an entry before it has
  its lock; every user of the pool keeps a copy read when the pool was opened.
* **Locks tied to an open file.** A second `flock` through the same open file
  succeeds, and its unlock releases the first (`KeyVal::insert` under the lock
  of the table).
* **Sequences over several jobs.** A `stop_start` command must be in "stop"
  while the jobs of its queue execute and in "start" otherwise, whichever queue
  is next.
* **Progress.** Queues that keep their jobs and are open only at times, waiting
  workers, blocking locks.
* **Order in the log.** Threads write the log a buffer at a time, each in its
  own order but shuffled with the others, and the operating system gives the id
  of an ended thread to a new one. The evaluator has to find out from that which
  start belongs to which end, under which scope, in which thread; and what the
  end of the program, a failing write or a key-value between may leave behind.
* **Capacity.** Clones that are set aside after a failure do not count for the
  capacity, until somebody recycles them.
* **Temporary files of a process that may end in any way.** A child process
  deletes them when a pipe is closed. What it deletes must not be needed any
  more, neither by this job nor, after the daemon has executed itself anew under
  the same process id, by the next one; and results become visible only whole.
* **One clone for many pollers.** They share a directory and a symlink, each with
  its own copy of the pool, while upstream changes.
* **Signals that are counted.** Whoever changes a queue sends a signal after the
  change; several threads and processes regenerate the lists when there is one.
* **Names as database.** Results are found again by what their paths mean.

`PROJECT.json` lists each hazard at its line with the properties that cover it.

## Modules

Names are the source's names where TLA+ allows. A step between which a process
can die or another can act is an action; what happens under a lock that no
other step can observe is one action. Operators named `Name_Mistake` stand
before `Name` and differ from it by a plausible mistake; they serve to see that
each property notices a mistake of its kind, and nothing else uses them.
Auxiliary variables record history; guards do not read them, except for bounds.

### RunQueues, JobLifecycle

`RunQueues` models the pipeline and the daemon.

| TLA+ | Code |
|---|---|
| `entries`, records with key, queue, job, count, budget | the job files of all queues, `BenchmarkingJobState` |
| `snapshot`, `ReadQueues` | `RunQueues::data`, with its panic for an `Inactive` queue (`ReadQueuesPanics`) |
| `FirstOfItsQueue`, `MostPrioritized`, `SelectJob`, `SelectNothing` | `RunQueueData::most_prioritized_job`, `RunQueuesData::most_prioritized_job`, both `min_by_key` |
| `StopStartBe`, `StopStartFails` | `RunContext::stop_start_be`, `StopStartStatus::be`, `running_job_in_windowed_queue` |
| `RunSucceeds`, `RunFails`, `RunNotNeeded`, `Push`, `Delete` | `RunQueueWithNext::run_job`: a program that succeeds or fails, the queue and status that follow, then push, then delete |
| `Loop`, `Exit`, `Crash`, `Start` | loop of `run_queues`; `want_exit`, `once`; errors that leave the loop; a new process |
| `Insert`, `OpenWindow`, `CloseWindow`, `Withdraw` | the environment: new jobs, the clock, a person who deletes a job file |

`params`, `runs`, `errors`, `fate`, `rerun`, `doubled`, `orphans` are
auxiliary: what was asked for each job, what was executed, and which jobs and
commands were affected by a death.

`JobLifecycle` is the abstract specification: every job is at one place, moves
forward only, pays one execution for each move, and ends in the done or
erroneous queue or drops off, as its count and budget say. `RunQueues` refines
it (`ImplementsLifecycle`) with `place` the queue of the file that holds the job,
where between push and delete the new file counts. The refinement is checked
for deaths at steps other than between push and delete and without withdrawals;
with those the code does not implement it, as a job is then in two queues.

### KeyValQueue

One directory with files, temporary files (`temps`), the lock of the directory
and of each entry. `Inserters` do `Queue::push_front` (`TakeKey`, `LockDir`,
`CreateTmp`, `Rename`); `Workers` are processes of `jobqueue run` that iterate
(`WaitForEntries`, `SortedKeys`, `OpenNext`), lock (`Lock`, `LockTaken`), look
again whether the entry exists (`BeginLocked`, `EntryGone`), run a program,
delete and release; every combination of `--no-lock`, `--error-when-locked`,
`--delete-first` and waiting is a value of `opts`. `Commands` hold a lock on the
directory, `Listers` test a lock by taking it (`get_lock_status`). A process may
be killed at any step; the operating system then releases its locks.

### InsertJobs

`insert_jobs` called concurrently by several processes: lock the table, check
every job of the batch (`SkipKnown`, `CommitInvalid`, `Accept`), refuse or go on
(`Refuse`, `DryRun`, `StartInserting`), then for each job `Push`, `Unlist`,
`Record`. `Record` is `KeyVal::insert`, which may take the table's lock that
its own process has already, and which releases it for the process: from the
second job of a batch on, a process works without the lock. Time is a counter
advanced by pushes.

### WorkingDirectoryPool

On disk: `dirs`, the status `file` and the `head` of each, and the symlink
`current`. A directory's status file outlives the directory, and a directory
without a file is `CheckedOut`, as `WorkingDirectory::open` has it. The daemon
has a copy (`mem`, `memCommit`, `nextId`); each `evobench wd` process has another
one (`tmem`). Taking the pool's lock does not read anything again, so that each
critical section is one action on the disk *and* an old copy. Only the checkout
of a job continues the critical section of `SetProcessing` (`Unlocked`).

The daemon's steps are the test run at its start, `GetExisting`, `GetNew`
(`get_a_working_directory_for`), `SetProcessing`, `Checkout`, `RunEnds`,
`SetFinished`, `SetError`, `CleanUp` (`process_in_working_directory`,
`working_directory_cleanup`), and the reload on a signal. Which job is next,
whether other jobs need a commit, ages, numbers of runs and times of last use
are choices. Clones can fail, or be left without status file (`CloneCut`).

The tools' steps are `Mark`, `Unmark`, `Recycle`, `Delete`, `Cleanup`, `Enter`,
`ChangeHead`, `LeaveShell`, `RevertMark`. `--force` is assumed to be possible in
every case, since `Delete` and `Enter` accept it.

Auxiliary: `contested` are directories that a tool changed although what it knew
of them was not what was on disk, or whose commit was changed in a shell while
in use; `missed` says that a signal was sent while the daemon had the pool open
but not yet its signals (`bin/evobench.rs:353`); both are cleared when the daemon
reads the pool. `aside` and `recycled` record failures and recyclings.

### ProbesLog, LogDataTree, IndexByCallPath, Evaluation

`ProbesLog` models the library that is linked into the benchmarked program
(`src/evobench-probes/cpp`), with a program that does anything it can do with it:

| TLA+ | Code |
|---|---|
| `thread`, `Buffered`, `LogAny`, `WriteAll` | the thread-local `Buffer` with the announcement of its thread, `_log_any`, `Output::write_all` under its mutex |
| `enabled`, `Sees` | `Output::is_enabled`, which the probes read without a lock, see below |
| `OpenOutput`, `CloseOutput` | constructor and destructor of the global `Output` |
| `EnterScope`, `LeaveScope`, with `stack`, `skip`, `NextSkip` | constructors and destructors of `Scope` and `ScopeEveryN` |
| `LogKeyValue`, `LogPoint` | `log_key_value`, which never flushes; `log_point` |
| `EndBuffer`, `FlushLast` | the two halves of `~Buffer` |
| `StartThread`, `EndThread`, `EndProcess`, `Vanish` | the program: threads get free ids, end, call `exit`, return from main, are killed |

A message has a field `origin`, which says what really happened: the thread, the
number of the scope in it, and the scopes and key-values it was in. Neither the
library nor the evaluator reads it; it is what the properties compare the
evaluator's result with. `trail`, `made`, `calls` are auxiliary as well, `left`
is the bound. The write of `is_enabled` in the destructor is not synchronised
with the probes that read it, so that after it a thread sees either value
(`Sees`). A failing write leaves any part of its data, also of a line (`Torn`).

`LogDataTree` models `evobench-eval` from the log to its tables: `ReadFile` is
the check of the file (`LogData::read_file`), `StartSpan`, `AddKeyValue`,
`EndSpan` and `SkipMessage` are one turn each of the loop of
`LogDataTree::from_logdata`, `MakeTables` tells whether the tables can be made of
the tree. The variables are those of the function. Errors and panics are
`status`. It stands alone, with the log as a variable that never changes, in
order to be reasoned about for all logs.

`IndexByCallPath` adds the paths under which spans are summed up, for the four
sets of options that the tables are made with.

`Evaluation` composes them: the program runs; when it is gone, its file is
evaluated.

### CleanupDaemon, JobResults

`CleanupDaemon` is what `utillib/cleanup_daemon.rs` promises: processes that
write `Add` and `Cancel` to a pipe (`RegisterCleanup`, `CancelCleanup`), each
with a child that reads them (`ReadMessage`), sees the end of the pipe when it is empty and no
process has the writer any more (`SeeEnd`) and then deletes what is left
(`CleanItem`). `registered` is auxiliary.

`JobResults` is the second half of a job as a sequence of the daemon's steps
`pc`, with the cleanup daemons of several daemons one after the other:

| TLA+ | Code |
|---|---|
| `Start`, `StartHandler`, `Return`, `pid` | `get_run_lock`, `CleanupHandler::start`, the end of `run_queues`; a daemon that executes itself anew keeps its id |
| `RegisterLog`, `RegisterOutput`, `RemoveStale`, `StartProgram`, `ProgramEnds` | `run_job` before and during the program, with files named by process id in `bench_tmp_dir`; the removal of stale ones may fail, which is ignored |
| `CompressLog`, `CompressOutput`, `CompressStandard`, `DropOutput`, … | the moving of the results, and the deletion guards (`TemporaryFile::drop`: delete, then cancel) |
| `SaveCondition`, `Evaluate`, `Publish` | `schedule_condition.ron`, evaluation of the single run, the rename that publishes |
| `WriteExtract`, `NoExtract`, `ExtractIsRefused`, `DropStandard` | the rest of `post_process_single`, after the rename: the log extracts, written in place, and the uncompressed output |
| `SummarizeAll`, `Summarize` | `generate_summaries_for_key_dir`, for all runs and by situation |
| `StepFails`, `DropFails`, `Killed`, `ChildEnds` | any of these fails; the daemon or its child is killed |

`JobResults` is shown to implement `CleanupDaemon` (theorem `ImplementsCleanup`),
with the same variables: the daemon writes to the pipe only in the ways of the
abstract process, and nothing but the pipe makes the child delete.

### PollingPool, IndexFiles, Polling

`PollingPool` models `run/polling_pool.rs` on the operators of
`working_directory_pool.rs` that it uses: each process opens the pool once
(`Open`), asks (`Ask`), clones if its copy has no directory (`Clone`), takes the
lock and clears and sets `current` (`Enter`), looks for the commit, fetches and
looks again (`Check`, `Fetch`, `CheckAgain`), or resolves branches; then
`Finish`, or `SetAside` after an error. What a fetch brings is `Fetched`: with a
commit, that one and whatever tags lead to, but no branch; without, all branches
as well, since git then applies its default refspec. The comment at
`working_directory.rs:515-517` doubts the latter, see [Disagreements found](#disagreements-found). A
branch resolves or not; that it may resolve to an older commit is left out. Upstream changes (`Push`), git fails,
processes die. `copy` is what the process knows of the pool.

`IndexFiles` models the signals in shared memory as counters, and
`RegenerateIndexFiles::run_one`: see the latest signal, read, write, confirm what
was seen. `Polling` composes both: a poller that finds a commit to be valid
inserts its job, signals, and regenerates, as does the daemon's thread.

### Algorithms and its modules

Code without state of its own is modelled by operators. A state of `Algorithms`
is one case, and there is an action for each kind of input; a property compares
the result with its definition, or operators that have to fit together.

| Module | Code | Compared with |
|---|---|---|
| `OutputPaths` | `output_directory/structure.rs`, `key.rs`, `custom_parameter.rs`, names in `serde_types/` | parsing the path of a directory gives the directory, at every level, unless a parameter has a slash |
| `GitHistory` | `git.rs`, `git_tags.rs`, `versioned_dataset_dir.rs`, `dataset_dir_env_var.rs` | ancestors as a closure; the closest datasets by definition |
| `Statistics` | `stats_tables/`, `join.rs`, `util/tree.rs`, tables and summaries of `evaluator/` | values written out as often as their weight says; common keys; sums |
| `TimesAndNumbers` | `times.rs`, `time_ranges.rs`, `date_and_time.rs`, `priority.rs`, `digit_num.rs` | arithmetic without width; the next of all periods, also over a change of the clock |
| `Configuration` | `config_file.rs`, `config.rs`, `benchmarking_job.rs`, `insert.rs`, `val_or_ref.rs`, `fallback.rs` | each change reported once, but for one between read and stat; jobs made from an accepted configuration are accepted |
| `Listing` | `list.rs`, `list_all.rs`, `output_table/` | every insertion once and in order; titles above their cells |
| `CommandLogs` | `output_capture_log.rs`, `command_log_file.rs`, `grep_diff.rs` | the head and the lines are found again, whatever the order of two threads |
| `Migration` | `migrate.rs`, `tempfile_utils.rs` | all jobs are there and current, at every moment from before or after; idempotence |

## Runs

Each cfg names its bounds as constants. "States" are distinct states.

| Run | Instance | States | Shows |
|---|---|---|---|
| `runqueues` | 2 jobs, 2 sorts of parameters, a pipeline with an immediate queue, two windows and an `Inactive` queue, done queue, 1 crash anywhere, 1 withdrawal | 1,444,228 | job conservation, one holder, accounting, command switching, priorities, returned status |
| `runqueues_live` | 2 jobs, 3 sorts of parameters, an immediate queue and a window that keeps jobs; 1 crash | 197,996 | every job leaves; refinement of `JobLifecycle` |
| `runqueues_inactive` | as `runqueues`, no crash | violation | the `Inactive` queue panics |
| `keyvalqueue` | 2 workers, 1 inserter, 1 command, 1 lister, 2 keys, 1 death | 162,994 | exclusion, repetition only after death, no loss, commands undisturbed, entries leave |
| `insertjobs` | 2 processes, 2 parameters, 3 calls out of 5, 1 process mortal | 77,596 | insertion once, table and queue agree, refusal is complete, calls return |
| `workingdirs` | 2 commits, 2 `wd` processes that are used twice in all, capacity 1, 2 ids, 1 crash | 1,611,883 | right commit, current copy, free ids and capacity, set aside is unused |
| `workingdirs_cleaning` | 2 commits, no tools | violation | `wait_until_commit_done` is inverted |
| `evaluation` | 3 threads with 2 ids, 2 names of scopes, buffers of 2 messages, divider 2, 5 budgets of threads, scopes and other probes | 1,495,928 | the tree is the execution, nothing is missing, calls are counted, paths tell threads |
| `jobresults` | 2 daemons, the second perhaps the first executed anew, 2 runs, 2 situations, pipes of 2 messages, 1 death or failure | 5,146,288 | whole publication, children know the guards, nothing deleted early, nothing temporary left |
| `polling` | 2 pollers and the daemon's thread, 1 commit and 1 branch, 3 ids, 2 calls, 1 change upstream, 1 failure or death, 1 failed regeneration | 2,524,572 | symlink, answers, one clone, lists show the queues, signals are handled |
| `algorithms` | every topic over all inputs of a small set | 121,306 | the algorithms agree with their definitions |
| `algorithms_summary` | as `algorithms` | violation | summaries lack rows that all runs have |

Why these bounds are enough to be of interest:

* `runqueues`: with counts 4 and 1 and budgets 1 and 2, a job passes every
  queue and stays in `Inactive`, ends in done or by its error budget;
  two jobs compete by priority (in halves), by boost, by queue and by age; one
  crash leaves each possible remnant, which then is selected again. Further
  crashes repeat that; the proofs cover any number.
  No run has a pipeline whose last queue is a window that does not keep its jobs, so
  that a job with a count left drops off: the proofs cover every pipeline.
* `runqueues_live`: the parameters include the counts 0 and budgets 0 which
  lead to `RunNotNeeded`.
* `keyvalqueue`: two keys are needed for an order and for an entry that appears
  while a worker iterates; two workers for a race on one entry, where one has
  the default options, then others. One death is what leaves a temporary file,
  or an entry to be worked on again.
* `insertjobs`: batches of two jobs, in both orders and twice the same, since
  the lock covers the first job only; one forced and one dry call.
* `workingdirs`: capacity 1 with two ids has a full pool, a directory set aside
  and replaced by a clone, and the reuse of an id after a deletion and restart.
  Two uses of `wd` give a stale copy against a stale copy. Three uses, or three
  ids, are beyond a few minutes. `MaxId` also stops clones; the code has 2^64.
* `evaluation`: two ids for three threads make the third thread take the id of
  the second one or of main, if that called `exit` before; messages of one id
  then belong to two threads. Buffers of two messages (the code: 8192 bytes)
  flush in the middle of a scope and again at the end of the thread, in any order
  with the other threads. One name for plain scopes gives recursion: a scope in
  one of its own name. Divider 2 gives calls that are logged and calls that are
  not. All at once is beyond a few minutes: each behaviour has one of five
  budgets, such as two more threads and two scopes with a failing write, or one
  thread and three scopes.
* `jobresults`: two daemons with the same id are what makes a deletion by the
  first one's child meet the second one's files. A pipe of two messages (the
  code: that of the system) makes the daemon wait for its child. Two runs in two
  situations give summaries over one and over both.
* `polling`: a commit and a branch are what the two kinds of fetch distinguish;
  two calls let a poller use a copy that the other one has made stale;
  the change upstream comes before, between or after the two looks for the commit.
  Three ids are needed for two clones and one set aside.
* `algorithms`: widths are small so that both sides of each limit are met
  (seconds up to 5, 4 parts of a second, 4 hours a day, 4 tiles, `u32` up to 7);
  values of parameters are numbers, and texts with a file extension, a newline, a
  slash or too long; the configuration file is looked at five times, in any of
  three versions; histories have up to 4 commits with merges; tables have 2 runs with 3 keys;
  logs have up to 2 lines of each of 2 threads; tables to migrate have 3 entries.

Symmetry is used where the instance does not distinguish the values and only
safety is checked (jobs; commits and tools; thread ids; situations). Deadlock is
checked in the passing runs except `insertjobs`, which stops after the last call,
`evaluation`, which stops with the tables made or the log refused, `jobresults`,
which stops after the last daemon and its child, `polling`, which stops when
pollers have made their calls and all signals are handled, and `algorithms`,
where a state is a case.

What the properties say in detail is in the comment before each. In short:

* `InOneQueue` (`NoJobLost`, `OneHolder`), `RanAsAsked` (`RunsAccounted`,
  `DoneRanAsAsked`): at every moment, between any two file operations, each
  inserted job has a file or left for a reason; it has two only between push and
  delete; and successes plus remaining count is what was asked for, errors plus
  remaining budget likewise.
* `JobRunsUnderItsCommand`: the command of the selected queue and no other one
  is in "stop" while a job executes. What a daemon that ended left in "stop"
  (`orphans`) is excepted: nothing starts it again before its queue is next.
* `ChoosesOldestOfMostUrgent`: compares the choice by per-queue and overall
  `min_by_key` with its definition over all runnable jobs.
* `StatusTellsWhetherRunAgain`: the status on which the caller decides to delete
  uncompressed logs is `Active` just when the job has a file in a queue that is
  run. Jobs that move to an `Inactive` queue are excepted, see
  [Disagreements found](#disagreements-found).
* `ActedOnOnce` (`MutualExclusion`, `RepeatedOnlyAfterDeath`), `NoEntryLost`,
  `CommandsSeeNoInsertion`, `EveryEntryLeaves`: for the queue of files; workers
  that skip locking are excepted where they must be.
* `InsertedOnceUnlessLate`, `TableTellsInsertions` (`TableTellsAllInsertions`,
  `ListedWereInserted`), `RefusalInsertsNothing`, `CallsReturn`: what the lock of
  the table does achieve, given that it ends with the first job; `late` are later
  jobs.
* `RunsTheCommit`, `MemoryIsCurrent`, `ClonesHaveRoom` (`NextIdIsFree`,
  `WithinCapacity`), `SetAsideIsNotUsed`: for the pool; `contested` directories
  are excepted, so these also say that stale copies in `wd` are the *only* way to
  go wrong.
* `TreeIsTheExecution`: each scope in an accepted tree has its own end, its own
  ancestors and its own thread, by `origin`.
* `LogIsWholeOrRefused` (`NothingIsMissing`, `CleanLogIsAccepted`),
  `WeightsCountCalls`: if main waited for its threads, the log is accepted when
  all writes went well; when it is accepted it is complete, and the probes with a
  divider stand for the calls made.
* `CallPathsTellThreads`: two spans have the same path by thread exactly if they
  are in the same nest of names and in the same thread, and so on for the three
  other kinds of paths.
* `TreeIsWellFormed` (`SpansNest`, `ThreadNumbersTellThreads`): what the tree is
  worth even if the log is wrong; proved for all logs.
* `PublishedRunsAreWhole`: a published log is one that evobench-eval accepts, of
  its own run, and with it the directory has the captured output, the condition
  and the program's output, whole. Log extracts are the exception: they are written
  into the published directory and a death may leave them missing or cut short,
  but never without the log, nor when the run has ended well, which also puts it in
  both its summaries. A stale log can be taken for that of a run in one way only
  (`OwnLog`): a deletion had failed before, its removal at the start of the run
  fails as well, which `run_job` ignores, and the program writes none.
* `NothingIsDeletedEarly` (`OutputIsNeverLost`, `RunFindsItsLog`),
  `NothingTemporaryRemains`: deletion comes neither too early nor never. Excepted
  are runs where a deletion itself failed, and files of a program that outlived its
  daemon.
* `ChildrenKnowTheGuards`: at every moment, what a child with the daemon's process
  id will have in its set when the pipe ends is what the daemon has guards for (or
  is about to cancel), not something of an earlier run or of the daemon before it
  executed itself anew; however much of the pipe is still unread.
* `CurrentTellsTheDirectoryInUse`, `AnswersAreTrue`, `OneDirectory`: for the
  polling pool; git failures and deaths are excepted from the last one, since a
  directory that is set aside is replaced by a clone. For branches, `AnswersAreTrue`
  rests on git's updating them in a fetch without references (`Fetched`), which a
  comment of the code doubts.
* `IndexShowsTheQueues`, `SignalsAreHandled`: a change that was signalled is
  shown when no signal is pending, unless two have regenerated at the same time.
* The properties of `algorithms` have a part for each kind of case. `PathsAreReadBack`
  says of String parameters with a slash that they are not read back, and
  `ConfigurationIsExact` that a change of the file between its read and its stat is
  not reported; of priorities it asserts what the code does. All three are against
  comments in the code, see [Disagreements found](#disagreements-found).

## Fairness

* `RunQueues!FairSpec`: weak fairness of `Start` and of the daemon's steps: the
  daemon is restarted (`restart_on_failures`, `bin/evobench.rs`) and its process
  runs. Strong fairness of a window that opens while the daemon is about to
  select: it looks every second and a window lasts at least minutes, so that a
  window that comes round again is met. Strong fairness of `SelectJob`: a
  selected file is not withdrawn for ever. Exits and crashes are not fair; a
  daemon that ended is `down` and `Start` is enabled. An operator who stops the
  daemon for good is outside this assumption, and only liveness uses it.
* `KeyValQueue!FairSpec`: weak fairness of each worker, strong fairness of its
  blocking `flock` (a waiting process is given the lock some time, although
  others keep taking it for a moment), weak fairness of
  the end of a lister's test. Nothing is assumed of inserters and commands, of
  starting a process again, or of deaths. `EveryEntryLeaves` rests on a worker
  that waits for entries and is not killed.
* `InsertJobs!FairSpec`: weak fairness of the steps of a call, strong fairness
  of taking the lock. Nothing is assumed of new calls or deaths.
* `Polling!Spec`: weak fairness of the daemon's regeneration thread, a loop that
  calls `run_one` every half second. Its errors are not fair but bounded.
  Nothing is assumed of pollers: one may stop in the middle of a regeneration.
* The other specifications are without fairness and have safety properties only.

## Proofs

The `_proofs` modules prove the safety properties for every value of the
constants that satisfies the modules' `ASSUME`s: `ConfigAssumption` is what
`check_run_queues` enforces with the types of the configuration,
`PoolAssumption`, `FilesAssumption` and `ProbesAssumption` say of bounds and widths
that they are natural numbers, and like the others (`NoItemAssumption`,
`ProcessAssumption`, `CallsAssumption`, `NobodyAssumption`,
`PollersAssumption`, `RegeneratorsAssumption`) say that process names and null
values are distinct and arguments are of their types. `ProbesAssumption` also says
that no scope is named like a key-value: in a path, the one is `module|action`
(`evobench.hpp:203-221`), the other `key=value` (`log_data_tree.rs`). TLC evaluates all of them.

None of the properties is inductive. Each module has an inductive invariant whose
conjuncts are named; lemmas show that each conjunct is preserved, one step per
action or, where many actions are alike to a conjunct, per kind of action; the
properties follow from it. TLC has found each invariant to hold on the instance of
the component's run.

* **RunQueues**. `KeysBelowNext` makes a pushed file differ from the others.
  `SelectedIsSole` says that the selected file is its job's only one until the
  push, and `SuccessorPushed` that afterwards the other one is the successor:
  together they give `NoJobLost` and `OneHolder` over the delete. A job whose
  file was doubled by a death is in `doubled` and excepted from uniqueness;
  `DoubledWereRerun` carries that over to the accounts. `SelectedAccounted`
  keeps the account between the execution and the push, when the file on disk is
  behind. `VerdictIsConsistent` relates status, queue and count.
  `StoppedByWhom` says that what is in "stop" is the daemon's own command or an
  orphan. `OldestOfMostUrgentIsChosen` rests on that snapshots are finite
  (`FiniteStep`) and that finite sets have first elements in any order
  (`FirstOfFinite`): hence every queue with a job has a first one
  (`QueueHasFirst`), and the first of the first ones is the first of all.
* **JobLifecycle**. `QueuesImplementLifecycle` says that each step of `RunQueues`
  is a step of `JobLifecycle` or none, for the named mapping `PlaceOf`, `CountOf`,
  `BudgetOf`. Its hypothesis `Undisturbed` (no death between push and delete, no
  withdrawal) is that of the run, and is needed: otherwise a job is in two queues,
  which is what `OneHolder` and `RanAsAsked` are about. `LifeInv` adds to the
  invariant that no job is doubled and that the verdict follows from the job as it
  was read.
* **KeyValQueue**. `LocksAreHeld` relates program counters to locks,
  `WorkersKnow` says what a worker knows of its entry at each step,
  `StartsCounted` that an entry which is there and not worked on has been started
  as often as workers died on it, `KeysAreNew` and `DirectoryLocked` concern the
  insertion.
* **InsertJobs**. `LockUntilFirstRecord` is the centre: a process has the lock
  exactly from the check until its first record. As long as it has it,
  `ReadIsTrue` (what was read of the table is still so), therefore
  `RecordsWhatIsPushed`. `LateAreKnown` excepts the rest.

* **LogDataTree**. There are no constants and no assumptions: the log is any
  value whatsoever, also one that no program writes. `TreeInv` is the invariant.
  `StacksOK` says that the open spans of a thread are on its stack and nothing
  else is, in the order of their start: hence the span that ends is the latest
  open one, and spans cannot cross (`SpansNest`). `PositionsOK` says that spans
  are in the order of the log before the position of the reader, `NumbersOK`
  that a number in use belongs to a thread that has not ended; a number that was
  given back is never given again, since `nextNumber` grows.
* **Evaluation**. `WaitsForProgram` says that nothing has been made of the log
  before the program is gone, and a program that is gone does nothing: thus the
  steps of the tree are those of `LogDataTree` with a log that does not change,
  and its theorems carry over (`SameStep` and the other `Same` lemmas relate the
  two instances of it). That the tree is that of the execution, and that a log is
  accepted when it is whole, rests on two more invariants, for any number of
  threads, ids, names and scopes, buffers of any size and writes that fail
  anywhere.
  * `ProbesInv` is about the program. The messages of one thread id, in the file
    and then in the buffer of the thread that has the id now, are a `Chain`: each
    follows from the one before as a thread in the places after that one can make
    it (`Follows`), and the last one leaves the thread in the places it is in
    (`ThreadOK`); an id that nobody has is `Free`. A log with its last message
    is made of such chains, and if main has waited for its threads, each of them
    has ended in it and all that was logged is there (`SealedOK`). `ScopesOK`
    relates what a thread has logged to its scopes. `ThreadStepKeeps` shows that
    it is enough to look at the thread that makes the step.
  * `ReadInv` is about the evaluator in the middle of the log. The stack of each
    thread id is the thread and the places after its last message (`StackFits`),
    so that the next message finds its parent or what it ends (`ScopeStartFits`,
    `ScopeEndFits`, `ThreadEndFits`); each span has its own start and end
    (`SpanFits`); and a log of a program that ended well is not refused
    (`AcceptingOK`).
  * `TrailsAreTold` goes from there to the recursive function `Ancestry`: a
    function that tells of a span what is above it exists for the first k spans
    (`AncestryTells`), and the first span whose trail would not be that of the
    execution cannot be, since its parent comes before it. Both take the least
    counterexample (`Smallest`), which replaces induction.
  * `CountsInv` keeps the account for `WeightsCountCalls`: a message in a buffer is
    told of the thread that has the buffer (`OwnOK`), no thread announces itself
    twice (`StartsOK`), and the calls of a thread are `EveryN` for each logged one,
    but for what `skip` says is left of the round (`CallsOK`). When the log is
    read, the logged scopes are the spans (`SpansHaveStarts`), one each.
  * `ThreadsOK` says that the thread spans of an id follow each other. It needs that
    `StackFits`: when a thread starts, no span is open on the stack of its id.
    With `StartsOK` there is one thread span for each thread (`OneSpanPerThread`).
  * `PathsAreTold` is about the recursive function `PathStrings`. `PathOf` says
    outright which path a span has: the names of the nest that it is inside of,
    each at its depth. `PathOf` satisfies the equation of the recursion, and the
    first span where it would differ cannot be. Spans with the same path have
    therefore the same names above them (`NamesAgree`), and the root, if it has
    the number of a thread, is of one thread of the program (`RootsAgree`).
* **CleanupDaemon**. The property is not about a state of the child but about
  what its set *will be* when it has read the pipe. `LastMessageDecides` says how
  an appended message changes that, `ReadingKeepsTheMeaning` that reading the
  first message does not. With `NothingBeforeStart` the property is inductive.
* **JobResults** (with `CleanupDaemon` in `JobResults_proofs`). `EveryStepCleans`
  shows that each step of a daemon, a program or a child is one of `CleanupDaemon`
  or leaves its variables alone, which gives the refinement and with it
  `CleansWhatIsRegistered`. With the bookkeeping below, that becomes
  `ChildrenKnowTheGuards`. Four invariants are built on each other.
  * `ArchiveInv` is about the output of programs: where the only copy is at each
    step `pc` of the daemon (`ArchivesOnce`), that a deletion or a child's item is
    of a file that is whole in the archive already (`DeletesArchivedOutput`), and
    that a program that still writes has its file (`WritersHaveOutput`).
  * `LogsInv` adds the bookkeeping (`Books`) that makes names by process id safe.
    Ids are used again by a re-execution only (`IdsAreFresh`); of what an earlier
    child of the same id has been told, all is cancelled before (`RegistersOwn`);
    a file is deleted before it is cancelled (`DropsAreOrdered`). Therefore what
    lies under the names of a run is its own while it may read it (`LogsAreOwn`),
    and nothing that is needed is deleted.
  * `TempsAreCleaned`: whatever there is under the names of a process, some child
    is about to delete. When all children have ended, nothing is left.
  * `PublishInv` follows the directory of the current run as it grows
    (`OutputIsCompressed`, `LogIsCompressed`, `LogIsValid`, `ConditionIsSaved`) up
    to the rename, after which only the log extracts are written to it
    (`WholeWhenPublished`, `ExtractsComeLater`), none of which is cut short when the
    run is done (`DoneAtItsEnd`).
* **Polling**. `PollInv` says for each process what it can rely on: between
  `Enter` and `Finish` it has the lock and `current` is its directory
  (`WorkIsLocked`); the directory of its call has been cloned and stays
  (`UsedAreSettled`); when it has fetched without finding the commit, upstream
  did not have it (`MissingIsLacked`), which needs that a fetch brings what is asked
  for if upstream has it (`FetchBrings`) and that a directory has only commits that
  upstream had (`CommitsAreUpstreams`). `OthersStayGood` is that the
  steps of one process keep all that of another. Two more invariants use it.
  `IndexInv` counts: the state of the queues is ahead of the signals by the
  changes that are still to be signalled or never will be (`ChangesAreCounted`);
  and a process that regenerates alone has read the state after it has seen the
  signal (`AloneIsCurrent`). `OneInv` says that as long as nothing fails, only the
  first directory is ever cloned, and each copy of the pool knows either none or
  that one (`OnlyTheFirst`, `KnowsTheFirst`).
* **WorkingDirectoryPool**. `PoolInv` relates three views of a directory: what is
  on disk, what the daemon has in memory, and what was said of it in its file.
  `StatusIsSaved` is that a status in memory is that in the file, even if the
  directory was deleted; `UsableIsKnown` that memory and disk agree on what can be
  used, unless a signal is on its way or was missed; both but for `contested`
  directories. `JobKeepsDirectory` follows since a tool that knows a directory to
  be in use leaves it alone. `RoomIsKept` counts directories that can be used: the
  daemon makes one only if it has less than `Capacity`, so that any more are
  recycled ones. What a tool may do to a directory, with a copy of any age, is
  stated once (`ToolFacts`).

`PROJECT.json` lists the theorems, each with the property that it proves for
every value of the constants.

Only model-checked:

* All liveness (`EveryJobLeaves`, `EveryEntryLeaves`, `CallsReturn`,
  `SignalsAreHandled`), which needs fairness and `ENABLED`.
* `Algorithms`, seven properties. What they say of sequences of any length is said
  of folds and recursive operators, by induction over data: statistics and their
  joins, commit graphs, digits, the expansion of templates, the log's spans, the
  stages of a migration. For this the provers have nothing. The inputs are small
  and complete instead.

## Disagreements found

Three are runs that TLC finds violated, listed in `PROJECT.json`.

* `runqueues_inactive`: the configuration check proposes an `Inactive` queue at
  the end; a job that gets there makes the daemon panic whenever it reads the
  queues (`run/run_queue.rs:72`).
* `workingdirs_cleaning`: a directory is deleted just when other jobs need its
  commit, and kept when none does (`run/working_directory.rs:476`).
* `algorithms_summary`: the join of several runs' tables expects sorted keys and
  gets the names of probes before the paths: rows that all runs have are missing
  from the summary (`join.rs:28`).

Others seen while modelling, without a run. Where a property of a passing run is
about such a case, it follows the code:

* Job statuses. `JobStatus::Active` is documented as "It will still be run"
  (`run/run_queue.rs:131`), and is returned for a job that moves to the `Inactive`
  queue, where it is never run; `Inactive`, documented for a job in such a queue
  (137-138), is never returned. `StatusTellsWhetherRunAgain` excepts these jobs.
  `Done` is documented as having reached the end of the pipeline, perhaps with a
  count left, and `Dropped` as having run out of count before (132-142). The code has
  them the other way round (274-328): `Done` when the count is used up, in whichever
  queue, which is what `RanAsAsked` asserts, and `Dropped` at the end of the pipeline.
* Branches. The comment in `WorkingDirectory::fetch` (`run/working_directory.rs:515-517`)
  says: "Note: this does not update branches, right? But branch names should never be
  used for anything, OK?" But `resolve_branch_names` (`run/polling_pool.rs:161-189`)
  resolves names of the remote branches, after `updated_working_dir` has fetched
  without references. The jobs that poll inserts for a branch are current only because
  git updates the branches in such a fetch, which is how `Fetched` has it, and
  `AnswersAreTrue` would not hold otherwise.
* Paths. `run/key.rs:125-129` and `run/custom_parameter.rs:44-46` claim that name and
  value of a parameter always make a valid segment of a path ("there are no possible
  remaining invalid cases"). A String value may have a slash, since only NUL is
  refused (59-66); it makes two segments, from which another target and other
  parameters are read back (`PathsAreReadBack`). The length of a value is not checked
  either: `MAX_VALUE_STRING_LEN` is used nowhere.
* Priorities. `run/config.rs:616-618` says that the `priority` of a template is added
  to that of the inserter. The inserter's replaces it (`run/benchmarking_job.rs:336`),
  as the help of the option says (`run/sub_command/insert.rs:183`), and as
  `ConfigurationIsExact` has it.
* Reloading. `load_config` reads the file before it takes its time (`config_file.rs:311-312`):
  a change in between is never reported (`ConfigurationIsExact`), although
  `perhaps_reload_config` is to "check if the file that the config was loaded from has
  changed".
* Queues. `move_when_time_window_ends` has no effect (`run/config.rs:82-85`):
  `close_open_queues` is called nowhere. `jobqueue run` deletes an entry whatever
  the exit status (`bin/jobqueue.rs:72-74` against 232-238). Two pollers insert
  the same second commit twice, since the lock on the table ends with the first
  job of a batch (`run/insert_jobs.rs:42-44` and 176-182). A job file withdrawn while its job executes is written again
  by the push. `docs/internals/run/state.md` notes the `stop_start` command left
  in "stop" as open.
* Pools. Comments in `run/sub_command/wd.rs` (631, 636) argue that the lock
  excludes races that the stale copies allow. In the polling pool, the lock is
  taken anew after the action, so that an `Error` status can be overwritten by
  another process; a killed clone counts as `CheckedOut`; asking for a commit
  that is not valid may set the directory aside.
* Job execution. Log extracts are written after the rename that publishes a run, in
  place (`run/output_directory/post_process.rs:176-193`): a reader of a published run
  may find them missing or partial. Failures to remove stale logs are ignored
  (`run/run_job.rs:190-191`): if the program writes no log, the stale one is
  published. A comment on the start of the cleanup daemon
  (`bin/evobench.rs`) says that the child shares the run lock so that a daemon
  that is executed anew waits for it; the guard's explicit unlock releases it
  already. A `schedule_condition.ron` that a death has cut short makes later
  summaries of the key fail. If no run of a situation has a published log,
  `post_process.rs:85` passes over them and calls `evobench-eval` without paths,
  which then panics (`chunks(0)`, `bin/evobench-eval.rs:137`), and later jobs of
  the key fail. `.tmp-keep-alive` files of `bench_tmp_dir.rs` stay.
* Index files. Two that regenerate at the same time can leave the older list,
  although no signal is pending.
* Probes. The log of a program that returns from main while a thread is in a
  scope that was never flushed is accepted
  (`src/evobench-probes/README.md:104-106`); only the end of the program is looked
  for.
* Algorithms. A job inserted with a time in the future makes the listing fail
  (`sub_command/list.rs:335`). Lines of a log may be in another order than their
  times, and a span between them negative, since times are taken before the lock
  (`output_capture_log.rs:71`). The migration deletes entries before it saves the
  new ones (`migrate.rs:93-96`): a crash between loses jobs; and two old entries
  for one key replace a current one without `handle_conflict`. `checked_sub` of
  times panics instead of returning `None` when the seconds are equal and the
  parts are less; `to_string_ms` panics from 49.7 days on. A target whose name
  looks like a hash is taken for a key, when a level has to be found out.
  `from_commits` panics when a commit is not newer than its parent. "12:00:60" is
  accepted as a time and fails later.

## What is not modelled

* Formatting: texts, colours and links of listings, HTML, printing of tables,
  parsing of options, formats of the configuration (RON, JSON5, YAML), encoding
  of keys and values.
* `evobench-ndjson`, the queries of the silo (`silo/`), `evobench-util`: they
  convert files and ask servers, keep no state, and nothing of the system reads
  what they write. `utillib/` helpers without control of their own (lazy values,
  small vectors, logging).
* `limit` and `stop_at` of `jobqueue run`, which only end it earlier.
* git, the benchmarked program, `flock`, pipes and the signals in shared memory
  are external; they are modelled by how the code uses them: they may fail, and
  signals from before they were opened may or may not count. Start, stop and logs
  of daemons are in another crate.
* The clock: times grow in the modules with processes. `TimeKey` is unique by
  time, pid and a counter.
* `RunQueue::handle_timeout`, which nothing calls.
* Of job execution: `reason.ron` and the tables and flame graphs of the single run,
  which are written before the rename like the condition; environment variables of the program, the thread that keeps
  `bench_tmp_dir` from being cleaned, uncompressed logs that are kept for later
  runs (`bin/evobench.rs:373-391`).
* Of the polling pool: that `poll` as a daemon opens the pool anew in every
  iteration, which is another process here.
* Of the probes: times and resource usage with their differences, metadata and
  the name of the user in it, locking of the log file, `fork`, probes in static
  destructors that run after those of the library. A thread that is still running
  when the process ends may log until the process is over.
* Of the evaluator: decompression and reading in parallel chunks, points (`T`),
  which it ignores, the underflow of a difference when the clock is set back
  (`all_fields_table.rs:45`): a property of that would restate the subtraction.
* Numbers: statistics are fractions; the code's fixed point and floating point
  are not modelled, nor the significance of changes.

## Plan

Done, in this order: `RunQueues` with `JobLifecycle`, `KeyValQueue`,
`InsertJobs`, each with proofs; `WorkingDirectoryPool`; `ProbesLog`,
`LogDataTree` (with proofs), `IndexByCallPath` and `Evaluation`;
`CleanupDaemon` and `JobResults` with their proofs and refinement;
proofs about `WorkingDirectoryPool` and about `JobLifecycle`;
`PollingPool`, `IndexFiles` and `Polling` with proofs; `Algorithms` with the
modules of the pure algorithms; the proofs about `ProbesLog` and `Evaluation`,
with the counts and the paths of the tables.

Considered and left out: `PollingPool` as a refinement of an instance of
`WorkingDirectoryPool`. Both are made from `WorkingDirectoryPool` of the code, but
used differently: there one daemon has the pool in memory for as long as it runs,
here each poller opens a copy of its own and throws it away. A step of a poller
that changes its copy has no counterpart there.
