------------------------- MODULE WorkingDirectoryPool -------------------------
(***************************************************************************)
(* The clones of the target project that jobs are run in                   *)
(* (run/working_directory_pool.rs, run/working_directory.rs), used by the  *)
(* run daemon (bin/evobench.rs run_queues, run/run_queues.rs run_next_job, *)
(* run/run_job.rs) and by processes of `evobench wd` (sub_command/wd.rs).  *)
(*                                                                         *)
(* Every process has a copy of the pool in memory, read when it opens the  *)
(* pool.  The lock on the pool's base directory makes each critical        *)
(* section below one action, but a process does not read the pool again    *)
(* when it takes the lock.  Jobs run without the lock.                     *)
(***************************************************************************)
EXTENDS Integers, FiniteSets

CONSTANTS
    Commits,        \* commit ids of the target project
    Tools,          \* processes of `evobench wd`
    Capacity,       \* config: capacity of the pool
    HasDatasets,    \* config: versioned_datasets_base_dir is given
    AutoClean,      \* config: auto_clean is given ...
    WaitUntilCommitDone,  \* ... and what it says there
    Unknown,        \* a commit not looked up yet
    MaxId,          \* bound: the ids of working directories
    MaxToolRuns,    \* bound: how many `evobench wd` are run
    MaxCrashes      \* bound: how often the daemon dies

Ids == 1 .. MaxId
NoDir == 0

ASSUME PoolAssumption ==
    /\ Capacity \in Nat \ {0} /\ MaxId \in Nat
    /\ MaxToolRuns \in Nat /\ MaxCrashes \in Nat
    /\ HasDatasets \in BOOLEAN /\ AutoClean \in BOOLEAN
    /\ WaitUntilCommitDone \in BOOLEAN
    /\ Unknown \notin Commits

VARIABLES
    dirs,       \* the directories that exist
    file,       \* the status in each N.status file, "none" without a file
    head,       \* the checked out commit of each directory
    current     \* target of the symlink `current`

diskVars == <<dirs, file, head, current>>

(* The daemon *)
VARIABLES
    pc,         \* its next step
    nextId,     \* WorkingDirectoryPoolState::next_id
    mem,        \* all_entries: the status of each directory, "absent" if unknown
    memCommit,  \* WorkingDirectory::commit
    signal,     \* working_directory_change_signals not seen yet
    task,       \* what it uses a directory for: the test run or a job
    commit,     \* the job's commit
    more,       \* have_more_job_runs_for_same_commit
    wd          \* working_directory_id

daemonVars == <<pc, nextId, mem, memCommit, signal, task, commit, more, wd>>

(* Processes of `evobench wd` *)
VARIABLES
    tpc,        \* "idle", "opened" with a copy of the pool, or in a "shell"
    tmem,       \* the statuses in its copy
    tdir        \* the directory the shell was opened in

toolVars == <<tpc, tmem, tdir>>

(* Auxiliary: what happened since the daemon last read the pool *)
VARIABLES
    contested,  \* directories that a tool changed on stale knowledge
    missed,     \* a signal was sent when the daemon was not yet listening
    aside,      \* directories in which something failed, not yet recycled
    recycled,   \* how often a directory was recycled
    toolRuns, crashes

auxVars == <<contested, missed, aside, recycled, toolRuns, crashes>>
vars == <<diskVars, daemonVars, toolVars, auxVars>>

Statuses == {"CheckedOut", "Processing", "Error", "Finished", "Examination"}

(* Status::can_be_used_for_jobs *)
CanBeUsed(status) == status \in {"CheckedOut", "Processing", "Finished"}

(* Status::score; the others are never compared *)
Score(status) == CASE status = "CheckedOut" -> 1
                   [] status = "Processing" -> 2
                   [] status = "Finished" -> 4

PCs == {"down", "test", "signals", "get", "process", "checkout", "running",
        "succeeded", "failed", "cleanup", "loop_end", "reload"}

TypeOK ==
    /\ dirs \in SUBSET Ids /\ file \in [Ids -> Statuses \cup {"none"}]
    /\ head \in [Ids -> Commits] /\ current \in Ids \cup {NoDir}
    /\ pc \in PCs /\ nextId \in Nat
    /\ mem \in [Ids -> Statuses \cup {"absent"}]
    /\ memCommit \in [Ids -> Commits \cup {Unknown}]
    /\ signal \in BOOLEAN /\ task \in {"test", "job"}
    /\ commit \in Commits \cup {Unknown} /\ more \in BOOLEAN
    /\ wd \in Ids \cup {NoDir}
    /\ tpc \in [Tools -> {"idle", "opened", "shell"}]
    /\ tmem \in [Tools -> [Ids -> Statuses \cup {"absent"}]]
    /\ tdir \in [Tools -> Ids \cup {NoDir}]
    /\ contested \in SUBSET Ids /\ missed \in BOOLEAN
    /\ aside \in SUBSET Ids /\ recycled \in Nat
    /\ toolRuns \in Nat /\ crashes \in Nat

Absent == [d \in Ids |-> "absent"]
NoCommits == [d \in Ids |-> Unknown]

Init ==
    /\ dirs = {} /\ file = [d \in Ids |-> "none"]
    /\ head \in [Ids -> Commits] /\ (\A d, e \in Ids : head[d] = head[e])
    /\ current = NoDir
    /\ pc = "down" /\ nextId = 0 /\ mem = Absent /\ memCommit = NoCommits
    /\ signal = FALSE /\ task = "job" /\ commit = Unknown /\ more = FALSE
    /\ wd = NoDir
    /\ tpc = [t \in Tools |-> "idle"] /\ tmem = [t \in Tools |-> Absent]
    /\ tdir = [t \in Tools |-> NoDir]
    /\ contested = {} /\ missed = FALSE /\ aside = {} /\ recycled = 0
    /\ toolRuns = 0 /\ crashes = 0

-----------------------------------------------------------------------------
(* Opening the pool *)

(* WorkingDirectory::open: the default for a directory without status file *)
OnDisk(d) == IF d \notin dirs THEN "absent"
             ELSE IF file[d] = "none" THEN "CheckedOut" ELSE file[d]

ReadPool == [d \in Ids |-> OnDisk(d)]
FilesAfterOpen == [d \in Ids |-> IF d \in dirs THEN OnDisk(d) ELSE file[d]]

NextId_Count == Cardinality(dirs) + 1

(* One more than the largest number among the directories' names *)
NextId == IF dirs = {} THEN 1
          ELSE 1 + CHOOSE d \in dirs : \A e \in dirs : e <= d

OpenPool ==
    /\ mem' = ReadPool /\ memCommit' = NoCommits /\ nextId' = NextId
    /\ file' = FilesAfterOpen
    /\ contested' = {} /\ missed' = FALSE

Start ==
    /\ pc = "down"
    /\ OpenPool
    /\ pc' = IF HasDatasets THEN "test" ELSE "signals"
    /\ task' = IF HasDatasets THEN "test" ELSE "job"
    /\ UNCHANGED <<dirs, head, current, signal, commit, more, wd, toolVars,
                   aside, recycled, toolRuns, crashes>>

(* external: whether signals from before the opening count is not assumed *)
OpenSignals ==
    /\ pc = "signals"
    /\ signal' \in BOOLEAN
    /\ pc' = "get" /\ task' = "job"
    /\ UNCHANGED <<diskVars, nextId, mem, memCommit, commit, more, wd,
                   toolVars, auxVars>>

(* An error leaves run_queues, or the daemon is killed *)
GoDown ==
    /\ pc' = "down" /\ nextId' = 0 /\ mem' = Absent /\ memCommit' = NoCommits
    /\ signal' = FALSE /\ task' = "job" /\ commit' = Unknown /\ more' = FALSE
    /\ wd' = NoDir /\ contested' = {} /\ missed' = FALSE

-----------------------------------------------------------------------------
(* Getting a working directory *)

Active == {d \in Ids : CanBeUsed(mem[d])}

(* init_active_commit_ids, which fails if a directory has gone *)
CanInitCommits == \A d \in Active : memCommit[d] = Unknown => d \in dirs
InitCommits ==
    [d \in Ids |-> IF d \in Active /\ memCommit[d] = Unknown THEN head[d]
                   ELSE memCommit[d]]

(* max_by_key: the last one of those with the highest status *)
Best(S) ==
    CHOOSE d \in S : \A e \in S :
        \/ Score(mem[e]) < Score(mem[d])
        \/ Score(mem[e]) = Score(mem[d]) /\ e <= d

(* try_get_fitting_working_directory_for a commit, with the commits of all *)
(* queued jobs: one that has it checked out, else one that no job needs    *)
Fitting(c, queued) ==
    LET same == {d \in Active : InitCommits[d] = c}
    IN IF same # {} THEN same ELSE {d \in Active : InitCommits[d] \notin queued}

BelowCapacity == Cardinality(Active) < Capacity

NewJob(c, m) == commit' = c /\ more' = m
ClearCurrent == current' = NoDir

(* get_a_working_directory_for, then clear_current_working_directory *)
GetExisting ==
    /\ pc = "get" /\ CanInitCommits
    /\ \E queued \in SUBSET Commits, m \in BOOLEAN : \E c \in queued :
        /\ NewJob(c, m)
        /\ IF Fitting(c, queued) # {} THEN wd' = Best(Fitting(c, queued))
           ELSE ~BelowCapacity /\ wd' \in Active  \* by last_use
    /\ memCommit' = InitCommits /\ ClearCurrent
    /\ pc' = "process"
    /\ UNCHANGED <<dirs, file, head, nextId, mem, signal, task, toolVars,
                   auxVars>>

(* No active directory fits, and the pool is not full *)
NeedsNew(c, queued) == Fitting(c, queued) = {} /\ BelowCapacity

(* get_new; clone_repo checks out what is the remote's HEAD at the time *)
Clone(commits) ==
    /\ nextId \in Ids \ dirs
    /\ \E c \in Commits :
        /\ head' = [head EXCEPT ![nextId] = c]
        /\ memCommit' = [commits EXCEPT ![nextId] = c]
    /\ dirs' = dirs \cup {nextId}
    /\ file' = [file EXCEPT ![nextId] = "CheckedOut"]
    /\ mem' = [mem EXCEPT ![nextId] = "CheckedOut"]
    /\ wd' = nextId /\ nextId' = nextId + 1
    /\ aside' = aside \ {nextId}

GetNew ==
    /\ pc = "get" /\ CanInitCommits
    /\ \E queued \in SUBSET Commits, m \in BOOLEAN : \E c \in queued :
        NeedsNew(c, queued) /\ NewJob(c, m)
    /\ Clone(InitCommits) /\ ClearCurrent
    /\ pc' = "process"
    /\ UNCHANGED <<signal, task, toolVars, contested, missed, recycled,
                   toolRuns, crashes>>

(* get_first, for the test run *)
GetFirst ==
    /\ pc = "test" /\ Active # {}
    /\ wd' = CHOOSE d \in Active : \A e \in Active : d <= e
    /\ ClearCurrent
    /\ pc' = "process"
    /\ UNCHANGED <<dirs, file, head, nextId, mem, memCommit, signal, task,
                   commit, more, toolVars, auxVars>>

GetFirstNew ==
    /\ pc = "test" /\ Active = {}
    /\ Clone(memCommit) /\ ClearCurrent
    /\ pc' = "process"
    /\ UNCHANGED <<signal, task, commit, more, toolVars, contested, missed,
                   recycled, toolRuns, crashes>>

Cloning == \/ pc = "test" /\ Active = {}
           \/ /\ pc = "get" /\ CanInitCommits
              /\ \E queued \in SUBSET Commits : \E c \in queued :
                    NeedsNew(c, queued)

(* The clone fails, or the commit of a missing directory is looked up *)
GetFails ==
    /\ \/ Cloning
       \/ pc = "get" /\ ~CanInitCommits
    /\ GoDown
    /\ UNCHANGED <<diskVars, toolVars, aside, recycled, toolRuns, crashes>>

(* The daemon dies while it clones, the clone is completed nevertheless *)
CloneCut ==
    /\ Cloning /\ crashes < MaxCrashes
    /\ nextId \in Ids \ dirs
    /\ dirs' = dirs \cup {nextId}
    /\ \E c \in Commits : head' = [head EXCEPT ![nextId] = c]
    /\ crashes' = crashes + 1
    /\ aside' = aside \ {nextId}
    /\ GoDown
    /\ UNCHANGED <<file, current, toolVars, recycled, toolRuns>>

(* No job to run: the pool is not used *)
NoJob ==
    /\ pc = "get"
    /\ pc' = "loop_end"
    /\ UNCHANGED <<diskVars, nextId, mem, memCommit, signal, task, commit,
                   more, wd, toolVars, auxVars>>

-----------------------------------------------------------------------------
(* process_in_working_directory *)

MemAfter(status) == [mem EXCEPT ![wd] = status]

(* set_and_save_status: saved when it differs from the status in memory *)
FileAfter(status) ==
    IF mem[wd] = status THEN file ELSE [file EXCEPT ![wd] = status]

UseEnds ==
    /\ pc' = IF task = "job" THEN "loop_end" ELSE "signals"
    /\ wd' = NoDir /\ commit' = Unknown /\ more' = FALSE
    /\ UNCHANGED <<nextId, signal, task, contested, missed>>

(* The daemon goes on after the failure of a job, which run_job counts,    *)
(* but ends if the test run fails                                          *)
UseFails(memAfter, commitsAfter) ==
    IF task = "job"
    THEN UseEnds /\ mem' = memAfter /\ memCommit' = commitsAfter
    ELSE GoDown

(* The symlink must not be there, and is set; then the directory must be   *)
(* usable.  A job keeps the lock for its checkout.                         *)
SetProcessing ==
    /\ pc = "process"
    /\ current' = IF current = NoDir THEN wd ELSE current
    /\ IF current = NoDir /\ CanBeUsed(mem[wd])
       THEN /\ mem' = MemAfter("Processing") /\ file' = FileAfter("Processing")
            /\ pc' = IF task = "job" THEN "checkout" ELSE "running"
            /\ UNCHANGED <<nextId, memCommit, signal, task, commit, more, wd,
                           contested, missed>>
       ELSE UseFails(mem, memCommit) /\ UNCHANGED file
    /\ UNCHANGED <<dirs, head, toolVars, aside, recycled, toolRuns, crashes>>

(* checkout, where a commit that differs from the one in memory is an      *)
(* error, and the end of the critical section                              *)
Checkout ==
    /\ pc = "checkout" /\ wd \in dirs
    /\ IF head[wd] = commit
       THEN memCommit[wd] = commit /\ UNCHANGED <<head, memCommit, mem, file>>
       ELSE /\ head' = [head EXCEPT ![wd] = commit]
            /\ memCommit' = [memCommit EXCEPT ![wd] = commit]
            /\ mem' = MemAfter("CheckedOut") /\ file' = FileAfter("CheckedOut")
    /\ pc' = "running"
    /\ UNCHANGED <<dirs, current, nextId, signal, task, commit, more, wd,
                   toolVars, auxVars>>

(* ... or git fails, be it for a missing directory *)
CheckoutFails ==
    /\ pc = "checkout"
    /\ pc' = "failed"
    /\ UNCHANGED <<diskVars, nextId, mem, memCommit, signal, task, commit,
                   more, wd, toolVars, auxVars>>

(* The program of the job, or the search for datasets, ends *)
RunEnds ==
    /\ pc = "running"
    /\ pc' \in {"succeeded", "failed"}
    /\ UNCHANGED <<diskVars, nextId, mem, memCommit, signal, task, commit,
                   more, wd, toolVars, auxVars>>

(* needs_cleanup, of a directory of the minimum age and number of runs.    *)
(* The test run has no callback.                                           *)
NeedsCleanup ==
    AutoClean /\ (WaitUntilCommitDone => task = "test" \/ more)

SetFinished ==
    /\ pc = "succeeded"
    /\ mem' = MemAfter("Finished") /\ file' = FileAfter("Finished")
    /\ \/ UseEnds
       \/ /\ NeedsCleanup
          /\ pc' = "cleanup"
          /\ UNCHANGED <<nextId, signal, task, commit, more, wd, contested,
                         missed>>
    /\ UNCHANGED <<dirs, head, current, memCommit, toolVars, aside, recycled,
                   toolRuns, crashes>>

SetError_InMemory ==
    /\ pc = "failed"
    /\ UseFails(MemAfter("Error"), memCommit)
    /\ aside' = aside \cup {wd}
    /\ UNCHANGED <<diskVars, toolVars, recycled, toolRuns, crashes>>

(* The directory is set aside *)
SetError ==
    /\ pc = "failed"
    /\ file' = FileAfter("Error")
    /\ UseFails(MemAfter("Error"), memCommit)
    /\ aside' = aside \cup {wd}
    /\ UNCHANGED <<dirs, head, current, toolVars, recycled, toolRuns, crashes>>

(* working_directory_cleanup: the directory leaves the copy in memory even *)
(* if it cannot be deleted, which fails the use                            *)
CleanUp ==
    /\ pc = "cleanup"
    /\ IF wd \in dirs
       THEN /\ UseEnds /\ mem' = MemAfter("absent")
            /\ memCommit' = [memCommit EXCEPT ![wd] = Unknown]
       ELSE UseFails(MemAfter("absent"), [memCommit EXCEPT ![wd] = Unknown])
    /\ dirs' = dirs \ {wd} /\ aside' = aside \ {wd}
    /\ UNCHANGED <<file, head, current, toolVars, recycled, toolRuns, crashes>>

-----------------------------------------------------------------------------
(* The end of an iteration *)

Loop ==
    /\ pc = "loop_end" /\ ~signal
    /\ pc' = "get"
    /\ UNCHANGED <<diskVars, nextId, mem, memCommit, signal, task, commit,
                   more, wd, toolVars, auxVars>>

GotSignals ==
    /\ pc = "loop_end" /\ signal
    /\ signal' = FALSE /\ pc' = "reload"
    /\ UNCHANGED <<diskVars, nextId, mem, memCommit, task, commit, more, wd,
                   toolVars, auxVars>>

Reload ==
    /\ pc = "reload"
    /\ OpenPool
    /\ pc' = "get"
    /\ UNCHANGED <<dirs, head, current, signal, task, commit, more, wd,
                   toolVars, aside, recycled, toolRuns, crashes>>

Exit ==
    /\ pc = "loop_end"
    /\ GoDown
    /\ UNCHANGED <<diskVars, toolVars, aside, recycled, toolRuns, crashes>>

Crash ==
    /\ pc \notin {"down", "loop_end"} /\ crashes < MaxCrashes
    /\ GoDown
    /\ crashes' = crashes + 1
    /\ UNCHANGED <<diskVars, toolVars, aside, recycled, toolRuns>>

-----------------------------------------------------------------------------
(* evobench wd: opens the pool, then works with its copy *)

Unlocked == pc # "checkout"

ToolOpens(t) ==
    /\ tpc[t] = "idle" /\ Unlocked /\ toolRuns < MaxToolRuns
    /\ tmem' = [tmem EXCEPT ![t] = ReadPool]
    /\ file' = FilesAfterOpen
    /\ tpc' = [tpc EXCEPT ![t] = "opened"] /\ toolRuns' = toolRuns + 1
    /\ UNCHANGED <<dirs, head, current, daemonVars, tdir, contested, missed,
                   aside, recycled, crashes>>

ToolEnds(t) ==
    /\ tpc' = [tpc EXCEPT ![t] = "idle"]
    /\ tmem' = [tmem EXCEPT ![t] = Absent]
    /\ tdir' = [tdir EXCEPT ![t] = NoDir]

Known(t) == {d \in Ids : tmem[t][d] # "absent"}
SetAside(t, d) == tmem[t][d] \in {"Error", "Examination"}

(* The directories among S of which the tool knows something wrong *)
StaleIn(t, S) == {d \in S : tmem[t][d] # OnDisk(d)}

(* It only lists, or refuses what it is asked for *)
ToolDoesNothing(t) ==
    /\ tpc[t] = "opened"
    /\ ToolEnds(t)
    /\ UNCHANGED <<diskVars, daemonVars, auxVars>>

(* do_mark: only a directory that is set aside gets another status *)
DoMark(t, d, status) ==
    /\ tpc[t] = "opened" /\ Unlocked
    /\ SetAside(t, d) /\ tmem[t][d] # status
    /\ file' = [file EXCEPT ![d] = status]
    /\ contested' = contested \cup StaleIn(t, {d})

Mark(t, d) ==
    /\ DoMark(t, d, "Examination") /\ ToolEnds(t)
    /\ UNCHANGED <<dirs, head, current, daemonVars, missed, aside, recycled,
                   toolRuns, crashes>>

Unmark(t, d) ==
    /\ DoMark(t, d, "Error") /\ ToolEnds(t)
    /\ UNCHANGED <<dirs, head, current, daemonVars, missed, aside, recycled,
                   toolRuns, crashes>>

(* working_directory_change_signals.send_signal; the daemon opens them     *)
(* after its test run                                                      *)
Listening == pc \notin {"down", "signals"} /\ task = "job"
SendSignal ==
    /\ signal' = (signal \/ Listening)
    /\ missed' = (missed \/ (pc # "down" /\ ~Listening))
    /\ UNCHANGED <<pc, nextId, mem, memCommit, task, commit, more, wd>>

Recycle_Silent(t, d) ==
    /\ DoMark(t, d, "CheckedOut") /\ ToolEnds(t)
    /\ aside' = aside \ {d} /\ recycled' = recycled + 1
    /\ UNCHANGED <<dirs, head, current, daemonVars, missed, toolRuns, crashes>>

Recycle(t, d) ==
    /\ DoMark(t, d, "CheckedOut") /\ ToolEnds(t) /\ SendSignal
    /\ aside' = aside \ {d} /\ recycled' = recycled + 1
    /\ UNCHANGED <<dirs, head, current, toolRuns, crashes>>

InUse_Processing(t, d) ==
    d = current /\ pc # "down" /\ tmem[t][d] = "Processing"

(* What `delete --force` refuses.  Without it, only a directory in Error   *)
(* can be deleted.                                                         *)
InUse(t, d) ==
    d = current /\ pc # "down" /\ tmem[t][d] \in {"CheckedOut", "Processing"}

ToolDeletes(t, deleted, wanted) ==
    /\ dirs' = dirs \ deleted /\ aside' = aside \ deleted
    /\ contested' = contested \cup StaleIn(t, wanted)
    /\ ToolEnds(t)

Delete(t, d) ==
    /\ tpc[t] = "opened" /\ Unlocked
    /\ d \in Known(t) /\ ~InUse(t, d)
    /\ ToolDeletes(t, {d}, {d})
    /\ IF CanBeUsed(tmem[t][d]) THEN SendSignal ELSE UNCHANGED <<daemonVars, missed>>
    /\ UNCHANGED <<file, head, current, recycled, toolRuns, crashes>>

(* Cleanup of those in Error that are stale enough, ended by the first one *)
(* that does not exist any more                                            *)
Cleanup(t) ==
    /\ tpc[t] = "opened" /\ Unlocked
    /\ \E S \in (SUBSET {d \in Ids : tmem[t][d] = "Error"}) \ {{}} :
        ToolDeletes(t, {d \in S : \A e \in S : e <= d => e \in dirs}, S)
    /\ UNCHANGED <<file, head, current, daemonVars, missed, recycled, toolRuns,
                   crashes>>

(* Enter marks the directory, if it is set aside, and opens a shell in it  *)
(* (with --force also if it is not)                                        *)
Enter(t, d) ==
    /\ tpc[t] = "opened" /\ Unlocked
    /\ d \in Known(t) \cap dirs
    /\ IF SetAside(t, d)
       THEN /\ file' = IF tmem[t][d] = "Examination" THEN file
                       ELSE [file EXCEPT ![d] = "Examination"]
            /\ tmem' = [tmem EXCEPT ![t][d] = "Examination"]
            /\ contested' = contested \cup StaleIn(t, {d})
       ELSE UNCHANGED <<file, tmem, contested>>
    /\ tpc' = [tpc EXCEPT ![t] = "shell"] /\ tdir' = [tdir EXCEPT ![t] = d]
    /\ UNCHANGED <<dirs, head, current, daemonVars, missed, aside, recycled,
                   toolRuns, crashes>>

(* Somebody checks out another commit in the shell *)
ChangeHead(t) ==
    /\ tpc[t] = "shell" /\ tdir[t] \in dirs
    /\ \E c \in Commits : head' = [head EXCEPT ![tdir[t]] = c]
    /\ contested' = IF tdir[t] \in Active THEN contested \cup {tdir[t]}
                    ELSE contested
    /\ UNCHANGED <<dirs, file, current, daemonVars, toolVars, missed, aside,
                   recycled, toolRuns, crashes>>

(* The mark is left, or was not made *)
LeaveShell(t) ==
    /\ tpc[t] = "shell"
    /\ ToolEnds(t)
    /\ UNCHANGED <<diskVars, daemonVars, auxVars>>

(* do_revert: the directory was marked, and is not any more *)
RevertMark(t) ==
    /\ tpc[t] = "shell" /\ Unlocked /\ tmem[t][tdir[t]] = "Examination"
    /\ file' = [file EXCEPT ![tdir[t]] = "Error"]
    /\ contested' = contested \cup StaleIn(t, {tdir[t]})
    /\ ToolEnds(t)
    /\ UNCHANGED <<dirs, head, current, daemonVars, missed, aside, recycled,
                   toolRuns, crashes>>

-----------------------------------------------------------------------------

Daemon ==
    \/ Start \/ OpenSignals
    \/ GetExisting \/ GetNew \/ GetFirst \/ GetFirstNew \/ GetFails \/ NoJob
    \/ SetProcessing \/ Checkout \/ CheckoutFails \/ RunEnds
    \/ SetFinished \/ SetError \/ CleanUp
    \/ Loop \/ GotSignals \/ Reload

Tool(t) ==
    \/ ToolOpens(t) \/ ToolDoesNothing(t)
    \/ \E d \in Ids : \/ Mark(t, d) \/ Unmark(t, d) \/ Recycle(t, d)
                      \/ Delete(t, d) \/ Enter(t, d)
    \/ Cleanup(t)
    \/ ChangeHead(t) \/ LeaveShell(t) \/ RevertMark(t)

Next == Daemon \/ Exit \/ CloneCut \/ Crash \/ \E t \in Tools : Tool(t)

Spec == Init /\ [][Next]_vars

-----------------------------------------------------------------------------
(* Properties *)

(* A program runs in the directory that `current` points to, on the commit *)
(* of its job, and in a directory that the others see to be in use; only a *)
(* tool that acts on what it read some time ago interferes.                *)
RunsTheCommit ==
    pc = "running" /\ task = "job" /\ wd \notin contested =>
        /\ wd \in dirs /\ head[wd] = commit /\ current = wd
        /\ file[wd] \in {"CheckedOut", "Processing"}

(* What the daemon believes of the directories is so, unless it was or is  *)
(* to be told that it is not, or a tool acted on stale knowledge.          *)
Informed == signal \/ missed \/ pc = "reload"
MemoryIsCurrent ==
    pc # "down" /\ ~Informed =>
        \A d \in Ids \ contested :
            /\ CanBeUsed(mem[d]) <=> CanBeUsed(OnDisk(d))
            /\ CanBeUsed(mem[d]) => mem[d] = file[d]

(* The id of the next clone is not the name of a directory: otherwise no   *)
(* job could be run any more that needs one.                               *)
NextIdIsFree == pc # "down" => \A d \in dirs : d < nextId

(* The daemon uses no directory in which something failed, whenever it was *)
(* restarted since and whatever a tool does on stale knowledge, before     *)
(* somebody recycles it.                                                   *)
SetAsideIsNotUsed ==
    pc \in {"process", "checkout", "running"} => wd \notin aside

(* No more directories can be used than the pool has the capacity for, but *)
(* for those that were recycled.                                           *)
WithinCapacity ==
    Cardinality({d \in Ids : CanBeUsed(OnDisk(d))}) <= Capacity + recycled

(* A clone finds a name that is free, and is made only when the pool is    *)
(* not full, whatever the daemon's copy of the pool has missed.            *)
ClonesHaveRoom == NextIdIsFree /\ WithinCapacity

(* Directories are not deleted when any job for the same commit id is in   *)
(* the queue.                                                              *)
KeptUntilCommitDone ==
    [][CleanUp /\ WaitUntilCommitDone /\ task = "job" => ~more]_vars

=============================================================================
