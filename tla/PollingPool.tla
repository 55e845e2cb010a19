---------------------------- MODULE PollingPool ----------------------------
(***************************************************************************)
(* run/polling_pool.rs: processes that insert or poll ask the upstream     *)
(* repository for commits, through one working directory of a pool of its  *)
(* own.  Each has opened the pool by itself and keeps a copy of it, which  *)
(* nobody tells it to read again (signal_change: None).                    *)
(***************************************************************************)
EXTENDS Naturals, FiniteSets

CONSTANTS Pollers,    \* processes that insert or poll
          Commits,    \* commits, and names of branches that may resolve to one
          Branches,   \* those of them that are names of branches
          MaxDirs,    \* bounds: ids of working directories,
          MaxCalls,   \*         calls of a process with one pool,
          MaxPushes,  \*         changes of the repository upstream,
          MaxTrouble  \*         failures of git, and deaths

VARIABLES
    remote,   \* commits of the repository upstream
    dirs,     \* the working directories on disk: the status in their files
    commits,  \* the commits that each one has
    current,  \* the symlink `current`: an id, or None
    locked,   \* the process that has the lock on the base directory, or Nobody
    copy,     \* for each process, its WorkingDirectoryPoolState
    step,     \* where each process is
    using,    \* the working directory of its call
    asks,     \* the commit, or the branch, that it asks for
    kind,     \* its call: commit_is_valid, updated_working_dir, or resolve_branch_names
    answer,   \* its result: "unknown", "valid", "invalid", "updated", "error"
    calls,    \* how often it has asked
    lacked,   \* auxiliary: upstream did not have its commit at some time of the call
    had,      \* auxiliary: commits that upstream has ever had
    trouble, pushes \* how often git failed or a process died; changes upstream
poolVars == <<remote, dirs, commits, current, locked, copy, step, using, asks,
              kind, answer, calls, lacked, had, trouble, pushes>>

Ids == 0 .. MaxDirs - 1
None == MaxDirs
Nobody == "nobody"
ASSUME PollersAssumption ==
    Nobody \notin Pollers /\ MaxDirs \in Nat \ {0} /\ Branches \subseteq Commits
\* A clone that was interrupted has no status file; it counts as CheckedOut.
States == {"absent", "partial", "CheckedOut", "Processing", "Finished", "Error"}
CanBeUsedForJobs(s) == s \in {"CheckedOut", "Processing", "Finished"}

Kinds == {"commit", "update", "resolve"}
Acting == {"check", "fetch", "check again"}
Steps == Acting \cup {"start", "idle", "clone", "enter", "finish", "set aside", "end"}

PoolTypeOK ==
    /\ remote \subseteq Commits /\ had \subseteq Commits
    /\ dirs \in [Ids -> States] /\ commits \in [Ids -> SUBSET Commits]
    /\ current \in Ids \cup {None} /\ locked \in Pollers \cup {Nobody}
    /\ copy \in [Pollers -> [next : 0 .. MaxDirs, entries : [Ids -> States]]]
    /\ step \in [Pollers -> Steps] /\ using \in [Pollers -> Ids]
    /\ asks \in [Pollers -> Commits] /\ lacked \in [Pollers -> BOOLEAN]
    /\ kind \in [Pollers -> Kinds]
    /\ answer \in [Pollers -> {"unknown", "valid", "invalid", "updated", "error"}]

PoolInit ==
    /\ remote \in SUBSET Commits /\ had = remote
    /\ dirs = [d \in Ids |-> "absent"] /\ commits = [d \in Ids |-> {}]
    /\ current = None /\ locked = Nobody
    /\ copy = [p \in Pollers |-> [next |-> 0, entries |-> dirs]]
    /\ step = [p \in Pollers |-> "start"] /\ using = [p \in Pollers |-> 0]
    /\ asks \in [Pollers -> Commits] /\ kind = [p \in Pollers |-> "commit"]
    /\ answer = [p \in Pollers |-> "unknown"]
    /\ calls = [p \in Pollers |-> 0] /\ lacked = [p \in Pollers |-> FALSE]
    /\ trouble = 0 /\ pushes = 0

Goes(p, from, to) == step[p] = from /\ step' = [step EXCEPT ![p] = to]
IsFree == locked = Nobody
upstream == <<remote, had, pushes>>
question == <<asks, kind, calls, lacked>>

-----------------------------------------------------------------------------
\* Somebody pushes commits, or rewrites a branch so that commits are lost.
Push ==
    /\ pushes < MaxPushes
    /\ pushes' = pushes + 1
    /\ remote' \in SUBSET Commits \ {remote}
    /\ had' = had \cup remote'
    /\ lacked' = [p \in Pollers |-> lacked[p] \/ asks[p] \notin remote']
    /\ UNCHANGED <<dirs, commits, current, locked, copy, step, using, asks, kind,
                   answer, calls, trouble>>

\* PollingPool::open reads the pool, and saves the status of what has none.
Open(p) ==
    /\ IsFree
    /\ Goes(p, "start", "idle")
    /\ dirs' = [d \in Ids |-> IF dirs[d] = "partial" THEN "CheckedOut" ELSE dirs[d]]
    /\ LET present == {d \in Ids : dirs[d] # "absent"}
           next == CHOOSE n \in 0 .. MaxDirs :
                     /\ \A d \in present : d < n
                     /\ n = 0 \/ n - 1 \in present
       IN  copy' = [copy EXCEPT ![p] = [next |-> next, entries |-> dirs']]
    /\ UNCHANGED <<upstream, commits, current, locked, using, question, answer, trouble>>

NextId_OnDisk(p) == Cardinality({d \in Ids : dirs[d] # "absent"})

NextId(p) == copy[p].next

\* clear_current_working_directory, then get_first: the first one that can be
\* used, else a new one is cloned.  The lock is released when that is done.
\* commit_is_valid takes a commit; branches are only resolved after an update.
Ask(p, c, k) ==
    /\ IsFree
    /\ k = "commit" => c \notin Branches
    /\ step[p] = "idle" /\ calls[p] < MaxCalls
    /\ calls' = [calls EXCEPT ![p] = @ + 1]
    /\ asks' = [asks EXCEPT ![p] = c] /\ kind' = [kind EXCEPT ![p] = k]
    /\ lacked' = [lacked EXCEPT ![p] = c \notin remote]
    /\ answer' = [answer EXCEPT ![p] = "unknown"]
    /\ current' = None
    /\ LET usable == {d \in Ids : CanBeUsedForJobs(copy[p].entries[d])}
       IN  IF usable # {}
           THEN /\ using' = [using EXCEPT ![p] = CHOOSE d \in usable : \A e \in usable : d <= e]
                /\ step' = [step EXCEPT ![p] = "enter"]
                /\ UNCHANGED <<dirs, copy, locked>>
           ELSE /\ NextId(p) \in Ids
                /\ using' = [using EXCEPT ![p] = NextId(p)]
                /\ copy' = [copy EXCEPT ![p].next = NextId(p) + 1]
                /\ locked' = p
                /\ step' = [step EXCEPT ![p] = "clone"]
                /\ dirs' = IF dirs[NextId(p)] = "absent"
                           THEN [dirs EXCEPT ![NextId(p)] = "partial"] ELSE dirs
    /\ UNCHANGED <<upstream, commits, trouble>>

\* resolve_branch_names, resolve_references: in the directory that was updated,
\* which nobody looks for again.
Resolve(p) ==
    /\ IsFree
    /\ answer[p] = "updated" /\ Goes(p, "idle", "enter")
    /\ current' = None
    /\ kind' = [kind EXCEPT ![p] = "resolve"]
    /\ answer' = [answer EXCEPT ![p] = "unknown"]
    /\ UNCHANGED <<upstream, dirs, commits, locked, copy, using, asks, calls, lacked, trouble>>

\* The end of a call by an error.
Gives(p, result) ==
    /\ answer' = [answer EXCEPT ![p] = result]
    /\ step' = [step EXCEPT ![p] = IF result = "error" THEN "end" ELSE "idle"]

\* git clone, which refuses a directory that exists already, as another process
\* has used the same id; and which removes what it has made when it fails.
Clone(p) ==
    LET d == using[p]
    IN  /\ step[p] = "clone"
        /\ locked' = Nobody
        /\ \/ /\ dirs[d] = "partial"
              /\ dirs' = [dirs EXCEPT ![d] = "CheckedOut"]
              /\ commits' = [commits EXCEPT ![d] = remote]
              /\ copy' = [copy EXCEPT ![p].entries[d] = "CheckedOut"]
              /\ step' = [step EXCEPT ![p] = "enter"]
              /\ UNCHANGED <<answer, trouble>>
           \/ /\ dirs[d] = "partial" /\ trouble < MaxTrouble
              /\ trouble' = trouble + 1
              /\ dirs' = [dirs EXCEPT ![d] = "absent"]
              /\ Gives(p, "error")
              /\ UNCHANGED <<commits, copy>>
           \/ /\ dirs[d] # "partial"
              /\ Gives(p, "error")
              /\ UNCHANGED <<dirs, commits, copy, trouble>>
        /\ UNCHANGED <<upstream, current, using, question>>

\* set_and_save_status: to the copy and, if it has changed there, the file.
Save(p, d, status) ==
    /\ copy' = [copy EXCEPT ![p].entries[d] = status]
    /\ dirs' = IF copy[p].entries[d] = status THEN dirs ELSE [dirs EXCEPT ![d] = status]

\* What the action does: look and perhaps fetch and look again, fetch, or look.
FirstStep == [commit |-> "check", update |-> "fetch", resolve |-> "check again"]

\* process_in_working_directory up to the action, which gets the lock;
\* set_current_working_directory fails when somebody has set `current` since
\* this process has cleared it.
Enter_Unlocked(p) ==
    /\ IsFree /\ step[p] = "enter"
    /\ current' = using[p] /\ UNCHANGED locked
    /\ Save(p, using[p], "Processing")
    /\ step' = [step EXCEPT ![p] = FirstStep[kind[p]]]
    /\ UNCHANGED <<upstream, commits, using, question, answer, trouble>>

Enter(p) ==
    /\ IsFree /\ step[p] = "enter"
    /\ IF current # None
       THEN Gives(p, "error") /\ UNCHANGED <<dirs, copy, current, locked>>
       ELSE /\ current' = using[p] /\ locked' = p
            /\ Save(p, using[p], "Processing")
            /\ step' = [step EXCEPT ![p] = FirstStep[kind[p]]]
            /\ UNCHANGED answer
    /\ UNCHANGED <<upstream, commits, using, question, trouble>>

\* commit_is_valid: check_exists before a fetch and, if needed, after it.  With
\* the action, the lock ends.
Knows(p) == asks[p] \in commits[using[p]]
Check(p) ==
    /\ step[p] = "check"
    /\ IF Knows(p)
       THEN /\ answer' = [answer EXCEPT ![p] = "valid"]
            /\ step' = [step EXCEPT ![p] = "finish"] /\ locked' = Nobody
       ELSE /\ step' = [step EXCEPT ![p] = "fetch"] /\ UNCHANGED <<answer, locked>>
    /\ UNCHANGED <<upstream, dirs, commits, current, copy, using, question, trouble>>

\* What `git fetch --tags` brings.  With a commit: that one, and whatever the tags
\* lead to, but no branch.  Without any, git's default refspec applies, so that the
\* branches are updated; the comment in `fetch` doubts it.
Fetched(p) ==
    IF kind[p] = "update" THEN {remote}
    ELSE {(remote \cap {asks[p]}) \cup tagged : tagged \in SUBSET (remote \ Branches)}

\* WorkingDirectory::fetch; that of one commit may fail if upstream does not have it.
Fetch(p) ==
    /\ step[p] = "fetch"
    /\ \/ /\ \E new \in Fetched(p) : commits' = [commits EXCEPT ![using[p]] = @ \cup new]
          /\ IF kind[p] = "update"
             THEN /\ answer' = [answer EXCEPT ![p] = "updated"]
                  /\ step' = [step EXCEPT ![p] = "finish"] /\ locked' = Nobody
             ELSE /\ step' = [step EXCEPT ![p] = "check again"] /\ UNCHANGED <<answer, locked>>
          /\ UNCHANGED trouble
       \/ /\ LET lacks == kind[p] = "commit" /\ asks[p] \notin remote
             IN  /\ lacks \/ trouble < MaxTrouble
                 /\ trouble' = IF lacks THEN trouble ELSE trouble + 1
          /\ step' = [step EXCEPT ![p] = "set aside"] /\ locked' = Nobody
          /\ UNCHANGED <<commits, answer>>
    /\ UNCHANGED <<upstream, dirs, current, copy, using, question>>

CheckAgain_Not(p) ==
    /\ step[p] = "check again"
    /\ answer' = [answer EXCEPT ![p] = "invalid"]
    /\ step' = [step EXCEPT ![p] = "finish"] /\ locked' = Nobody
    /\ UNCHANGED <<upstream, dirs, commits, current, copy, using, question, trouble>>

CheckAgain(p) ==
    /\ step[p] = "check again"
    /\ answer' = [answer EXCEPT ![p] = IF Knows(p) THEN "valid" ELSE "invalid"]
    /\ step' = [step EXCEPT ![p] = "finish"] /\ locked' = Nobody
    /\ UNCHANGED <<upstream, dirs, commits, current, copy, using, question, trouble>>

\* The rest of process_in_working_directory, after taking the lock again; the
\* directory is not cleaned up (auto_clean is as good as never).
Finish(p) ==
    /\ IsFree
    /\ Goes(p, "finish", "idle")
    /\ Save(p, using[p], "Finished")
    /\ UNCHANGED <<upstream, commits, current, locked, using, question, answer, trouble>>
SetAside(p) ==
    /\ IsFree /\ step[p] = "set aside"
    /\ Save(p, using[p], "Error")
    /\ Gives(p, "error")
    /\ UNCHANGED <<upstream, commits, current, locked, using, question, trouble>>

\* A process is killed; the system releases its lock.
Die(p) ==
    /\ step[p] \notin {"start", "end"} /\ trouble < MaxTrouble
    /\ trouble' = trouble + 1
    /\ step' = [step EXCEPT ![p] = "end"]
    /\ answer' = [answer EXCEPT ![p] = "error"]
    /\ locked' = IF locked = p THEN Nobody ELSE locked
    /\ UNCHANGED <<upstream, dirs, commits, current, copy, using, question>>

PollerNext(p) ==
    \/ Open(p) \/ (\E c \in Commits, k \in {"commit", "update"} : Ask(p, c, k))
    \/ Resolve(p) \/ Clone(p) \/ Enter(p)
    \/ Check(p) \/ Fetch(p) \/ CheckAgain(p) \/ Finish(p) \/ SetAside(p) \/ Die(p)

-----------------------------------------------------------------------------
\* Processes never work in the same directory at the same time, and while one
\* works, the symlink `current` names its directory: nobody clears or sets it in
\* between (process_in_working_directory, clear_ and set_current_working_directory).
CurrentTellsTheDirectoryInUse ==
    /\ Cardinality({p \in Pollers : step[p] \in Acting}) <= 1
    /\ \A p \in Pollers : step[p] \in Acting => current = using[p]

\* commit_is_valid and resolve_branch_names find only what upstream has had, and fail
\* to find only what upstream did not have at some time of the call, or since the
\* call of updated_working_dir before it.  For a branch this rests on that call's
\* fetch to update branches (Fetched), which a comment doubts: "this does not update
\* branches, right? But branch names should never be used for anything, OK?"
\* (working_directory.rs:515-517).
AnswersAreTrue ==
    \A p \in Pollers : /\ answer[p] = "valid" => asks[p] \in had
                       /\ answer[p] = "invalid" => lacked[p]

\* As long as git works and nobody dies, there is one directory, whoever clones it
\* with whatever copy of the pool (get_first, next_id; the pool's capacity is 1).
OneDirectory ==
    (trouble = 0 /\ \A p \in Pollers : step[p] # "set aside" /\ answer[p] # "error")
    => Cardinality({d \in Ids : dirs[d] # "absent"}) <= 1
=============================================================================
