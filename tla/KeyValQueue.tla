----------------------------- MODULE KeyValQueue -----------------------------
(***************************************************************************)
(* One directory used as a queue: one file per entry (key_val_fs/          *)
(* key_val.rs, key_val_fs/queue.rs, io_utils/lockable_file.rs), shared by  *)
(* the processes of bin/jobqueue.rs that insert entries, work on them,     *)
(* list them, or run a command under the lock on the directory.            *)
(*                                                                         *)
(* flock ties a lock to a process: the operating system releases it when   *)
(* the process ends.  A key (time, pid, counter) is never used twice.      *)
(***************************************************************************)
EXTENDS Integers, FiniteSets

CONSTANTS
    Workers,      \* processes of `jobqueue run`
    Inserters,    \* processes of `jobqueue insert`
    Commands,     \* processes of `jobqueue with-{exclusive,shared}-lock`
    Listers,      \* processes of `jobqueue list`
    Options,      \* worker -> the options it can be started with
    Mortal,       \* the workers and inserters that may be killed
    MaxKey,       \* bound: how many keys are generated
    MaxDeaths,    \* bound: how many processes are killed
    Nobody, NoKey

Keys == 1 .. MaxKey

OptionsType == [no_lock: BOOLEAN, error_when_locked: BOOLEAN,
                delete_first: BOOLEAN, wait: BOOLEAN]

ASSUME ProcessAssumption ==
    /\ Options \in [Workers -> SUBSET OptionsType]
    /\ \A w \in Workers : Options[w] # {}
    /\ MaxKey \in Nat /\ MaxDeaths \in Nat
    /\ NoKey \notin Keys
    /\ Nobody \notin Workers \cup Listers
    /\ Workers \cap Listers = {} /\ Inserters \cap Commands = {}

VARIABLES
    files,       \* keys of the entries in the directory
    temps,       \* keys whose temporary file is in the directory
    nextKey,     \* TimeKey::now
    dirLock,     \* the lock each process has on the directory
    entryLock,   \* key -> the process with the lock on the entry's file
    ipc, ikey,   \* inserters: next step, key of the entry
    opts,        \* workers: the options of the current process
    wpc,         \* workers: next step
    todo,        \* workers: the sorted keys not yet looked at
    cur,         \* workers: key of the entry that is open
    probed       \* listers: key of the entry whose lock is tested

(* Auxiliary: what happened to the entries *)
VARIABLES
    inserted,    \* entries that were in the directory
    starts,      \* how often a worker began to act on the entry
    deaths,      \* how often that worker died before it deleted the entry
    completed,   \* entries acted on to the end
    risked,      \* entries deleted before a worker acted on them
    unlocked,    \* entries that a worker without locking acted on
    killed       \* number of processes killed

insVars == <<temps, nextKey, ipc, ikey>>
workVars == <<opts, wpc, todo, cur>>
auxVars == <<inserted, starts, deaths, completed, risked, unlocked,
             killed>>
vars == <<files, insVars, dirLock, entryLock, workVars, probed, auxVars>>

WorkerSteps == {"wait", "keys", "next", "lock", "exists", "run", "delete",
                "release", "ended"}
Executing(w) == wpc[w] \in {"run", "delete"}
Locks(w) == ~opts[w].no_lock

TypeOK ==
    /\ files \in SUBSET Keys /\ temps \in SUBSET Keys
    /\ nextKey \in Nat \ {0}
    /\ dirLock \in [Inserters \cup Commands -> {"none", "shared", "exclusive"}]
    /\ entryLock \in [Keys -> Workers \cup Listers \cup {Nobody}]
    /\ ipc \in [Inserters -> {"idle", "lock", "create", "rename"}]
    /\ ikey \in [Inserters -> Keys \cup {NoKey}]
    /\ opts \in [Workers -> OptionsType]
    /\ wpc \in [Workers -> WorkerSteps]
    /\ todo \in [Workers -> SUBSET Keys]
    /\ cur \in [Workers -> Keys \cup {NoKey}]
    /\ probed \in [Listers -> Keys \cup {NoKey}]
    /\ inserted \in SUBSET Keys
    /\ starts \in [Keys -> Nat] /\ deaths \in [Keys -> Nat]
    /\ completed \in SUBSET Keys
    /\ risked \in SUBSET Keys /\ unlocked \in SUBSET Keys /\ killed \in Nat

Init ==
    /\ files = {} /\ temps = {} /\ nextKey = 1
    /\ dirLock = [p \in Inserters \cup Commands |-> "none"]
    /\ entryLock = [k \in Keys |-> Nobody]
    /\ ipc = [i \in Inserters |-> "idle"] /\ ikey = [i \in Inserters |-> NoKey]
    /\ opts \in [Workers -> OptionsType]
    /\ \A w \in Workers : opts[w] \in Options[w]
    /\ wpc = [w \in Workers |-> "wait"] /\ todo = [w \in Workers |-> {}]
    /\ cur = [w \in Workers |-> NoKey] /\ probed = [l \in Listers |-> NoKey]
    /\ inserted = {} /\ starts = [k \in Keys |-> 0] /\ deaths = [k \in Keys |-> 0]
    /\ completed = {} /\ risked = {} /\ unlocked = {} /\ killed = 0

-----------------------------------------------------------------------------
(* Inserting: Queue::push_front, KeyVal::insert *)

CanLockDir(mode) ==
    \A p \in Inserters \cup Commands :
        \/ dirLock[p] = "none"
        \/ mode = "shared" /\ dirLock[p] = "shared"

(* The key is made before the lock is taken: entries can appear in the     *)
(* directory in another order than that of their keys                      *)
TakeKey(i) ==
    /\ ipc[i] = "idle" /\ nextKey <= MaxKey
    /\ ikey' = [ikey EXCEPT ![i] = nextKey]
    /\ nextKey' = nextKey + 1
    /\ ipc' = [ipc EXCEPT ![i] = "lock"]
    /\ UNCHANGED <<files, temps, dirLock, entryLock, workVars, probed, auxVars>>

LockDir_NotAtAll(i) ==
    /\ ipc[i] = "lock"
    /\ ipc' = [ipc EXCEPT ![i] = "create"]
    /\ UNCHANGED <<files, temps, nextKey, ikey, dirLock, entryLock, workVars,
                   probed, auxVars>>

LockDir(i) ==
    /\ ipc[i] = "lock" /\ CanLockDir("exclusive")
    /\ dirLock' = [dirLock EXCEPT ![i] = "exclusive"]
    /\ ipc' = [ipc EXCEPT ![i] = "create"]
    /\ UNCHANGED <<files, temps, nextKey, ikey, entryLock, workVars, probed,
                   auxVars>>

(* The value is written and synced in a file whose name starts with a dot. *)
(* An existing file of that name would be an error; keys are new, though.  *)
CreateTmp(i) ==
    /\ ipc[i] = "create" /\ ikey[i] \notin files
    /\ temps' = temps \cup {ikey[i]}
    /\ ipc' = [ipc EXCEPT ![i] = "rename"]
    /\ UNCHANGED <<files, nextKey, ikey, dirLock, entryLock, workVars, probed,
                   auxVars>>

Rename(i) ==
    /\ ipc[i] = "rename"
    /\ temps' = temps \ {ikey[i]} /\ files' = files \cup {ikey[i]}
    /\ dirLock' = [dirLock EXCEPT ![i] = "none"]
    /\ ipc' = [ipc EXCEPT ![i] = "idle"] /\ ikey' = [ikey EXCEPT ![i] = NoKey]
    /\ inserted' = inserted \cup {ikey[i]}
    /\ UNCHANGED <<nextKey, entryLock, workVars, probed, starts, deaths,
                   completed, risked, unlocked, killed>>

InserterDies(i) ==
    /\ i \in Mortal /\ killed < MaxDeaths /\ ipc[i] # "idle"
    /\ dirLock' = [dirLock EXCEPT ![i] = "none"]
    /\ ipc' = [ipc EXCEPT ![i] = "idle"] /\ ikey' = [ikey EXCEPT ![i] = NoKey]
    /\ killed' = killed + 1
    /\ UNCHANGED <<files, temps, nextKey, entryLock, workVars, probed, inserted,
                   starts, deaths, completed, risked, unlocked>>

(* with-exclusive-lock, with-shared-lock: a command runs under the lock *)
BeginCommand(c) ==
    /\ dirLock[c] = "none"
    /\ \E mode \in {"shared", "exclusive"} :
        /\ CanLockDir(mode)
        /\ dirLock' = [dirLock EXCEPT ![c] = mode]
    /\ UNCHANGED <<files, insVars, entryLock, workVars, probed, auxVars>>

EndCommand(c) ==
    /\ dirLock[c] # "none"
    /\ dirLock' = [dirLock EXCEPT ![c] = "none"]
    /\ UNCHANGED <<files, insVars, entryLock, workVars, probed, auxVars>>

(* get_lock_status tests a lock by taking it for a moment *)
Probe(l) ==
    /\ probed[l] = NoKey
    /\ \E k \in files :
        /\ entryLock[k] = Nobody
        /\ entryLock' = [entryLock EXCEPT ![k] = l]
        /\ probed' = [probed EXCEPT ![l] = k]
    /\ UNCHANGED <<files, insVars, dirLock, workVars, auxVars>>

EndProbe(l) ==
    /\ probed[l] # NoKey
    /\ entryLock' = [entryLock EXCEPT ![probed[l]] = Nobody]
    /\ probed' = [probed EXCEPT ![l] = NoKey]
    /\ UNCHANGED <<files, insVars, dirLock, workVars, auxVars>>
-----------------------------------------------------------------------------
(* Working on the entries: Queue::items and the loop of `jobqueue run` *)

Goto(w, step) == wpc' = [wpc EXCEPT ![w] = step]

(* wait_for_entries: any file counts, a temporary one, too *)
WaitForEntries(w) ==
    /\ wpc[w] = "wait"
    /\ opts[w].wait => files \cup temps # {}
    /\ Goto(w, "keys")
    /\ UNCHANGED <<opts, files, insVars, dirLock, entryLock, todo, cur, probed,
                   auxVars>>

SortedKeys(w) ==
    /\ wpc[w] = "keys"
    /\ todo' = [todo EXCEPT ![w] = files]
    /\ Goto(w, "next")
    /\ UNCHANGED <<opts, files, insVars, dirLock, entryLock, cur, probed, auxVars>>

(* entry_opt and get: the next entry is opened and its value read, or it   *)
(* has disappeared and is skipped                                          *)
OpenNext(w) ==
    /\ wpc[w] = "next"
    /\ \E k \in todo[w] :
        /\ \A h \in todo[w] : k <= h
        /\ todo' = [todo EXCEPT ![w] = @ \ {k}]
        /\ \/ k \in files /\ Goto(w, "lock") /\ cur' = [cur EXCEPT ![w] = k]
           \/ k \notin files /\ UNCHANGED <<wpc, cur>>
    /\ UNCHANGED <<opts, files, insVars, dirLock, entryLock, probed, auxVars>>

NoMore_EndsAlways(w) ==
    /\ wpc[w] = "next" /\ todo[w] = {}
    /\ Goto(w, "ended")
    /\ UNCHANGED <<opts, files, insVars, dirLock, entryLock, todo, cur, probed,
                   auxVars>>

NoMore(w) ==
    /\ wpc[w] = "next" /\ todo[w] = {}
    /\ Goto(w, IF opts[w].wait THEN "wait" ELSE "ended")
    /\ UNCHANGED <<opts, files, insVars, dirLock, entryLock, todo, cur, probed,
                   auxVars>>

(* The program is started, after the entry was deleted with delete_first *)
Begin_DeletesAlways(w) ==
    /\ files' = files \ {cur[w]}
    /\ starts' = [starts EXCEPT ![cur[w]] = @ + 1]
    /\ risked' = IF opts[w].delete_first THEN risked \cup {cur[w]} ELSE risked
    /\ Goto(w, "run")

Begin(w) ==
    /\ files' = IF opts[w].delete_first THEN files \ {cur[w]} ELSE files
    /\ starts' = [starts EXCEPT ![cur[w]] = @ + 1]
    /\ risked' = IF opts[w].delete_first THEN risked \cup {cur[w]} ELSE risked
    /\ Goto(w, "run")

(* Without locking, the entry need not even exist any more *)
BeginUnlocked(w) ==
    /\ wpc[w] = "lock" /\ opts[w].no_lock
    /\ Begin(w)
    /\ unlocked' = unlocked \cup {cur[w]}
    /\ UNCHANGED <<opts, insVars, dirLock, entryLock, todo, cur, probed, inserted,
                   deaths, completed, killed>>

Lock(w) ==
    /\ wpc[w] = "lock" /\ Locks(w)
    /\ entryLock[cur[w]] = Nobody
    /\ entryLock' = [entryLock EXCEPT ![cur[w]] = w]
    /\ Goto(w, "exists")
    /\ UNCHANGED <<opts, files, insVars, dirLock, todo, cur, probed, auxVars>>

(* error_when_locked: the lock is not waited for, the process ends *)
LockTaken(w) ==
    /\ wpc[w] = "lock" /\ Locks(w) /\ opts[w].error_when_locked
    /\ entryLock[cur[w]] # Nobody
    /\ Goto(w, "ended")
    /\ todo' = [todo EXCEPT ![w] = {}] /\ cur' = [cur EXCEPT ![w] = NoKey]
    /\ UNCHANGED <<opts, files, insVars, dirLock, entryLock, probed, auxVars>>

BeginLocked_NoRecheck(w) ==
    /\ wpc[w] = "exists"
    /\ Begin(w)
    /\ UNCHANGED <<opts, insVars, dirLock, entryLock, todo, cur, probed, inserted,
                   deaths, completed, unlocked, killed>>

(* Once it has the lock, a worker looks again whether the entry exists *)
BeginLocked(w) ==
    /\ wpc[w] = "exists" /\ cur[w] \in files
    /\ Begin(w)
    /\ UNCHANGED <<opts, insVars, dirLock, entryLock, todo, cur, probed, inserted,
                   deaths, completed, unlocked, killed>>

Unlock(w) ==
    entryLock' = IF Locks(w) THEN [entryLock EXCEPT ![cur[w]] = Nobody]
                 ELSE entryLock

EntryGone(w) ==
    /\ wpc[w] = "exists" /\ cur[w] \notin files
    /\ Unlock(w) /\ cur' = [cur EXCEPT ![w] = NoKey]
    /\ Goto(w, "next")
    /\ UNCHANGED <<opts, files, insVars, dirLock, todo, probed, auxVars>>

(* The program has ended; its exit status is not looked at *)
ProgramEnds(w) ==
    /\ wpc[w] = "run"
    /\ completed' = completed \cup {cur[w]}
    /\ Goto(w, "delete")
    /\ UNCHANGED <<opts, files, insVars, dirLock, entryLock, todo, cur, probed,
                   inserted, starts, deaths, risked, unlocked, killed>>

Delete(w) ==
    /\ wpc[w] = "delete"
    /\ files' = IF opts[w].delete_first THEN files ELSE files \ {cur[w]}
    /\ Goto(w, "release")
    /\ UNCHANGED <<opts, insVars, dirLock, entryLock, todo, cur, probed, auxVars>>

Release(w) ==
    /\ wpc[w] = "release"
    /\ Unlock(w) /\ cur' = [cur EXCEPT ![w] = NoKey]
    /\ Goto(w, "next")
    /\ UNCHANGED <<opts, files, insVars, dirLock, todo, probed, auxVars>>

(* The process is killed, or cannot start or wait for the program *)
WorkerDies(w) ==
    /\ w \in Mortal /\ killed < MaxDeaths /\ wpc[w] # "ended"
    /\ Goto(w, "ended")
    /\ entryLock' = [k \in Keys |-> IF entryLock[k] = w THEN Nobody
                                    ELSE entryLock[k]]
    /\ todo' = [todo EXCEPT ![w] = {}] /\ cur' = [cur EXCEPT ![w] = NoKey]
    /\ deaths' = IF Executing(w) THEN [deaths EXCEPT ![cur[w]] = @ + 1]
                 ELSE deaths
    /\ killed' = killed + 1
    /\ UNCHANGED <<opts, files, insVars, dirLock, probed, inserted, starts,
                   completed, risked, unlocked>>

(* The command is run again, perhaps with other options *)
RunAgain(w) ==
    /\ wpc[w] = "ended"
    /\ \E o \in Options[w] : opts' = [opts EXCEPT ![w] = o]
    /\ Goto(w, "wait")
    /\ UNCHANGED <<files, insVars, dirLock, entryLock, todo, cur, probed,
                   auxVars>>

-----------------------------------------------------------------------------

InserterStep(i) == TakeKey(i) \/ LockDir(i) \/ CreateTmp(i) \/ Rename(i)

WorkerStep(w) ==
    \/ WaitForEntries(w) \/ SortedKeys(w) \/ OpenNext(w) \/ NoMore(w)
    \/ BeginUnlocked(w) \/ Lock(w) \/ LockTaken(w)
    \/ BeginLocked(w) \/ EntryGone(w)
    \/ ProgramEnds(w) \/ Delete(w) \/ Release(w)

Next ==
    \/ \E i \in Inserters : InserterStep(i) \/ InserterDies(i)
    \/ \E c \in Commands : BeginCommand(c) \/ EndCommand(c)
    \/ \E l \in Listers : Probe(l) \/ EndProbe(l)
    \/ \E w \in Workers : WorkerStep(w) \/ WorkerDies(w) \/ RunAgain(w)

Spec == Init /\ [][Next]_vars

(* Processes run, and a blocking flock is granted at some point, although  *)
(* listers and others keep taking the same lock in between.                *)
Fairness ==
    /\ \A w \in Workers : WF_vars(WorkerStep(w)) /\ SF_vars(Lock(w))
    /\ \A l \in Listers : WF_vars(EndProbe(l))

FairSpec == Spec /\ Fairness

-----------------------------------------------------------------------------
(* Properties *)

(* Two workers that lock entries never act on the same one at a time.      *)
MutualExclusion ==
    \A v, w \in Workers :
        v # w /\ Executing(v) /\ Executing(w) /\ cur[v] = cur[w] =>
            opts[v].no_lock \/ opts[w].no_lock

(* An entry is acted on again only after a worker died before deleting it, *)
(* unless workers without locking are around.                              *)
RepeatedOnlyAfterDeath ==
    \A k \in Keys \ unlocked : starts[k] <= deaths[k] + 1

(* One worker at a time acts on an entry, and after it no other one, but   *)
(* for deaths: the lock of the entry and the second look at its file       *)
(* (jobqueue.rs) keep out the workers that had opened it as well.          *)
ActedOnOnce == MutualExclusion /\ RepeatedOnlyAfterDeath

(* An entry whose file is gone has been acted on to the end, except for    *)
(* one that was deleted first and is being acted on, or whose worker died. *)
NoEntryLost ==
    \A k \in inserted \ (files \cup completed) :
        /\ k \in risked
        /\ deaths[k] > 0 \/ \E w \in Workers : cur[w] = k /\ wpc[w] = "run"

(* While a command runs under a lock on the directory, nothing is inserted *)
CommandsSeeNoInsertion ==
    [][(\E c \in Commands : dirLock[c] # "none" /\ dirLock'[c] # "none")
         => files' \subseteq files]_vars

(* Every entry gets out of the queue when a worker waits for entries.      *)
EveryEntryLeaves == \A k \in Keys : k \in files ~> k \notin files

-----------------------------------------------------------------------------
(* The inductive invariant behind the safety properties *)

HasKey(i) == ipc[i] \in {"lock", "create", "rename"}
HasOpen(w) == wpc[w] \in {"lock", "exists", "run", "delete", "release"}
HasLock(w) == Locks(w) /\ wpc[w] \in {"exists", "run", "delete", "release"}

KeysAreNew ==
    /\ files \subseteq inserted /\ \A k \in inserted : k < nextKey
    /\ \A w \in Workers : todo[w] \subseteq inserted
    /\ \A i \in Inserters : HasKey(i) =>
        ikey[i] \in Keys \ inserted /\ ikey[i] < nextKey
    /\ \A i, j \in Inserters : HasKey(i) /\ HasKey(j) /\ i # j => ikey[i] # ikey[j]
    /\ \A k \in Keys : starts[k] > 0 => k \in inserted

LocksAreHeld ==
    /\ \A w \in Workers : HasLock(w) => entryLock[cur[w]] = w
    /\ \A l \in Listers : probed[l] # NoKey => entryLock[probed[l]] = l

WorkersKnow ==
    \A w \in Workers :
        /\ HasOpen(w) => cur[w] \in inserted
        /\ wpc[w] = "exists" => Locks(w)
        /\ wpc[w] = "delete" => cur[w] \in completed
        /\ Executing(w) /\ opts[w].delete_first => cur[w] \notin files
        /\ Executing(w) /\ ~Locks(w) => cur[w] \in unlocked

(* An entry that is there and not being acted on has one start per death *)
StartsCounted ==
    \A k \in Keys \ unlocked :
        /\ starts[k] <= deaths[k] + 1
        /\ k \in files /\ (\A w \in Workers : ~(Executing(w) /\ cur[w] = k)) =>
             starts[k] <= deaths[k]

DirectoryLocked ==
    /\ \A i \in Inserters : ipc[i] \in {"create", "rename"} =>
         dirLock[i] = "exclusive"
    /\ \A p, q \in Inserters \cup Commands :
         p # q /\ dirLock[p] = "exclusive" => dirLock[q] = "none"

IInv == /\ TypeOK /\ KeysAreNew /\ LocksAreHeld /\ WorkersKnow
        /\ StartsCounted /\ NoEntryLost /\ DirectoryLocked

=============================================================================
