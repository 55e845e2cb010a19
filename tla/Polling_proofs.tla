--------------------------- MODULE Polling_proofs ---------------------------
(***************************************************************************)
(* Proofs about Polling for any number of processes and commits, any       *)
(* changes of the repository upstream, any failures of git and deaths.     *)
(***************************************************************************)
EXTENDS Polling, FiniteSetTheorems, WellFoundedInduction, TLAPS

\* A set of ids has a smallest one,
LEMMA Smallest ==
  ASSUME NEW S, S \subseteq Nat, S # {}
  PROVE  \E d \in S : \A e \in S : d <= e
  <1>1. PICK d \in S : \A e \in S : <<e, d>> \notin OpToRel(<, Nat)
    BY WFMin, NatLessThanWellFounded
  <1>2. \A e \in S : ~ (e < d)
    BY <1>1 DEF OpToRel
  <1>3. QED
    BY <1>2

\* and one above all of it.
LEMMA OneAbove ==
  ASSUME NEW n \in Nat, NEW S, S \subseteq 0 .. n - 1
  PROVE  \E m \in 0 .. n : /\ \A d \in S : d < m
                           /\ m = 0 \/ m - 1 \in S
  <1> DEFINE T == {m \in 0 .. n : \A d \in S : d < m}
  <1>1. n \in T /\ T \subseteq Nat
    OBVIOUS
  <1>2. PICK m \in T : \A k \in T : m <= k
    BY <1>1, Smallest
  <1>3. m = 0 \/ m - 1 \in S
    <2>1. SUFFICES ASSUME m # 0, m - 1 \notin S
                   PROVE  FALSE
      OBVIOUS
    <2>2. m - 1 \in 0 .. n /\ m \in 0 .. n
      BY <2>1
    <2>3. \A d \in S : d < m - 1
      BY <2>1, <2>2
    <2>4. m - 1 \in T
      BY <2>2, <2>3
    <2>5. QED
      BY <1>2, <2>2, <2>4
  <1>4. QED
    BY <1>2, <1>3
-----------------------------------------------------------------------------
(* The invariant of the polling pool.                                      *)

\* A directory is there, and git is through with cloning it.
Settled(d) == dirs[d] \notin {"absent", "partial"}

\* Who clones or works has the lock, and `current` is its directory.
WorkIsLocked(p) ==
    /\ step[p] \in Acting \cup {"clone"} => locked = p
    /\ step[p] \in Acting => current = using[p]

\* Directories are used only after they were cloned.
UsedAreSettled(p) ==
    /\ \A d \in Ids : CanBeUsedForJobs(copy[p].entries[d]) => Settled(d)
    /\ step[p] \in Acting \cup {"enter", "finish", "set aside"} \/ answer[p] = "updated"
       => Settled(using[p])

\* Before the last look for a commit, either upstream has lacked it, or it is there
\* still, to be fetched; after the fetch, it is in the directory.
Looks(p) == step[p] \in {"clone", "enter", "check", "fetch", "check again"}
LooksLast(p) == step[p] = "check again" \/ (kind[p] = "resolve" /\ step[p] = "enter")
MissingIsLacked(p) ==
    /\ Looks(p) \/ answer[p] = "updated" => asks[p] \in remote \/ lacked[p]
    /\ LooksLast(p) \/ answer[p] = "updated"
       => asks[p] \in commits[using[p]] \/ lacked[p]
    /\ step[p] = "clone" => kind[p] # "resolve"

AnswerIsTrue(p) ==
    /\ answer[p] = "valid" => asks[p] \in had
    /\ answer[p] = "invalid" => lacked[p]

Good(p) == WorkIsLocked(p) /\ UsedAreSettled(p) /\ MissingIsLacked(p) /\ AnswerIsTrue(p)

CommitsAreUpstreams ==
    remote \subseteq had /\ \A d \in Ids : commits[d] \subseteq had

PollInv == PoolTypeOK /\ CommitsAreUpstreams /\ \A p \in Pollers : Good(p)

\* The variables that it is about.
pollVars == <<remote, dirs, commits, current, locked, copy, step, using, asks, kind,
              answer, lacked, had>>

PollNext == Push \/ \E p \in Pollers : PollerNext(p)

\* Of all steps of Polling, only those of the pool touch them.
LEMMA StepsOfThePool == [Next]_vars => PollNext \/ UNCHANGED pollVars
  <1> USE DEF PollNext, pollVars, poolVars
  <1>1. UNCHANGED vars => UNCHANGED pollVars
    BY DEF vars
  <1>2. ASSUME Next PROVE PollNext \/ UNCHANGED pollVars
    BY <1>2 DEF Next, Pushed, PoolStep, DaemonRegenerates, DaemonFails, Insert, Signal,
                DieBeforeSignal, RunOne
  <1>3. QED
    BY <1>1, <1>2

LEMMA PollInit == Init => PollInv
  <1> SUFFICES ASSUME PoolInit PROVE PollInv
    BY DEF Init
  <1>1. dirs \in [Ids -> States] /\ \A d \in Ids : dirs[d] = "absent"
    BY DEF PoolInit, States
  <1>2. copy \in [Pollers -> [next : 0 .. MaxDirs, entries : [Ids -> States]]]
    BY <1>1, PollersAssumption DEF PoolInit
  <1>3. PoolTypeOK
    <2>1. 0 \in Ids
      BY PollersAssumption DEF Ids
    <2>2. QED
      BY <1>1, <1>2, <2>1 DEF PoolInit, PoolTypeOK, Steps, Kinds, None
  <1>4. CommitsAreUpstreams
    BY DEF PoolInit, CommitsAreUpstreams
  <1>5. ASSUME NEW p \in Pollers PROVE Good(p)
    <2>1. step[p] = "start" /\ answer[p] = "unknown" /\ copy[p].entries = dirs
      BY DEF PoolInit
    <2>2. QED
      BY <1>1, <2>1 DEF Good, WorkIsLocked, UsedAreSettled, MissingIsLacked, AnswerIsTrue,
                        Looks, LooksLast, Acting, CanBeUsedForJobs
  <1>6. QED
    BY <1>3, <1>4, <1>5 DEF PollInv

-----------------------------------------------------------------------------
(* The steps.                                                              *)

LEMMA OpenType ==
  ASSUME PoolTypeOK, NEW p \in Pollers, Open(p)
  PROVE  /\ dirs' \in [Ids -> States]
         /\ copy' \in [Pollers -> [next : 0 .. MaxDirs, entries : [Ids -> States]]]
         /\ copy'[p].entries = dirs'
         /\ \A q \in Pollers \ {p} : copy'[q] = copy[q]
  <1> USE DEF PoolTypeOK
  <1> DEFINE present == {d \in Ids : dirs[d] # "absent"}
             next == CHOOSE n \in 0 .. MaxDirs : /\ \A d \in present : d < n
                                                 /\ n = 0 \/ n - 1 \in present
  <1>1. dirs' \in [Ids -> States]
    BY DEF Open, States
  <1>2. next \in 0 .. MaxDirs
    <2>1. present \subseteq 0 .. MaxDirs - 1
      BY DEF Ids
    <2>2. \E n \in 0 .. MaxDirs : /\ \A d \in present : d < n
                                  /\ n = 0 \/ n - 1 \in present
      BY <2>1, OneAbove, PollersAssumption
    <2>3. QED
      BY <2>2
  <1>3. copy' = [copy EXCEPT ![p] = [next |-> next, entries |-> dirs']]
    BY DEF Open
  <1> HIDE DEF next
  <1>4. QED
    BY <1>1, <1>2, <1>3

LEMMA SaveType ==
  ASSUME PoolTypeOK, NEW p \in Pollers, NEW d \in Ids, NEW status \in States,
         Save(p, d, status)
  PROVE  /\ dirs' \in [Ids -> States]
         /\ copy' \in [Pollers -> [next : 0 .. MaxDirs, entries : [Ids -> States]]]
         /\ copy'[p].entries[d] = status
         /\ \A e \in Ids \ {d} : copy'[p].entries[e] = copy[p].entries[e] /\ dirs'[e] = dirs[e]
         /\ \A q \in Pollers \ {p} : copy'[q] = copy[q]
         /\ dirs'[d] = status \/ (copy[p].entries[d] = status /\ dirs'[d] = dirs[d])
  <1>1. /\ dirs \in [Ids -> States]
        /\ copy \in [Pollers -> [next : 0 .. MaxDirs, entries : [Ids -> States]]]
    BY DEF PoolTypeOK
  <1>2. copy[p] \in [next : 0 .. MaxDirs, entries : [Ids -> States]]
    BY <1>1
  <1>3. /\ copy' = [copy EXCEPT ![p] = [copy[p] EXCEPT !.entries = [@ EXCEPT ![d] = status]]]
        /\ dirs' = IF copy[p].entries[d] = status THEN dirs ELSE [dirs EXCEPT ![d] = status]
    BY DEF Save
  <1>4. [copy[p].entries EXCEPT ![d] = status] \in [Ids -> States]
    BY <1>2
  <1>5. copy'[p] = [copy[p] EXCEPT !.entries = [@ EXCEPT ![d] = status]]
    BY <1>1, <1>3
  <1>6. /\ copy'[p] \in [next : 0 .. MaxDirs, entries : [Ids -> States]]
        /\ copy'[p].entries = [copy[p].entries EXCEPT ![d] = status]
    BY <1>2, <1>4, <1>5
  <1>7. copy' \in [Pollers -> [next : 0 .. MaxDirs, entries : [Ids -> States]]]
    BY <1>1, <1>3, <1>6
  <1>8. QED
    BY <1>1, <1>2, <1>3, <1>6, <1>7

\* The first directory that can be used, or the next one.
Takes(p, d) ==
    /\ using' = [using EXCEPT ![p] = d]
    /\ \/ /\ CanBeUsedForJobs(copy[p].entries[d])
          /\ step' = [step EXCEPT ![p] = "enter"] /\ UNCHANGED <<dirs, copy, locked>>
       \/ /\ d = copy[p].next
          /\ \A e \in Ids : ~ CanBeUsedForJobs(copy[p].entries[e])
          /\ step' = [step EXCEPT ![p] = "clone"] /\ locked' = p
          /\ copy' = [copy EXCEPT ![p].next = d + 1]
          /\ d + 1 \in 0 .. MaxDirs
          /\ dirs' = IF dirs[d] = "absent" THEN [dirs EXCEPT ![d] = "partial"] ELSE dirs

LEMMA AskType ==
  ASSUME PoolTypeOK, NEW p \in Pollers, NEW c \in Commits,
         NEW k \in {"commit", "update"}, Ask(p, c, k)
  PROVE  \E d \in Ids : Takes(p, d)
  <1> DEFINE usable == {d \in Ids : CanBeUsedForJobs(copy[p].entries[d])}
             first == CHOOSE d \in usable : \A e \in usable : d <= e
  <1>1. CASE usable # {}
    <2>1. usable \subseteq Nat
      BY DEF Ids
    <2>2. first \in usable
      BY <1>1, <2>1, Smallest
    <2>3. /\ using' = [using EXCEPT ![p] = first]
          /\ step' = [step EXCEPT ![p] = "enter"] /\ UNCHANGED <<dirs, copy, locked>>
      BY <1>1 DEF Ask
    <2> HIDE DEF first
    <2>4. QED
      BY <2>2, <2>3 DEF Takes
  <1>2. CASE usable = {}
    <2>1. /\ NextId(p) \in Ids
          /\ using' = [using EXCEPT ![p] = NextId(p)]
          /\ copy' = [copy EXCEPT ![p].next = NextId(p) + 1]
          /\ locked' = p
          /\ step' = [step EXCEPT ![p] = "clone"]
          /\ dirs' = IF dirs[NextId(p)] = "absent"
                     THEN [dirs EXCEPT ![NextId(p)] = "partial"] ELSE dirs
      BY <1>2 DEF Ask
    <2>2. NextId(p) + 1 \in 0 .. MaxDirs
      BY <2>1, PollersAssumption DEF Ids
    <2>3. \A e \in Ids : ~ CanBeUsedForJobs(copy[p].entries[e])
      BY <1>2
    <2>4. QED
      BY <2>1, <2>2, <2>3 DEF Takes, NextId
  <1>3. QED
    BY <1>1, <1>2

LEMMA CloneType ==
  ASSUME PoolTypeOK, NEW p \in Pollers, Clone(p)
  PROVE  /\ dirs' \in [Ids -> States] /\ commits' \in [Ids -> SUBSET Commits]
         /\ copy' \in [Pollers -> [next : 0 .. MaxDirs, entries : [Ids -> States]]]
         /\ \A q \in Pollers \ {p} : copy'[q] = copy[q]
         /\ \A d \in Ids : \/ copy'[p].entries[d] = copy[p].entries[d]
                           \/ d = using[p] /\ dirs'[d] = "CheckedOut"
  <1> DEFINE d == using[p]
  <1>1. /\ dirs \in [Ids -> States] /\ commits \in [Ids -> SUBSET Commits]
        /\ copy \in [Pollers -> [next : 0 .. MaxDirs, entries : [Ids -> States]]]
        /\ d \in Ids /\ remote \subseteq Commits
    BY DEF PoolTypeOK
  <1>2. copy[p] \in [next : 0 .. MaxDirs, entries : [Ids -> States]]
    BY <1>1
  <1>3. \/ UNCHANGED copy
        \/ /\ copy' = [copy EXCEPT ![p] = [copy[p] EXCEPT
                         !.entries = [@ EXCEPT ![d] = "CheckedOut"]]]
           /\ dirs' = [dirs EXCEPT ![d] = "CheckedOut"]
    BY DEF Clone
  <1>4. /\ dirs' \in [Ids -> States] /\ commits' \in [Ids -> SUBSET Commits]
    BY <1>1 DEF Clone, States
  <1>5. CASE UNCHANGED copy
    BY <1>1, <1>4, <1>5
  <1>6. CASE /\ copy' = [copy EXCEPT ![p] = [copy[p] EXCEPT
                           !.entries = [@ EXCEPT ![d] = "CheckedOut"]]]
             /\ dirs' = [dirs EXCEPT ![d] = "CheckedOut"]
    <2>1. [copy[p].entries EXCEPT ![d] = "CheckedOut"] \in [Ids -> States]
      BY <1>2 DEF States
    <2>2. copy'[p] = [copy[p] EXCEPT !.entries = [@ EXCEPT ![d] = "CheckedOut"]]
      BY <1>1, <1>6
    <2>3. /\ copy'[p] \in [next : 0 .. MaxDirs, entries : [Ids -> States]]
          /\ copy'[p].entries = [copy[p].entries EXCEPT ![d] = "CheckedOut"]
      BY <1>2, <2>1, <2>2
    <2>4. copy' \in [Pollers -> [next : 0 .. MaxDirs, entries : [Ids -> States]]]
      BY <1>1, <1>6, <2>3
    <2>5. QED
      BY <1>1, <1>2, <1>4, <1>6, <2>3, <2>4
  <1>7. QED
    BY <1>3, <1>5, <1>6

LEMMA GivesType ==
  ASSUME PoolTypeOK, NEW p \in Pollers, Gives(p, "error")
  PROVE  /\ answer' = [answer EXCEPT ![p] = "error"] /\ step' = [step EXCEPT ![p] = "end"]
  BY DEF Gives

\* A fetch brings only what upstream has, and what is asked for if upstream has it.
LEMMA FetchBrings ==
  ASSUME NEW p \in Pollers, NEW new \in Fetched(p)
  PROVE  new \subseteq remote /\ (asks[p] \in remote => asks[p] \in new)
  BY DEF Fetched

LEMMA FetchType ==
  ASSUME PoolTypeOK, NEW p \in Pollers, Fetch(p)
  PROVE  PoolTypeOK'
  <1>1. /\ commits \in [Ids -> SUBSET Commits] /\ step \in [Pollers -> Steps]
        /\ answer \in [Pollers -> {"unknown", "valid", "invalid", "updated", "error"}]
        /\ locked \in Pollers \cup {Nobody}
        /\ using[p] \in Ids /\ remote \subseteq Commits
    BY DEF PoolTypeOK
  <1>2. /\ \/ UNCHANGED commits
           \/ \E new \in Fetched(p) :
                commits' = [commits EXCEPT ![using[p]] = @ \cup new]
        /\ \/ step' = [step EXCEPT ![p] = "finish"]
           \/ step' = [step EXCEPT ![p] = "check again"]
           \/ step' = [step EXCEPT ![p] = "set aside"]
        /\ UNCHANGED answer \/ answer' = [answer EXCEPT ![p] = "updated"]
        /\ UNCHANGED locked \/ locked' = Nobody
        /\ UNCHANGED <<remote, had, dirs, current, copy, using, asks, kind, lacked>>
    BY DEF Fetch, upstream, question
  <1>3. commits' \in [Ids -> SUBSET Commits]
    <2>1. ASSUME NEW new \in Fetched(p)
          PROVE  commits[using[p]] \cup new \in SUBSET Commits
      BY <1>1, <2>1, FetchBrings
    <2>2. ASSUME NEW new \in Fetched(p),
                 commits' = [commits EXCEPT ![using[p]] = @ \cup new]
          PROVE  commits' \in [Ids -> SUBSET Commits]
      BY <1>1, <2>1, <2>2
    <2>3. QED
      BY <1>1, <1>2, <2>2
  <1>4. step' \in [Pollers -> Steps]
    BY <1>1, <1>2 DEF Steps, Acting
  <1>5. /\ answer' \in [Pollers -> {"unknown", "valid", "invalid", "updated", "error"}]
        /\ locked' \in Pollers \cup {Nobody}
    BY <1>1, <1>2
  <1>6. QED
    BY <1>2, <1>3, <1>4, <1>5 DEF PoolTypeOK

LEMMA PollTypeStep ==
  ASSUME PoolTypeOK, PollNext \/ UNCHANGED pollVars
  PROVE  PoolTypeOK'
  <1> USE DEF PoolTypeOK, upstream, question, Steps, Acting, Goes
  <1>1. CASE UNCHANGED pollVars
    BY <1>1 DEF pollVars
  <1>2. CASE Push
    BY <1>2 DEF Push
  <1>3. ASSUME NEW p \in Pollers, Open(p)
        PROVE  PoolTypeOK'
    BY <1>3, OpenType DEF Open
  <1>4. ASSUME NEW p \in Pollers, NEW c \in Commits, NEW k \in {"commit", "update"},
               Ask(p, c, k)
        PROVE  PoolTypeOK'
    <2>1. PICK d \in Ids : Takes(p, d)
      BY <1>4, AskType
    <2>2. /\ dirs' \in [Ids -> States] /\ locked' \in Pollers \cup {Nobody}
          /\ step' \in [Pollers -> Steps]
      BY <2>1 DEF States, Takes
    <2>3. copy' \in [Pollers -> [next : 0 .. MaxDirs, entries : [Ids -> States]]]
      <3>1. CASE UNCHANGED copy
        BY <3>1
      <3>2. CASE copy' = [copy EXCEPT ![p].next = d + 1] /\ d + 1 \in 0 .. MaxDirs
        <4>1. [copy[p] EXCEPT !.next = d + 1] \in [next : 0 .. MaxDirs, entries : [Ids -> States]]
          BY <3>2
        <4>2. QED
          BY <3>2, <4>1
      <3>3. QED
        BY <2>1, <3>1, <3>2 DEF Takes
    <2>4. /\ asks' = [asks EXCEPT ![p] = c] /\ kind' = [kind EXCEPT ![p] = k]
          /\ lacked' = [lacked EXCEPT ![p] = c \notin remote]
          /\ answer' = [answer EXCEPT ![p] = "unknown"]
          /\ current' = None /\ UNCHANGED <<remote, had, commits>>
      BY <1>4 DEF Ask
    <2>5. kind' \in [Pollers -> Kinds]
      BY <2>4 DEF Kinds
    <2>6. QED
      BY <2>1, <2>2, <2>3, <2>4, <2>5 DEF Takes
  <1>5. ASSUME NEW p \in Pollers, Resolve(p)
        PROVE  PoolTypeOK'
    BY <1>5 DEF Resolve, Kinds
  <1>6. ASSUME NEW p \in Pollers, Clone(p)
        PROVE  PoolTypeOK'
    <2>1. step' \in [Pollers -> Steps] /\ answer' \in [Pollers -> {"unknown", "valid", "invalid", "updated", "error"}]
      BY <1>6, GivesType DEF Clone
    <2>2. QED
      BY <1>6, <2>1, CloneType DEF Clone
  <1>7. ASSUME NEW p \in Pollers, Enter(p)
        PROVE  PoolTypeOK'
    <2>1. CASE current # None
      BY <1>7, <2>1, GivesType DEF Enter
    <2>2. CASE current = None
      <3>1. /\ dirs' \in [Ids -> States]
            /\ copy' \in [Pollers -> [next : 0 .. MaxDirs, entries : [Ids -> States]]]
        BY <1>7, <2>2, SaveType DEF Enter, States
      <3>2. FirstStep[kind[p]] \in Steps
        <4>1. kind[p] \in {"commit", "update", "resolve"}
          BY DEF Kinds
        <4>2. /\ FirstStep["commit"] = "check" /\ FirstStep["update"] = "fetch"
              /\ FirstStep["resolve"] = "check again"
          BY DEF FirstStep
        <4>3. QED
          BY <4>1, <4>2
      <3>3. /\ current' = using[p] /\ locked' = p /\ UNCHANGED answer
            /\ step' = [step EXCEPT ![p] = FirstStep[kind[p]]]
            /\ UNCHANGED <<upstream, commits, using, question>>
        BY <1>7, <2>2 DEF Enter
      <3>4. step' \in [Pollers -> Steps]
        BY <3>2, <3>3
      <3>5. QED
        BY <3>1, <3>3, <3>4
    <2>3. QED
      BY <2>1, <2>2
  <1>8. ASSUME NEW p \in Pollers, Check(p) \/ Fetch(p) \/ CheckAgain(p)
        PROVE  PoolTypeOK'
    <2>1. CASE Check(p)
      BY <2>1 DEF Check
    <2>2. CASE Fetch(p)
      BY <2>2, FetchType
    <2>3. CASE CheckAgain(p)
      BY <2>3 DEF CheckAgain
    <2>4. QED
      BY <1>8, <2>1, <2>2, <2>3
  <1>9. ASSUME NEW p \in Pollers, Finish(p)
        PROVE  PoolTypeOK'
    <2>1. /\ dirs' \in [Ids -> States]
          /\ copy' \in [Pollers -> [next : 0 .. MaxDirs, entries : [Ids -> States]]]
      BY <1>9, SaveType DEF Finish, States
    <2>2. QED
      BY <1>9, <2>1 DEF Finish
  <1>10. ASSUME NEW p \in Pollers, SetAside(p)
         PROVE  PoolTypeOK'
    <2>1. /\ dirs' \in [Ids -> States]
          /\ copy' \in [Pollers -> [next : 0 .. MaxDirs, entries : [Ids -> States]]]
      BY <1>10, SaveType DEF SetAside, States
    <2>2. QED
      BY <1>10, <2>1, GivesType DEF SetAside
  <1>11. ASSUME NEW p \in Pollers, Die(p)
         PROVE  PoolTypeOK'
    BY <1>11 DEF Die
  <1> HIDE DEF PoolTypeOK, upstream, question, Steps, Acting, Goes
  <1>12. QED
    BY <1>1, <1>2, <1>3, <1>4, <1>5, <1>6, <1>7, <1>8, <1>9, <1>10, <1>11
       DEF PollNext, PollerNext

-----------------------------------------------------------------------------
(* What a step of p leaves to the other processes.                         *)

\* What was cloned stays there,
LEMMA SettledStays ==
  ASSUME PollInv, NEW p \in Pollers, PollerNext(p), NEW d \in Ids, Settled(d)
  PROVE  Settled(d)'
  <1> USE DEF Settled, upstream, question, Goes
  <1>0. PoolTypeOK /\ dirs \in [Ids -> States] /\ using[p] \in Ids
    BY DEF PollInv, PoolTypeOK
  <1>1. ASSUME NEW s \in {"Processing", "Finished", "Error"}, Save(p, using[p], s)
        PROVE  Settled(d)'
    <2>1. s \in States
      BY DEF States
    <2>2. CASE d = using[p]
      BY <1>0, <1>1, <2>1, <2>2, SaveType
    <2>3. CASE d # using[p]
      BY <1>0, <1>1, <2>1, <2>3, SaveType
    <2>4. QED
      BY <2>2, <2>3
  <1>2. CASE Open(p)
    <2>1. dirs' = [e \in Ids |-> IF dirs[e] = "partial" THEN "CheckedOut" ELSE dirs[e]]
      BY <1>2 DEF Open
    <2>2. QED
      BY <2>1
  <1>3. ASSUME NEW c \in Commits, NEW k \in {"commit", "update"}, Ask(p, c, k)
        PROVE  Settled(d)'
    <2>1. PICK e \in Ids : Takes(p, e)
      BY <1>0, <1>3, AskType
    <2>2. QED
      BY <1>0, <2>1 DEF Takes
  <1>4. CASE Clone(p)
    BY <1>0, <1>4 DEF Clone
  <1>5. CASE Enter(p) \/ Finish(p) \/ SetAside(p)
    BY <1>1, <1>5 DEF Enter, Finish, SetAside
  <1>6. CASE Resolve(p) \/ Check(p) \/ Fetch(p) \/ CheckAgain(p) \/ Die(p)
    BY <1>6 DEF Resolve, Check, Fetch, CheckAgain, Die
  <1>7. QED
    BY <1>2, <1>3, <1>4, <1>5, <1>6 DEF PollerNext

\* with its commits.
LEMMA CommitsStay ==
  ASSUME PollInv, NEW p \in Pollers, PollerNext(p)
  PROVE  /\ \A d \in Ids : Settled(d) => commits[d] \subseteq commits'[d]
         /\ CommitsAreUpstreams'
         /\ UNCHANGED <<remote, had>>
  <1> USE DEF upstream, question, CommitsAreUpstreams
  <1>0. /\ commits \in [Ids -> SUBSET Commits] /\ using[p] \in Ids
        /\ remote \subseteq had /\ \A d \in Ids : commits[d] \subseteq had
    BY DEF PollInv, PoolTypeOK
  <1>1. CASE Clone(p)
    <2>1. dirs[using[p]] = "partial" \/ UNCHANGED commits
      BY <1>1 DEF Clone
    <2>2. /\ UNCHANGED <<remote, had>>
          /\ UNCHANGED commits \/ commits' = [commits EXCEPT ![using[p]] = remote]
      BY <1>1 DEF Clone
    <2>3. QED
      BY <1>0, <2>1, <2>2 DEF Settled
  <1>2. CASE Fetch(p)
    <2>1. /\ UNCHANGED <<remote, had>>
          /\ \/ UNCHANGED commits
             \/ \E new \in SUBSET remote :
                  commits' = [commits EXCEPT ![using[p]] = commits[using[p]] \cup new]
      BY <1>2, FetchBrings DEF Fetch
    <2>2. QED
      BY <1>0, <2>1
  <1>3. ASSUME UNCHANGED <<remote, had, commits>>
        PROVE  /\ \A d \in Ids : Settled(d) => commits[d] \subseteq commits'[d]
               /\ CommitsAreUpstreams'
               /\ UNCHANGED <<remote, had>>
    BY <1>0, <1>3
  <1>4. QED
    BY <1>1, <1>2, <1>3 DEF PollerNext, Open, Ask, Resolve, Enter, Check, CheckAgain,
                            Finish, SetAside, Die

\* It does not touch the others, nor, while one of them has the lock, that and `current`.
LEMMA OthersKeep ==
  ASSUME PollInv, NEW p \in Pollers, PollerNext(p), NEW q \in Pollers, q # p
  PROVE  /\ step'[q] = step[q] /\ using'[q] = using[q] /\ asks'[q] = asks[q]
         /\ kind'[q] = kind[q] /\ answer'[q] = answer[q] /\ lacked'[q] = lacked[q]
         /\ copy'[q] = copy[q]
         /\ locked = q => UNCHANGED <<locked, current>>
  <1> USE DEF upstream, question, Goes, Gives
  <1>0. /\ step \in [Pollers -> Steps] /\ using \in [Pollers -> Ids]
        /\ asks \in [Pollers -> Commits] /\ lacked \in [Pollers -> BOOLEAN]
        /\ kind \in [Pollers -> Kinds] /\ PoolTypeOK
        /\ answer \in [Pollers -> {"unknown", "valid", "invalid", "updated", "error"}]
        /\ copy \in [Pollers -> [next : 0 .. MaxDirs, entries : [Ids -> States]]]
    BY DEF PollInv, PoolTypeOK
  <1>1. WorkIsLocked(p)
    BY DEF PollInv, Good
  <1>p. PoolTypeOK
    BY <1>0
  <1>s. step \in [Pollers -> Steps] /\ using[p] \in Ids
    BY <1>0
  <1>2. copy'[q] = copy[q] /\ step'[q] = step[q]
    <2>1. CASE Open(p)
      <3>1. step' = [step EXCEPT ![p] = "idle"]
        BY <2>1 DEF Open
      <3>2. copy'[q] = copy[q]
        BY <1>p, <2>1, OpenType
      <3>3. QED
        BY <1>s, <3>1, <3>2
    <2>2. ASSUME NEW c \in Commits, NEW k \in {"commit", "update"}, Ask(p, c, k)
          PROVE  copy'[q] = copy[q] /\ step'[q] = step[q]
      <3>1. PICK d \in Ids : Takes(p, d)
        BY <1>p, <2>2, AskType
      <3>2. /\ UNCHANGED copy \/ copy' = [copy EXCEPT ![p].next = d + 1]
            /\ \/ step' = [step EXCEPT ![p] = "enter"]
               \/ step' = [step EXCEPT ![p] = "clone"]
        BY <3>1 DEF Takes
      <3>3. copy'[q] = copy[q]
        BY <1>0, <3>2
      <3>4. QED
        BY <1>s, <3>2, <3>3
    <2>3. CASE Clone(p)
      <3>1. \/ step' = [step EXCEPT ![p] = "enter"]
            \/ step' = [step EXCEPT ![p] = "end"]
        BY <2>3 DEF Clone
      <3>2. copy'[q] = copy[q]
        BY <1>p, <2>3, CloneType
      <3>3. QED
        BY <1>s, <3>1, <3>2
    <2>4. ASSUME NEW s \in States, Save(p, using[p], s)
          PROVE  copy'[q] = copy[q]
      BY <1>p, <1>s, <2>4, SaveType
    <2>5. CASE Enter(p)
      <3>1. \/ UNCHANGED copy
            \/ Save(p, using[p], "Processing")
        BY <2>5 DEF Enter
      <3>2. copy'[q] = copy[q]
        BY <2>4, <3>1 DEF States
      <3>3. \/ step' = [step EXCEPT ![p] = FirstStep[kind[p]]]
            \/ step' = [step EXCEPT ![p] = "end"]
        BY <2>5 DEF Enter
      <3>4. QED
        BY <1>s, <3>2, <3>3
    <2>6. CASE Finish(p) \/ SetAside(p)
      <3>1. Save(p, using[p], "Finished") \/ Save(p, using[p], "Error")
        BY <2>6 DEF Finish, SetAside
      <3>2. copy'[q] = copy[q]
        BY <2>4, <3>1 DEF States
      <3>3. \/ step' = [step EXCEPT ![p] = "idle"]
            \/ step' = [step EXCEPT ![p] = "end"]
        BY <2>6 DEF Finish, SetAside
      <3>4. QED
        BY <1>s, <3>2, <3>3
    <2>7. CASE Resolve(p) \/ Check(p) \/ CheckAgain(p) \/ Die(p)
      BY <1>s, <2>7 DEF Resolve, Check, CheckAgain, Die
    <2>8. CASE Fetch(p)
      <3>1. /\ UNCHANGED copy
            /\ \/ step' = [step EXCEPT ![p] = "finish"]
               \/ step' = [step EXCEPT ![p] = "check again"]
               \/ step' = [step EXCEPT ![p] = "set aside"]
        BY <2>8 DEF Fetch
      <3>2. QED
        BY <1>s, <3>1
    <2>9. QED
      BY <2>1, <2>2, <2>3, <2>5, <2>6, <2>7, <2>8 DEF PollerNext
  <1>4. /\ using'[q] = using[q] /\ asks'[q] = asks[q] /\ kind'[q] = kind[q]
        /\ lacked'[q] = lacked[q]
    <2>1. CASE \E c \in Commits, k \in {"commit", "update"} : Ask(p, c, k)
      BY <1>0, <2>1 DEF Ask
    <2>2. ASSUME UNCHANGED <<using, asks, lacked>>,
                 UNCHANGED kind \/ kind' = [kind EXCEPT ![p] = "resolve"]
          PROVE  /\ using'[q] = using[q] /\ asks'[q] = asks[q] /\ kind'[q] = kind[q]
                 /\ lacked'[q] = lacked[q]
      BY <1>0, <2>2
    <2>3. QED
      BY <2>1, <2>2 DEF PollerNext, Open, Resolve, Clone, Enter, Check, Fetch, CheckAgain,
                        Finish, SetAside, Die
  <1>5. answer'[q] = answer[q]
    BY <1>0 DEF PollerNext, Open, Ask, Resolve, Clone, Enter, Check, Fetch, CheckAgain,
                Finish, SetAside, Die
  <1>6. locked = q => UNCHANGED <<locked, current>>
    <2>1. locked = q => ~ IsFree
      BY PollersAssumption DEF IsFree
    <2>2. locked = q => step[p] \notin Acting \cup {"clone"}
      BY <1>1 DEF WorkIsLocked
    <2>3. QED
      BY <2>1, <2>2 DEF PollerNext, Open, Ask, Resolve, Clone, Enter, Check, Fetch,
                        CheckAgain, Finish, SetAside, Die, Acting
  <1>7. QED
    BY <1>2, <1>4, <1>5, <1>6

LEMMA OthersStayGood ==
  ASSUME PollInv, NEW p \in Pollers, PollerNext(p), NEW q \in Pollers, q # p
  PROVE  Good(q)'
  <1>0. /\ WorkIsLocked(q) /\ UsedAreSettled(q) /\ MissingIsLacked(q) /\ AnswerIsTrue(q)
        /\ using[q] \in Ids
    BY DEF PollInv, Good, PoolTypeOK
  <1>1. /\ step'[q] = step[q] /\ using'[q] = using[q] /\ asks'[q] = asks[q]
        /\ kind'[q] = kind[q] /\ answer'[q] = answer[q] /\ lacked'[q] = lacked[q]
        /\ copy'[q] = copy[q]
        /\ locked = q => UNCHANGED <<locked, current>>
    BY OthersKeep
  <1>2. \A d \in Ids : Settled(d) => Settled(d)' /\ commits[d] \subseteq commits'[d]
    BY SettledStays, CommitsStay
  <1>3. UNCHANGED <<remote, had>>
    BY CommitsStay
  <1>4. WorkIsLocked(q)'
    BY <1>0, <1>1 DEF WorkIsLocked, Acting
  <1>5. UsedAreSettled(q)'
    BY <1>0, <1>1, <1>2 DEF UsedAreSettled, Acting, CanBeUsedForJobs
  <1>6. MissingIsLacked(q)'
    <2>1. LooksLast(q) \/ answer[q] = "updated" => Settled(using[q])
      BY <1>0 DEF UsedAreSettled, LooksLast, Acting
    <2>2. QED
      BY <1>0, <1>1, <1>2, <1>3, <2>1 DEF MissingIsLacked, Looks, LooksLast
  <1>7. AnswerIsTrue(q)'
    BY <1>0, <1>1, <1>3 DEF AnswerIsTrue
  <1>8. QED
    BY <1>4, <1>5, <1>6, <1>7 DEF Good

-----------------------------------------------------------------------------
(* And what it does for p.                                                 *)

\* A step that goes to where nothing is promised.
LEMMA Elsewhere ==
  ASSUME PollInv, NEW p \in Pollers, PollerNext(p),
         UNCHANGED <<asks, lacked>> /\ copy'[p] = copy[p] /\ using'[p] = using[p],
         step'[p] \in {"idle", "end"},
         answer'[p] = answer[p] \/ answer'[p] = "error"
  PROVE  Good(p)'
  <1>0. /\ UsedAreSettled(p) /\ MissingIsLacked(p) /\ AnswerIsTrue(p) /\ using[p] \in Ids
    BY DEF PollInv, Good, PoolTypeOK
  <1>1. \A d \in Ids : Settled(d) => Settled(d)' /\ commits[d] \subseteq commits'[d]
    BY SettledStays, CommitsStay
  <1>2. UNCHANGED <<remote, had>>
    BY CommitsStay
  <1>3. WorkIsLocked(p)'
    BY DEF WorkIsLocked, Acting
  <1>4. UsedAreSettled(p)'
    BY <1>0, <1>1 DEF UsedAreSettled, Acting, CanBeUsedForJobs
  <1>5. MissingIsLacked(p)'
    BY <1>0, <1>1, <1>2 DEF MissingIsLacked, Looks, LooksLast, UsedAreSettled
  <1>6. AnswerIsTrue(p)'
    BY <1>0, <1>2 DEF AnswerIsTrue
  <1>7. QED
    BY <1>3, <1>4, <1>5, <1>6 DEF Good

\* What all of the lemmas about its steps use.
LEMMA Basics ==
  ASSUME PollInv, NEW p \in Pollers
  PROVE  /\ step \in [Pollers -> Steps] /\ using \in [Pollers -> Ids]
         /\ asks \in [Pollers -> Commits] /\ lacked \in [Pollers -> BOOLEAN]
         /\ kind \in [Pollers -> Kinds] /\ commits \in [Ids -> SUBSET Commits]
         /\ answer \in [Pollers -> {"unknown", "valid", "invalid", "updated", "error"}]
         /\ copy \in [Pollers -> [next : 0 .. MaxDirs, entries : [Ids -> States]]]
         /\ dirs \in [Ids -> States] /\ using[p] \in Ids /\ PoolTypeOK
         /\ WorkIsLocked(p) /\ UsedAreSettled(p) /\ MissingIsLacked(p) /\ AnswerIsTrue(p)
         /\ CommitsAreUpstreams
  BY DEF PollInv, PoolTypeOK, Good

LEMMA OpenIsGood ==
  ASSUME PollInv, NEW p \in Pollers, Open(p)
  PROVE  Good(p)'
  <1>0. PollerNext(p)
    BY DEF PollerNext
  <1>1. /\ step'[p] = "idle" /\ copy'[p].entries = dirs'
        /\ UNCHANGED <<using, asks, lacked, kind, answer>>
    BY Basics, OpenType DEF Open, Goes, question
  <1>2. \A d \in Ids : Settled(d) => Settled(d)' /\ commits[d] \subseteq commits'[d]
    BY <1>0, SettledStays, CommitsStay
  <1>3. UNCHANGED <<remote, had>>
    BY <1>0, CommitsStay
  <1>4. WorkIsLocked(p)'
    BY <1>1 DEF WorkIsLocked, Acting
  <1>5. UsedAreSettled(p)'
    BY <1>1, <1>2, Basics DEF UsedAreSettled, Acting, CanBeUsedForJobs, Settled
  <1>6. MissingIsLacked(p)'
    BY <1>1, <1>2, <1>3, Basics DEF MissingIsLacked, Looks, LooksLast, UsedAreSettled
  <1>7. AnswerIsTrue(p)'
    BY <1>1, <1>3, Basics DEF AnswerIsTrue
  <1>8. QED
    BY <1>4, <1>5, <1>6, <1>7 DEF Good

LEMMA AskIsGood ==
  ASSUME PollInv, NEW p \in Pollers, NEW c \in Commits,
         NEW k \in {"commit", "update"}, Ask(p, c, k)
  PROVE  Good(p)'
  <1>0. PollerNext(p)
    BY DEF PollerNext
  <1>1. PICK d \in Ids : Takes(p, d)
    BY Basics, AskType
  <1>2. /\ asks'[p] = c /\ kind'[p] = k /\ answer'[p] = "unknown" /\ using'[p] = d
        /\ lacked'[p] = (c \notin remote) /\ remote' = remote
    BY <1>1, Basics DEF Ask, Takes, upstream
  <1>3. k # "resolve"
    OBVIOUS
  <1>4. \A e \in Ids : Settled(e) => Settled(e)'
    BY <1>0, SettledStays
  <1>5. copy'[p].entries = copy[p].entries
    <2>1. CASE UNCHANGED copy
      BY <2>1
    <2>2. CASE copy' = [copy EXCEPT ![p].next = d + 1]
      BY <2>2, Basics
    <2>3. QED
      BY <1>1, <2>1, <2>2 DEF Takes
  <1>6. \/ step'[p] = "enter" /\ CanBeUsedForJobs(copy[p].entries[d])
        \/ step'[p] = "clone" /\ locked' = p
    BY <1>1, Basics DEF Takes
  <1>7. WorkIsLocked(p)'
    BY <1>6 DEF WorkIsLocked, Acting
  <1>8. UsedAreSettled(p)'
    BY <1>2, <1>4, <1>5, <1>6, Basics DEF UsedAreSettled, Acting, CanBeUsedForJobs
  <1>9. MissingIsLacked(p)'
    BY <1>2, <1>3, <1>6 DEF MissingIsLacked, Looks, LooksLast
  <1>10. AnswerIsTrue(p)'
    BY <1>2 DEF AnswerIsTrue
  <1>11. QED
    BY <1>7, <1>8, <1>9, <1>10 DEF Good

LEMMA ResolveIsGood ==
  ASSUME PollInv, NEW p \in Pollers, Resolve(p)
  PROVE  Good(p)'
  <1>1. /\ answer[p] = "updated" /\ step'[p] = "enter" /\ kind'[p] = "resolve"
        /\ answer'[p] = "unknown"
        /\ UNCHANGED <<remote, commits, dirs, copy, using, asks, lacked>>
    BY Basics DEF Resolve, Goes, upstream
  <1>2. UsedAreSettled(p)'
    BY <1>1, Basics DEF UsedAreSettled, Acting, Settled, CanBeUsedForJobs
  <1>3. WorkIsLocked(p)' /\ MissingIsLacked(p)' /\ AnswerIsTrue(p)'
    BY <1>1, Basics DEF WorkIsLocked, MissingIsLacked, AnswerIsTrue, Acting, Looks, LooksLast
  <1>4. QED
    BY <1>2, <1>3 DEF Good

LEMMA CloneIsGood ==
  ASSUME PollInv, NEW p \in Pollers, Clone(p)
  PROVE  Good(p)'
  <1> DEFINE d == using[p]
  <1>0. PollerNext(p)
    BY DEF PollerNext
  <1>1. CASE step' = [step EXCEPT ![p] = "enter"]
    <2>1. step'[p] = "enter"
      BY <1>1, Basics
    <2>2. /\ dirs[d] = "partial" /\ dirs'[d] = "CheckedOut"
          /\ UNCHANGED <<remote, using, asks, kind, lacked, answer>>
      BY <2>1, Basics DEF Clone, Gives, upstream, question
    <2>3. answer[p] # "updated"
      BY <2>2, Basics DEF UsedAreSettled, Settled
    <2>4. kind[p] # "resolve" /\ Looks(p)
      BY Basics DEF Clone, MissingIsLacked, Looks
    <2>5. \A e \in Ids : Settled(e) => Settled(e)'
      BY <1>0, SettledStays
    <2>6. Settled(d)'
      BY <2>2 DEF Settled
    <2>7. \A e \in Ids : copy'[p].entries[e] = copy[p].entries[e] \/ e = d
      BY Basics, CloneType
    <2>8. UsedAreSettled(p)'
      BY <2>1, <2>2, <2>5, <2>6, <2>7, Basics DEF UsedAreSettled, Acting, CanBeUsedForJobs
    <2>9. WorkIsLocked(p)' /\ MissingIsLacked(p)'
      BY <2>1, <2>2, <2>3, <2>4, Basics DEF WorkIsLocked, Acting, MissingIsLacked, Looks,
                                           LooksLast
    <2>10. AnswerIsTrue(p)'
      BY <1>0, <2>2, Basics, CommitsStay DEF AnswerIsTrue
    <2>11. QED
      BY <2>8, <2>9, <2>10 DEF Good
  <1>2. CASE Gives(p, "error") /\ UNCHANGED copy
    <2>1. step'[p] = "end" /\ answer'[p] = "error"
      BY <1>2, Basics DEF Gives
    <2>2. UNCHANGED <<using, asks, lacked>>
      BY DEF Clone, question
    <2>3. QED
      BY <1>0, <1>2, <2>1, <2>2, Elsewhere
  <1>3. QED
    BY <1>1, <1>2 DEF Clone

\* The directory is in use still, and whatever is saved for it is so that it was cloned.
LEMMA SaveKeepsSettled ==
  ASSUME PollInv, NEW p \in Pollers, PollerNext(p), Settled(using[p]),
         NEW s \in {"Processing", "Finished", "Error"}, Save(p, using[p], s),
         UNCHANGED using
  PROVE  UsedAreSettled(p)'
  <1>1. s \in States
    BY DEF States
  <1>2. \A e \in Ids \ {using[p]} : copy'[p].entries[e] = copy[p].entries[e]
    BY <1>1, Basics, SaveType
  <1>3. \A e \in Ids : Settled(e) => Settled(e)'
    BY SettledStays
  <1>4. \A e \in Ids : CanBeUsedForJobs(copy[p].entries[e]) => Settled(e)
    BY Basics DEF UsedAreSettled
  <1>5. QED
    BY <1>2, <1>3, <1>4, Basics DEF UsedAreSettled, CanBeUsedForJobs

LEMMA EnterIsGood ==
  ASSUME PollInv, NEW p \in Pollers, Enter(p)
  PROVE  Good(p)'
  <1>0. PollerNext(p)
    BY DEF PollerNext
  <1>1. step[p] = "enter" /\ UNCHANGED <<remote, had, commits, using, asks, kind, lacked>>
    BY DEF Enter, upstream, question
  <1>2. CASE current # None
    <2>1. step'[p] = "end" /\ answer'[p] = "error" /\ UNCHANGED copy
      BY <1>2, Basics DEF Enter, Gives
    <2>2. QED
      BY <1>0, <1>1, <2>1, Elsewhere
  <1>3. CASE current = None
    <2>1. /\ current' = using[p] /\ locked' = p /\ Save(p, using[p], "Processing")
          /\ step' = [step EXCEPT ![p] = FirstStep[kind[p]]] /\ UNCHANGED answer
      BY <1>3 DEF Enter
    <2>2. Settled(using[p])
      BY <1>1, Basics DEF UsedAreSettled
    <2>3. UsedAreSettled(p)'
      BY <1>0, <1>1, <2>1, <2>2, SaveKeepsSettled
    <2>4. kind[p] \in {"commit", "update", "resolve"}
      BY Basics DEF Kinds
    <2>5. step'[p] = FirstStep[kind[p]]
      BY <2>1, Basics
    <2>6. /\ kind[p] = "commit" => step'[p] = "check"
          /\ kind[p] = "update" => step'[p] = "fetch"
          /\ kind[p] = "resolve" => step'[p] = "check again"
      <3>1. /\ FirstStep["commit"] = "check" /\ FirstStep["update"] = "fetch"
            /\ FirstStep["resolve"] = "check again"
        BY DEF FirstStep
      <3>2. QED
        BY <2>5, <3>1
    <2>7. WorkIsLocked(p)' /\ AnswerIsTrue(p)'
      BY <1>1, <2>1, Basics DEF WorkIsLocked, AnswerIsTrue
    <2>8. MissingIsLacked(p)'
      BY <1>1, <2>1, <2>4, <2>6, Basics DEF MissingIsLacked, Looks, LooksLast
    <2>9. QED
      BY <2>3, <2>7, <2>8 DEF Good
  <1>4. QED
    BY <1>2, <1>3

LEMMA ActingIsGood ==
  ASSUME PollInv, NEW p \in Pollers, Check(p) \/ Fetch(p) \/ CheckAgain(p)
  PROVE  Good(p)'
  <1>0. PollerNext(p)
    BY DEF PollerNext
  <1>1. /\ step[p] \in Acting
        /\ UNCHANGED <<remote, had, dirs, current, copy, using, asks, kind, lacked>>
    BY DEF Check, Fetch, CheckAgain, Acting, upstream, question
  <1>2. /\ locked = p /\ current = using[p]
        /\ Settled(using[p]) /\ Looks(p)
        /\ commits[using[p]] \subseteq commits'[using[p]]
    BY <1>0, <1>1, Basics, CommitsStay DEF WorkIsLocked, UsedAreSettled, Acting, Looks
  <1>3. UsedAreSettled(p)'
    BY <1>1, <1>2, Basics DEF UsedAreSettled, Settled, CanBeUsedForJobs
  <1>4. asks[p] \in remote \/ lacked[p]
    BY <1>2, Basics DEF MissingIsLacked
  <1>5. commits[using[p]] \subseteq had
    BY Basics DEF CommitsAreUpstreams
  <1>6. CASE Check(p)
    <2>1. \/ answer'[p] = "valid" /\ step'[p] = "finish" /\ Knows(p)
          \/ step'[p] = "fetch" /\ UNCHANGED <<answer, locked>>
      BY <1>6, Basics DEF Check
    <2>2. UNCHANGED commits
      BY <1>6 DEF Check
    <2>3. WorkIsLocked(p)' /\ AnswerIsTrue(p)'
      BY <1>1, <1>2, <1>5, <2>1, Basics DEF WorkIsLocked, AnswerIsTrue, Acting, Knows
    <2>4. MissingIsLacked(p)'
      BY <1>1, <1>4, <2>1, <2>2, Basics DEF MissingIsLacked, Looks, LooksLast
    <2>5. QED
      BY <1>3, <2>3, <2>4 DEF Good
  <1>7. CASE Fetch(p)
    <2>1. ASSUME NEW new \in Fetched(p),
                 commits' = [commits EXCEPT ![using[p]] = @ \cup new]
          PROVE  Good(p)'
      <3>1. /\ commits'[using[p]] = commits[using[p]] \cup new
            /\ asks[p] \in remote => asks[p] \in new
        BY <2>1, FetchBrings, Basics
      <3>2. \/ answer'[p] = "updated" /\ step'[p] = "finish"
            \/ step'[p] = "check again" /\ UNCHANGED <<answer, locked>>
            \/ step'[p] = "set aside" /\ UNCHANGED answer
        <4>1. \/ /\ answer' = [answer EXCEPT ![p] = "updated"]
                 /\ step' = [step EXCEPT ![p] = "finish"]
              \/ step' = [step EXCEPT ![p] = "check again"] /\ UNCHANGED <<answer, locked>>
              \/ step' = [step EXCEPT ![p] = "set aside"] /\ UNCHANGED answer
          BY <1>7 DEF Fetch
        <4>2. QED
          BY <4>1, Basics
      <3>3. WorkIsLocked(p)' /\ AnswerIsTrue(p)'
        BY <1>1, <1>2, <3>2, Basics DEF WorkIsLocked, AnswerIsTrue, Acting
      <3>4. MissingIsLacked(p)'
        BY <1>1, <1>4, <3>1, <3>2, Basics DEF MissingIsLacked, Looks, LooksLast
      <3>5. QED
        BY <1>3, <3>3, <3>4 DEF Good
    <2>2. CASE step' = [step EXCEPT ![p] = "set aside"] /\ UNCHANGED <<commits, answer>>
      <3>1. step'[p] = "set aside"
        BY <2>2, Basics
      <3>2. WorkIsLocked(p)' /\ AnswerIsTrue(p)'
        BY <1>1, <2>2, <3>1, Basics DEF WorkIsLocked, AnswerIsTrue, Acting
      <3>3. MissingIsLacked(p)'
        BY <1>1, <2>2, <3>1, Basics DEF MissingIsLacked, Looks, LooksLast
      <3>4. QED
        BY <1>3, <3>2, <3>3 DEF Good
    <2>3. QED
      BY <1>7, <2>1, <2>2 DEF Fetch
  <1>8. CASE CheckAgain(p)
    <2>1. /\ step[p] = "check again" /\ step'[p] = "finish" /\ UNCHANGED commits
          /\ answer'[p] = IF Knows(p) THEN "valid" ELSE "invalid"
      BY <1>8, Basics DEF CheckAgain
    <2>2. Knows(p) \/ lacked[p]
      BY <2>1, Basics DEF MissingIsLacked, LooksLast, Knows
    <2>3. WorkIsLocked(p)' /\ AnswerIsTrue(p)'
      BY <1>1, <1>5, <2>1, <2>2 DEF WorkIsLocked, AnswerIsTrue, Acting, Knows
    <2>4. MissingIsLacked(p)'
      BY <2>1 DEF MissingIsLacked, Looks, LooksLast
    <2>5. QED
      BY <1>3, <2>3, <2>4 DEF Good
  <1>9. QED
    BY <1>6, <1>7, <1>8

LEMMA FinishIsGood ==
  ASSUME PollInv, NEW p \in Pollers, Finish(p) \/ SetAside(p)
  PROVE  Good(p)'
  <1>0. PollerNext(p)
    BY DEF PollerNext
  <1>1. /\ step[p] \in {"finish", "set aside"} /\ step'[p] \in {"idle", "end"}
        /\ UNCHANGED <<remote, had, commits, using, asks, kind, lacked>>
        /\ answer'[p] = answer[p] \/ answer'[p] = "error"
        /\ Save(p, using[p], "Finished") \/ Save(p, using[p], "Error")
    BY Basics DEF Finish, SetAside, Goes, Gives, upstream, question
  <1>2. Settled(using[p])
    BY <1>1, Basics DEF UsedAreSettled
  <1>3. UsedAreSettled(p)'
    BY <1>0, <1>1, <1>2, SaveKeepsSettled
  <1>4. WorkIsLocked(p)' /\ AnswerIsTrue(p)'
    BY <1>1, Basics DEF WorkIsLocked, AnswerIsTrue, Acting
  <1>5. MissingIsLacked(p)'
    BY <1>1, Basics DEF MissingIsLacked, Looks, LooksLast
  <1>6. QED
    BY <1>3, <1>4, <1>5 DEF Good

LEMMA DieIsGood ==
  ASSUME PollInv, NEW p \in Pollers, Die(p)
  PROVE  Good(p)'
  <1>0. PollerNext(p)
    BY DEF PollerNext
  <1>1. /\ step'[p] = "end" /\ answer'[p] = "error"
        /\ UNCHANGED <<copy, using, asks, lacked>>
    BY Basics DEF Die, question
  <1>2. QED
    BY <1>0, <1>1, Elsewhere

-----------------------------------------------------------------------------
(* The theorems.                                                           *)

LEMMA PushKeeps ==
  ASSUME PollInv, Push
  PROVE  CommitsAreUpstreams' /\ \A p \in Pollers : Good(p)'
  <1>1. /\ had' = had \cup remote'
        /\ lacked' = [p \in Pollers |-> lacked[p] \/ asks[p] \notin remote']
        /\ UNCHANGED <<dirs, commits, current, locked, copy, step, using, asks, kind, answer>>
    BY DEF Push
  <1>2. CommitsAreUpstreams'
    BY <1>1 DEF PollInv, CommitsAreUpstreams
  <1>3. ASSUME NEW p \in Pollers PROVE Good(p)'
    <2>1. WorkIsLocked(p)' /\ UsedAreSettled(p)'
      BY <1>1, Basics DEF WorkIsLocked, UsedAreSettled, Settled
    <2>2. MissingIsLacked(p)' /\ AnswerIsTrue(p)'
      BY <1>1, Basics DEF MissingIsLacked, AnswerIsTrue, Looks, LooksLast
    <2>3. QED
      BY <2>1, <2>2 DEF Good
  <1>4. QED
    BY <1>2, <1>3

LEMMA PollStep ==
  ASSUME PollInv, [Next]_vars
  PROVE  PollInv'
  <1>1. PollNext \/ UNCHANGED pollVars
    BY StepsOfThePool
  <1>2. PoolTypeOK'
    BY <1>1, PollTypeStep DEF PollInv
  <1>3. CASE UNCHANGED pollVars
    BY <1>2, <1>3 DEF PollInv, pollVars, CommitsAreUpstreams, Good, WorkIsLocked,
                      UsedAreSettled, MissingIsLacked, AnswerIsTrue, Looks, LooksLast, Settled
  <1>4. CASE Push
    BY <1>2, <1>4, PushKeeps DEF PollInv
  <1>5. ASSUME NEW p \in Pollers, PollerNext(p)
        PROVE  PollInv'
    <2>1. Good(p)'
      BY <1>5, OpenIsGood, AskIsGood, ResolveIsGood, CloneIsGood, EnterIsGood, ActingIsGood,
         FinishIsGood, DieIsGood DEF PollerNext
    <2>2. \A q \in Pollers \ {p} : Good(q)'
      BY <1>5, OthersStayGood
    <2>3. CommitsAreUpstreams'
      BY <1>5, CommitsStay
    <2>4. QED
      BY <1>2, <2>1, <2>2, <2>3 DEF PollInv
  <1>6. QED
    BY <1>1, <1>3, <1>4, <1>5 DEF PollNext

LEMMA PollInvHolds == Spec => []PollInv
  BY PollInit, PollStep, PTL DEF Spec

\* The processes that work have the lock, so there is one at most; and `current` is its
\* directory, as only one that has the lock changes it (process_in_working_directory).
THEOREM CurrentIsTheDirectoryInUse == Spec => []CurrentTellsTheDirectoryInUse
  <1>1. PollInv => CurrentTellsTheDirectoryInUse
    <2> SUFFICES ASSUME PollInv PROVE CurrentTellsTheDirectoryInUse
      OBVIOUS
    <2> DEFINE working == {p \in Pollers : step[p] \in Acting}
    <2>1. \A p \in working : locked = p /\ current = using[p]
      BY DEF PollInv, Good, WorkIsLocked
    <2>2. working \subseteq {locked}
      BY <2>1
    <2>3. IsFiniteSet({locked}) /\ Cardinality({locked}) = 1
      BY FS_Singleton
    <2>4. Cardinality(working) <= 1
      BY <2>2, <2>3, FS_Subset
    <2>5. QED
      BY <2>1, <2>4 DEF CurrentTellsTheDirectoryInUse
  <1>2. QED
    BY <1>1, PollInvHolds, PTL

\* A commit is found to be valid only if upstream has had it, and invalid only if
\* upstream lacked it at some time of the call: whatever is pushed or forced upstream,
\* whoever shares the directory, fails or dies (commit_is_valid, resolve_references).
THEOREM PollersAnswerTruly == Spec => []AnswersAreTrue
  <1>1. PollInv => AnswersAreTrue
    BY DEF PollInv, Good, AnswerIsTrue, AnswersAreTrue
  <1>2. QED
    BY <1>1, PollInvHolds, PTL

-----------------------------------------------------------------------------
(* The index files.                                                        *)

\* Every change is signalled, or will be, or its author died before that;
Signallers == {p \in Pollers : inserting[p] = "signal"}
ChangesAreCounted ==
    /\ IsFiniteSet(Signallers)
    /\ state = signals + silent + Cardinality(Signallers)

\* and whoever regenerates alone has read the state after the signal, and no later
\* signal was handled: so the files show at least what was signalled up to `done`.
Active(r) == regen[r] # "idle"
AloneIsCurrent ==
    /\ done <= index
    /\ \A r, s \in Regenerators : Active(r) /\ Active(s) => r = s
    /\ \A r \in Regenerators :
         /\ Active(r) => done <= seen[r]
         /\ regen[r] = "write" => seen[r] <= read[r]
         /\ regen[r] = "confirm" => seen[r] <= index

IndexInv ==
    /\ IndexTypeOK /\ mixed \in BOOLEAN
    /\ inserting \in [Pollers -> {"no", "signal", "run_one", "done"}]
    /\ ChangesAreCounted
    /\ mixed \/ AloneIsCurrent

LEMMA IndexInitial == Init => IndexInv
  <1> SUFFICES ASSUME IndexInit, inserting = [p \in Pollers |-> "no"] PROVE IndexInv
    BY DEF Init
  <1>1. IndexTypeOK /\ mixed \in BOOLEAN
    <2>1. /\ state = 0 /\ signals = 0 /\ silent = 0 /\ done = 0 /\ index = 0
          /\ mixed = FALSE
      BY DEF IndexInit
    <2>2. /\ regen \in [Regenerators -> {"idle", "read", "write", "confirm"}]
          /\ seen \in [Regenerators -> 0 .. 0] /\ read \in [Regenerators -> 0 .. 0]
      BY DEF IndexInit
    <2>3. {state, signals, silent} \subseteq Nat /\ done \in 0 .. signals /\ index \in 0 .. state
      BY <2>1
    <2>4. QED
      BY <2>1, <2>2, <2>3 DEF IndexTypeOK
  <1>2. ChangesAreCounted
    <2>1. Signallers = {}
      BY DEF Signallers
    <2>2. IsFiniteSet({}) /\ Cardinality({}) = 0
      BY FS_EmptySet
    <2>3. QED
      BY <2>1, <2>2 DEF ChangesAreCounted, IndexInit
  <1>3. AloneIsCurrent
    BY DEF AloneIsCurrent, Active, IndexInit
  <1>4. QED
    BY <1>1, <1>2, <1>3 DEF IndexInv

\* There are no fewer changes than signals.
LEMMA ChangesBeforeSignals == IndexInv => signals <= state
  <1> SUFFICES ASSUME IndexInv PROVE signals <= state
    OBVIOUS
  <1>1. Cardinality(Signallers) \in Nat
    BY FS_CardinalityType DEF IndexInv, ChangesAreCounted
  <1>2. signals \in Nat /\ silent \in Nat /\ state \in Nat
    BY DEF IndexInv, IndexTypeOK
  <1>3. state = signals + silent + Cardinality(Signallers)
    BY DEF IndexInv, ChangesAreCounted
  <1>4. QED
    BY <1>1, <1>2, <1>3

\* One more, or one fewer, has yet to signal.
LEMMA SignallersChange ==
  ASSUME IndexInv, NEW p \in Pollers, NEW to \in {"no", "signal", "run_one", "done"},
         inserting' = [inserting EXCEPT ![p] = to]
  PROVE  /\ IsFiniteSet(Signallers')
         /\ inserting[p] # "signal" /\ to = "signal"
            => Cardinality(Signallers') = Cardinality(Signallers) + 1
         /\ inserting[p] = "signal" /\ to # "signal"
            => Cardinality(Signallers') = Cardinality(Signallers) - 1
         /\ inserting[p] # "signal" /\ to # "signal" => Signallers' = Signallers
  <1>1. IsFiniteSet(Signallers) /\ Cardinality(Signallers) \in Nat
    BY FS_CardinalityType DEF IndexInv, ChangesAreCounted
  <1>2. inserting \in [Pollers -> {"no", "signal", "run_one", "done"}]
    BY DEF IndexInv
  <1>3. /\ to = "signal" => Signallers' = Signallers \cup {p}
        /\ to # "signal" => Signallers' = Signallers \ {p}
    BY <1>2 DEF Signallers
  <1>4. p \in Signallers <=> inserting[p] = "signal"
    BY DEF Signallers
  <1>5. /\ IsFiniteSet(Signallers \cup {p})
        /\ p \notin Signallers => Cardinality(Signallers \cup {p}) = Cardinality(Signallers) + 1
    BY <1>1, FS_AddElement
  <1>6. /\ IsFiniteSet(Signallers \ {p})
        /\ p \in Signallers => Cardinality(Signallers \ {p}) = Cardinality(Signallers) - 1
    BY <1>1, FS_RemoveElement
  <1>7. IsFiniteSet(Signallers')
    BY <1>3, <1>5, <1>6
  <1>8. ~ (inserting[p] = "signal") /\ to # "signal" => Signallers' = Signallers
    BY <1>3, <1>4
  <1>9. QED
    BY <1>3, <1>4, <1>5, <1>6, <1>7, <1>8

\* A step of a regenerator.
LEMMA RegenerateStep ==
  ASSUME IndexInv, NEW r \in Regenerators, Regenerate(r) \/ RegenerateFails(r)
  PROVE  /\ IndexTypeOK' /\ mixed' \in BOOLEAN
         /\ mixed' \/ AloneIsCurrent'
         /\ UNCHANGED <<state, signals, silent>>
  <1>1. /\ state \in Nat /\ signals \in Nat /\ silent \in Nat
        /\ done \in 0 .. signals /\ index \in 0 .. state
        /\ regen \in [Regenerators -> {"idle", "read", "write", "confirm"}]
        /\ seen \in [Regenerators -> 0 .. signals] /\ read \in [Regenerators -> 0 .. state]
        /\ mixed \in BOOLEAN
        /\ mixed \/ AloneIsCurrent
    BY DEF IndexInv, IndexTypeOK
  <1>2. /\ seen[r] \in 0 .. signals /\ read[r] \in 0 .. state
        /\ \A s \in Regenerators : seen[s] \in Nat /\ read[s] \in Nat
        /\ signals <= state
    BY <1>1, ChangesBeforeSignals
  <1>3. CASE GetLatestSignal(r)
    <2>1. /\ regen' = [regen EXCEPT ![r] = "read"] /\ seen' = [seen EXCEPT ![r] = signals]
          /\ mixed' = (mixed \/ \E s \in Regenerators : Active(s))
          /\ UNCHANGED <<state, signals, done, index, read, silent>>
      BY <1>3 DEF GetLatestSignal, Moves, Active
    <2>2. IndexTypeOK' /\ mixed' \in BOOLEAN
      <3>1. mixed' \in BOOLEAN
        BY <2>1, <1>1
      <3>2. IndexTypeOK'
        BY <2>1, <1>1 DEF IndexTypeOK
      <3>3. QED
        BY <3>1, <3>2
    <2>3. ASSUME ~ mixed' PROVE AloneIsCurrent'
      <3>1. ~ mixed /\ \A s \in Regenerators : ~ Active(s)
        BY <2>1, <2>3
      <3>2. AloneIsCurrent
        BY <1>1, <3>1
      <3>3. \A s \in Regenerators : Active(s)' => s = r
        BY <1>1, <2>1, <3>1 DEF Active
      <3>4. regen'[r] = "read" /\ seen'[r] = signals
        BY <1>1, <2>1
      <3>5. done' <= index' /\ done' <= seen'[r]
        BY <1>1, <2>1, <3>2, <3>4 DEF AloneIsCurrent
      <3>6. \A s \in Regenerators : /\ Active(s)' => done' <= seen'[s]
                                    /\ regen'[s] = "write" => FALSE
                                    /\ regen'[s] = "confirm" => FALSE
        BY <3>3, <3>4, <3>5 DEF Active
      <3>7. QED
        BY <3>3, <3>5, <3>6 DEF AloneIsCurrent
    <2>4. QED
      BY <2>1, <2>2, <2>3
  <1>4. CASE ReadState(r)
    <2>1. /\ regen[r] = "read" /\ regen' = [regen EXCEPT ![r] = "write"]
          /\ read' = [read EXCEPT ![r] = state]
          /\ UNCHANGED <<state, signals, done, index, seen, mixed, silent>>
      BY <1>4 DEF ReadState, Moves
    <2>2. IndexTypeOK'
      BY <2>1, <1>1 DEF IndexTypeOK
    <2>3. ASSUME AloneIsCurrent PROVE AloneIsCurrent'
      BY <1>1, <1>2, <2>1, <2>3 DEF AloneIsCurrent, Active
    <2>4. QED
      BY <1>1, <2>1, <2>2, <2>3
  <1>5. CASE WriteIndex(r)
    <2>1. /\ regen[r] = "write" /\ regen' = [regen EXCEPT ![r] = "confirm"]
          /\ index' = read[r]
          /\ UNCHANGED <<state, signals, done, seen, read, mixed, silent>>
      BY <1>5 DEF WriteIndex, Moves
    <2>2. IndexTypeOK'
      BY <2>1, <1>1, <1>2 DEF IndexTypeOK
    <2>3. ASSUME AloneIsCurrent PROVE AloneIsCurrent'
      <3>1. done <= seen[r] /\ seen[r] <= read[r]
        BY <2>1, <2>3 DEF AloneIsCurrent, Active
      <3>2. \A s \in Regenerators \ {r} : ~ Active(s) /\ regen'[s] = regen[s]
        BY <1>1, <2>1, <2>3 DEF AloneIsCurrent, Active
      <3>3. regen'[r] = "confirm"
        BY <1>1, <2>1
      <3>4. done' <= index'
        BY <1>1, <1>2, <2>1, <3>1
      <3>5. QED
        BY <2>1, <3>1, <3>2, <3>3, <3>4 DEF AloneIsCurrent, Active
    <2>4. QED
      BY <1>1, <2>1, <2>2, <2>3
  <1>6. CASE Confirm(r)
    <2>1. /\ regen[r] = "confirm" /\ regen' = [regen EXCEPT ![r] = "idle"]
          /\ done' = seen[r]
          /\ UNCHANGED <<state, signals, index, seen, read, mixed, silent>>
      BY <1>6 DEF Confirm, Moves
    <2>2. IndexTypeOK'
      BY <2>1, <1>1, <1>2 DEF IndexTypeOK
    <2>3. ASSUME AloneIsCurrent PROVE AloneIsCurrent'
      <3>1. seen[r] <= index
        BY <2>1, <2>3 DEF AloneIsCurrent
      <3>2. \A s \in Regenerators : ~ Active(s)'
        BY <1>1, <2>1, <2>3 DEF AloneIsCurrent, Active
      <3>3. QED
        BY <2>1, <3>1, <3>2 DEF AloneIsCurrent, Active
    <2>4. QED
      BY <1>1, <2>1, <2>2, <2>3
  <1>7. CASE RegenerateFails(r)
    <2>1. /\ regen' = [regen EXCEPT ![r] = "idle"]
          /\ UNCHANGED <<state, signals, done, index, seen, read, mixed, silent>>
      BY <1>7 DEF RegenerateFails, Moves
    <2>2. IndexTypeOK'
      BY <2>1, <1>1 DEF IndexTypeOK
    <2>3. ASSUME AloneIsCurrent PROVE AloneIsCurrent'
      BY <1>1, <2>1, <2>3 DEF AloneIsCurrent, Active
    <2>4. QED
      BY <1>1, <2>1, <2>2, <2>3
  <1>8. QED
    BY <1>3, <1>4, <1>5, <1>6, <1>7 DEF Regenerate

\* The steps of the processes.
LEMMA IndexStep ==
  ASSUME IndexInv, [Next]_vars
  PROVE  IndexInv'
  <1>1. /\ inserting \in [Pollers -> {"no", "signal", "run_one", "done"}]
        /\ IndexTypeOK /\ mixed \in BOOLEAN
        /\ mixed \/ AloneIsCurrent
        /\ ChangesAreCounted /\ Cardinality(Signallers) \in Nat
        /\ {state, signals, silent} \subseteq Nat
    BY FS_CardinalityType DEF IndexInv, ChangesAreCounted, IndexTypeOK
  <1>2. ASSUME UNCHANGED <<indexVars, inserting>> PROVE IndexInv'
    <2>1. Signallers' = Signallers
      BY <1>2 DEF Signallers
    <2>2. ChangesAreCounted'
      BY <1>1, <1>2, <2>1 DEF ChangesAreCounted, indexVars
    <2>3. IndexTypeOK' /\ (AloneIsCurrent => AloneIsCurrent') /\ UNCHANGED mixed
      BY <1>1, <1>2 DEF IndexTypeOK, AloneIsCurrent, Active, indexVars
    <2>4. QED
      BY <1>1, <1>2, <2>2, <2>3 DEF IndexInv
  <1>3. ASSUME NEW p \in Pollers, Insert(p) PROVE IndexInv'
    <2>1. /\ inserting[p] = "no" /\ inserting' = [inserting EXCEPT ![p] = "signal"]
          /\ state' = state + 1
          /\ UNCHANGED <<signals, done, index, regen, seen, read, mixed, silent>>
      BY <1>3 DEF Insert, At, ChangeState
    <2>2. /\ IsFiniteSet(Signallers')
          /\ Cardinality(Signallers') = Cardinality(Signallers) + 1
      BY <2>1, SignallersChange
    <2>3. ChangesAreCounted'
      BY <1>1, <2>1, <2>2 DEF ChangesAreCounted
    <2>4. IndexTypeOK'
      BY <1>1, <2>1 DEF IndexTypeOK
    <2>5. AloneIsCurrent => AloneIsCurrent'
      BY <2>1 DEF AloneIsCurrent, Active
    <2>6. QED
      BY <1>1, <2>1, <2>3, <2>4, <2>5 DEF IndexInv
  <1>4. ASSUME NEW p \in Pollers, Signal(p) PROVE IndexInv'
    <2>1. /\ inserting[p] = "signal" /\ inserting' = [inserting EXCEPT ![p] = "run_one"]
          /\ signals' = signals + 1
          /\ UNCHANGED <<state, done, index, regen, seen, read, mixed, silent>>
      BY <1>4 DEF Signal, At, SendSignal
    <2>2. /\ IsFiniteSet(Signallers')
          /\ Cardinality(Signallers') = Cardinality(Signallers) - 1
      BY <2>1, SignallersChange
    <2>3. ChangesAreCounted'
      BY <1>1, <2>1, <2>2 DEF ChangesAreCounted
    <2>4. IndexTypeOK'
      BY <1>1, <2>1 DEF IndexTypeOK
    <2>5. AloneIsCurrent => AloneIsCurrent'
      BY <2>1 DEF AloneIsCurrent, Active
    <2>6. QED
      BY <1>1, <2>1, <2>3, <2>4, <2>5 DEF IndexInv
  <1>5. ASSUME NEW p \in Pollers, DieBeforeSignal(p) PROVE IndexInv'
    <2>1. /\ inserting[p] = "signal" /\ inserting' = [inserting EXCEPT ![p] = "done"]
          /\ silent' = silent + 1
          /\ UNCHANGED <<state, signals, done, index, regen, seen, read, mixed>>
      BY <1>5 DEF DieBeforeSignal, At, NoSignal
    <2>2. /\ IsFiniteSet(Signallers')
          /\ Cardinality(Signallers') = Cardinality(Signallers) - 1
      BY <2>1, SignallersChange
    <2>3. ChangesAreCounted'
      BY <1>1, <2>1, <2>2 DEF ChangesAreCounted
    <2>4. IndexTypeOK'
      BY <1>1, <2>1 DEF IndexTypeOK
    <2>5. AloneIsCurrent => AloneIsCurrent'
      BY <2>1 DEF AloneIsCurrent, Active
    <2>6. QED
      BY <1>1, <2>1, <2>3, <2>4, <2>5 DEF IndexInv
  <1>6. ASSUME NEW p \in Pollers, RunOne(p) PROVE IndexInv'
    <2>1. /\ inserting[p] = "run_one"
          /\ inserting' = [inserting EXCEPT ![p] = "done"] \/ UNCHANGED inserting
      BY <1>6 DEF RunOne
    <2>2. Signallers' = Signallers
      <3>1. CASE UNCHANGED inserting
        BY <3>1 DEF Signallers
      <3>2. CASE inserting' = [inserting EXCEPT ![p] = "done"]
        BY <2>1, <3>2, SignallersChange
      <3>3. QED
        BY <2>1, <3>1, <3>2
    <2>3. inserting' \in [Pollers -> {"no", "signal", "run_one", "done"}]
      BY <1>1, <2>1
    <2>4. /\ IndexTypeOK' /\ mixed' \in BOOLEAN
          /\ mixed' \/ AloneIsCurrent'
          /\ UNCHANGED <<state, signals, silent>>
      <3>1. CASE UNCHANGED indexVars
        BY <1>1, <3>1 DEF IndexTypeOK, AloneIsCurrent, Active, indexVars
      <3>2. CASE Regenerate(p) \/ RegenerateFails(p)
        <4>1. p \in Regenerators
          BY RegeneratorsAssumption
        <4>2. QED
          BY <3>2, <4>1, RegenerateStep
      <3>3. QED
        BY <1>6, <3>1, <3>2 DEF RunOne
    <2>5. ChangesAreCounted'
      BY <1>1, <2>2, <2>4 DEF ChangesAreCounted
    <2>6. QED
      BY <2>3, <2>4, <2>5 DEF IndexInv
  <1>7. ASSUME DaemonRegenerates \/ DaemonFails PROVE IndexInv'
    <2>1. Regenerate(Daemon) \/ RegenerateFails(Daemon)
      BY <1>7 DEF DaemonRegenerates, DaemonFails
    <2>2. UNCHANGED inserting
      BY <1>7 DEF DaemonRegenerates, DaemonFails
    <2>3. Daemon \in Regenerators
      BY RegeneratorsAssumption
    <2>4. /\ IndexTypeOK' /\ mixed' \in BOOLEAN
          /\ mixed' \/ AloneIsCurrent'
          /\ UNCHANGED <<state, signals, silent>>
      BY <2>1, <2>3, RegenerateStep
    <2>5. Signallers' = Signallers
      BY <2>2 DEF Signallers
    <2>6. ChangesAreCounted'
      BY <1>1, <2>4, <2>5 DEF ChangesAreCounted
    <2>7. QED
      BY <1>1, <2>2, <2>4, <2>6 DEF IndexInv
  <1>8. CASE UNCHANGED vars
    BY <1>2, <1>8 DEF vars
  <1>9. CASE Next
    <2>1. CASE Pushed
      BY <1>2, <2>1 DEF Pushed
    <2>2. ASSUME NEW p \in Pollers, PoolStep(p) PROVE IndexInv'
      BY <1>2, <2>2 DEF PoolStep
    <2>3. QED
      BY <1>3, <1>4, <1>5, <1>6, <1>7, <1>9, <2>1, <2>2 DEF Next
  <1>10. QED
    BY <1>8, <1>9

LEMMA IndexInvHolds == Spec => []IndexInv
  BY IndexInitial, IndexStep, PTL DEF Spec

\* The variables keep their types, however many processes insert or poll.
THEOREM PollingTypeCorrect == Spec => []TypeOK
  <1>1. PollInv /\ IndexInv => TypeOK
    BY DEF PollInv, IndexInv, TypeOK
  <1>2. QED
    BY <1>1, PollInvHolds, IndexInvHolds, PTL

\* Once all signals are handled the files lack no change that was signalled, unless
\* two have regenerated them at the same time: a signal that arrives after the state
\* was read is not taken for handled (run_one confirms the signal that it has seen).
THEOREM IndexFilesShowTheQueues == Spec => []IndexShowsTheQueues
  <1>1. IndexInv => IndexShowsTheQueues
    <2> SUFFICES ASSUME IndexInv, signals = done, ~ mixed
                 PROVE  state - index <= Cardinality(Signallers) + silent
      BY DEF IndexShowsTheQueues, IndexIsCurrent, Signallers
    <2>1. done <= index /\ state = signals + silent + Cardinality(Signallers)
      BY DEF IndexInv, AloneIsCurrent, ChangesAreCounted
    <2>2. Cardinality(Signallers) \in Nat
      BY FS_CardinalityType DEF IndexInv, ChangesAreCounted
    <2>3. /\ {state, signals, silent} \subseteq Nat
          /\ done \in 0 .. signals /\ index \in 0 .. state
      BY DEF IndexInv, IndexTypeOK
    <2>4. QED
      BY <2>1, <2>2, <2>3
  <1>2. QED
    BY <1>1, IndexInvHolds, PTL

-----------------------------------------------------------------------------
(* One directory.                                                          *)

\* Nothing has gone wrong, and nothing will from what has happened already;
Smooth ==
    /\ trouble = 0
    /\ \A p \in Pollers : step[p] # "set aside" /\ answer[p] # "error"

\* then a copy knows no other directory than the first one, and whoever knows it can
\* use it, unless it is about to be cloned;
KnowsTheFirst(p) ==
    /\ using[p] = 0
    /\ copy[p].next \in {0, 1}
    /\ copy[p].next = 1 => step[p] = "clone" \/ CanBeUsedForJobs(copy[p].entries[0])
    /\ \A d \in Ids \ {0} : copy[p].entries[d] = "absent"

\* and that is there partly only while its clone has the lock.
OnlyTheFirst ==
    /\ \A d \in Ids \ {0} : dirs[d] = "absent"
    /\ dirs[0] # "Error"
    /\ dirs[0] = "partial" => \E p \in Pollers : locked = p /\ step[p] = "clone"

OneInv ==
    /\ trouble \in Nat
    /\ \A p \in Pollers : answer[p] = "error" => step[p] = "end"
    /\ Smooth => OnlyTheFirst /\ \A p \in Pollers : KnowsTheFirst(p)

LEMMA OneInitial == Init => OneInv
  <1> SUFFICES ASSUME PoolInit PROVE OneInv
    BY DEF Init
  <1>1. /\ trouble = 0 /\ \A d \in Ids : dirs[d] = "absent"
        /\ \A p \in Pollers : using[p] = 0 /\ copy[p].next = 0 /\ copy[p].entries = dirs
    BY DEF PoolInit
  <1>2. 0 \in Ids
    BY PollersAssumption DEF Ids
  <1>3. OnlyTheFirst
    BY <1>1, <1>2 DEF OnlyTheFirst
  <1>4. \A p \in Pollers : KnowsTheFirst(p)
    BY <1>1 DEF KnowsTheFirst
  <1>5. \A p \in Pollers : answer[p] = "unknown"
    BY DEF PoolInit
  <1>6. QED
    BY <1>1, <1>3, <1>4, <1>5 DEF OneInv

\* A process that has ended does nothing.
LEMMA NotEnded ==
  ASSUME NEW p \in Pollers, PollerNext(p)
  PROVE  step[p] # "end"
  BY DEF PollerNext, Open, Ask, Resolve, Clone, Enter, Check, Fetch, CheckAgain, Finish,
         SetAside, Die, Goes

LEMMA ErrorsEnd ==
  ASSUME PollInv, OneInv, NEW p \in Pollers, PollerNext(p)
  PROVE  /\ trouble' \in Nat
         /\ \A q \in Pollers : answer'[q] = "error" => step'[q] = "end"
  <1>1. /\ step \in [Pollers -> Steps]
        /\ answer \in [Pollers -> {"unknown", "valid", "invalid", "updated", "error"}]
        /\ trouble \in Nat /\ answer[p] # "error"
    BY Basics, NotEnded DEF OneInv
  <1>2. answer'[p] = "error" => step'[p] = "end"
    <2>1. CASE Gives(p, "error") \/ Die(p)
      BY <1>1, <2>1 DEF Gives, Die
    <2>2. CASE \/ UNCHANGED answer
               \/ \E a \in {"unknown", "valid", "invalid", "updated"} :
                    answer' = [answer EXCEPT ![p] = a]
      BY <1>1, <2>2
    <2>3. QED
      BY <2>1, <2>2 DEF PollerNext, Open, Ask, Resolve, Clone, Enter, Check, Fetch,
                        CheckAgain, Finish, SetAside
  <1>3. \A q \in Pollers \ {p} : answer'[q] = "error" => step'[q] = "end"
    BY OthersKeep DEF OneInv
  <1>4. trouble' = trouble \/ trouble' = trouble + 1
    BY DEF PollerNext, Open, Ask, Resolve, Clone, Enter, Check, Fetch, CheckAgain, Finish,
           SetAside, Die
  <1>5. QED
    BY <1>1, <1>2, <1>3, <1>4

\* A step after which all is smooth still was one that went well.
LEMMA SmoothBefore ==
  ASSUME PollInv, OneInv, NEW p \in Pollers, PollerNext(p), Smooth'
  PROVE  /\ Smooth /\ trouble' = 0 /\ trouble = 0 /\ ~ Die(p) /\ ~ SetAside(p)
         /\ ~ Gives(p, "error")
  <1>1. step \in [Pollers -> Steps] /\ answer \in [Pollers -> {"unknown", "valid", "invalid", "updated", "error"}]
    BY Basics
  <1>2. trouble \in Nat /\ trouble' = 0
    BY DEF OneInv, Smooth
  <1>3. answer'[p] # "error" /\ step'[p] # "set aside"
    BY DEF Smooth
  <1>4. ~ Gives(p, "error")
    BY <1>1, <1>3 DEF Gives
  <1>5. ~ Die(p) /\ ~ SetAside(p)
    BY <1>1, <1>3, <1>4 DEF Die, SetAside
  <1>6. trouble' = trouble \/ trouble' = trouble + 1
    BY DEF PollerNext, Open, Ask, Resolve, Clone, Enter, Check, Fetch, CheckAgain, Finish,
           SetAside, Die
  <1>7. trouble = 0
    BY <1>2, <1>6
  <1>8. \A q \in Pollers \ {p} : step[q] # "set aside" /\ answer[q] # "error"
    BY OthersKeep DEF Smooth
  <1>9. step[p] # "set aside"
    <2>1. SUFFICES ASSUME step[p] = "set aside" PROVE FALSE
      OBVIOUS
    <2>2. Open(p) \/ (\E c \in Commits, k \in {"commit", "update"} : Ask(p, c, k))
          \/ Resolve(p) \/ Clone(p) \/ Enter(p)
          \/ Check(p) \/ Fetch(p) \/ CheckAgain(p) \/ Finish(p)
      BY <1>5 DEF PollerNext
    <2>3. QED
      BY <2>1, <2>2 DEF Open, Ask, Resolve, Clone, Enter, Check, Fetch, CheckAgain, Finish, Goes
  <1>10. answer[p] # "error"
    BY NotEnded DEF OneInv
  <1>11. QED
    BY <1>2, <1>4, <1>5, <1>7, <1>8, <1>9, <1>10 DEF Smooth

\* While nothing goes wrong, every step of a process keeps to the first directory.
LEMMA OneStepOfPoller ==
  ASSUME PollInv, OneInv, NEW p \in Pollers, PollerNext(p), Smooth'
  PROVE  OnlyTheFirst' /\ KnowsTheFirst(p)'
  <1>1. /\ step \in [Pollers -> Steps] /\ using \in [Pollers -> Ids]
        /\ copy \in [Pollers -> [next : 0 .. MaxDirs, entries : [Ids -> States]]]
        /\ dirs \in [Ids -> States] /\ PoolTypeOK /\ 0 \in Ids
    BY Basics, PollersAssumption DEF Ids
  <1>2. /\ OnlyTheFirst /\ using[p] = 0 /\ KnowsTheFirst(p)
        /\ ~ Die(p) /\ ~ SetAside(p) /\ ~ Gives(p, "error")
    BY SmoothBefore DEF OneInv, KnowsTheFirst
  <1>3. /\ WorkIsLocked(p) /\ UsedAreSettled(p)
    BY Basics
  <1>4. IsFree => dirs[0] # "partial"
    BY <1>2, PollersAssumption DEF IsFree, OnlyTheFirst
  <1>5. step[p] \in Acting => dirs[0] # "partial"
    BY <1>2, <1>3 DEF UsedAreSettled, Settled
  <1>6. ASSUME UNCHANGED <<dirs, copy, using>>, dirs[0] # "partial", step[p] # "clone"
        PROVE  OnlyTheFirst' /\ KnowsTheFirst(p)'
    BY <1>2, <1>6 DEF OnlyTheFirst, KnowsTheFirst, CanBeUsedForJobs
  <1>7. ASSUME NEW s \in {"Processing", "Finished"}, Save(p, using[p], s), UNCHANGED using, IsFree
        PROVE  OnlyTheFirst' /\ KnowsTheFirst(p)'
    <2>1. s \in States /\ Save(p, 0, s)
      BY <1>2, <1>7 DEF States
    <2>2. /\ copy'[p].entries[0] = s
          /\ \A e \in Ids \ {0} : copy'[p].entries[e] = copy[p].entries[e] /\ dirs'[e] = dirs[e]
          /\ dirs'[0] = s \/ dirs'[0] = dirs[0]
      BY <1>1, <2>1, SaveType
    <2>3. copy'[p].next = copy[p].next
      BY <1>1, <2>1 DEF Save
    <2>4. OnlyTheFirst'
      BY <1>2, <1>4, <1>7, <2>2 DEF OnlyTheFirst
    <2>5. KnowsTheFirst(p)'
      BY <1>2, <1>7, <2>2, <2>3 DEF KnowsTheFirst, CanBeUsedForJobs
    <2>6. QED
      BY <2>4, <2>5
  <1>8. CASE Open(p)
    <2> DEFINE present == {d \in Ids : dirs[d] # "absent"}
               next == CHOOSE n \in 0 .. MaxDirs : /\ \A d \in present : d < n
                                                   /\ n = 0 \/ n - 1 \in present
    <2>1. present \subseteq {0} /\ present \subseteq 0 .. MaxDirs - 1
      BY <1>2 DEF OnlyTheFirst, Ids
    <2>2. \E n \in 0 .. MaxDirs : /\ \A d \in present : d < n
                                  /\ n = 0 \/ n - 1 \in present
      BY <2>1, OneAbove, PollersAssumption
    <2>3. next \in 0 .. MaxDirs /\ (next = 0 \/ next - 1 \in present)
      BY <2>2
    <2>4. /\ copy' = [copy EXCEPT ![p] = [next |-> next, entries |-> dirs']]
          /\ dirs' = [d \in Ids |-> IF dirs[d] = "partial" THEN "CheckedOut" ELSE dirs[d]]
          /\ UNCHANGED using /\ IsFree
      BY <1>8 DEF Open
    <2> HIDE DEF next
    <2>5. next = 0 \/ (next = 1 /\ 0 \in present)
      <3>1. next - 1 \in present => next - 1 = 0 /\ 0 \in present
        BY <2>1
      <3>2. QED
        BY <2>3, <3>1
    <2>6. dirs' = dirs
      BY <1>1, <1>2, <1>4, <2>4 DEF OnlyTheFirst
    <2>7. copy'[p].next = next /\ copy'[p].entries = dirs
      BY <1>1, <2>4, <2>6
    <2>8. dirs[0] # "absent" => CanBeUsedForJobs(dirs[0])
      BY <1>1, <1>2, <1>4, <2>4 DEF States, CanBeUsedForJobs, OnlyTheFirst
    <2>9. OnlyTheFirst'
      BY <1>2, <1>4, <2>4, <2>6 DEF OnlyTheFirst
    <2>10. KnowsTheFirst(p)'
      BY <1>2, <2>4, <2>5, <2>7, <2>8 DEF KnowsTheFirst, OnlyTheFirst
    <2>11. QED
      BY <2>9, <2>10
  <1>9. ASSUME NEW c \in Commits, NEW k \in {"commit", "update"}, Ask(p, c, k)
        PROVE  OnlyTheFirst' /\ KnowsTheFirst(p)'
    <2>1. PICK d \in Ids : Takes(p, d)
      BY <1>1, <1>9, AskType
    <2>2. IsFree /\ step[p] = "idle"
      BY <1>9 DEF Ask
    <2>3. CASE CanBeUsedForJobs(copy[p].entries[d]) /\ UNCHANGED <<dirs, copy, locked>>
      <3>1. d = 0
        BY <1>2, <2>3 DEF KnowsTheFirst, CanBeUsedForJobs
      <3>2. using'[p] = 0
        BY <1>1, <2>1, <3>1 DEF Takes
      <3>3. OnlyTheFirst'
        BY <1>2, <1>4, <2>2, <2>3 DEF OnlyTheFirst
      <3>4. QED
        BY <1>2, <2>2, <2>3, <3>2, <3>3 DEF KnowsTheFirst
    <2>4. CASE /\ d = copy[p].next /\ \A e \in Ids : ~ CanBeUsedForJobs(copy[p].entries[e])
               /\ step' = [step EXCEPT ![p] = "clone"] /\ locked' = p
               /\ copy' = [copy EXCEPT ![p].next = d + 1]
               /\ dirs' = IF dirs[d] = "absent" THEN [dirs EXCEPT ![d] = "partial"] ELSE dirs
      <3>1. d = 0
        BY <1>1, <1>2, <2>2, <2>4 DEF KnowsTheFirst
      <3>2. using'[p] = 0 /\ step'[p] = "clone"
        BY <1>1, <2>1, <2>4, <3>1 DEF Takes
      <3>3. copy'[p].next = 1 /\ copy'[p].entries = copy[p].entries
        BY <1>1, <2>4, <3>1
      <3>4. \A e \in Ids \ {0} : dirs'[e] = dirs[e]
        BY <1>1, <2>4, <3>1
      <3>5. dirs'[0] = "partial" \/ dirs'[0] = dirs[0]
        BY <1>1, <2>4, <3>1
      <3>6. OnlyTheFirst'
        BY <1>2, <2>4, <3>2, <3>4, <3>5 DEF OnlyTheFirst
      <3>7. KnowsTheFirst(p)'
        BY <1>2, <3>2, <3>3 DEF KnowsTheFirst
      <3>8. QED
        BY <3>6, <3>7
    <2>5. QED
      BY <2>1, <2>3, <2>4 DEF Takes
  <1>10. CASE Resolve(p)
    <2>1. IsFree /\ step[p] = "idle" /\ UNCHANGED <<dirs, copy, using>>
      BY <1>10 DEF Resolve, Goes
    <2>2. QED
      BY <1>4, <1>6, <2>1
  <1>11. CASE Clone(p)
    <2>1. /\ dirs' = [dirs EXCEPT ![0] = "CheckedOut"]
          /\ copy' = [copy EXCEPT ![p].entries[0] = "CheckedOut"]
          /\ UNCHANGED using
      BY <1>2, <1>11 DEF Clone
    <2>2. /\ copy'[p].next = copy[p].next /\ copy'[p].entries[0] = "CheckedOut"
          /\ \A d \in Ids \ {0} : copy'[p].entries[d] = copy[p].entries[d]
      <3>1. copy'[p] = [copy[p] EXCEPT !.entries = [@ EXCEPT ![0] = "CheckedOut"]]
        BY <1>1, <2>1
      <3>2. copy[p] \in [next : 0 .. MaxDirs, entries : [Ids -> States]]
        BY <1>1
      <3>3. QED
        BY <1>1, <3>1, <3>2
    <2>3. dirs'[0] = "CheckedOut" /\ \A d \in Ids \ {0} : dirs'[d] = dirs[d]
      BY <1>1, <2>1
    <2>4. OnlyTheFirst'
      BY <1>2, <2>3 DEF OnlyTheFirst
    <2>5. KnowsTheFirst(p)'
      BY <1>2, <2>1, <2>2 DEF KnowsTheFirst, CanBeUsedForJobs
    <2>6. QED
      BY <2>4, <2>5
  <1>12. CASE Enter(p)
    <2>1. IsFree /\ Save(p, using[p], "Processing") /\ UNCHANGED using
      BY <1>2, <1>12 DEF Enter, question
    <2>2. QED
      BY <1>7, <2>1
  <1>13. CASE Check(p) \/ Fetch(p) \/ CheckAgain(p)
    <2>1. step[p] \in Acting /\ step[p] # "clone" /\ UNCHANGED <<dirs, copy, using>>
      BY <1>13 DEF Check, Fetch, CheckAgain, Acting
    <2>2. QED
      BY <1>5, <1>6, <2>1
  <1>14. CASE Finish(p)
    <2>1. IsFree /\ Save(p, using[p], "Finished") /\ UNCHANGED using
      BY <1>14 DEF Finish
    <2>2. QED
      BY <1>7, <2>1
  <1>15. QED
    BY <1>2, <1>8, <1>9, <1>10, <1>11, <1>12, <1>13, <1>14 DEF PollerNext

LEMMA OneStep ==
  ASSUME PollInv, OneInv, [Next]_vars
  PROVE  OneInv'
  <1>1. ASSUME UNCHANGED pollVars, trouble' = trouble \/ trouble' = trouble + 1
        PROVE  OneInv'
    <2>1. trouble \in Nat /\ (trouble' = 0 => trouble = 0) /\ trouble' \in Nat
      BY <1>1 DEF OneInv
    <2>2. Smooth' => Smooth
      BY <1>1, <2>1 DEF Smooth, pollVars
    <2>3. (OnlyTheFirst => OnlyTheFirst') /\ \A p \in Pollers : KnowsTheFirst(p) => KnowsTheFirst(p)'
      BY <1>1 DEF OnlyTheFirst, KnowsTheFirst, pollVars
    <2>4. QED
      BY <1>1, <2>1, <2>2, <2>3 DEF OneInv, pollVars
  <1>2. CASE Push
    <2>1. UNCHANGED <<dirs, locked, copy, step, using, answer, trouble>>
      BY <1>2 DEF Push
    <2>2. (OnlyTheFirst => OnlyTheFirst') /\ \A p \in Pollers : KnowsTheFirst(p) => KnowsTheFirst(p)'
      BY <2>1 DEF OnlyTheFirst, KnowsTheFirst
    <2>3. QED
      BY <2>1, <2>2 DEF OneInv, Smooth
  <1>3. ASSUME NEW p \in Pollers, PollerNext(p) PROVE OneInv'
    <2>1. /\ trouble' \in Nat
          /\ \A q \in Pollers : answer'[q] = "error" => step'[q] = "end"
      BY <1>3, ErrorsEnd
    <2>2. ASSUME Smooth' PROVE OnlyTheFirst' /\ \A q \in Pollers : KnowsTheFirst(q)'
      <3>1. OnlyTheFirst' /\ KnowsTheFirst(p)'
        BY <1>3, <2>2, OneStepOfPoller
      <3>2. ASSUME NEW q \in Pollers, q # p PROVE KnowsTheFirst(q)'
        <4>1. KnowsTheFirst(q)
          BY <1>3, <2>2, SmoothBefore DEF OneInv
        <4>2. step'[q] = step[q] /\ using'[q] = using[q] /\ copy'[q] = copy[q]
          BY <1>3, <3>2, OthersKeep
        <4>3. QED
          BY <4>1, <4>2 DEF KnowsTheFirst
      <3>3. QED
        BY <3>1, <3>2
    <2>3. QED
      BY <2>1, <2>2 DEF OneInv
  <1>4. PollNext \/ (UNCHANGED pollVars /\ (trouble' = trouble \/ trouble' = trouble + 1))
    BY DEF Next, vars, PollNext, pollVars, poolVars, Pushed, PoolStep, DaemonRegenerates,
           DaemonFails, Insert, Signal, DieBeforeSignal, RunOne
  <1>5. QED
    BY <1>1, <1>2, <1>3, <1>4 DEF PollNext

\* As long as git works and nobody dies, the pool has one directory, although every
\* process chooses from its own copy of the pool, which it has read at any time: the
\* lock on the base directory and the ids that follow the largest one see to it.
THEOREM PoolHasOneDirectory == Spec => []OneDirectory
  <1>1. OneInv => OneDirectory
    <2> SUFFICES ASSUME OneInv, Smooth
                 PROVE  Cardinality({d \in Ids : dirs[d] # "absent"}) <= 1
      BY DEF OneDirectory, Smooth
    <2> DEFINE present == {d \in Ids : dirs[d] # "absent"}
    <2>1. present \subseteq {0}
      BY DEF OneInv, OnlyTheFirst
    <2> HIDE DEF present
    <2>2. IsFiniteSet({0}) /\ Cardinality({0}) = 1
      BY FS_Singleton
    <2>3. Cardinality(present) <= Cardinality({0})
      BY <2>1, <2>2, FS_Subset
    <2>4. QED
      BY <2>2, <2>3 DEF present
  <1>2. Spec => []OneInv
    BY OneInitial, OneStep, PollInvHolds, PTL DEF Spec
  <1>3. QED
    BY <1>1, <1>2, PTL
=============================================================================
