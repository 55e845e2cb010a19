--------------------- MODULE WorkingDirectoryPool_proofs ---------------------
(***************************************************************************)
(* Proofs about WorkingDirectoryPool for any number of commits, tools and  *)
(* directories, any capacity and configuration of the pool, and any number *)
(* of crashes: what the daemon believes of the directories, what it runs   *)
(* jobs in, and how many directories there are.                            *)
(***************************************************************************)
EXTENDS WorkingDirectoryPool, FiniteSetTheorems, WellFoundedInduction, TLAPS

-----------------------------------------------------------------------------
(* Choices.                                                                *)

\* A set of naturals below a bound has a largest one.
LEMMA Largest ==
  ASSUME NEW n \in Nat, NEW S, S \subseteq 0 .. n, S # {}
  PROVE  \E d \in S : \A e \in S : e <= d
  <1> DEFINE T == {m \in 0 .. n : \A e \in S : e <= m}
  <1>1. n \in T /\ T \subseteq Nat
    OBVIOUS
  <1>2. PICK m \in T : \A k \in T : <<k, m>> \notin OpToRel(<, Nat)
    BY <1>1, WFMin, NatLessThanWellFounded
  <1>3. \A k \in T : ~ (k < m)
    BY <1>1, <1>2 DEF OpToRel
  <1>4. m \in S
    <2>1. SUFFICES ASSUME m \notin S PROVE FALSE
      OBVIOUS
    <2>2. PICK e \in S : TRUE
      OBVIOUS
    <2>3. m \in 0 .. n /\ e <= m /\ e \in 0 .. n /\ e # m
      BY <2>1
    <2>4. m - 1 \in 0 .. n /\ m - 1 < m
      BY <2>3
    <2>5. \A k \in S : k <= m - 1
      BY <2>1, <2>3
    <2>6. QED
      BY <1>3, <2>4, <2>5
  <1>5. QED
    BY <1>4

LEMMA LargestId ==
  ASSUME NEW S, S \subseteq Ids, S # {}
  PROVE  \E d \in S : \A e \in S : e <= d
  <1>1. S \subseteq 0 .. MaxId /\ MaxId \in Nat
    BY PoolAssumption DEF Ids
  <1>2. QED
    BY <1>1, Largest

\* One more than the largest id is above all.
LEMMA NextIdIsAbove ==
  ASSUME dirs \subseteq Ids
  PROVE  NextId \in Nat /\ \A d \in dirs : d < NextId
  <1>1. CASE dirs = {}
    BY <1>1 DEF NextId
  <1>2. CASE dirs # {}
    <2> DEFINE m == CHOOSE d \in dirs : \A e \in dirs : e <= d
    <2>1. m \in dirs /\ \A e \in dirs : e <= m
      BY <1>2, LargestId
    <2>2. NextId = 1 + m
      BY <1>2 DEF NextId
    <2> HIDE DEF m
    <2>3. dirs \subseteq Nat
      BY DEF Ids
    <2>4. QED
      BY <2>1, <2>2, <2>3
  <1>3. QED
    BY <1>1, <1>2

\* The best of some directories is one of them.
LEMMA BestIsOne ==
  ASSUME NEW S, S \subseteq Active, S # {}
  PROVE  Best(S) \in S
  <1> DEFINE Of(status) == {d \in S : mem[d] = status}
             Better(d, e) == \/ Score(mem[e]) < Score(mem[d])
                             \/ Score(mem[e]) = Score(mem[d]) /\ e <= d
  <1>1. \A d \in S : d \in Ids /\ mem[d] \in {"CheckedOut", "Processing", "Finished"}
    BY DEF Active, CanBeUsed
  <1>2. Score("CheckedOut") = 1 /\ Score("Processing") = 2 /\ Score("Finished") = 4
    BY DEF Score
  <1>3. \E d \in S : \A e \in S : Better(d, e)
    <2>1. CASE Of("Finished") # {}
      <3>1. PICK d \in Of("Finished") : \A e \in Of("Finished") : e <= d
        BY <1>1, <2>1, LargestId
      <3>2. \A e \in S : Better(d, e)
        BY <1>1, <1>2, <3>1
      <3>3. QED
        BY <3>1, <3>2
    <2>2. CASE Of("Finished") = {} /\ Of("Processing") # {}
      <3>1. PICK d \in Of("Processing") : \A e \in Of("Processing") : e <= d
        BY <1>1, <2>2, LargestId
      <3>2. \A e \in S : Better(d, e)
        BY <1>1, <1>2, <2>2, <3>1
      <3>3. QED
        BY <3>1, <3>2
    <2>3. CASE Of("Finished") = {} /\ Of("Processing") = {}
      <3>1. PICK d \in S : \A e \in S : e <= d
        BY <1>1, LargestId
      <3>2. \A e \in S : Better(d, e)
        BY <1>1, <1>2, <2>3, <3>1
      <3>3. QED
        BY <3>1, <3>2
    <2>4. QED
      BY <2>1, <2>2, <2>3
  <1>4. Best(S) = CHOOSE d \in S : \A e \in S : Better(d, e)
    BY DEF Best
  <1> HIDE DEF Better
  <1>5. QED
    BY <1>3, <1>4

-----------------------------------------------------------------------------
(* The inductive invariant.                                                *)

\* Where the daemon is tells what it uses, and that no signal is lost.
Uses == {"process", "checkout", "running", "succeeded", "failed", "cleanup"}
StepOK ==
    /\ pc = "down" => mem = Absent /\ ~signal
    /\ task = "test" \/ pc = "signals" => ~signal
    /\ pc = "test" => task = "test"
    /\ pc \in Uses => wd \in Ids
    /\ pc \in {"process", "checkout"} /\ task = "job" => commit \in Commits
    /\ pc = "process" => CanBeUsed(mem[wd])
    /\ pc = "checkout" => mem[wd] = "Processing" /\ task = "job"
    /\ pc \in {"running", "succeeded", "failed"} => mem[wd] \in {"Processing", "CheckedOut"}
    /\ pc \in {"checkout", "running"} => current = wd

\* A shell is in a directory.
ShellOK == \A t \in Tools : tpc[t] = "shell" => tdir[t] \in Ids

\* What the daemon has said of a directory is in its file, even if the directory
\* was deleted since.
StatusIsSaved ==
    pc # "down" => \A d \in Ids \ contested : CanBeUsed(mem[d]) => mem[d] = file[d]

\* Memory and disk agree on what can be used, unless the daemon will be told.
UsableIsKnown ==
    pc # "down" /\ ~Informed =>
        \A d \in Ids \ contested : CanBeUsed(mem[d]) <=> CanBeUsed(OnDisk(d))

\* The directory of a job stays, and its commit.
JobKeepsDirectory ==
    pc = "running" /\ task = "job" /\ wd \notin contested =>
        wd \in dirs /\ head[wd] = commit

AsideIsUnusable ==
    \A d \in aside : ~CanBeUsed(mem[d]) /\ ~CanBeUsed(OnDisk(d))

\* Only recycled directories can be used and are not known to the daemon.
Usable == {d \in Ids : CanBeUsed(OnDisk(d))}
RoomIsKept ==
    /\ Cardinality(Active \cup Usable) <= Capacity + recycled
    /\ pc # "down" => Cardinality(Usable \ Active) <= recycled

PoolInv ==
    /\ TypeOK /\ StepOK /\ ShellOK /\ NextIdIsFree
    /\ StatusIsSaved /\ UsableIsKnown /\ JobKeepsDirectory
    /\ AsideIsUnusable /\ RoomIsKept

-----------------------------------------------------------------------------
(* Types.                                                                  *)

DiskTypes ==
    /\ dirs \in SUBSET Ids /\ file \in [Ids -> Statuses \cup {"none"}]
    /\ head \in [Ids -> Commits] /\ current \in Ids \cup {NoDir}
Mems == [Ids -> Statuses \cup {"absent"}]
DaemonTypes ==
    /\ pc \in PCs /\ nextId \in Nat
    /\ mem \in Mems /\ memCommit \in [Ids -> Commits \cup {Unknown}]
    /\ signal \in BOOLEAN /\ task \in {"test", "job"}
    /\ commit \in Commits \cup {Unknown} /\ more \in BOOLEAN
    /\ wd \in Ids \cup {NoDir}
    /\ contested \in SUBSET Ids /\ missed \in BOOLEAN
ToolTypes ==
    /\ tpc \in [Tools -> {"idle", "opened", "shell"}]
    /\ tmem \in [Tools -> Mems] /\ tdir \in [Tools -> Ids \cup {NoDir}]
CountTypes ==
    /\ aside \in SUBSET Ids /\ recycled \in Nat
    /\ toolRuns \in Nat /\ crashes \in Nat

LEMMA TypeParts == TypeOK <=> DiskTypes /\ DaemonTypes /\ ToolTypes /\ CountTypes
  BY DEF TypeOK, DiskTypes, DaemonTypes, ToolTypes, CountTypes, Mems

LEMMA InitTypes == Init => TypeOK
  <1> SUFFICES ASSUME Init PROVE TypeOK
    OBVIOUS
  <1>1. Absent \in Mems /\ NoCommits \in [Ids -> Commits \cup {Unknown}]
    BY DEF Absent, NoCommits, Mems
  <1>2. DiskTypes
    BY DEF Init, DiskTypes
  <1>3. DaemonTypes
    BY <1>1 DEF Init, DaemonTypes, PCs
  <1>4. ToolTypes
    BY <1>1 DEF Init, ToolTypes
  <1>5. CountTypes
    BY DEF Init, CountTypes
  <1>6. QED
    BY <1>2, <1>3, <1>4, <1>5, TypeParts

LEMMA GoDownType ==
  ASSUME GoDown PROVE DaemonTypes'
  BY DEF GoDown, DaemonTypes, PCs, Mems, Absent, NoCommits, NoDir

LEMMA UseEndsType ==
  ASSUME DaemonTypes, UseEnds, mem' \in Mems,
         memCommit' \in [Ids -> Commits \cup {Unknown}]
  PROVE  DaemonTypes'
  BY DEF UseEnds, DaemonTypes, PCs, NoDir

LEMMA UseFailsType ==
  ASSUME DaemonTypes, NEW m \in Mems, NEW c \in [Ids -> Commits \cup {Unknown}],
         UseFails(m, c)
  PROVE  DaemonTypes'
  <1>1. CASE task = "job"
    <2>1. UseEnds /\ mem' = m /\ memCommit' = c
      BY <1>1 DEF UseFails
    <2>2. QED
      BY <2>1, UseEndsType
  <1>2. CASE task # "job"
    BY <1>2, GoDownType DEF UseFails
  <1>3. QED
    BY <1>1, <1>2

\* What the daemon writes into the files and its memory.
LEMMA WriteTypes ==
  ASSUME DiskTypes, DaemonTypes, NEW status \in Statuses
  PROVE  /\ MemAfter(status) \in Mems /\ MemAfter("absent") \in Mems
         /\ FileAfter(status) \in [Ids -> Statuses \cup {"none"}]
         /\ [memCommit EXCEPT ![wd] = Unknown] \in [Ids -> Commits \cup {Unknown}]
         /\ commit \in Commits => [memCommit EXCEPT ![wd] = commit]
                                     \in [Ids -> Commits \cup {Unknown}]
  <1>1. MemAfter(status) \in Mems /\ MemAfter("absent") \in Mems
    BY DEF MemAfter, Mems, DaemonTypes
  <1>2. FileAfter(status) \in [Ids -> Statuses \cup {"none"}]
    BY DEF FileAfter, DiskTypes
  <1>3. QED
    BY <1>1, <1>2 DEF DaemonTypes

LEMMA OpenTypes ==
  ASSUME DiskTypes
  PROVE  /\ ReadPool \in Mems /\ FilesAfterOpen \in [Ids -> Statuses \cup {"none"}]
         /\ \A d \in Ids : OnDisk(d) \in Statuses \cup {"absent"}
         /\ NextId \in Nat
         /\ NoCommits \in [Ids -> Commits \cup {Unknown}]
  <1>1. \A d \in Ids : OnDisk(d) \in Statuses \cup {"absent"}
    BY DEF OnDisk, DiskTypes, Statuses
  <1>2. ReadPool \in Mems
    BY <1>1 DEF ReadPool, Mems
  <1>3. \A d \in dirs : OnDisk(d) \in Statuses
    BY DEF OnDisk, DiskTypes, Statuses
  <1>4. FilesAfterOpen \in [Ids -> Statuses \cup {"none"}]
    BY <1>3 DEF FilesAfterOpen, DiskTypes
  <1>5. QED
    BY <1>1, <1>2, <1>4, NextIdIsAbove DEF NoCommits, DiskTypes

LEMMA InitCommitsType ==
  ASSUME DiskTypes, DaemonTypes
  PROVE  InitCommits \in [Ids -> Commits \cup {Unknown}]
  BY DEF InitCommits, DiskTypes, DaemonTypes

LEMMA CloneTypes ==
  ASSUME DiskTypes, DaemonTypes, CountTypes,
         NEW commits \in [Ids -> Commits \cup {Unknown}], Clone(commits)
  PROVE  /\ dirs' \in SUBSET Ids /\ file' \in [Ids -> Statuses \cup {"none"}]
         /\ head' \in [Ids -> Commits]
         /\ mem' \in Mems /\ memCommit' \in [Ids -> Commits \cup {Unknown}]
         /\ nextId' \in Nat /\ wd' \in Ids /\ aside' \in SUBSET Ids
  <1>1. /\ dirs' \in SUBSET Ids /\ nextId' \in Nat /\ wd' \in Ids
        /\ aside' \in SUBSET Ids
    BY DEF Clone, DiskTypes, CountTypes, Ids
  <1>2. file' \in [Ids -> Statuses \cup {"none"}] /\ mem' \in Mems
    BY DEF Clone, DiskTypes, DaemonTypes, Statuses, Mems
  <1>3. /\ head' \in [Ids -> Commits] /\ memCommit' \in [Ids -> Commits \cup {Unknown}]
    BY DEF Clone, DiskTypes
  <1>4. QED
    BY <1>1, <1>2, <1>3

\* A directory that is got can be used.
LEMMA Gets ==
  ASSUME GetExisting \/ GetFirst
  PROVE  wd' \in Active
  <1>1. CASE GetExisting
    <2>1. PICK queued \in SUBSET Commits, m \in BOOLEAN : \E c \in queued :
             IF Fitting(c, queued) # {} THEN wd' = Best(Fitting(c, queued))
             ELSE wd' \in Active
      BY <1>1 DEF GetExisting
    <2>2. PICK c \in queued :
             IF Fitting(c, queued) # {} THEN wd' = Best(Fitting(c, queued))
             ELSE wd' \in Active
      BY <2>1
    <2>3. Fitting(c, queued) \subseteq Active
      BY DEF Fitting
    <2>4. QED
      BY <2>2, <2>3, BestIsOne
  <1>2. CASE GetFirst
    <2>1. Active # {} /\ wd' = CHOOSE d \in Active : \A e \in Active : d <= e
      BY <1>2 DEF GetFirst
    <2>2. \E d \in Active : \A e \in Active : d <= e
      <3>1. Active \subseteq Nat
        BY DEF Active, Ids
      <3>2. PICK d \in Active : \A e \in Active : <<e, d>> \notin OpToRel(<, Nat)
        BY <2>1, <3>1, WFMin, NatLessThanWellFounded
      <3>3. \A e \in Active : ~ (e < d)
        BY <3>1, <3>2 DEF OpToRel
      <3>4. QED
        BY <3>1, <3>3
    <2>3. QED
      BY <2>1, <2>2
  <1>3. QED
    BY <1>1, <1>2

LEMMA DaemonKeepsTools ==
  ASSUME Daemon \/ Exit \/ CloneCut \/ Crash
  PROVE  UNCHANGED toolVars
  <1>1. CASE \/ Start \/ OpenSignals \/ GetExisting \/ GetNew \/ GetFirst
             \/ GetFirstNew \/ GetFails \/ NoJob
    BY <1>1 DEF Start, OpenSignals, GetExisting, GetNew, GetFirst, GetFirstNew, GetFails,
                NoJob
  <1>2. CASE SetProcessing \/ Checkout \/ CheckoutFails \/ RunEnds \/ SetFinished
    BY <1>2 DEF SetProcessing, Checkout, CheckoutFails, RunEnds, SetFinished
  <1>3. CASE SetError \/ CleanUp \/ Loop \/ GotSignals \/ Reload
    BY <1>3 DEF SetError, CleanUp, Loop, GotSignals, Reload
  <1>4. CASE Exit \/ CloneCut \/ Crash
    BY <1>4 DEF Exit, CloneCut, Crash
  <1>5. QED
    BY <1>1, <1>2, <1>3, <1>4 DEF Daemon

LEMMA DaemonTypesStep ==
  ASSUME TypeOK, StepOK,
         Daemon \/ Exit \/ CloneCut \/ Crash
  PROVE  TypeOK'
  <1>0. DiskTypes /\ DaemonTypes /\ ToolTypes /\ CountTypes
    BY TypeParts
  <1> SUFFICES DiskTypes' /\ DaemonTypes' /\ ToolTypes' /\ CountTypes'
    BY DEF TypeOK, DiskTypes, DaemonTypes, ToolTypes, CountTypes, Mems
  <1>t. ToolTypes'
    BY <1>0, DaemonKeepsTools DEF ToolTypes, toolVars
  <1>1. CASE Start \/ Reload
    <2>1. /\ UNCHANGED <<dirs, head, current, signal, commit, more, wd, aside,
                         recycled, toolRuns, crashes>>
          /\ pc' \in PCs /\ task' \in {"test", "job"}
      BY <1>0, <1>1 DEF Start, Reload, PCs, DaemonTypes
    <2>2. /\ mem' \in Mems /\ memCommit' \in [Ids -> Commits \cup {Unknown}]
          /\ nextId' \in Nat /\ file' \in [Ids -> Statuses \cup {"none"}]
          /\ contested' = {} /\ missed' = FALSE
      BY <1>0, <1>1, OpenTypes DEF Start, Reload, OpenPool
    <2>3. QED
      BY <1>0, <1>t, <2>1, <2>2 DEF DiskTypes, DaemonTypes, CountTypes
  <1>2. CASE GoDown /\ UNCHANGED <<diskVars, aside, recycled, toolRuns, crashes>>
    BY <1>0, <1>t, <1>2, GoDownType DEF diskVars, DiskTypes, CountTypes
  <1>3. CASE GetExisting
    <2>1. /\ commit' \in Commits /\ more' \in BOOLEAN /\ memCommit' = InitCommits
          /\ current' = NoDir /\ pc' \in PCs
          /\ UNCHANGED <<dirs, file, head, nextId, mem, signal, task, auxVars>>
      BY <1>3 DEF GetExisting, NewJob, ClearCurrent, PCs
    <2>2. wd' \in Ids
      BY <1>3, Gets DEF Active
    <2>3. QED
      BY <1>0, <1>t, <2>1, <2>2, InitCommitsType
      DEF DiskTypes, DaemonTypes, CountTypes, auxVars
  <1>4. CASE GetFirst
    <2>1. wd' \in Ids
      BY <1>4, Gets DEF Active
    <2>2. QED
      BY <1>0, <1>4, <1>t, <2>1
      DEF GetFirst, ClearCurrent, PCs, DiskTypes, DaemonTypes, CountTypes, auxVars
  <1>5. CASE GetNew \/ GetFirstNew
    <2>1. PICK commits \in [Ids -> Commits \cup {Unknown}] : Clone(commits)
      BY <1>0, <1>5, InitCommitsType DEF GetNew, GetFirstNew, DaemonTypes
    <2>2. /\ commit' \in Commits \cup {Unknown} /\ more' \in BOOLEAN
          /\ current' = NoDir /\ pc' = "process"
          /\ UNCHANGED <<signal, task, contested, missed, recycled, toolRuns, crashes>>
      BY <1>0, <1>5 DEF GetNew, GetFirstNew, NewJob, ClearCurrent, DaemonTypes
    <2>3. QED
      BY <1>0, <1>t, <2>1, <2>2, CloneTypes
      DEF DiskTypes, DaemonTypes, CountTypes, PCs
  <1>6. CASE CloneCut
    <2>1. /\ dirs' \in SUBSET Ids /\ head' \in [Ids -> Commits] /\ aside' \in SUBSET Ids
          /\ crashes' \in Nat
      BY <1>0, <1>6 DEF CloneCut, DiskTypes, CountTypes
    <2>2. QED
      BY <1>0, <1>6, <1>t, <2>1, GoDownType DEF CloneCut, DiskTypes, CountTypes
  <1>7. CASE Crash
    BY <1>0, <1>7, <1>t, GoDownType DEF Crash, diskVars, DiskTypes, CountTypes
  <1>8. CASE OpenSignals \/ NoJob \/ CheckoutFails \/ RunEnds \/ Loop \/ GotSignals
    BY <1>0, <1>8, <1>t
    DEF OpenSignals, NoJob, CheckoutFails, RunEnds, Loop, GotSignals, DiskTypes,
        DaemonTypes, CountTypes, PCs, diskVars, auxVars
  <1>9. CASE SetProcessing
    <2>1. current' \in Ids \cup {NoDir}
      BY <1>0, <1>9 DEF SetProcessing, DiskTypes, DaemonTypes
    <2>2. CASE current = NoDir /\ CanBeUsed(mem[wd])
      BY <1>0, <1>9, <1>t, <2>1, <2>2, WriteTypes
      DEF SetProcessing, DiskTypes, DaemonTypes, CountTypes, PCs, Statuses
    <2>3. CASE ~(current = NoDir /\ CanBeUsed(mem[wd]))
      <3>1. DaemonTypes'
        BY <1>0, <1>9, <2>3, UseFailsType DEF SetProcessing, DaemonTypes
      <3>2. QED
        BY <1>0, <1>9, <1>t, <2>1, <2>3, <3>1 DEF SetProcessing, DiskTypes, CountTypes
    <2>4. QED
      BY <2>2, <2>3
  <1>10. CASE Checkout
    <2>1. CASE head[wd] = commit
      BY <1>0, <1>10, <1>t, <2>1
      DEF Checkout, DiskTypes, DaemonTypes, CountTypes, PCs, auxVars
    <2>2. CASE head[wd] # commit
      <3>1. /\ mem' \in Mems /\ file' \in [Ids -> Statuses \cup {"none"}]
            /\ head' \in [Ids -> Commits]
            /\ memCommit' \in [Ids -> Commits \cup {Unknown}]
        <4>1. pc = "checkout" /\ commit \in Commits
          BY <1>10 DEF Checkout, StepOK
        <4>2. "CheckedOut" \in Statuses
          BY DEF Statuses
        <4>3. QED
          BY <1>0, <1>10, <2>2, <4>1, <4>2, WriteTypes DEF Checkout, DiskTypes
      <3>2. /\ pc' = "running"
            /\ UNCHANGED <<dirs, current, nextId, signal, task, commit, more, wd, auxVars>>
        BY <1>10 DEF Checkout
      <3>3. QED
        BY <1>0, <1>t, <3>1, <3>2
        DEF DiskTypes, DaemonTypes, CountTypes, PCs, auxVars
    <2>3. QED
      BY <2>1, <2>2
  <1>11. CASE SetFinished
    <2>1. /\ mem' \in Mems /\ file' \in [Ids -> Statuses \cup {"none"}]
          /\ UNCHANGED <<dirs, head, current, memCommit, aside, recycled, toolRuns, crashes>>
      BY <1>0, <1>11, WriteTypes DEF SetFinished, Statuses
    <2>2. CASE UseEnds
      BY <1>0, <1>t, <2>1, <2>2, UseEndsType DEF DiskTypes, DaemonTypes, CountTypes
    <2>3. CASE pc' = "cleanup" /\ UNCHANGED <<nextId, signal, task, commit, more, wd,
                                              contested, missed>>
      BY <1>0, <1>t, <2>1, <2>3 DEF DiskTypes, DaemonTypes, CountTypes, PCs
    <2>4. QED
      BY <1>11, <2>2, <2>3 DEF SetFinished
  <1>12. CASE SetError
    <2>1. file' \in [Ids -> Statuses \cup {"none"}]
      BY <1>0, <1>12, WriteTypes DEF SetError, Statuses
    <2>2. DaemonTypes'
      <3>1. MemAfter("Error") \in Mems /\ memCommit \in [Ids -> Commits \cup {Unknown}]
        BY <1>0, WriteTypes DEF Statuses, DaemonTypes
      <3>2. UseFails(MemAfter("Error"), memCommit)
        BY <1>12 DEF SetError
      <3>3. QED
        BY <1>0, <3>1, <3>2, UseFailsType
    <2>3. QED
      BY <1>0, <1>12, <1>t, <2>1, <2>2
      DEF SetError, StepOK, Uses, DiskTypes, CountTypes
  <1>13. CASE CleanUp
    <2>1. DaemonTypes'
      <3>1. CASE wd \in dirs
        BY <1>0, <1>13, <3>1, UseEndsType, WriteTypes DEF CleanUp, Statuses
      <3>2. CASE wd \notin dirs
        BY <1>0, <1>13, <3>2, UseFailsType, WriteTypes DEF CleanUp, Statuses
      <3>3. QED
        BY <3>1, <3>2
    <2>2. QED
      BY <1>0, <1>13, <1>t, <2>1 DEF CleanUp, DiskTypes, CountTypes
  <1>14. QED
    BY <1>1, <1>2, <1>3, <1>4, <1>5, <1>6, <1>7, <1>8, <1>9, <1>10, <1>11, <1>12, <1>13
    DEF Daemon, Exit, GetFails

-----------------------------------------------------------------------------
(* What a step of a tool does to what the daemon relies on.                *)

ToolKeeps ==
    /\ UNCHANGED <<current, pc, nextId, mem, memCommit, task, commit, more, wd>>
    /\ dirs' \subseteq dirs /\ aside' \subseteq aside /\ contested \subseteq contested'
    /\ (signal => signal') /\ (missed => missed')
    /\ signal' => signal \/ Listening
\* The files of directories that can be used,
KeepsFiles == \A d \in Ids \ contested' : CanBeUsed(file[d]) => file'[d] = file[d]
\* which can be used after it, unless the daemon will be told,
KeepsUsable ==
    \/ pc = "down" \/ signal' \/ missed'
    \/ \A d \in Ids \ contested' : CanBeUsed(OnDisk(d)) <=> CanBeUsed(OnDisk(d)')
\* the directory in use, and its commit,
KeepsInUse ==
    \A d \in Ids \ contested' :
        /\ pc # "down" /\ d = current /\ d \in dirs /\ file[d] \in {"CheckedOut", "Processing"}
           => d \in dirs'
        /\ d \in Active => head'[d] = head[d]
\* and those that cannot be used, but for one that is recycled.
KeepsUnusable ==
    \/ /\ recycled' = recycled
       /\ \A d \in Ids : CanBeUsed(OnDisk(d)') => CanBeUsed(OnDisk(d))
    \/ /\ recycled' = recycled + 1
       /\ \E x \in Ids : /\ x \notin aside'
                         /\ \A d \in Ids \ {x} : CanBeUsed(OnDisk(d)') => CanBeUsed(OnDisk(d))
ToolFacts ==
    ToolKeeps /\ KeepsFiles /\ KeepsUsable /\ KeepsInUse /\ KeepsUnusable

\* A tool writes another status for a directory it knows to be set aside.
LEMMA ToolWrites ==
  ASSUME DiskTypes, NEW t \in Tools, NEW d \in Ids, NEW s \in Statuses,
         SetAside(t, d), file' = [file EXCEPT ![d] = s], UNCHANGED dirs,
         contested' = contested \cup StaleIn(t, {d})
  PROVE  /\ KeepsFiles
         /\ \A e \in Ids \ {d} : OnDisk(e)' = OnDisk(e)
         /\ ~CanBeUsed(s) =>
               /\ \A e \in Ids : CanBeUsed(OnDisk(e)') => CanBeUsed(OnDisk(e))
               /\ \A e \in Ids \ contested' : CanBeUsed(OnDisk(e)) <=> CanBeUsed(OnDisk(e)')
  <1>1. file \in [Ids -> Statuses \cup {"none"}] /\ \A e \in Ids \ {d} : file'[e] = file[e]
    BY DEF DiskTypes
  <1>2. file'[d] = s
    BY <1>1
  <1>3. \A e \in Ids \ {d} : OnDisk(e)' = OnDisk(e)
    BY <1>1 DEF OnDisk
  <1>4. d \notin contested' => OnDisk(d) \in {"Error", "Examination"}
    BY DEF StaleIn, SetAside
  <1>5. d \notin contested' => ~CanBeUsed(file[d]) /\ ~CanBeUsed(OnDisk(d))
    BY <1>1, <1>4 DEF OnDisk, CanBeUsed
  <1>6. ~CanBeUsed(s) => ~CanBeUsed(OnDisk(d)')
    BY <1>2 DEF OnDisk, CanBeUsed, Statuses
  <1>7. KeepsFiles
    BY <1>1, <1>5 DEF KeepsFiles
  <1>8. QED
    BY <1>3, <1>5, <1>6, <1>7

\* A tool deletes some of the directories that it wants to delete.
LEMMA ToolRemoves ==
  ASSUME NEW t \in Tools, NEW deleted, NEW wanted, deleted \subseteq wanted,
         wanted \subseteq Ids, dirs' = dirs \ deleted, UNCHANGED file,
         contested' = contested \cup StaleIn(t, wanted)
  PROVE  /\ KeepsFiles
         /\ \A e \in Ids \ deleted : OnDisk(e)' = OnDisk(e)
         /\ \A e \in Ids : CanBeUsed(OnDisk(e)') => CanBeUsed(OnDisk(e))
         /\ \A e \in wanted \ contested' : tmem[t][e] = OnDisk(e)
         /\ \A e \in deleted : OnDisk(e)' = "absent"
  <1>1. \A e \in Ids \ deleted : OnDisk(e)' = OnDisk(e)
    BY DEF OnDisk
  <1>2. \A e \in deleted : OnDisk(e)' = "absent"
    BY DEF OnDisk
  <1>3. \A e \in wanted \ contested' : tmem[t][e] = OnDisk(e)
    BY DEF StaleIn
  <1>4. QED
    BY <1>1, <1>2, <1>3 DEF KeepsFiles, CanBeUsed

LEMMA OpensKeeps ==
  ASSUME DiskTypes, NEW t \in Tools, ToolOpens(t)
  PROVE  ToolFacts
  <1>1. /\ \A d \in Ids : file'[d] = IF d \in dirs THEN OnDisk(d) ELSE file[d]
        /\ UNCHANGED <<dirs, head, current, daemonVars, contested, missed, aside, recycled>>
    BY DEF ToolOpens, FilesAfterOpen
  <1>2. \A d \in Ids : CanBeUsed(file[d]) => file'[d] = file[d]
    BY <1>1 DEF OnDisk, CanBeUsed
  <1>3. \A d \in Ids : OnDisk(d)' = OnDisk(d)
    BY <1>1 DEF OnDisk
  <1>4. QED
    BY <1>1, <1>2, <1>3
    DEF ToolFacts, ToolKeeps, KeepsFiles, KeepsUsable, KeepsInUse, KeepsUnusable, daemonVars

LEMMA MarksKeep ==
  ASSUME DiskTypes, NEW t \in Tools, NEW d \in Ids, Mark(t, d) \/ Unmark(t, d) \/ Recycle(t, d)
  PROVE  ToolFacts
  <1>1. PICK s \in {"Examination", "Error", "CheckedOut"} : DoMark(t, d, s)
    BY DEF Mark, Unmark, Recycle
  <1>2. /\ SetAside(t, d) /\ file' = [file EXCEPT ![d] = s]
        /\ contested' = contested \cup StaleIn(t, {d})
    BY <1>1 DEF DoMark
  <1>3. UNCHANGED <<dirs, head, current>>
    BY DEF Mark, Unmark, Recycle
  <1>4. s \in Statuses
    BY DEF Statuses
  <1>5. /\ KeepsFiles
        /\ \A e \in Ids \ {d} : OnDisk(e)' = OnDisk(e)
        /\ ~CanBeUsed(s) =>
               /\ \A e \in Ids : CanBeUsed(OnDisk(e)') => CanBeUsed(OnDisk(e))
               /\ \A e \in Ids \ contested' : CanBeUsed(OnDisk(e)) <=> CanBeUsed(OnDisk(e)')
    BY <1>2, <1>3, <1>4, ToolWrites
  <1>6. CASE Recycle(t, d)
    <2>1. /\ SendSignal /\ aside' = aside \ {d} /\ recycled' = recycled + 1
      BY <1>6 DEF Recycle
    <2>2. ToolKeeps
      BY <1>2, <1>3, <2>1 DEF ToolKeeps, SendSignal
    <2>3. KeepsUsable
      BY <2>1 DEF KeepsUsable, SendSignal
    <2>4. KeepsUnusable
      BY <1>5, <2>1 DEF KeepsUnusable
    <2>5. KeepsInUse
      BY <1>3 DEF KeepsInUse
    <2>6. QED
      BY <1>5, <2>2, <2>3, <2>4, <2>5 DEF ToolFacts
  <1>7. CASE Mark(t, d) \/ Unmark(t, d)
    <2>1. UNCHANGED <<daemonVars, missed, aside, recycled>>
      BY <1>7 DEF Mark, Unmark
    <2>2. PICK r \in {"Examination", "Error"} : DoMark(t, d, r)
      BY <1>7 DEF Mark, Unmark
    <2>3. file' = [file EXCEPT ![d] = r] /\ ~CanBeUsed(r) /\ r \in Statuses
      BY <2>2 DEF DoMark, CanBeUsed, Statuses
    <2>4. /\ \A e \in Ids : CanBeUsed(OnDisk(e)') => CanBeUsed(OnDisk(e))
          /\ \A e \in Ids \ contested' : CanBeUsed(OnDisk(e)) <=> CanBeUsed(OnDisk(e)')
      BY <1>2, <1>3, <2>3, ToolWrites
    <2>5. ToolKeeps
      BY <1>2, <1>3, <2>1 DEF ToolKeeps, daemonVars
    <2>6. QED
      BY <1>3, <1>5, <2>1, <2>4, <2>5
      DEF ToolFacts, KeepsUsable, KeepsInUse, KeepsUnusable
  <1>8. QED
    BY <1>6, <1>7

LEMMA DeletionsKeep ==
  ASSUME DiskTypes, NEW t \in Tools, Cleanup(t) \/ \E d \in Ids : Delete(t, d)
  PROVE  ToolFacts
  <1>1. ASSUME NEW d \in Ids, Delete(t, d) PROVE ToolFacts
    <2>1. /\ dirs' = dirs \ {d} /\ aside' = aside \ {d}
          /\ contested' = contested \cup StaleIn(t, {d})
          /\ UNCHANGED <<file, head, current, recycled>>
          /\ ~InUse(t, d)
      BY <1>1 DEF Delete, ToolDeletes
    <2>2. IF CanBeUsed(tmem[t][d]) THEN SendSignal ELSE UNCHANGED <<daemonVars, missed>>
      BY <1>1 DEF Delete
    <2>3. /\ KeepsFiles
          /\ \A e \in Ids \ {d} : OnDisk(e)' = OnDisk(e)
          /\ \A e \in Ids : CanBeUsed(OnDisk(e)') => CanBeUsed(OnDisk(e))
          /\ d \notin contested' => tmem[t][d] = OnDisk(d)
          /\ OnDisk(d)' = "absent"
      BY <2>1, ToolRemoves
    <2>4. ToolKeeps
      BY <2>1, <2>2 DEF ToolKeeps, SendSignal, daemonVars
    <2>5. KeepsUsable
      <3>1. CASE CanBeUsed(tmem[t][d])
        BY <2>2, <3>1 DEF KeepsUsable, SendSignal
      <3>2. CASE ~CanBeUsed(tmem[t][d])
        BY <2>3, <3>2 DEF KeepsUsable, CanBeUsed
      <3>3. QED
        BY <3>1, <3>2
    <2>6. KeepsInUse
      BY <2>1, <2>3 DEF KeepsInUse, InUse, OnDisk
    <2>7. KeepsUnusable
      BY <2>1, <2>3 DEF KeepsUnusable
    <2>8. QED
      BY <2>3, <2>4, <2>5, <2>6, <2>7 DEF ToolFacts
  <1>2. ASSUME Cleanup(t) PROVE ToolFacts
    <2>1. PICK S \in SUBSET {d \in Ids : tmem[t][d] = "Error"} :
             ToolDeletes(t, {d \in S : \A e \in S : e <= d => e \in dirs}, S)
      BY <1>2 DEF Cleanup
    <2> DEFINE deleted == {d \in S : \A e \in S : e <= d => e \in dirs}
    <2>2. /\ dirs' = dirs \ deleted /\ aside' = aside \ deleted /\ deleted \subseteq S
          /\ contested' = contested \cup StaleIn(t, S)
          /\ UNCHANGED <<file, head, current, daemonVars, missed, recycled>>
      BY <1>2, <2>1 DEF Cleanup, ToolDeletes
    <2>3. S \subseteq Ids /\ \A d \in S : tmem[t][d] = "Error"
      OBVIOUS
    <2> HIDE DEF deleted
    <2>4. /\ KeepsFiles
          /\ \A e \in Ids \ deleted : OnDisk(e)' = OnDisk(e)
          /\ \A e \in Ids : CanBeUsed(OnDisk(e)') => CanBeUsed(OnDisk(e))
          /\ \A e \in S \ contested' : tmem[t][e] = OnDisk(e)
          /\ \A e \in deleted : OnDisk(e)' = "absent"
      BY <2>2, <2>3, ToolRemoves
    <2>5. ToolKeeps
      BY <2>2 DEF ToolKeeps, daemonVars
    <2>6. KeepsUsable
      BY <2>2, <2>3, <2>4 DEF KeepsUsable, CanBeUsed
    <2>7. KeepsInUse
      <3>1. \A d \in deleted \ contested' : OnDisk(d) = "Error"
        BY <2>2, <2>3, <2>4
      <3>2. \A d \in deleted \ contested' : d \in dirs => file[d] \notin {"CheckedOut", "Processing"}
        BY <3>1 DEF OnDisk
      <3>3. QED
        BY <2>2, <3>2 DEF KeepsInUse
    <2>8. QED
      BY <2>2, <2>4, <2>5, <2>6, <2>7 DEF ToolFacts, KeepsUnusable
  <1>3. QED
    BY <1>1, <1>2

LEMMA ShellsKeep ==
  ASSUME DiskTypes, ShellOK, NEW t \in Tools,
         \/ ToolDoesNothing(t) \/ LeaveShell(t) \/ ChangeHead(t) \/ RevertMark(t)
         \/ \E d \in Ids : Enter(t, d)
  PROVE  ToolFacts
  <1>1. ASSUME UNCHANGED <<dirs, file, current, daemonVars, contested, missed, aside, recycled>>,
               \A d \in Active : head'[d] = head[d]
        PROVE  ToolFacts
    <2>1. \A d \in Ids : OnDisk(d)' = OnDisk(d)
      BY <1>1 DEF OnDisk
    <2>2. QED
      BY <1>1, <2>1
      DEF ToolFacts, ToolKeeps, KeepsFiles, KeepsUsable, KeepsInUse, KeepsUnusable, daemonVars
  <1>2. CASE ToolDoesNothing(t) \/ LeaveShell(t)
    BY <1>1, <1>2 DEF ToolDoesNothing, LeaveShell, diskVars, auxVars
  <1>3. CASE ChangeHead(t)
    <2>1. /\ UNCHANGED <<dirs, file, current, daemonVars, missed, aside, recycled>>
          /\ contested' = IF tdir[t] \in Active THEN contested \cup {tdir[t]} ELSE contested
          /\ \A d \in Ids \ {tdir[t]} : head'[d] = head[d]
      BY <1>3 DEF ChangeHead, DiskTypes
    <2>2. \A d \in Ids : OnDisk(d)' = OnDisk(d)
      BY <2>1 DEF OnDisk
    <2>3. KeepsInUse
      BY <2>1 DEF KeepsInUse
    <2>4. QED
      BY <2>1, <2>2, <2>3
      DEF ToolFacts, ToolKeeps, KeepsFiles, KeepsUsable, KeepsUnusable, daemonVars
  <1>4. ASSUME NEW d \in Ids, NEW s \in {"Error", "Examination"}, SetAside(t, d),
               file' = [file EXCEPT ![d] = s], contested' = contested \cup StaleIn(t, {d}),
               UNCHANGED <<dirs, head, current, daemonVars, missed, aside, recycled>>
        PROVE  ToolFacts
    <2>1. s \in Statuses /\ ~CanBeUsed(s)
      BY DEF Statuses, CanBeUsed
    <2>2. /\ KeepsFiles
          /\ \A e \in Ids : CanBeUsed(OnDisk(e)') => CanBeUsed(OnDisk(e))
          /\ \A e \in Ids \ contested' : CanBeUsed(OnDisk(e)) <=> CanBeUsed(OnDisk(e)')
      BY <1>4, <2>1, ToolWrites
    <2>3. ToolKeeps
      BY <1>4 DEF ToolKeeps, daemonVars
    <2>4. QED
      BY <1>4, <2>2, <2>3 DEF ToolFacts, KeepsUsable, KeepsInUse, KeepsUnusable
  <1>5. CASE RevertMark(t)
    <2>1. tdir[t] \in Ids
      BY <1>5 DEF RevertMark, ShellOK
    <2>2. QED
      BY <1>4, <1>5, <2>1 DEF RevertMark, SetAside
  <1>6. ASSUME NEW d \in Ids, Enter(t, d) PROVE ToolFacts
    <2>1. UNCHANGED <<dirs, head, current, daemonVars, missed, aside, recycled>>
      BY <1>6 DEF Enter
    <2>2. CASE SetAside(t, d) /\ tmem[t][d] = "Error"
      BY <1>4, <1>6, <2>1, <2>2 DEF Enter
    <2>3. CASE SetAside(t, d) /\ tmem[t][d] = "Examination"
      <3>1. UNCHANGED file /\ contested \subseteq contested'
        BY <1>6, <2>3 DEF Enter
      <3>2. \A e \in Ids : OnDisk(e)' = OnDisk(e)
        BY <2>1, <3>1 DEF OnDisk
      <3>3. QED
        BY <2>1, <3>1, <3>2
        DEF ToolFacts, ToolKeeps, KeepsFiles, KeepsUsable, KeepsInUse, KeepsUnusable,
            daemonVars
    <2>4. CASE ~SetAside(t, d)
      BY <1>1, <1>6, <2>1, <2>4 DEF Enter
    <2>5. QED
      BY <2>2, <2>3, <2>4 DEF SetAside
  <1>7. QED
    BY <1>2, <1>3, <1>5, <1>6

LEMMA EveryToolKeeps ==
  ASSUME DiskTypes, ShellOK, NEW t \in Tools, Tool(t)
  PROVE  ToolFacts
  BY OpensKeeps, MarksKeep, DeletionsKeep, ShellsKeep DEF Tool

\* The rest of what a tool changes.
LEMMA ToolTypesStep ==
  ASSUME TypeOK, ShellOK, NEW t \in Tools, Tool(t)
  PROVE  TypeOK' /\ ShellOK'
  <1>0. DiskTypes /\ DaemonTypes /\ ToolTypes /\ CountTypes
    BY TypeParts
  <1> SUFFICES DiskTypes' /\ DaemonTypes' /\ ToolTypes' /\ CountTypes' /\ ShellOK'
    BY DEF TypeOK, DiskTypes, DaemonTypes, ToolTypes, CountTypes, Mems
  <1>1. ToolFacts
    BY <1>0, EveryToolKeeps
  <1>2. /\ dirs' \in SUBSET Ids /\ current' \in Ids \cup {NoDir}
        /\ aside' \in SUBSET Ids /\ recycled' \in Nat
    BY <1>0, <1>1 DEF ToolFacts, ToolKeeps, KeepsUnusable, DiskTypes, CountTypes
  <1>3. ASSUME ToolEnds(t) PROVE ToolTypes' /\ ShellOK'
    <2>1. Absent \in Mems
      BY DEF Absent, Mems
    <2>2. QED
      BY <1>0, <1>3, <2>1 DEF ToolEnds, ToolTypes, ShellOK, NoDir
  <1>4. ToolTypes' /\ ShellOK'
    <2>1. CASE ToolOpens(t)
      <3>1. /\ tmem' = [tmem EXCEPT ![t] = ReadPool]
            /\ tpc' = [tpc EXCEPT ![t] = "opened"] /\ UNCHANGED tdir
        BY <2>1 DEF ToolOpens
      <3>2. ReadPool \in Mems
        BY <1>0, OpenTypes
      <3>3. QED
        BY <1>0, <3>1, <3>2 DEF ToolTypes, ShellOK
    <2>2. ASSUME NEW d \in Ids, Enter(t, d) PROVE ToolTypes' /\ ShellOK'
      <3>1. /\ tpc' = [tpc EXCEPT ![t] = "shell"] /\ tdir' = [tdir EXCEPT ![t] = d]
            /\ UNCHANGED tmem \/ tmem' = [tmem EXCEPT ![t] = [@ EXCEPT ![d] = "Examination"]]
        BY <2>2 DEF Enter
      <3>2. /\ tpc \in [Tools -> {"idle", "opened", "shell"}]
            /\ tmem \in [Tools -> Mems] /\ tdir \in [Tools -> Ids \cup {NoDir}]
        BY <1>0 DEF ToolTypes
      <3>3. [tmem[t] EXCEPT ![d] = "Examination"] \in Mems
        <4>1. tmem[t] \in Mems
          BY <3>2
        <4>2. QED
          BY <4>1 DEF Mems, Statuses
      <3>4. tmem' \in [Tools -> Mems]
        BY <3>1, <3>2, <3>3
      <3>5. QED
        BY <3>1, <3>2, <3>4 DEF ToolTypes, ShellOK
    <2>3. CASE ChangeHead(t)
      BY <1>0, <2>3 DEF ChangeHead, toolVars, ToolTypes, ShellOK
    <2>4. CASE \/ ToolDoesNothing(t) \/ Cleanup(t) \/ LeaveShell(t) \/ RevertMark(t)
               \/ \E d \in Ids : Mark(t, d) \/ Unmark(t, d) \/ Recycle(t, d) \/ Delete(t, d)
      <3>1. ToolEnds(t)
        BY <2>4 DEF ToolDoesNothing, Cleanup, ToolDeletes, LeaveShell, RevertMark, Mark,
                    Unmark, Recycle, Delete
      <3>2. QED
        BY <1>3, <3>1
    <2>5. QED
      BY <2>1, <2>2, <2>3, <2>4 DEF Tool
  <1>5. file' \in [Ids -> Statuses \cup {"none"}] /\ head' \in [Ids -> Commits]
    <2>1. file \in [Ids -> Statuses \cup {"none"}] /\ head \in [Ids -> Commits]
      BY <1>0 DEF DiskTypes
    <2>2. CASE ToolOpens(t)
      BY <1>0, <2>1, <2>2, OpenTypes DEF ToolOpens
    <2>3. CASE \E d \in Ids : Mark(t, d) \/ Unmark(t, d) \/ Recycle(t, d)
      BY <2>1, <2>3 DEF Mark, Unmark, Recycle, DoMark, Statuses
    <2>4. CASE \E d \in Ids : Enter(t, d)
      BY <2>1, <2>4 DEF Enter, Statuses
    <2>5. CASE ChangeHead(t) \/ RevertMark(t)
      BY <2>1, <2>5 DEF ChangeHead, RevertMark, Statuses
    <2>6. CASE ToolDoesNothing(t) \/ Cleanup(t) \/ LeaveShell(t) \/ \E d \in Ids : Delete(t, d)
      BY <2>1, <2>6 DEF ToolDoesNothing, Cleanup, LeaveShell, Delete, diskVars
    <2>7. QED
      BY <2>2, <2>3, <2>4, <2>5, <2>6 DEF Tool
  <1>6. DaemonTypes'
    <2>1. contested' \in SUBSET Ids
      <3>1. /\ contested \in SUBSET Ids /\ \A S : StaleIn(t, S) \subseteq S
            /\ \A d \in Ids : StaleIn(t, {d}) \subseteq Ids
        BY <1>0 DEF DaemonTypes, StaleIn
      <3>2. CASE \E d \in Ids : Mark(t, d) \/ Unmark(t, d) \/ Recycle(t, d)
        BY <3>1, <3>2 DEF Mark, Unmark, Recycle, DoMark
      <3>3. CASE Cleanup(t) \/ \E d \in Ids : Delete(t, d) \/ Enter(t, d)
        BY <3>1, <3>3 DEF Cleanup, Delete, Enter, ToolDeletes
      <3>4. CASE ChangeHead(t) \/ RevertMark(t)
        BY <3>1, <3>4 DEF ChangeHead, RevertMark, Active, ShellOK
      <3>5. CASE ToolOpens(t) \/ ToolDoesNothing(t) \/ LeaveShell(t)
        BY <3>1, <3>5 DEF ToolOpens, ToolDoesNothing, LeaveShell, auxVars
      <3>6. QED
        BY <3>2, <3>3, <3>4, <3>5 DEF Tool
    <2>2. signal' \in BOOLEAN /\ missed' \in BOOLEAN
      <3>1. CASE SendSignal
        BY <1>0, <3>1 DEF SendSignal, DaemonTypes
      <3>2. CASE UNCHANGED <<signal, missed>>
        BY <1>0, <3>2 DEF DaemonTypes
      <3>3. CASE \E d \in Ids : Mark(t, d) \/ Unmark(t, d) \/ Recycle(t, d) \/ Enter(t, d)
        BY <3>1, <3>2, <3>3 DEF Mark, Unmark, Recycle, Enter, daemonVars
      <3>4. CASE \E d \in Ids : Delete(t, d)
        BY <3>1, <3>2, <3>4 DEF Delete, daemonVars
      <3>5. CASE \/ ToolOpens(t) \/ ToolDoesNothing(t) \/ Cleanup(t) \/ ChangeHead(t)
                 \/ LeaveShell(t) \/ RevertMark(t)
        BY <3>2, <3>5 DEF ToolOpens, ToolDoesNothing, Cleanup, ChangeHead, LeaveShell,
                          RevertMark, daemonVars, auxVars
      <3>6. QED
        BY <3>3, <3>4, <3>5 DEF Tool
    <2>3. QED
      BY <1>0, <1>1, <2>1, <2>2 DEF ToolFacts, ToolKeeps, DaemonTypes
  <1>7. toolRuns' \in Nat /\ crashes' \in Nat
    <2>1. UNCHANGED <<toolRuns, crashes>> \/ (toolRuns' = toolRuns + 1 /\ UNCHANGED crashes)
      BY DEF Tool, ToolOpens, ToolDoesNothing, Mark, Unmark, Recycle, Delete,
             Enter, Cleanup, ChangeHead, LeaveShell, RevertMark, auxVars
    <2>2. QED
      BY <1>0, <2>1 DEF CountTypes
  <1>8. QED
    BY <1>2, <1>4, <1>5, <1>6, <1>7 DEF DiskTypes, CountTypes

-----------------------------------------------------------------------------
(* Numbers of directories.                                                 *)

LEMMA Sizes ==
  ASSUME NEW T, T \subseteq Ids
  PROVE  /\ IsFiniteSet(T) /\ Cardinality(T) \in Nat
         /\ \A S : S \subseteq T => Cardinality(S) <= Cardinality(T)
         /\ \A S, x : S \subseteq T \cup {x} => Cardinality(S) <= Cardinality(T) + 1
  <1>1. IsFiniteSet(Ids)
    BY FS_Interval, PoolAssumption DEF Ids
  <1>2. IsFiniteSet(T)
    BY <1>1, FS_Subset
  <1>3. Cardinality(T) \in Nat
    BY <1>2, FS_CardinalityType
  <1>4. ASSUME NEW S, S \subseteq T PROVE Cardinality(S) <= Cardinality(T)
    BY <1>2, <1>4, FS_Subset
  <1>5. ASSUME NEW S, NEW x, S \subseteq T \cup {x}
        PROVE  Cardinality(S) <= Cardinality(T) + 1
    <2>1. IsFiniteSet(T \cup {x}) /\ Cardinality(T \cup {x}) <= Cardinality(T) + 1
      <3>1. /\ IsFiniteSet(T \cup {x})
            /\ Cardinality(T \cup {x}) = IF x \in T THEN Cardinality(T) ELSE Cardinality(T) + 1
        BY <1>2, FS_AddElement
      <3>2. QED
        BY <1>3, <3>1
    <2>2. Cardinality(S) <= Cardinality(T \cup {x})
      BY <1>5, <2>1, FS_Subset
    <2>3. IsFiniteSet(S)
      BY <1>5, <2>1, FS_Subset
    <2>5. Cardinality(S) \in Nat /\ Cardinality(T \cup {x}) \in Nat
      BY <2>1, <2>3, FS_CardinalityType
    <2>4. QED
      BY <1>3, <2>1, <2>2, <2>5
  <1>6. QED
    BY <1>2, <1>3, <1>4, <1>5

\* What can be used are the directories the daemon knows and the others.
LEMMA SizeOfParts ==
  ASSUME NEW A, NEW U, A \subseteq Ids, U \subseteq Ids
  PROVE  Cardinality(A \cup U) <= Cardinality(A) + Cardinality(U \ A)
  <1>0. U \ A \subseteq Ids
    OBVIOUS
  <1>1. /\ IsFiniteSet(A) /\ Cardinality(A) \in Nat
        /\ IsFiniteSet(U \ A) /\ Cardinality(U \ A) \in Nat
    BY <1>0, Sizes
  <1> DEFINE new == U \ A
  <1>2. A \cup U = A \cup new /\ A \cap new = {}
    OBVIOUS
  <1> HIDE DEF new
  <1>3. Cardinality(A \cup new) = Cardinality(A) + Cardinality(new) - Cardinality(A \cap new)
    BY <1>1, FS_Union DEF new
  <1>4. Cardinality(A \cap new) = 0
    BY <1>2, FS_EmptySet
  <1>5. Cardinality(A \cup U) <= Cardinality(A) + Cardinality(new)
    <2>1. Cardinality(A) \in Nat /\ Cardinality(new) \in Nat
      BY <1>1 DEF new
    <2>2. Cardinality(A \cup U) = Cardinality(A \cup new)
      BY <1>2
    <2>3. QED
      BY <1>3, <1>4, <2>1, <2>2
  <1>6. QED
    BY <1>5 DEF new

LEMMA ActiveTypes ==
  /\ Active \subseteq Ids /\ Usable \subseteq Ids
  /\ Active' \subseteq Ids /\ Usable' \subseteq Ids
  BY DEF Active, Usable

\* A step that adds nothing to what can be used.
LEMMA NothingAdded ==
  ASSUME CountTypes, RoomIsKept, recycled' = recycled, pc # "down",
         Active' \cup Usable' \subseteq Active \cup Usable,
         Usable' \ Active' \subseteq Usable \ Active
  PROVE  RoomIsKept'
  <1>1. /\ Cardinality(Active' \cup Usable') <= Cardinality(Active \cup Usable)
        /\ Cardinality(Usable' \ Active') <= Cardinality(Usable \ Active)
    BY ActiveTypes, Sizes
  <1>2. /\ Cardinality(Active' \cup Usable') \in Nat /\ Cardinality(Usable' \ Active') \in Nat
        /\ Cardinality(Active \cup Usable) \in Nat /\ Cardinality(Usable \ Active) \in Nat
    BY ActiveTypes, Sizes
  <1>3. QED
    BY <1>1, <1>2, PoolAssumption DEF RoomIsKept, CountTypes

\* A directory more, when the pool is not full.
LEMMA OneMoreHasRoom ==
  ASSUME CountTypes, RoomIsKept, recycled' = recycled, pc # "down",
         BelowCapacity \/ Active = {},
         NEW S, NEW x, S \subseteq (Active \cup Usable) \cup {x}
  PROVE  Cardinality(S) <= Capacity + recycled'
  <1>1. Cardinality(Active) < Capacity
    BY FS_EmptySet, PoolAssumption DEF BelowCapacity
  <1>2. Cardinality(Usable \ Active) <= recycled
    BY DEF RoomIsKept
  <1>3. Cardinality(Active \cup Usable) <= Cardinality(Active) + Cardinality(Usable \ Active)
    BY ActiveTypes, SizeOfParts
  <1>4. /\ Cardinality(Active) \in Nat /\ Cardinality(Usable \ Active) \in Nat
        /\ Cardinality(Active \cup Usable) \in Nat
    BY ActiveTypes, Sizes
  <1>5. Cardinality(S) <= Cardinality(Active \cup Usable) + 1
    BY ActiveTypes, Sizes
  <1>6. Cardinality(S) \in Nat
    <2>1. IsFiniteSet((Active \cup Usable) \cup {x})
      BY ActiveTypes, Sizes, FS_AddElement
    <2>2. QED
      BY <2>1, FS_Subset, FS_CardinalityType
  <1>7. QED
    BY <1>1, <1>2, <1>3, <1>4, <1>5, <1>6, PoolAssumption DEF CountTypes

-----------------------------------------------------------------------------
(* The invariant: the initial state and the steps of tools.                *)

LEMMA InitInv == Init => PoolInv
  <1> SUFFICES ASSUME Init PROVE PoolInv
    OBVIOUS
  <1>1. /\ dirs = {} /\ pc = "down" /\ mem = Absent /\ ~signal /\ task = "job"
        /\ contested = {} /\ aside = {} /\ recycled = 0
        /\ \A t \in Tools : tpc[t] = "idle"
    BY DEF Init
  <1>2. Active = {} /\ Usable = {}
    BY <1>1 DEF Active, Usable, CanBeUsed, OnDisk, Absent
  <1>3. RoomIsKept
    BY <1>1, <1>2, FS_EmptySet, PoolAssumption DEF RoomIsKept
  <1>4. StepOK /\ ShellOK /\ NextIdIsFree /\ StatusIsSaved /\ UsableIsKnown
    BY <1>1 DEF StepOK, Uses, ShellOK, NextIdIsFree, StatusIsSaved, UsableIsKnown
  <1>5. JobKeepsDirectory /\ AsideIsUnusable
    BY <1>1 DEF JobKeepsDirectory, AsideIsUnusable
  <1>6. QED
    BY <1>3, <1>4, <1>5, InitTypes DEF PoolInv

LEMMA ToolStep ==
  ASSUME PoolInv, NEW t \in Tools, Tool(t)
  PROVE  PoolInv'
  <1>0. DiskTypes /\ DaemonTypes /\ CountTypes
    BY TypeParts DEF PoolInv
  <1>1. ToolFacts
    BY <1>0, EveryToolKeeps DEF PoolInv
  <1>2. TypeOK' /\ ShellOK'
    BY ToolTypesStep DEF PoolInv
  <1>3. StepOK'
    <2>1. StepOK /\ UNCHANGED <<current, pc, mem, task, commit, wd>>
      BY <1>1 DEF PoolInv, ToolFacts, ToolKeeps
    <2>2. pc \in {"down", "signals"} \/ task = "test" => ~signal'
      BY <1>1 DEF PoolInv, StepOK, ToolFacts, ToolKeeps, Listening
    <2>3. QED
      BY <2>1, <2>2 DEF StepOK, Uses
  <1>4. NextIdIsFree'
    BY <1>1 DEF PoolInv, NextIdIsFree, ToolFacts, ToolKeeps
  <1>5. StatusIsSaved'
    BY <1>1 DEF PoolInv, StatusIsSaved, ToolFacts, ToolKeeps, KeepsFiles
  <1>6. UsableIsKnown'
    <2>1. SUFFICES ASSUME pc' # "down", ~Informed', NEW d \in Ids \ contested'
                   PROVE  CanBeUsed(mem'[d]) <=> CanBeUsed(OnDisk(d)')
      BY DEF UsableIsKnown, CanBeUsed
    <2>2. pc # "down" /\ ~Informed /\ d \in Ids \ contested /\ mem'[d] = mem[d]
      BY <1>1, <2>1 DEF Informed, ToolFacts, ToolKeeps
    <2>3. CanBeUsed(OnDisk(d)) <=> CanBeUsed(OnDisk(d)')
      BY <1>1, <2>1, <2>2 DEF Informed, ToolFacts, KeepsUsable
    <2>4. CanBeUsed(mem[d]) <=> CanBeUsed(OnDisk(d))
      BY <2>2 DEF PoolInv, UsableIsKnown
    <2>5. QED
      BY <2>2, <2>3, <2>4
  <1>7. JobKeepsDirectory'
    <2>1. SUFFICES ASSUME pc' = "running", task' = "job", wd' \notin contested'
                   PROVE  wd' \in dirs' /\ head'[wd'] = commit'
      BY DEF JobKeepsDirectory
    <2>2. /\ pc = "running" /\ task = "job" /\ wd \notin contested
          /\ wd' = wd /\ commit' = commit /\ mem' = mem
      BY <1>1, <2>1 DEF ToolFacts, ToolKeeps
    <2>3. /\ wd \in Ids /\ current = wd /\ mem[wd] \in {"Processing", "CheckedOut"}
      BY <2>2 DEF PoolInv, StepOK, Uses
    <2>4. wd \in dirs /\ head[wd] = commit
      BY <2>2 DEF PoolInv, JobKeepsDirectory
    <2>5. CanBeUsed(mem[wd]) /\ wd \in Active
      BY <2>3 DEF CanBeUsed, Active
    <2>6. file[wd] \in {"CheckedOut", "Processing"}
      BY <2>2, <2>3, <2>5 DEF PoolInv, StatusIsSaved
    <2>7. wd \in dirs' /\ head'[wd] = head[wd]
      BY <1>1, <2>1, <2>2, <2>3, <2>4, <2>5, <2>6 DEF ToolFacts, KeepsInUse
    <2>8. QED
      BY <2>2, <2>4, <2>7
  <1>8. AsideIsUnusable'
    <2>1. SUFFICES ASSUME NEW d \in aside'
                   PROVE  ~CanBeUsed(mem'[d]) /\ ~CanBeUsed(OnDisk(d)')
      BY DEF AsideIsUnusable, CanBeUsed
    <2>2. d \in aside /\ d \in Ids /\ mem'[d] = mem[d]
      BY <1>0, <1>1 DEF ToolFacts, ToolKeeps, CountTypes
    <2>3. ~CanBeUsed(mem[d]) /\ ~CanBeUsed(OnDisk(d))
      BY <2>2 DEF PoolInv, AsideIsUnusable
    <2>4. CanBeUsed(OnDisk(d)') => CanBeUsed(OnDisk(d))
      BY <1>1, <2>2 DEF ToolFacts, KeepsUnusable
    <2>5. QED
      BY <2>2, <2>3, <2>4
  <1>9. RoomIsKept'
    <2>1. Active' = Active /\ pc' = pc
      BY <1>1 DEF ToolFacts, ToolKeeps, Active
    <2>2. Usable' = {d \in Ids : CanBeUsed(OnDisk(d)')}
      BY DEF Usable, CanBeUsed
    <2>3. CASE recycled' = recycled /\ \A d \in Ids : CanBeUsed(OnDisk(d)') => CanBeUsed(OnDisk(d))
      <3>1. Usable' \subseteq Usable
        BY <2>2, <2>3 DEF Usable
      <3>2. CASE pc # "down"
        BY <1>0, <2>1, <2>3, <3>1, <3>2, NothingAdded DEF PoolInv
      <3>3. CASE pc = "down"
        <4>1. Cardinality(Active' \cup Usable') <= Cardinality(Active \cup Usable)
          BY <2>1, <3>1, ActiveTypes, Sizes
        <4>2. Cardinality(Active' \cup Usable') \in Nat /\ Cardinality(Active \cup Usable) \in Nat
          BY ActiveTypes, Sizes
        <4>3. QED
          BY <1>0, <2>1, <2>3, <3>3, <4>1, <4>2, PoolAssumption
          DEF PoolInv, RoomIsKept, CountTypes
      <3>4. QED
        BY <3>2, <3>3
    <2>4. CASE recycled' = recycled + 1
      <3>1. PICK x \in Ids : Usable' \subseteq Usable \cup {x}
        BY <1>1, <2>2, <2>4 DEF ToolFacts, KeepsUnusable, Usable
      <3>2. /\ Cardinality(Active' \cup Usable') <= Cardinality(Active \cup Usable) + 1
            /\ Cardinality(Usable' \ Active') <= Cardinality(Usable \ Active) + 1
        <4>1. /\ Active' \cup Usable' \subseteq (Active \cup Usable) \cup {x}
              /\ Usable' \ Active' \subseteq (Usable \ Active) \cup {x}
          BY <2>1, <3>1
        <4>2. QED
          BY <4>1, ActiveTypes, Sizes
      <3>3. /\ Cardinality(Active' \cup Usable') \in Nat /\ Cardinality(Usable' \ Active') \in Nat
            /\ Cardinality(Active \cup Usable) \in Nat /\ Cardinality(Usable \ Active) \in Nat
        BY ActiveTypes, Sizes
      <3>4. QED
        BY <1>0, <2>1, <2>4, <3>2, <3>3, PoolAssumption DEF PoolInv, RoomIsKept, CountTypes
    <2>5. QED
      BY <1>1, <2>3, <2>4 DEF ToolFacts, KeepsUnusable
  <1>10. QED
    BY <1>2, <1>3, <1>4, <1>5, <1>6, <1>7, <1>8, <1>9 DEF PoolInv

-----------------------------------------------------------------------------
(* The kinds of steps the daemon makes.                                    *)

\* What is left to show of a step when its types are.
Parts == NextIdIsFree /\ StatusIsSaved /\ UsableIsKnown /\ AsideIsUnusable /\ RoomIsKept

\* The daemon reads the pool.
LEMMA OpeningStep ==
  ASSUME PoolInv, OpenPool, UNCHANGED <<dirs, signal, aside, recycled>>,
         pc' \notin Uses, task' = "test" \/ pc' = "signals" => ~signal, pc' # "down",
         pc' = "test" => task' = "test"
  PROVE  StepOK' /\ JobKeepsDirectory' /\ Parts'
  <1>0. DiskTypes /\ DaemonTypes /\ CountTypes
    BY TypeParts DEF PoolInv
  <1>1. /\ \A d \in Ids : mem'[d] = OnDisk(d)
        /\ \A d \in Ids : file'[d] = IF d \in dirs THEN OnDisk(d) ELSE file[d]
        /\ contested' = {}
    BY DEF OpenPool, ReadPool, FilesAfterOpen
  <1>2. \A d \in Ids : OnDisk(d)' = OnDisk(d)
    BY <1>1 DEF OnDisk
  <1>3. \A d \in Ids : CanBeUsed(OnDisk(d)) => d \in dirs
    BY DEF OnDisk, CanBeUsed
  <1>4. StepOK' /\ JobKeepsDirectory'
    BY DEF StepOK, JobKeepsDirectory, Uses
  <1>5. NextIdIsFree'
    BY <1>0, NextIdIsAbove DEF NextIdIsFree, OpenPool, DiskTypes
  <1>6. StatusIsSaved'
    BY <1>1, <1>3 DEF StatusIsSaved
  <1>7. UsableIsKnown'
    BY <1>1, <1>2 DEF UsableIsKnown
  <1>8. AsideIsUnusable'
    BY <1>0, <1>1, <1>2 DEF PoolInv, AsideIsUnusable, CountTypes
  <1>9. RoomIsKept'
    <2>1. Active' = Usable /\ Usable' = Usable
      BY <1>1, <1>2 DEF Active, Usable
    <2>2. /\ Cardinality(Usable) <= Cardinality(Active \cup Usable)
          /\ Cardinality(Usable) \in Nat /\ Cardinality(Active \cup Usable) \in Nat
      BY ActiveTypes, Sizes
    <2>3. Cardinality(Active \cup Usable) <= Capacity + recycled
      BY DEF PoolInv, RoomIsKept
    <2>4. Active' \cup Usable' = Usable /\ Usable' \ Active' = {}
      BY <2>1
    <2>5. /\ Cardinality(Active' \cup Usable') <= Capacity + recycled
          /\ Cardinality(Usable' \ Active') <= recycled
      <3>1. Cardinality(Usable' \ Active') = 0
        BY <2>4, FS_EmptySet
      <3>2. Cardinality(Active' \cup Usable') = Cardinality(Usable)
        BY <2>4
      <3>3. QED
        BY <1>0, <2>2, <2>3, <3>1, <3>2, PoolAssumption DEF CountTypes
    <2>6. QED
      BY <2>5 DEF RoomIsKept
  <1>10. QED
    BY <1>4, <1>5, <1>6, <1>7, <1>8, <1>9 DEF Parts

\* The daemon ends.
LEMMA DownStep ==
  ASSUME GoDown, \A d \in aside' : ~CanBeUsed(OnDisk(d)'), aside' \subseteq Ids,
         Cardinality(Usable') <= Capacity + recycled'
  PROVE  StepOK' /\ JobKeepsDirectory' /\ Parts'
  <1>1. mem' = Absent /\ pc' = "down" /\ ~signal' /\ task' = "job"
    BY DEF GoDown
  <1>2. \A d \in Ids : mem'[d] = "absent"
    BY <1>1 DEF Absent
  <1>3. Active' = {}
    BY <1>2 DEF Active, CanBeUsed
  <1>4. RoomIsKept'
    <2>1. Active' \cup Usable' = Usable'
      BY <1>3
    <2>2. QED
      BY <1>1, <2>1 DEF RoomIsKept
  <1>5. StepOK' /\ JobKeepsDirectory'
    BY <1>1 DEF StepOK, JobKeepsDirectory, Uses, Absent
  <1>6. NextIdIsFree' /\ StatusIsSaved' /\ UsableIsKnown'
    BY <1>1 DEF NextIdIsFree, StatusIsSaved, UsableIsKnown
  <1>7. AsideIsUnusable'
    BY <1>2 DEF AsideIsUnusable, CanBeUsed
  <1>8. QED
    BY <1>4, <1>5, <1>6, <1>7 DEF Parts

\* ... and leaves the disk as it was,
LEMMA DownLeaves ==
  ASSUME PoolInv, GoDown, UNCHANGED <<dirs, file, aside, recycled>>
  PROVE  StepOK' /\ JobKeepsDirectory' /\ Parts'
  <1>1. \A d : OnDisk(d)' = OnDisk(d)
    BY DEF OnDisk
  <1>2. Usable' = Usable
    BY <1>1 DEF Usable
  <1>3. aside \subseteq Ids /\ recycled \in Nat
    BY DEF PoolInv, TypeOK
  <1>4. Cardinality(Usable') <= Capacity + recycled'
    <2>1. /\ Cardinality(Usable) <= Cardinality(Active \cup Usable)
          /\ Cardinality(Usable) \in Nat /\ Cardinality(Active \cup Usable) \in Nat
      BY ActiveTypes, Sizes
    <2>2. Cardinality(Active \cup Usable) <= Capacity + recycled
      BY DEF PoolInv, RoomIsKept
    <2>3. QED
      BY <1>2, <1>3, <2>1, <2>2, PoolAssumption
  <1>5. \A d \in aside' : ~CanBeUsed(OnDisk(d)')
    BY <1>1 DEF PoolInv, AsideIsUnusable
  <1>6. QED
    BY <1>3, <1>4, <1>5, DownStep

\* ... or withdraws the directory it used.
LEMMA DownWithdraws ==
  ASSUME PoolInv, GoDown, NEW w \in Ids, UNCHANGED recycled, aside' \subseteq aside \cup {w},
         \A d \in Ids \ {w} : OnDisk(d)' = OnDisk(d), ~CanBeUsed(OnDisk(w)')
  PROVE  StepOK' /\ JobKeepsDirectory' /\ Parts'
  <1>1. Usable' \subseteq Usable
    BY DEF Usable
  <1>2. aside \subseteq Ids /\ recycled \in Nat
    BY DEF PoolInv, TypeOK
  <1>3. Cardinality(Usable') <= Capacity + recycled'
    <2>1. /\ Cardinality(Usable') <= Cardinality(Active \cup Usable)
          /\ Cardinality(Usable') \in Nat /\ Cardinality(Active \cup Usable) \in Nat
      BY <1>1, ActiveTypes, Sizes
    <2>2. Cardinality(Active \cup Usable) <= Capacity + recycled
      BY DEF PoolInv, RoomIsKept
    <2>3. QED
      BY <1>2, <2>1, <2>2, PoolAssumption
  <1>4. \A d \in aside' : ~CanBeUsed(OnDisk(d)')
    BY <1>2 DEF PoolInv, AsideIsUnusable
  <1>5. QED
    BY <1>2, <1>3, <1>4, DownStep

\* The daemon changes no directory.
LEMMA QuietStep ==
  ASSUME PoolInv, pc # "down",
         UNCHANGED <<dirs, file, mem, nextId, contested, missed, aside, recycled>>,
         Informed => Informed'
  PROVE  Parts'
  <1>1. \A d : OnDisk(d)' = OnDisk(d)
    BY DEF OnDisk
  <1>2. Usable' = Usable /\ Active' = Active
    BY <1>1 DEF Usable, Active
  <1>3. RoomIsKept'
    BY <1>2, NothingAdded, TypeParts DEF PoolInv
  <1>4. NextIdIsFree' /\ StatusIsSaved'
    BY DEF PoolInv, NextIdIsFree, StatusIsSaved
  <1>5. UsableIsKnown'
    BY <1>1 DEF PoolInv, UsableIsKnown
  <1>6. AsideIsUnusable'
    BY <1>1 DEF PoolInv, AsideIsUnusable
  <1>7. QED
    BY <1>3, <1>4, <1>5, <1>6 DEF Parts

\* The daemon sets the status of the directory it uses to one that can be used.
LEMMA WritingStep ==
  ASSUME PoolInv, pc \notin {"down", "reload"}, NEW w \in Ids, w = wd, CanBeUsed(mem[w]),
         NEW s \in {"CheckedOut", "Processing", "Finished"},
         mem' = MemAfter(s), file' = FileAfter(s),
         UNCHANGED <<dirs, nextId, contested, missed, signal, aside, recycled>>
  PROVE  Parts'
  <1>0. /\ file \in [Ids -> Statuses \cup {"none"}] /\ mem \in Mems /\ CountTypes
        /\ dirs \subseteq Ids /\ aside \subseteq Ids /\ contested \subseteq Ids
    BY TypeParts DEF PoolInv, DiskTypes, DaemonTypes, CountTypes
  <1>1. /\ mem'[w] = s /\ CanBeUsed(s) /\ s # "none"
        /\ \A d \in Ids \ {w} : mem'[d] = mem[d]
        /\ mem[w] # s => file'[w] = s
        /\ \A d \in Ids : file'[d] = IF d = w /\ mem[w] # s THEN s ELSE file[d]
    BY <1>0 DEF MemAfter, FileAfter, Mems, CanBeUsed
  <1>2. w \notin contested => file'[w] = s
    BY <1>1 DEF PoolInv, StatusIsSaved
  <1>3. \A d \in Ids \ {w} : OnDisk(d)' = OnDisk(d)
    BY <1>1 DEF OnDisk
  <1>4. w \notin contested => OnDisk(w)' = IF w \in dirs THEN s ELSE "absent"
    BY <1>1, <1>2 DEF OnDisk
  <1>5. NextIdIsFree'
    BY DEF PoolInv, NextIdIsFree
  <1>6. StatusIsSaved'
    BY <1>1, <1>2 DEF PoolInv, StatusIsSaved
  <1>7. UsableIsKnown'
    <2>1. SUFFICES ASSUME ~Informed', NEW d \in Ids \ contested
                   PROVE  CanBeUsed(mem'[d]) <=> CanBeUsed(OnDisk(d)')
      BY DEF UsableIsKnown, CanBeUsed
    <2>2. CanBeUsed(mem[d]) <=> CanBeUsed(OnDisk(d))
      BY <2>1 DEF PoolInv, UsableIsKnown, Informed
    <2>3. CASE d = w
      <3>1. w \in dirs
        BY <2>2, <2>3 DEF OnDisk, CanBeUsed
      <3>2. QED
        BY <1>1, <1>4, <2>1, <2>3, <3>1
    <2>4. CASE d # w
      BY <1>1, <1>3, <2>1, <2>2, <2>4
    <2>5. QED
      BY <2>3, <2>4
  <1>8. AsideIsUnusable'
    <2>1. w \notin aside
      BY DEF PoolInv, AsideIsUnusable
    <2>2. QED
      BY <1>0, <1>1, <1>3, <2>1 DEF PoolInv, AsideIsUnusable
  <1>9. RoomIsKept'
    <2>1. Active' = Active /\ w \in Active
      BY <1>1 DEF Active
    <2>2. Usable' \subseteq Usable \cup {w}
      BY <1>3 DEF Usable
    <2>3. QED
      BY <1>0, <2>1, <2>2, NothingAdded DEF PoolInv
  <1>10. QED
    BY <1>5, <1>6, <1>7, <1>8, <1>9 DEF Parts

\* The daemon withdraws the directory it used, and goes on.
LEMMA WithdrawingStep ==
  ASSUME PoolInv, pc \notin {"down", "reload"}, NEW w \in Ids,
         \A d \in Ids \ {w} : mem'[d] = mem[d] /\ file'[d] = file[d] /\ OnDisk(d)' = OnDisk(d),
         ~CanBeUsed(mem'[w]), ~CanBeUsed(OnDisk(w)'), dirs' \subseteq dirs,
         aside' \subseteq aside \cup {w},
         UNCHANGED <<nextId, contested, missed, signal, recycled>>
  PROVE  Parts'
  <1>0. CountTypes /\ aside \subseteq Ids
    BY TypeParts DEF PoolInv, CountTypes
  <1>1. NextIdIsFree'
    BY DEF PoolInv, NextIdIsFree
  <1>2. StatusIsSaved'
    BY DEF PoolInv, StatusIsSaved
  <1>3. UsableIsKnown'
    <2>1. SUFFICES ASSUME ~Informed', NEW d \in Ids \ contested
                   PROVE  CanBeUsed(mem'[d]) <=> CanBeUsed(OnDisk(d)')
      BY DEF UsableIsKnown, CanBeUsed
    <2>2. CanBeUsed(mem[d]) <=> CanBeUsed(OnDisk(d))
      BY <2>1 DEF PoolInv, UsableIsKnown, Informed
    <2>3. QED
      BY <2>1, <2>2
  <1>4. AsideIsUnusable'
    BY <1>0 DEF PoolInv, AsideIsUnusable
  <1>5. RoomIsKept'
    <2>1. Active' = Active \ {w}
      BY DEF Active
    <2>2. Usable' = Usable \ {w}
      BY DEF Usable
    <2>3. QED
      BY <1>0, <2>1, <2>2, NothingAdded DEF PoolInv
  <1>6. QED
    BY <1>1, <1>2, <1>3, <1>4, <1>5 DEF Parts

\* The daemon makes a directory.
LEMMA CloningStep ==
  ASSUME PoolInv, pc \notin {"down", "reload"}, BelowCapacity \/ Active = {},
         NEW commits, Clone(commits), UNCHANGED <<contested, missed, signal, recycled>>
  PROVE  Parts' /\ CanBeUsed(mem'[wd']) /\ wd' \in Ids
  <1>0. /\ file \in [Ids -> Statuses \cup {"none"}] /\ mem \in Mems /\ CountTypes
        /\ dirs \subseteq Ids /\ aside \subseteq Ids
    BY TypeParts DEF PoolInv, DiskTypes, DaemonTypes, CountTypes
  <1>n. PICK n \in Ids : n = nextId
    BY DEF Clone
  <1>1. /\ n \in Ids \ dirs /\ n \in Nat /\ dirs' = dirs \cup {n} /\ nextId' = n + 1
        /\ file' = [file EXCEPT ![n] = "CheckedOut"]
        /\ mem' = [mem EXCEPT ![n] = "CheckedOut"]
        /\ wd' = n /\ aside' = aside \ {n}
    BY <1>n DEF Clone, Ids
  <1>2. /\ file'[n] = "CheckedOut" /\ mem'[n] = "CheckedOut" /\ CanBeUsed("CheckedOut")
        /\ \A d \in Ids \ {n} : file'[d] = file[d] /\ mem'[d] = mem[d]
    BY <1>0, <1>1 DEF Mems, CanBeUsed
  <1>3. OnDisk(n)' = "CheckedOut" /\ \A d \in Ids \ {n} : OnDisk(d)' = OnDisk(d)
    BY <1>1, <1>2 DEF OnDisk
  <1>4. NextIdIsFree'
    <2>1. \A d \in dirs : d < n /\ d \in Nat
      BY <1>0, <1>n DEF PoolInv, NextIdIsFree, Ids
    <2>2. QED
      BY <1>1, <2>1 DEF NextIdIsFree
  <1>5. StatusIsSaved'
    BY <1>2 DEF PoolInv, StatusIsSaved
  <1>6. UsableIsKnown'
    <2>1. SUFFICES ASSUME ~Informed', NEW d \in Ids \ contested
                   PROVE  CanBeUsed(mem'[d]) <=> CanBeUsed(OnDisk(d)')
      BY DEF UsableIsKnown, CanBeUsed
    <2>2. CanBeUsed(mem[d]) <=> CanBeUsed(OnDisk(d))
      BY <2>1 DEF PoolInv, UsableIsKnown, Informed
    <2>3. QED
      BY <1>2, <1>3, <2>1, <2>2
  <1>7. AsideIsUnusable'
    BY <1>0, <1>1, <1>2, <1>3 DEF PoolInv, AsideIsUnusable
  <1>8. RoomIsKept'
    <2>1. Active' = Active \cup {n}
      BY <1>1, <1>2 DEF Active
    <2>2. Usable' = Usable \cup {n}
      BY <1>1, <1>2, <1>3 DEF Usable
    <2>3. Cardinality(Active' \cup Usable') <= Capacity + recycled'
      <3>1. Active' \cup Usable' \subseteq (Active \cup Usable) \cup {n}
        BY <2>1, <2>2
      <3>2. QED
        BY <1>0, <3>1, OneMoreHasRoom DEF PoolInv
    <2>4. Cardinality(Usable' \ Active') <= Cardinality(Usable \ Active)
      <3>1. Usable' \ Active' \subseteq Usable \ Active
        BY <2>1, <2>2
      <3>2. QED
        BY <3>1, ActiveTypes, Sizes
    <2>5. Cardinality(Usable' \ Active') \in Nat /\ Cardinality(Usable \ Active) \in Nat
      BY ActiveTypes, Sizes
    <2>6. QED
      BY <1>0, <2>3, <2>4, <2>5 DEF PoolInv, RoomIsKept, CountTypes
  <1>9. QED
    BY <1>1, <1>2, <1>4, <1>5, <1>6, <1>7, <1>8 DEF Parts

-----------------------------------------------------------------------------
(* The steps of the daemon.                                                *)

LEMMA GettingSteps ==
  ASSUME PoolInv, Start \/ Reload \/ GetExisting \/ GetFirst \/ GetNew \/ GetFirstNew
  PROVE  StepOK' /\ JobKeepsDirectory' /\ Parts'
  <1>0. StepOK /\ TypeOK
    BY DEF PoolInv
  <1>1. CASE Start
    <2>1. /\ OpenPool /\ UNCHANGED <<dirs, signal, aside, recycled>> /\ ~signal
          /\ pc' \in {"test", "signals"} /\ (pc' = "test" => task' = "test")
      BY <1>0, <1>1 DEF Start, StepOK
    <2>2. QED
      BY <2>1, OpeningStep DEF Uses
  <1>2. CASE Reload
    <2>1. /\ OpenPool /\ UNCHANGED <<dirs, signal, task, aside, recycled>>
          /\ pc' = "get" /\ (task = "test" => ~signal)
      BY <1>0, <1>2 DEF Reload, StepOK
    <2>2. QED
      BY <2>1, OpeningStep DEF Uses
  <1>3. CASE GetExisting \/ GetFirst
    <2>1. /\ pc \in {"get", "test"} /\ pc' = "process"
          /\ UNCHANGED <<dirs, file, head, nextId, mem, signal, task, auxVars>>
          /\ commit' \in Commits \/ task = "test"
      BY <1>0, <1>3 DEF GetExisting, GetFirst, NewJob, StepOK
    <2>2. wd' \in Ids /\ CanBeUsed(mem'[wd'])
      BY <1>3, <2>1, Gets DEF Active
    <2>3. StepOK' /\ JobKeepsDirectory'
      BY <1>0, <2>1, <2>2 DEF StepOK, JobKeepsDirectory, Uses, CanBeUsed
    <2>4. Parts'
      BY <2>1, QuietStep DEF auxVars, Informed
    <2>5. QED
      BY <2>3, <2>4
  <1>4. CASE GetNew \/ GetFirstNew
    <2>1. /\ pc \in {"get", "test"} /\ pc' = "process" /\ (BelowCapacity \/ Active = {})
          /\ UNCHANGED <<signal, task, contested, missed, recycled>>
          /\ commit' \in Commits \/ task = "test"
      BY <1>0, <1>4 DEF GetNew, GetFirstNew, NeedsNew, NewJob, StepOK
    <2>2. PICK commits : Clone(commits)
      BY <1>4 DEF GetNew, GetFirstNew
    <2>3. Parts' /\ CanBeUsed(mem'[wd']) /\ wd' \in Ids
      BY <2>1, <2>2, CloningStep
    <2>4. StepOK' /\ JobKeepsDirectory'
      BY <1>0, <2>1, <2>3 DEF StepOK, JobKeepsDirectory, Uses, CanBeUsed
    <2>5. QED
      BY <2>3, <2>4
  <1>5. QED
    BY <1>1, <1>2, <1>3, <1>4

LEMMA EndingSteps ==
  ASSUME PoolInv, GetFails \/ Exit \/ Crash \/ CloneCut
  PROVE  StepOK' /\ JobKeepsDirectory' /\ Parts'
  <1>1. CASE GetFails \/ Exit \/ Crash
    BY <1>1, DownLeaves DEF GetFails, Exit, Crash, diskVars
  <1>2. CASE CloneCut
    <2>1. /\ GoDown /\ recycled' = recycled /\ UNCHANGED file
          /\ pc # "down" /\ (BelowCapacity \/ Active = {})
      BY <1>2 DEF CloneCut, Cloning, NeedsNew
    <2>2. PICK n \in Ids \ dirs : dirs' = dirs \cup {n} /\ aside' = aside \ {n}
      BY <1>2 DEF CloneCut
    <2>3. \A d \in Ids \ {n} : OnDisk(d)' = OnDisk(d)
      BY <2>1, <2>2 DEF OnDisk
    <2>4. CountTypes /\ aside \subseteq Ids
      BY TypeParts DEF PoolInv, CountTypes
    <2>5. Usable' \subseteq (Active \cup Usable) \cup {n}
      BY <2>3 DEF Usable
    <2>6. Cardinality(Usable') <= Capacity + recycled'
      BY <2>1, <2>4, <2>5, OneMoreHasRoom DEF PoolInv
    <2>7. \A d \in aside' : ~CanBeUsed(OnDisk(d)')
      BY <2>2, <2>3, <2>4 DEF PoolInv, AsideIsUnusable
    <2>8. QED
      BY <2>1, <2>2, <2>4, <2>6, <2>7, DownStep
  <1>3. QED
    BY <1>1, <1>2

LEMMA QuietSteps ==
  ASSUME PoolInv, OpenSignals \/ NoJob \/ CheckoutFails \/ RunEnds \/ Loop \/ GotSignals
  PROVE  StepOK' /\ JobKeepsDirectory' /\ Parts'
  <1>0. StepOK /\ UNCHANGED <<dirs, file, current, mem, nextId, wd, commit, auxVars>>
    BY DEF PoolInv, OpenSignals, NoJob, CheckoutFails, RunEnds, Loop, GotSignals, diskVars
  <1>1. CASE OpenSignals
    <2>1. pc = "signals" /\ ~signal /\ pc' = "get" /\ task' = "job"
      BY <1>0, <1>1 DEF OpenSignals, StepOK
    <2>2. StepOK' /\ JobKeepsDirectory'
      BY <2>1 DEF StepOK, JobKeepsDirectory, Uses
    <2>3. Informed => Informed'
      BY <1>0, <2>1 DEF Informed, auxVars
    <2>4. QED
      BY <1>0, <2>1, <2>2, <2>3, QuietStep DEF auxVars
  <1>2. CASE NoJob \/ Loop
    <2>1. pc \in {"get", "loop_end"} /\ pc' \in {"get", "loop_end"} /\ UNCHANGED <<signal, task>>
      BY <1>2 DEF NoJob, Loop
    <2>2. StepOK' /\ JobKeepsDirectory'
      BY <1>0, <2>1 DEF StepOK, JobKeepsDirectory, Uses
    <2>3. Informed => Informed'
      BY <1>0, <2>1 DEF Informed, auxVars
    <2>4. QED
      BY <1>0, <2>1, <2>2, <2>3, QuietStep DEF auxVars
  <1>3. CASE GotSignals
    <2>1. pc = "loop_end" /\ pc' = "reload" /\ signal' = FALSE /\ task' = task
      BY <1>3 DEF GotSignals
    <2>2. StepOK' /\ JobKeepsDirectory'
      BY <1>0, <2>1 DEF StepOK, JobKeepsDirectory, Uses
    <2>3. Informed'
      BY <2>1 DEF Informed
    <2>4. QED
      BY <1>0, <2>1, <2>2, <2>3, QuietStep DEF auxVars
  <1>4. CASE CheckoutFails \/ RunEnds
    <2>1. /\ pc \in {"checkout", "running"} /\ pc' \in {"succeeded", "failed"}
          /\ UNCHANGED <<signal, task>>
      BY <1>4 DEF CheckoutFails, RunEnds
    <2>2. StepOK' /\ JobKeepsDirectory'
      BY <1>0, <2>1 DEF StepOK, JobKeepsDirectory, Uses
    <2>3. Informed => Informed'
      BY <1>0, <2>1 DEF Informed, auxVars
    <2>4. QED
      BY <1>0, <2>1, <2>2, <2>3, QuietStep DEF auxVars
  <1>5. QED
    BY <1>1, <1>2, <1>3, <1>4

\* The use of a directory ends.
LEMMA UseEndsStep ==
  ASSUME PoolInv, UseEnds
  PROVE  StepOK' /\ JobKeepsDirectory'
  <1>1. task \in {"job", "test"} /\ StepOK
    BY DEF PoolInv, TypeOK
  <1>2. pc' = (IF task = "job" THEN "loop_end" ELSE "signals") /\ UNCHANGED <<signal, task>>
    BY DEF UseEnds
  <1>3. QED
    BY <1>1, <1>2 DEF StepOK, JobKeepsDirectory, Uses

LEMMA WorkingSteps ==
  ASSUME PoolInv, SetProcessing \/ Checkout \/ SetFinished
  PROVE  StepOK' /\ JobKeepsDirectory' /\ Parts'
  <1>0. StepOK /\ mem \in Mems /\ head \in [Ids -> Commits]
    BY DEF PoolInv, TypeOK, Mems
  <1>1. PICK w \in Ids : w = wd
    BY <1>0 DEF StepOK, Uses, SetProcessing, Checkout, SetFinished
  <1>2. \A s : mem' = MemAfter(s) => mem'[w] = s
    BY <1>0, <1>1 DEF MemAfter, Mems
  <1>3. CASE SetProcessing /\ current = NoDir /\ CanBeUsed(mem[wd])
    <2>1. /\ pc = "process" /\ pc' = (IF task = "job" THEN "checkout" ELSE "running")
          /\ current' = wd /\ mem' = MemAfter("Processing") /\ file' = FileAfter("Processing")
          /\ UNCHANGED <<dirs, nextId, memCommit, signal, task, commit, more, wd,
                         contested, missed, aside, recycled>>
      BY <1>3 DEF SetProcessing
    <2>2. StepOK' /\ JobKeepsDirectory'
      BY <1>0, <1>1, <1>2, <2>1 DEF StepOK, JobKeepsDirectory, Uses
    <2>3. Parts'
      BY <1>1, <1>3, <2>1, WritingStep
    <2>4. QED
      BY <2>2, <2>3
  <1>4. CASE SetProcessing /\ ~(current = NoDir /\ CanBeUsed(mem[wd]))
    <2>1. /\ pc = "process" /\ UseFails(mem, memCommit)
          /\ UNCHANGED <<dirs, file, aside, recycled>>
      BY <1>4 DEF SetProcessing
    <2>2. CASE task = "job"
      <3>1. UseEnds /\ mem' = mem
        BY <2>1, <2>2 DEF UseFails
      <3>2. UNCHANGED <<nextId, signal, contested, missed>> /\ (Informed => Informed')
        BY <2>1, <3>1 DEF UseEnds, Informed
      <3>3. QED
        BY <1>0, <2>1, <3>1, <3>2, UseEndsStep, QuietStep
    <2>3. CASE task # "job"
      BY <2>1, <2>3, DownLeaves DEF UseFails
    <2>4. QED
      BY <2>2, <2>3
  <1>5. CASE Checkout
    <2>1. /\ pc = "checkout" /\ pc' = "running" /\ wd \in dirs
          /\ mem[w] = "Processing" /\ task = "job" /\ current = wd
          /\ UNCHANGED <<dirs, current, nextId, signal, task, commit, more, wd, auxVars>>
      BY <1>0, <1>1, <1>5 DEF Checkout, StepOK
    <2>2. \/ UNCHANGED <<head, mem, file>> /\ head[w] = commit
          \/ /\ mem' = MemAfter("CheckedOut") /\ file' = FileAfter("CheckedOut")
             /\ head'[w] = commit
      BY <1>0, <1>1, <1>5 DEF Checkout
    <2>3. StepOK' /\ JobKeepsDirectory'
      BY <1>0, <1>1, <1>2, <2>1, <2>2 DEF StepOK, JobKeepsDirectory, Uses
    <2>4. Parts'
      <3>1. CASE UNCHANGED <<mem, file>>
        BY <2>1, <3>1, QuietStep DEF auxVars, Informed
      <3>2. CASE mem' = MemAfter("CheckedOut") /\ file' = FileAfter("CheckedOut")
        <4>1. CanBeUsed(mem[w])
          BY <2>1 DEF CanBeUsed
        <4>2. QED
          BY <1>1, <2>1, <3>2, <4>1, WritingStep DEF auxVars
      <3>3. QED
        BY <2>2, <3>1, <3>2
    <2>5. QED
      BY <2>3, <2>4
  <1>6. CASE SetFinished
    <2>1. /\ pc = "succeeded" /\ mem' = MemAfter("Finished") /\ file' = FileAfter("Finished")
          /\ UNCHANGED <<dirs, nextId, signal, contested, missed, aside, recycled>>
          /\ UseEnds \/ (pc' = "cleanup" /\ UNCHANGED <<task, wd>>)
      BY <1>6 DEF SetFinished, UseEnds
    <2>2. StepOK' /\ JobKeepsDirectory'
      <3>1. CASE UseEnds
        BY <1>0, <2>1, <3>1, UseEndsStep
      <3>2. CASE pc' = "cleanup" /\ UNCHANGED <<task, wd>>
        BY <1>0, <2>1, <3>2 DEF StepOK, JobKeepsDirectory, Uses
      <3>3. QED
        BY <2>1, <3>1, <3>2
    <2>3. Parts'
      <3>1. CanBeUsed(mem[w])
        BY <1>0, <1>1, <2>1 DEF StepOK, CanBeUsed
      <3>2. QED
        BY <1>1, <2>1, <3>1, WritingStep
    <2>4. QED
      BY <2>2, <2>3
  <1>7. QED
    BY <1>3, <1>4, <1>5, <1>6

LEMMA WithdrawingSteps ==
  ASSUME PoolInv, SetError \/ CleanUp
  PROVE  StepOK' /\ JobKeepsDirectory' /\ Parts'
  <1>0. /\ StepOK /\ mem \in Mems /\ file \in [Ids -> Statuses \cup {"none"}]
    BY DEF PoolInv, TypeOK, Mems
  <1>1. PICK w \in Ids : w = wd
    BY <1>0 DEF StepOK, Uses, SetError, CleanUp
  <1>2. \A s : mem' = MemAfter(s) => mem'[w] = s /\ \A d \in Ids \ {w} : mem'[d] = mem[d]
    BY <1>0, <1>1 DEF MemAfter, Mems
  <1>3. /\ pc \notin {"down", "reload"} /\ dirs' \subseteq dirs /\ recycled' = recycled
        /\ aside' \subseteq aside \cup {w}
        /\ \A d \in Ids \ {w} : file'[d] = file[d] /\ OnDisk(d)' = OnDisk(d)
        /\ ~CanBeUsed(OnDisk(w)')
    <2>1. CASE SetError
      <3>1. pc = "failed" /\ mem[w] # "Error"
        BY <1>0, <1>1, <2>1 DEF SetError, StepOK
      <3>2. file'[w] = "Error" /\ \A d \in Ids \ {w} : file'[d] = file[d]
        BY <1>0, <1>1, <2>1, <3>1 DEF SetError, FileAfter
      <3>3. UNCHANGED <<dirs, recycled>> /\ aside' = aside \cup {w}
        BY <1>1, <2>1 DEF SetError
      <3>4. \A d \in Ids \ {w} : OnDisk(d)' = OnDisk(d)
        BY <3>2, <3>3 DEF OnDisk
      <3>5. ~CanBeUsed(OnDisk(w)')
        BY <3>2 DEF OnDisk, CanBeUsed
      <3>6. QED
        BY <3>1, <3>2, <3>3, <3>4, <3>5
    <2>2. CASE CleanUp
      <3>1. /\ pc = "cleanup" /\ dirs' = dirs \ {w} /\ aside' = aside \ {w}
            /\ UNCHANGED <<file, recycled>>
        BY <1>1, <2>2 DEF CleanUp
      <3>2. \A d \in Ids \ {w} : OnDisk(d)' = OnDisk(d)
        BY <3>1 DEF OnDisk
      <3>3. ~CanBeUsed(OnDisk(w)')
        BY <3>1 DEF OnDisk, CanBeUsed
      <3>4. QED
        BY <3>1, <3>2, <3>3
    <2>3. QED
      BY <2>1, <2>2
  <1>4. CASE GoDown
    BY <1>3, <1>4, DownWithdraws, <1>1
  <1>5. CASE UseEnds /\ mem' \in {MemAfter("Error"), MemAfter("absent")}
    <2>1. /\ ~CanBeUsed(mem'[w]) /\ \A d \in Ids \ {w} : mem'[d] = mem[d]
      BY <1>2, <1>5 DEF CanBeUsed
    <2>2. UNCHANGED <<nextId, contested, missed, signal>>
      BY <1>5 DEF UseEnds
    <2>3. Parts'
      BY <1>1, <1>3, <2>1, <2>2, WithdrawingStep
    <2>4. QED
      BY <1>0, <1>3, <1>5, <2>3, UseEndsStep
  <1>6. GoDown \/ (UseEnds /\ mem' \in {MemAfter("Error"), MemAfter("absent")})
    BY DEF SetError, CleanUp, UseFails
  <1>7. QED
    BY <1>4, <1>5, <1>6

LEMMA DaemonStep ==
  ASSUME PoolInv, Daemon \/ Exit \/ CloneCut \/ Crash
  PROVE  PoolInv'
  <1>1. StepOK' /\ JobKeepsDirectory' /\ Parts'
    BY GettingSteps, EndingSteps, QuietSteps, WorkingSteps, WithdrawingSteps DEF Daemon
  <1>2. TypeOK'
    BY DaemonTypesStep DEF PoolInv
  <1>3. ShellOK'
    BY DaemonKeepsTools DEF PoolInv, ShellOK, toolVars
  <1>4. QED
    BY <1>1, <1>2, <1>3 DEF PoolInv, Parts

LEMMA Invariance == Spec => []PoolInv
  <1>1. ASSUME PoolInv, UNCHANGED vars PROVE PoolInv'
    <2>1. /\ TypeOK' /\ StepOK' /\ ShellOK' /\ NextIdIsFree' /\ JobKeepsDirectory'
      BY <1>1
      DEF vars, diskVars, daemonVars, toolVars, auxVars, PoolInv, TypeOK, StepOK, ShellOK,
          NextIdIsFree, JobKeepsDirectory
    <2>2. \A d : OnDisk(d)' = OnDisk(d)
      BY <1>1 DEF vars, diskVars, OnDisk
    <2>3. Active' = Active /\ Usable' = Usable
      BY <1>1, <2>2 DEF vars, daemonVars, Active, Usable
    <2>4. StatusIsSaved' /\ UsableIsKnown' /\ AsideIsUnusable' /\ RoomIsKept'
      BY <1>1, <2>2, <2>3
      DEF vars, diskVars, daemonVars, auxVars, PoolInv, StatusIsSaved, UsableIsKnown,
          AsideIsUnusable, RoomIsKept, Informed
    <2>5. QED
      BY <2>1, <2>4 DEF PoolInv
  <1>2. PoolInv /\ [Next]_vars => PoolInv'
    BY <1>1, DaemonStep, ToolStep DEF Next
  <1>3. QED
    BY <1>2, InitInv, PTL DEF Spec

-----------------------------------------------------------------------------
(* Theorems.                                                               *)

\* The types of the pool's state, on disk and in every process.
THEOREM PoolTypeCorrect == Spec => []TypeOK
  <1>1. PoolInv => TypeOK
    BY DEF PoolInv
  <1>2. QED
    BY <1>1, Invariance, PTL

\* A job's program runs in the directory `current` points to, on its commit, and
\* others see that the directory is in use: run_job, set_and_save_status, checkout.
THEOREM JobsRunTheirCommit == Spec => []RunsTheCommit
  <1>1. PoolInv => RunsTheCommit
    <2> SUFFICES ASSUME PoolInv, pc = "running", task = "job", wd \notin contested
                 PROVE  /\ wd \in dirs /\ head[wd] = commit /\ current = wd
                        /\ file[wd] \in {"CheckedOut", "Processing"}
      BY DEF RunsTheCommit
    <2>1. wd \in Ids /\ current = wd /\ mem[wd] \in {"Processing", "CheckedOut"}
      BY DEF PoolInv, StepOK, Uses
    <2>2. file[wd] = mem[wd]
      BY <2>1 DEF PoolInv, StatusIsSaved, CanBeUsed
    <2>3. QED
      BY <2>1, <2>2 DEF PoolInv, JobKeepsDirectory
  <1>2. QED
    BY <1>1, Invariance, PTL

\* What the daemon believes of the directories is so, unless it is to be told.
THEOREM BeliefsAreCurrent == Spec => []MemoryIsCurrent
  <1>1. PoolInv => MemoryIsCurrent
    BY DEF PoolInv, StatusIsSaved, UsableIsKnown, MemoryIsCurrent
  <1>2. QED
    BY <1>1, Invariance, PTL

\* A clone finds a free name, and no more directories can be used than there is
\* capacity for, but for the recycled ones: get_new, recycle.
THEOREM RoomForClones == Spec => []ClonesHaveRoom
  <1>1. PoolInv => ClonesHaveRoom
    <2> SUFFICES ASSUME PoolInv PROVE WithinCapacity
      BY DEF PoolInv, ClonesHaveRoom
    <2>1. /\ Cardinality(Usable) <= Cardinality(Active \cup Usable)
          /\ Cardinality(Usable) \in Nat /\ Cardinality(Active \cup Usable) \in Nat
      BY ActiveTypes, Sizes
    <2>2. Cardinality(Active \cup Usable) <= Capacity + recycled /\ recycled \in Nat
      BY DEF PoolInv, RoomIsKept, TypeOK
    <2>3. Cardinality(Usable) <= Capacity + recycled
      BY <2>1, <2>2, PoolAssumption
    <2>4. QED
      BY <2>3 DEF WithinCapacity, Usable
  <1>2. QED
    BY <1>1, Invariance, PTL

\* The daemon never uses a directory in which something failed before it is recycled.
THEOREM FailedDirectoriesRest == Spec => []SetAsideIsNotUsed
  <1>1. PoolInv => SetAsideIsNotUsed
    BY DEF PoolInv, StepOK, AsideIsUnusable, SetAsideIsNotUsed, CanBeUsed
  <1>2. QED
    BY <1>1, Invariance, PTL
=============================================================================
