------------------------- MODULE KeyValQueue_proofs -------------------------
(***************************************************************************)
(* Proofs about KeyValQueue for any number of workers, inserters, listers, *)
(* commands, keys and deaths, and any options of the workers.              *)
(***************************************************************************)
EXTENDS KeyValQueue, TLAPS

LEMMA InitIInv == Init => IInv
  <1> SUFFICES ASSUME Init PROVE IInv
    OBVIOUS
  <1>1. TypeOK
    BY DEF Init, TypeOK, WorkerSteps
  <1>2. KeysAreNew /\ LocksAreHeld /\ WorkersKnow
    BY DEF Init, KeysAreNew, LocksAreHeld, WorkersKnow, HasKey, HasOpen,
           HasLock, Executing
  <1>3. StartsCounted /\ NoEntryLost /\ DirectoryLocked
    BY DEF Init, StartsCounted, NoEntryLost, DirectoryLocked
  <1>4. QED
    BY <1>1, <1>2, <1>3 DEF IInv

LEMMA TypeStep ==
  ASSUME TypeOK, KeysAreNew, WorkersKnow, [Next]_vars
  PROVE  TypeOK'
  <1> USE DEF TypeOK, WorkerSteps, Goto
  <1>1. ASSUME NEW i \in Inserters, InserterStep(i) \/ InserterDies(i)
        PROVE  TypeOK'
    <2>1. CASE TakeKey(i)
      <3>1. nextKey \in Keys
        BY <2>1 DEF TakeKey, Keys
      <3>2. QED
        BY <2>1, <3>1 DEF TakeKey, workVars, auxVars
    <2>2. CASE LockDir(i)
      BY <2>2 DEF LockDir, workVars, auxVars
    <2>3. CASE CreateTmp(i)
      <3>1. ikey[i] \in Keys
        BY <2>3 DEF CreateTmp, KeysAreNew, HasKey
      <3>2. QED
        BY <2>3, <3>1 DEF CreateTmp, workVars, auxVars
    <2>4. CASE Rename(i)
      <3>1. ikey[i] \in Keys
        BY <2>4 DEF Rename, KeysAreNew, HasKey
      <3>2. QED
        BY <2>4, <3>1 DEF Rename, workVars
    <2>5. CASE InserterDies(i)
      BY <2>5 DEF InserterDies, workVars
    <2>6. QED
      BY <1>1, <2>1, <2>2, <2>3, <2>4, <2>5 DEF InserterStep
  <1>2. ASSUME NEW c \in Commands, BeginCommand(c) \/ EndCommand(c)
        PROVE  TypeOK'
    BY <1>2 DEF BeginCommand, EndCommand, insVars, workVars, auxVars
  <1>3. ASSUME NEW l \in Listers, Probe(l) \/ EndProbe(l)
        PROVE  TypeOK'
    BY <1>3 DEF Probe, EndProbe, insVars, workVars, auxVars
  <1>4. ASSUME NEW w \in Workers,
               WaitForEntries(w) \/ SortedKeys(w) \/ OpenNext(w) \/ NoMore(w)
        PROVE  TypeOK'
    <2>1. CASE WaitForEntries(w)
      BY <2>1 DEF WaitForEntries, insVars, auxVars
    <2>2. CASE SortedKeys(w)
      BY <2>2 DEF SortedKeys, insVars, auxVars
    <2>3. CASE OpenNext(w)
      BY <2>3 DEF OpenNext, insVars, auxVars
    <2>4. CASE NoMore(w)
      BY <2>4 DEF NoMore, insVars, auxVars
    <2>5. QED
      BY <1>4, <2>1, <2>2, <2>3, <2>4
  <1>5. ASSUME NEW w \in Workers, BeginUnlocked(w) \/ BeginLocked(w)
        PROVE  TypeOK'
    <2>1. cur[w] \in Keys
      BY <1>5 DEF BeginUnlocked, BeginLocked, WorkersKnow, HasOpen
    <2>2. starts' \in [Keys -> Nat] /\ files' \in SUBSET Keys
          /\ risked' \in SUBSET Keys /\ wpc' \in [Workers -> WorkerSteps]
      BY <1>5, <2>1 DEF BeginUnlocked, BeginLocked, Begin
    <2>3. unlocked' \in SUBSET Keys
      BY <1>5, <2>1 DEF BeginUnlocked, BeginLocked
    <2>4. QED
      BY <1>5, <2>2, <2>3 DEF BeginUnlocked, BeginLocked, insVars
  <1>6. ASSUME NEW w \in Workers, Lock(w) \/ LockTaken(w) \/ EntryGone(w)
        PROVE  TypeOK'
    BY <1>6 DEF Lock, LockTaken, EntryGone, Unlock, insVars, auxVars
  <1>7. ASSUME NEW w \in Workers, ProgramEnds(w)
        PROVE  TypeOK'
    <2>1. cur[w] \in Keys
      BY <1>7 DEF ProgramEnds, WorkersKnow, HasOpen
    <2>2. QED
      BY <1>7, <2>1 DEF ProgramEnds, insVars
  <1>8. ASSUME NEW w \in Workers, Delete(w) \/ Release(w)
        PROVE  TypeOK'
    BY <1>8 DEF Delete, Release, Unlock, insVars, auxVars
  <1>9. ASSUME NEW w \in Workers, WorkerDies(w)
        PROVE  TypeOK'
    <2>1. Executing(w) => cur[w] \in Keys
      BY DEF WorkersKnow, HasOpen, Executing
    <2>2. deaths' \in [Keys -> Nat]
      BY <1>9, <2>1 DEF WorkerDies
    <2>3. entryLock' \in [Keys -> Workers \cup Listers \cup {Nobody}]
      BY <1>9 DEF WorkerDies
    <2>4. QED
      BY <1>9, <2>2, <2>3 DEF WorkerDies, insVars
  <1>10. ASSUME NEW w \in Workers, RunAgain(w)
         PROVE  TypeOK'
    <2>1. Options[w] \subseteq OptionsType
      BY ProcessAssumption
    <2>2. opts' \in [Workers -> OptionsType]
      BY <1>10, <2>1 DEF RunAgain
    <2>3. QED
      BY <1>10, <2>2 DEF RunAgain, insVars, auxVars
  <1>11. CASE UNCHANGED vars
    BY <1>11 DEF vars, insVars, workVars, auxVars
  <1>12. QED
    BY <1>1, <1>2, <1>3, <1>4, <1>5, <1>6, <1>7, <1>8, <1>9, <1>10, <1>11
    DEF Next, WorkerStep

LEMMA KeysStep ==
  ASSUME TypeOK, KeysAreNew, WorkersKnow, [Next]_vars
  PROVE  KeysAreNew'
  <1> USE DEF TypeOK, KeysAreNew, HasKey
  <1>1. ASSUME NEW i \in Inserters, TakeKey(i)
        PROVE  KeysAreNew'
    BY <1>1 DEF TakeKey, Keys, workVars, auxVars
  <1>2. ASSUME NEW i \in Inserters, Rename(i)
        PROVE  KeysAreNew'
    BY <1>2 DEF Rename, workVars
  <1>3. ASSUME NEW i \in Inserters,
               LockDir(i) \/ CreateTmp(i) \/ InserterDies(i)
        PROVE  KeysAreNew'
    BY <1>3 DEF LockDir, CreateTmp, InserterDies, workVars, auxVars
  <1>4. ASSUME NEW c \in Commands, BeginCommand(c) \/ EndCommand(c)
        PROVE  KeysAreNew'
    BY <1>4 DEF BeginCommand, EndCommand, insVars, workVars, auxVars
  <1>5. ASSUME NEW l \in Listers, Probe(l) \/ EndProbe(l)
        PROVE  KeysAreNew'
    BY <1>5 DEF Probe, EndProbe, insVars, workVars, auxVars
  <1>6. ASSUME NEW w \in Workers,
               WaitForEntries(w) \/ SortedKeys(w) \/ OpenNext(w) \/ NoMore(w)
        PROVE  KeysAreNew'
    BY <1>6 DEF WaitForEntries, SortedKeys, OpenNext, NoMore, insVars, auxVars
  <1>7. ASSUME NEW w \in Workers, BeginUnlocked(w) \/ BeginLocked(w)
        PROVE  KeysAreNew'
    <2>1. cur[w] \in inserted
      BY <1>7 DEF BeginUnlocked, BeginLocked, WorkersKnow, HasOpen
    <2>2. files' \subseteq files /\ starts' = [starts EXCEPT ![cur[w]] = @ + 1]
      BY <1>7 DEF BeginUnlocked, BeginLocked, Begin
    <2>3. UNCHANGED <<inserted, nextKey, ipc, ikey, todo>>
      BY <1>7 DEF BeginUnlocked, BeginLocked, insVars
    <2>4. QED
      BY <2>1, <2>2, <2>3
  <1>8. ASSUME NEW w \in Workers,
               Lock(w) \/ LockTaken(w) \/ EntryGone(w) \/ ProgramEnds(w)
        PROVE  KeysAreNew'
    BY <1>8 DEF Lock, LockTaken, EntryGone, ProgramEnds, insVars, auxVars
  <1>9. ASSUME NEW w \in Workers,
               Delete(w) \/ Release(w) \/ WorkerDies(w) \/ RunAgain(w)
        PROVE  KeysAreNew'
    BY <1>9 DEF Delete, Release, WorkerDies, RunAgain, insVars, auxVars
  <1>10. CASE UNCHANGED vars
    BY <1>10 DEF vars, insVars, workVars, auxVars
  <1>11. QED
    BY <1>1, <1>2, <1>3, <1>4, <1>5, <1>6, <1>7, <1>8, <1>9, <1>10
    DEF Next, InserterStep, WorkerStep

LEMMA LocksStep ==
  ASSUME TypeOK, LocksAreHeld, WorkersKnow, [Next]_vars
  PROVE  LocksAreHeld'
  <1> USE DEF LocksAreHeld, HasLock, Locks, Goto
  <1> \A v \in Workers : HasLock(v) => cur[v] \in Keys
    BY DEF WorkersKnow, HasOpen, TypeOK
  <1> wpc \in [Workers -> WorkerSteps] /\ cur \in [Workers -> Keys \cup {NoKey}]
      /\ entryLock \in [Keys -> Workers \cup Listers \cup {Nobody}]
      /\ probed \in [Listers -> Keys \cup {NoKey}]
      /\ opts \in [Workers -> OptionsType]
    BY DEF TypeOK
  <1> Nobody \notin Workers \cup Listers /\ Workers \cap Listers = {}
      /\ NoKey \notin Keys
    BY ProcessAssumption
  <1>1. ASSUME NEW i \in Inserters, InserterStep(i) \/ InserterDies(i)
        PROVE  LocksAreHeld'
    BY <1>1 DEF InserterStep, TakeKey, LockDir, CreateTmp, Rename, InserterDies,
                workVars
  <1>2. ASSUME NEW c \in Commands, BeginCommand(c) \/ EndCommand(c)
        PROVE  LocksAreHeld'
    BY <1>2 DEF BeginCommand, EndCommand, workVars
  <1>3. ASSUME NEW l \in Listers, Probe(l)
        PROVE  LocksAreHeld'
    <2>1. PICK k \in Keys : /\ entryLock[k] = Nobody
                            /\ entryLock' = [entryLock EXCEPT ![k] = l]
                            /\ probed' = [probed EXCEPT ![l] = k]
      BY <1>3 DEF Probe, TypeOK
    <2>2. QED
      BY <1>3, <2>1 DEF Probe, workVars
  <1>4. ASSUME NEW l \in Listers, EndProbe(l)
        PROVE  LocksAreHeld'
    BY <1>4 DEF EndProbe, workVars
  <1>5. ASSUME NEW w \in Workers,
               WaitForEntries(w) \/ SortedKeys(w) \/ OpenNext(w) \/ NoMore(w)
        PROVE  LocksAreHeld'
    BY <1>5 DEF WaitForEntries, SortedKeys, OpenNext, NoMore
  <1>6. ASSUME NEW w \in Workers, BeginUnlocked(w) \/ BeginLocked(w)
        PROVE  LocksAreHeld'
    BY <1>6 DEF BeginUnlocked, BeginLocked, Begin
  <1>7. ASSUME NEW w \in Workers, Lock(w)
        PROVE  LocksAreHeld'
    <2>1. cur[w] \in Keys
      BY <1>7 DEF Lock, WorkersKnow, HasOpen, TypeOK
    <2>2. QED
      BY <1>7, <2>1 DEF Lock
  <1>8. ASSUME NEW w \in Workers, LockTaken(w) \/ ProgramEnds(w) \/ Delete(w)
        PROVE  LocksAreHeld'
    BY <1>8 DEF LockTaken, ProgramEnds, Delete
  <1>9. ASSUME NEW w \in Workers, EntryGone(w) \/ Release(w)
        PROVE  LocksAreHeld'
    <2>1. Locks(w) => HasLock(w)
      BY <1>9 DEF EntryGone, Release
    <2>2. Unlock(w) /\ cur' = [cur EXCEPT ![w] = NoKey] /\ Goto(w, "next")
          /\ UNCHANGED <<opts, probed>>
      BY <1>9 DEF EntryGone, Release
    <2>3. QED
      BY <2>1, <2>2 DEF Unlock
  <1>10. ASSUME NEW w \in Workers, WorkerDies(w) \/ RunAgain(w)
         PROVE  LocksAreHeld'
    BY <1>10 DEF WorkerDies, RunAgain
  <1>11. CASE UNCHANGED vars
    BY <1>11 DEF vars, workVars
  <1>12. QED
    BY <1>1, <1>2, <1>3, <1>4, <1>5, <1>6, <1>7, <1>8, <1>9, <1>10, <1>11
    DEF Next, WorkerStep

(* What can bring an entry's file back, or make a worker's knowledge stale *)
LEMMA WorkersStep ==
  ASSUME TypeOK, KeysAreNew, WorkersKnow, [Next]_vars
  PROVE  WorkersKnow'
  <1> USE DEF WorkersKnow, HasOpen, Executing, Locks, Goto
  <1> wpc \in [Workers -> WorkerSteps] /\ cur \in [Workers -> Keys \cup {NoKey}]
      /\ opts \in [Workers -> OptionsType]
    BY DEF TypeOK
  <1>1. ASSUME NEW i \in Inserters, Rename(i)
        PROVE  WorkersKnow'
    <2>1. ikey[i] \notin inserted
      BY <1>1 DEF Rename, KeysAreNew, HasKey
    <2>2. QED
      BY <1>1, <2>1 DEF Rename, workVars
  <1>2. ASSUME NEW i \in Inserters,
               TakeKey(i) \/ LockDir(i) \/ CreateTmp(i) \/ InserterDies(i)
        PROVE  WorkersKnow'
    BY <1>2 DEF TakeKey, LockDir, CreateTmp, InserterDies, workVars, auxVars
  <1>3. ASSUME NEW c \in Commands, BeginCommand(c) \/ EndCommand(c)
        PROVE  WorkersKnow'
    BY <1>3 DEF BeginCommand, EndCommand, workVars, auxVars
  <1>4. ASSUME NEW l \in Listers, Probe(l) \/ EndProbe(l)
        PROVE  WorkersKnow'
    BY <1>4 DEF Probe, EndProbe, workVars, auxVars
  <1>5. ASSUME NEW w \in Workers, OpenNext(w)
        PROVE  WorkersKnow'
    BY <1>5 DEF OpenNext, KeysAreNew, auxVars
  <1>6. ASSUME NEW w \in Workers,
               WaitForEntries(w) \/ SortedKeys(w) \/ NoMore(w)
        PROVE  WorkersKnow'
    BY <1>6 DEF WaitForEntries, SortedKeys, NoMore, auxVars
  <1>7. ASSUME NEW w \in Workers, BeginUnlocked(w)
        PROVE  WorkersKnow'
    BY <1>7 DEF BeginUnlocked, Begin
  <1>8. ASSUME NEW w \in Workers, BeginLocked(w)
        PROVE  WorkersKnow'
    BY <1>8 DEF BeginLocked, Begin
  <1>9. ASSUME NEW w \in Workers, Lock(w) \/ LockTaken(w) \/ EntryGone(w)
        PROVE  WorkersKnow'
    BY <1>9 DEF Lock, LockTaken, EntryGone, auxVars
  <1>10. ASSUME NEW w \in Workers, ProgramEnds(w)
         PROVE  WorkersKnow'
    BY <1>10 DEF ProgramEnds
  <1>11. ASSUME NEW w \in Workers, Delete(w) \/ Release(w)
         PROVE  WorkersKnow'
    BY <1>11 DEF Delete, Release, auxVars
  <1>12. ASSUME NEW w \in Workers, WorkerDies(w) \/ RunAgain(w)
         PROVE  WorkersKnow'
    BY <1>12 DEF WorkerDies, RunAgain, auxVars
  <1>13. CASE UNCHANGED vars
    BY <1>13 DEF vars, workVars, auxVars
  <1>14. QED
    BY <1>1, <1>2, <1>3, <1>4, <1>5, <1>6, <1>7, <1>8, <1>9, <1>10, <1>11,
       <1>12, <1>13
    DEF Next, InserterStep, WorkerStep

LEMMA DirectoryStep ==
  ASSUME TypeOK, DirectoryLocked, [Next]_vars
  PROVE  DirectoryLocked'
  <1> USE DEF DirectoryLocked, TypeOK
  <1>1. ASSUME NEW i \in Inserters, TakeKey(i) \/ CreateTmp(i)
        PROVE  DirectoryLocked'
    BY <1>1 DEF TakeKey, CreateTmp
  <1>2. ASSUME NEW i \in Inserters, LockDir(i)
        PROVE  DirectoryLocked'
    <2>1. \A p \in Inserters \cup Commands : dirLock[p] = "none"
      BY <1>2 DEF LockDir, CanLockDir
    <2>2. QED
      BY <1>2, <2>1 DEF LockDir
  <1>3. ASSUME NEW i \in Inserters, Rename(i) \/ InserterDies(i)
        PROVE  DirectoryLocked'
    BY <1>3 DEF Rename, InserterDies
  <1>4. ASSUME NEW c \in Commands, BeginCommand(c)
        PROVE  DirectoryLocked'
    <2>1. PICK mode \in {"shared", "exclusive"} :
            CanLockDir(mode) /\ dirLock' = [dirLock EXCEPT ![c] = mode]
      BY <1>4 DEF BeginCommand
    <2>2. c \notin Inserters
      BY ProcessAssumption
    <2>3. QED
      BY <1>4, <2>1, <2>2 DEF BeginCommand, CanLockDir, insVars
  <1>5. ASSUME NEW c \in Commands, EndCommand(c)
        PROVE  DirectoryLocked'
    <2>1. c \notin Inserters
      BY ProcessAssumption
    <2>2. QED
      BY <1>5, <2>1 DEF EndCommand, insVars
  <1>6. ASSUME NEW l \in Listers, Probe(l) \/ EndProbe(l)
        PROVE  DirectoryLocked'
    BY <1>6 DEF Probe, EndProbe, insVars
  <1>7. ASSUME NEW w \in Workers, WorkerStep(w) \/ WorkerDies(w) \/ RunAgain(w)
        PROVE  DirectoryLocked'
    <2>1. UNCHANGED <<ipc, dirLock>>
      BY <1>7 DEF WorkerStep, WaitForEntries, SortedKeys, OpenNext, NoMore,
                  BeginUnlocked, Lock, LockTaken, BeginLocked, EntryGone,
                  ProgramEnds, Delete, Release, WorkerDies, RunAgain, insVars
    <2>2. QED
      BY <2>1
  <1>8. CASE UNCHANGED vars
    BY <1>8 DEF vars, insVars
  <1>9. QED
    BY <1>1, <1>2, <1>3, <1>4, <1>5, <1>6, <1>7, <1>8 DEF Next, InserterStep

(* The steps that neither begin, end, nor delete anything *)
Quiet(w) ==
    \/ WaitForEntries(w) \/ SortedKeys(w) \/ OpenNext(w) \/ NoMore(w)
    \/ Lock(w) \/ LockTaken(w) \/ EntryGone(w) \/ Release(w) \/ RunAgain(w)

LEMMA QuietFacts ==
  ASSUME TypeOK, NEW w \in Workers, Quiet(w)
  PROVE  /\ UNCHANGED <<files, insVars, dirLock, probed, auxVars>>
         /\ \A v \in Workers : Executing(v)' <=> Executing(v)
         /\ \A v \in Workers : Executing(v) => cur'[v] = cur[v] /\ wpc'[v] = wpc[v]
  <1> USE DEF Executing, Goto, TypeOK
  <1>1. CASE WaitForEntries(w) \/ SortedKeys(w) \/ OpenNext(w) \/ NoMore(w)
    BY <1>1 DEF WaitForEntries, SortedKeys, OpenNext, NoMore
  <1>2. CASE Lock(w) \/ LockTaken(w) \/ EntryGone(w) \/ Release(w) \/ RunAgain(w)
    BY <1>2 DEF Lock, LockTaken, EntryGone, Release, RunAgain
  <1>3. QED
    BY <1>1, <1>2 DEF Quiet

LEMMA StartsStep ==
  ASSUME TypeOK, KeysAreNew, LocksAreHeld, WorkersKnow, StartsCounted,
         [Next]_vars
  PROVE  StartsCounted'
  <1> USE DEF StartsCounted
  <1> starts \in [Keys -> Nat] /\ deaths \in [Keys -> Nat]
      /\ wpc \in [Workers -> WorkerSteps] /\ cur \in [Workers -> Keys \cup {NoKey}]
    BY DEF TypeOK
  <1>1. ASSUME NEW i \in Inserters, Rename(i)
        PROVE  StartsCounted'
    <2>1. ikey[i] \in Keys /\ starts[ikey[i]] = 0
      BY <1>1 DEF Rename, KeysAreNew, HasKey
    <2>2. QED
      BY <1>1, <2>1 DEF Rename, workVars, Executing
  <1>2. ASSUME NEW i \in Inserters,
               TakeKey(i) \/ LockDir(i) \/ CreateTmp(i) \/ InserterDies(i)
        PROVE  StartsCounted'
    BY <1>2 DEF TakeKey, LockDir, CreateTmp, InserterDies, workVars, auxVars,
                Executing
  <1>3. ASSUME NEW c \in Commands, BeginCommand(c) \/ EndCommand(c)
        PROVE  StartsCounted'
    BY <1>3 DEF BeginCommand, EndCommand, workVars, auxVars, Executing
  <1>4. ASSUME NEW l \in Listers, Probe(l) \/ EndProbe(l)
        PROVE  StartsCounted'
    BY <1>4 DEF Probe, EndProbe, workVars, auxVars, Executing
  <1>5. ASSUME NEW w \in Workers, Quiet(w)
        PROVE  StartsCounted'
    BY <1>5, QuietFacts DEF auxVars
  <1>6. ASSUME NEW w \in Workers, BeginUnlocked(w)
        PROVE  StartsCounted'
    <2>1. cur[w] \in Keys /\ cur[w] \in unlocked'
      BY <1>6 DEF BeginUnlocked, WorkersKnow, HasOpen, TypeOK
    <2>2. /\ files' \subseteq files /\ cur' = cur /\ deaths' = deaths
          /\ unlocked \subseteq unlocked'
          /\ starts' = [starts EXCEPT ![cur[w]] = @ + 1]
      BY <1>6 DEF BeginUnlocked, Begin
    <2>3. \A v \in Workers : Executing(v) => Executing(v)'
      BY <1>6 DEF BeginUnlocked, Begin, Goto, Executing
    <2>4. QED
      BY <2>1, <2>2, <2>3
  <1>7. ASSUME NEW w \in Workers, BeginLocked(w)
        PROVE  StartsCounted'
    <2>1. cur[w] \in Keys /\ cur[w] \in files /\ HasLock(w)
      BY <1>7 DEF BeginLocked, WorkersKnow, HasOpen, TypeOK, HasLock
    <2>2. /\ files' \subseteq files /\ UNCHANGED <<cur, deaths, unlocked>>
          /\ starts' = [starts EXCEPT ![cur[w]] = @ + 1]
      BY <1>7 DEF BeginLocked, Begin
    <2>3. /\ \A v \in Workers : Executing(v) => Executing(v)'
          /\ Executing(w)'
      BY <1>7 DEF BeginLocked, Begin, Goto, Executing
    <2>4. cur[w] \notin unlocked =>
            \A v \in Workers : ~(Executing(v) /\ cur[v] = cur[w])
      <3>1. SUFFICES ASSUME cur[w] \notin unlocked, NEW v \in Workers,
                            Executing(v), cur[v] = cur[w]
                     PROVE  FALSE
        OBVIOUS
      <3>2. HasLock(v)
        BY <3>1 DEF WorkersKnow, Executing, HasLock
      <3>3. v = w
        BY <2>1, <3>1, <3>2 DEF LocksAreHeld
      <3>4. QED
        BY <1>7, <3>1, <3>3 DEF BeginLocked, Executing
    <2>5. cur[w] \notin unlocked => starts[cur[w]] <= deaths[cur[w]]
      BY <2>1, <2>4
    <2>6. QED
      BY <2>1, <2>2, <2>3, <2>5
  <1>8. ASSUME NEW w \in Workers, ProgramEnds(w)
        PROVE  StartsCounted'
    BY <1>8 DEF ProgramEnds, Goto, Executing
  <1>9. ASSUME NEW w \in Workers, Delete(w)
        PROVE  StartsCounted'
    <2>1. cur[w] \notin files' /\ files' \subseteq files
      BY <1>9 DEF Delete, WorkersKnow, Executing
    <2>2. UNCHANGED <<cur, starts, deaths, unlocked>>
      BY <1>9 DEF Delete, auxVars
    <2>3. \A v \in Workers : v # w => (Executing(v)' <=> Executing(v))
      BY <1>9 DEF Delete, Goto, Executing
    <2>4. QED
      BY <2>1, <2>2, <2>3
  <1>10. ASSUME NEW w \in Workers, WorkerDies(w)
         PROVE  StartsCounted'
    <2>1. UNCHANGED <<files, starts, unlocked>>
      BY <1>10 DEF WorkerDies
    <2>2. \A v \in Workers : v # w =>
            (Executing(v)' <=> Executing(v)) /\ cur'[v] = cur[v]
      BY <1>10 DEF WorkerDies, Goto, Executing
    <2>3. CASE Executing(w)
      <3>1. cur[w] \in Keys
        BY <2>3 DEF WorkersKnow, HasOpen, Executing, TypeOK
      <3>2. deaths' = [deaths EXCEPT ![cur[w]] = @ + 1]
        BY <1>10, <2>3 DEF WorkerDies
      <3>3. QED
        BY <2>1, <2>2, <3>1, <3>2
    <2>4. CASE ~Executing(w)
      <3>1. deaths' = deaths
        BY <1>10, <2>4 DEF WorkerDies
      <3>2. QED
        BY <2>1, <2>2, <2>4, <3>1
    <2>5. QED
      BY <2>3, <2>4
  <1>11. CASE UNCHANGED vars
    BY <1>11 DEF vars, workVars, auxVars, Executing
  <1>12. QED
    BY <1>1, <1>2, <1>3, <1>4, <1>5, <1>6, <1>7, <1>8, <1>9, <1>10, <1>11
    DEF Next, InserterStep, WorkerStep, Quiet

LEMMA NotLostStep ==
  ASSUME TypeOK, WorkersKnow, NoEntryLost, [Next]_vars
  PROVE  NoEntryLost'
  <1> USE DEF NoEntryLost
  <1> deaths \in [Keys -> Nat] /\ inserted \subseteq Keys
      /\ wpc \in [Workers -> WorkerSteps] /\ cur \in [Workers -> Keys \cup {NoKey}]
    BY DEF TypeOK
  <1>1. ASSUME NEW i \in Inserters, InserterStep(i) \/ InserterDies(i)
        PROVE  NoEntryLost'
    BY <1>1 DEF InserterStep, TakeKey, LockDir, CreateTmp, Rename, InserterDies,
                workVars, auxVars
  <1>2. ASSUME NEW c \in Commands, BeginCommand(c) \/ EndCommand(c)
        PROVE  NoEntryLost'
    BY <1>2 DEF BeginCommand, EndCommand, workVars, auxVars
  <1>3. ASSUME NEW l \in Listers, Probe(l) \/ EndProbe(l)
        PROVE  NoEntryLost'
    BY <1>3 DEF Probe, EndProbe, workVars, auxVars
  <1>4. ASSUME NEW w \in Workers, Quiet(w)
        PROVE  NoEntryLost'
    BY <1>4, QuietFacts DEF auxVars, Executing
  <1>5. ASSUME NEW w \in Workers, BeginUnlocked(w) \/ BeginLocked(w)
        PROVE  NoEntryLost'
    <2>1. Begin(w) /\ UNCHANGED <<inserted, completed, deaths, cur>>
      BY <1>5 DEF BeginUnlocked, BeginLocked
    <2>2. \A v \in Workers : wpc[v] = "run" => wpc'[v] = "run"
      BY <2>1 DEF Begin, Goto
    <2>3. wpc'[w] = "run"
      BY <2>1 DEF Begin, Goto
    <2>4. QED
      BY <2>1, <2>2, <2>3 DEF Begin
  <1>6. ASSUME NEW w \in Workers, ProgramEnds(w)
        PROVE  NoEntryLost'
    BY <1>6 DEF ProgramEnds, Goto
  <1>7. ASSUME NEW w \in Workers, Delete(w)
        PROVE  NoEntryLost'
    BY <1>7 DEF Delete, Goto, WorkersKnow, auxVars
  <1>8. ASSUME NEW w \in Workers, WorkerDies(w)
        PROVE  NoEntryLost'
    <2>1. \A v \in Workers : v # w => wpc'[v] = wpc[v] /\ cur'[v] = cur[v]
      BY <1>8 DEF WorkerDies, Goto
    <2>2. wpc[w] = "run" => deaths' = [deaths EXCEPT ![cur[w]] = @ + 1]
      BY <1>8 DEF WorkerDies, Executing
    <2>3. \A k \in Keys : deaths'[k] >= deaths[k] /\ deaths'[k] \in Nat
      BY <1>8 DEF WorkerDies
    <2>4. UNCHANGED <<files, inserted, completed, risked>>
      BY <1>8 DEF WorkerDies
    <2> SUFFICES ASSUME NEW k \in inserted \ (files \cup completed)
                 PROVE  /\ k \in risked
                        /\ \/ deaths'[k] > 0
                           \/ \E v \in Workers : cur'[v] = k /\ wpc'[v] = "run"
      BY <2>4
    <2>5. CASE deaths[k] > 0
      BY <2>3, <2>5
    <2>6. ASSUME NEW v \in Workers, cur[v] = k, wpc[v] = "run", v # w
          PROVE  \E u \in Workers : cur'[u] = k /\ wpc'[u] = "run"
      BY <2>1, <2>6
    <2>7. CASE cur[w] = k /\ wpc[w] = "run"
      BY <2>2, <2>7
    <2>8. QED
      BY <2>5, <2>6, <2>7
  <1>9. CASE UNCHANGED vars
    BY <1>9 DEF vars, workVars, auxVars
  <1>10. QED
    BY <1>1, <1>2, <1>3, <1>4, <1>5, <1>6, <1>7, <1>8, <1>9
    DEF Next, WorkerStep, Quiet

-----------------------------------------------------------------------------
(* The theorems *)

LEMMA IInvStep == IInv /\ [Next]_vars => IInv'
  <1> SUFFICES ASSUME IInv, [Next]_vars PROVE IInv'
    OBVIOUS
  <1> USE DEF IInv
  <1>1. TypeOK' /\ KeysAreNew'
    BY TypeStep, KeysStep
  <1>2. LocksAreHeld' /\ WorkersKnow'
    BY LocksStep, WorkersStep
  <1>3. StartsCounted' /\ NoEntryLost' /\ DirectoryLocked'
    BY StartsStep, NotLostStep, DirectoryStep
  <1>4. QED
    BY <1>1, <1>2, <1>3

THEOREM Inductive == Spec => []IInv
  BY InitIInv, IInvStep, PTL DEF Spec

(* Two workers that lock entries never act on the same one at a time.      *)
THEOREM WorkersExcludeEachOther == Spec => []MutualExclusion
  <1>1. IInv => MutualExclusion
    BY DEF IInv, LocksAreHeld, HasLock, Locks, Executing, MutualExclusion
  <1>2. QED
    BY <1>1, Inductive, PTL

(* Locking and looking again make the queue an at-least-once queue in      *)
(* which only a death causes a second time.                                *)
THEOREM RepetitionNeedsDeath == Spec => []RepeatedOnlyAfterDeath
  <1>1. IInv => RepeatedOnlyAfterDeath
    BY DEF IInv, StartsCounted, RepeatedOnlyAfterDeath
  <1>2. QED
    BY <1>1, Inductive, PTL

(* One worker at a time, and again only after a death.                     *)
THEOREM EntriesAreActedOnOnce == Spec => []ActedOnOnce
  <1>1. MutualExclusion /\ RepeatedOnlyAfterDeath => ActedOnOnce
    BY DEF ActedOnOnce
  <1>2. QED
    BY <1>1, WorkersExcludeEachOther, RepetitionNeedsDeath, PTL

(* A file that is gone was acted on, or was deleted first.                 *)
THEOREM EntriesAreNotLost == Spec => []NoEntryLost
  <1>1. IInv => NoEntryLost
    BY DEF IInv
  <1>2. QED
    BY <1>1, Inductive, PTL

(* The lock on the directory keeps insertions out.                         *)
THEOREM CommandsExcludeInsertions == Spec => CommandsSeeNoInsertion
  <1>1. IInv /\ [Next]_vars =>
          [(\E c \in Commands : dirLock[c] # "none" /\ dirLock'[c] # "none")
             => files' \subseteq files]_vars
    <2> SUFFICES ASSUME IInv, Next, NEW c \in Commands, dirLock[c] # "none"
                 PROVE  files' \subseteq files
      BY DEF vars, insVars, workVars, auxVars
    <2>1. ASSUME NEW i \in Inserters, Rename(i)
          PROVE  FALSE
      BY <2>1, ProcessAssumption DEF Rename, IInv, DirectoryLocked
    <2>2. ASSUME NEW w \in Workers, WorkerStep(w) \/ WorkerDies(w) \/ RunAgain(w)
          PROVE  files' \subseteq files
      BY <2>2 DEF WorkerStep, WaitForEntries, SortedKeys, OpenNext, NoMore,
                  BeginUnlocked, Lock, LockTaken, BeginLocked, Begin, EntryGone,
                  ProgramEnds, Delete, Release, WorkerDies, RunAgain
    <2>3. QED
      BY <2>1, <2>2 DEF Next, InserterStep, TakeKey, LockDir, CreateTmp,
                        InserterDies, BeginCommand, EndCommand, Probe, EndProbe
  <1>2. QED
    BY <1>1, Inductive, PTL DEF Spec, CommandsSeeNoInsertion

=============================================================================
