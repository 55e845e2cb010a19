-------------------------- MODULE RunQueues_proofs --------------------------
(***************************************************************************)
(* Proofs about RunQueues for every pipeline, set of jobs and parameters   *)
(* and any number of crashes and withdrawals.                              *)
(***************************************************************************)
EXTENDS RunQueues, FiniteSetTheorems, WellFoundedInduction, TLAPS

-----------------------------------------------------------------------------
(* The operators *)

(* Queue ids: the pipeline is not empty, and the ends are not part of it *)
LEMMA QueueIdFacts ==
    /\ Len(Pipeline) \in Nat
    /\ Positions \subseteq QueueIds /\ Nowhere \notin QueueIds
    /\ 1 \in Positions
    /\ ErroneousQueue \in QueueIds \ Positions
    /\ DoneQueue \in QueueIds \ Positions
    /\ DoneQueue # ErroneousQueue /\ DoneQueue # Nowhere
  BY ConfigAssumption
  DEF CheckRunQueues, Positions, QueueIds, Nowhere, ErroneousQueue, DoneQueue

(* What push_front writes *)
LEMMA NewEntryFacts ==
  ASSUME TypeOK, NEW q \in QueueIds, NEW j \in Jobs,
         NEW count \in Nat, NEW budget \in Nat, NEW boost \in Int
  PROVE  /\ NewEntry(q, j, count, budget, boost) \in Entry
         /\ NewEntry(q, j, count, budget, boost).key = nextKey
         /\ NewEntry(q, j, count, budget, boost).queue = q
         /\ NewEntry(q, j, count, budget, boost).job = j
         /\ NewEntry(q, j, count, budget, boost).count = count
         /\ NewEntry(q, j, count, budget, boost).budget = budget
  <1>1. params[j].priority \in Int
    BY ConfigAssumption DEF TypeOK, ParamsType
  <1>2. QED
    BY <1>1 DEF TypeOK, NewEntry, Entry

(* Where run_job sends a job, and the status it gives it: the status is    *)
(* Active just when the job stays in the pipeline, and only a job with     *)
(* nothing left to execute is done                                         *)
IsVerdict(v) ==
    /\ v \in VerdictType
    /\ v.status = "Active" <=> v.queue \in Positions
    /\ v.queue = DoneQueue => v.count = 0

LEMMA FinishedIsVerdict ==
  ASSUME NEW count \in Nat, NEW budget \in Nat, count = 0
  PROVE  IsVerdict(Finished(count, budget))
  BY QueueIdFacts
  DEF IsVerdict, Finished, Verdict, VerdictType, Statuses, Nowhere

LEMMA OutOfErrorBudgetIsVerdict ==
  ASSUME NEW count \in Nat
  PROVE  IsVerdict(OutOfErrorBudget(count))
  BY QueueIdFacts
  DEF IsVerdict, OutOfErrorBudget, Verdict, VerdictType, Statuses, Nowhere

LEMMA QueueAfterType ==
  ASSUME NEW q \in Positions
  PROVE  QueueAfter(q) \in Positions \cup {Nowhere}
  BY DEF QueueAfter, NextQueue

LEMMA AfterSuccessIsVerdict ==
  ASSUME NEW e \in Entry, e.queue \in Positions, e.count > 0
  PROVE  IsVerdict(AfterSuccess(e))
  <1>1. e.count \in Nat /\ e.budget \in Nat
    BY DEF Entry
  <1>2. CASE e.count = 1
    BY <1>1, <1>2, FinishedIsVerdict DEF AfterSuccess
  <1>3. CASE e.count # 1
    <2>1. QueueAfter(e.queue) \in Positions \cup {Nowhere}
      BY QueueAfterType
    <2>2. e.count - 1 \in Nat
      BY <1>1
    <2>3. QED
      BY <1>1, <1>3, <2>1, <2>2, QueueIdFacts
      DEF AfterSuccess, IsVerdict, Verdict, VerdictType, Statuses
  <1>4. QED
    BY <1>2, <1>3

LEMMA AfterFailureIsVerdict ==
  ASSUME NEW e \in Entry, e.queue \in Positions, e.budget > 0
  PROVE  IsVerdict(AfterFailure(e))
  <1>1. e.count \in Nat /\ e.budget \in Nat
    BY DEF Entry
  <1>2. CASE e.budget = 1
    BY <1>1, <1>2, OutOfErrorBudgetIsVerdict DEF AfterFailure
  <1>3. CASE e.budget # 1
    BY <1>1, <1>3, QueueIdFacts
    DEF AfterFailure, IsVerdict, Verdict, VerdictType, Statuses
  <1>4. QED
    BY <1>2, <1>3

-----------------------------------------------------------------------------
(* Types, and what the daemon knows at each step *)

(* The command of a queue is a command; the daemon's memory is forgotten   *)
LEMMA WantedType ==
  ASSUME TypeOK, DaemonKnows
  PROVE  Wanted \in Cmds \cup {NoCmd}
  BY DEF Wanted, DaemonKnows, Cmds

LEMMA InitType == Init => TypeOK /\ DaemonKnows
  BY DEF Init, TypeOK, DaemonKnows, NoVerdict, VerdictType, PCs, Statuses,
         QueueIds, Nowhere

LEMMA GoDownType ==
  ASSUME GoDown
  PROVE  /\ pc' \in PCs /\ snapshot' \in SUBSET Entry
         /\ item' \in Entry \cup {NoItem} /\ verdict' \in VerdictType
         /\ stopStart' \in Cmds \cup {NoCmd}
         /\ openQueues' \in SUBSET WindowQueues
         /\ DaemonKnows'
  BY DEF GoDown, NoVerdict, VerdictType, PCs, Statuses, QueueIds, Nowhere,
         DaemonKnows

LEMMA TypeStep ==
  ASSUME TypeOK, DaemonKnows, [Next]_vars
  PROVE  TypeOK' /\ DaemonKnows'
  <1> USE DEF PCs
  <1>1. CASE Start
    BY <1>1 DEF Start, TypeOK, DaemonKnows, auxVars
  <1>2. CASE ReadQueues
    BY <1>2 DEF ReadQueues, TypeOK, DaemonKnows, auxVars
  <1>3. CASE ReadQueuesPanics
    BY <1>3, GoDownType DEF ReadQueuesPanics, TypeOK
  <1>4. CASE SelectJob
    BY <1>4 DEF SelectJob, TypeOK, DaemonKnows, auxVars
  <1>5. CASE SelectNothing
    BY <1>5 DEF SelectNothing, TypeOK, DaemonKnows, auxVars
  <1>6. CASE StopStartBe
    <2>1. stopped' \in SUBSET Cmds
      BY <1>6, WantedType DEF StopStartBe, AfterSwitch, TypeOK
    <2>2. QED
      BY <1>6, <2>1, WantedType
      DEF StopStartBe, TypeOK, DaemonKnows, auxVars, Wanted
  <1>7. CASE RunSucceeds
    <2>1. verdict' \in VerdictType
      BY <1>7, AfterSuccessIsVerdict
      DEF RunSucceeds, TypeOK, DaemonKnows, IsVerdict
    <2>2. runs' \in [Jobs -> Nat]
      <3>1. item.job \in Jobs /\ runs \in [Jobs -> Nat]
        BY <1>7 DEF RunSucceeds, TypeOK, DaemonKnows, Entry
      <3>2. QED
        BY <1>7, <3>1 DEF RunSucceeds
    <2>3. QED
      BY <1>7, <2>1, <2>2 DEF RunSucceeds, TypeOK, DaemonKnows
  <1>8. CASE RunFails
    <2>1. verdict' \in VerdictType
      BY <1>8, AfterFailureIsVerdict
      DEF RunFails, TypeOK, DaemonKnows, IsVerdict
    <2>2. errors' \in [Jobs -> Nat]
      <3>1. item.job \in Jobs /\ errors \in [Jobs -> Nat]
        BY <1>8 DEF RunFails, TypeOK, DaemonKnows, Entry
      <3>2. QED
        BY <1>8, <3>1 DEF RunFails
    <2>3. QED
      BY <1>8, <2>1, <2>2 DEF RunFails, TypeOK, DaemonKnows
  <1>9. CASE RunNotNeeded
    <2>1. item.count \in Nat /\ item.budget \in Nat
      BY <1>9 DEF RunNotNeeded, TypeOK, DaemonKnows, Entry
    <2>2. verdict' \in VerdictType
      BY <1>9, <2>1, FinishedIsVerdict, OutOfErrorBudgetIsVerdict
      DEF RunNotNeeded, IsVerdict
    <2>3. QED
      BY <1>9, <2>2 DEF RunNotNeeded, TypeOK, DaemonKnows, auxVars
  <1>10. CASE Push
    <2>1. entries' \in SUBSET Entry /\ nextKey' \in Nat
      <3>1. item.job \in Jobs /\ verdict.count \in Nat /\ verdict.budget \in Nat
            /\ verdict.queue \in QueueIds \cup {Nowhere}
        BY <1>10 DEF Push, TypeOK, DaemonKnows, Entry, VerdictType
      <3>2. verdict.queue # Nowhere =>
              NewEntry(verdict.queue, item.job, verdict.count, verdict.budget, 0) \in Entry
        BY <3>1, NewEntryFacts
      <3>3. QED
        BY <1>10, <3>2 DEF Push, PushFront, TypeOK
    <2>2. QED
      BY <1>10, <2>1 DEF Push, TypeOK, DaemonKnows, auxVars
  <1>11. CASE Delete
    <2>1. verdict' \in VerdictType
      BY <1>11 DEF Delete, NoVerdict, VerdictType, Statuses
    <2>2. fate' \in [Jobs -> Statuses \cup {"Withdrawn"}]
      BY <1>11 DEF Delete, TypeOK, VerdictType
    <2>3. QED
      BY <1>11, <2>1, <2>2 DEF Delete, TypeOK, DaemonKnows
  <1>12. CASE Loop
    BY <1>12 DEF Loop, TypeOK, DaemonKnows, auxVars
  <1>13. CASE Exit
    BY <1>13, GoDownType DEF Exit, TypeOK
  <1>14. CASE StopStartFails
    <2>1. stopped' \in SUBSET Cmds /\ orphans' \in SUBSET Cmds
      BY <1>14, WantedType DEF StopStartFails, AfterSwitch, TypeOK
    <2>2. QED
      BY <1>14, <2>1, GoDownType DEF StopStartFails, TypeOK
  <1>15. CASE Crash
    <2>1. rerun' \in SUBSET Jobs /\ doubled' \in SUBSET Jobs
      BY <1>15 DEF Crash, TypeOK, DaemonKnows, Entry
    <2>2. QED
      BY <1>15, <2>1, GoDownType DEF Crash, TypeOK
  <1>16. ASSUME NEW j \in Jobs, Insert(j)
         PROVE  TypeOK' /\ DaemonKnows'
    <2>1. entries' \in SUBSET Entry /\ nextKey' \in Nat
      <3>1. params[j].count \in Nat /\ params[j].budget \in Nat
            /\ params[j].boost \in Int
        BY ConfigAssumption DEF TypeOK, ParamsType
      <3>2. NewEntry(1, j, params[j].count, params[j].budget, params[j].boost)
              \in Entry
        BY <3>1, NewEntryFacts, QueueIdFacts
      <3>3. QED
        BY <1>16, <3>2 DEF Insert, PushFront, TypeOK
    <2>2. QED
      BY <1>16, <2>1 DEF Insert, TypeOK, DaemonKnows, daemonVars
  <1>17. ASSUME NEW q \in WindowQueues, OpenWindow(q) \/ CloseWindow(q)
         PROVE  TypeOK' /\ DaemonKnows'
    BY <1>17 DEF OpenWindow, CloseWindow, TypeOK, DaemonKnows, daemonVars, auxVars
  <1>18. ASSUME NEW e \in entries, Withdraw(e)
         PROVE  TypeOK' /\ DaemonKnows'
    <2>1. fate' \in [Jobs -> Statuses \cup {"Withdrawn"}]
      BY <1>18 DEF Withdraw, TypeOK
    <2>2. QED
      BY <1>18, <2>1 DEF Withdraw, TypeOK, DaemonKnows, daemonVars
  <1>19. CASE UNCHANGED vars
    BY <1>19 DEF vars, TypeOK, DaemonKnows, daemonVars, auxVars
  <1>20. QED
    BY <1>1, <1>2, <1>3, <1>4, <1>5, <1>6, <1>7, <1>8, <1>9, <1>10, <1>11,
       <1>12, <1>13, <1>14, <1>15, <1>16, <1>17, <1>18, <1>19
    DEF Next, Daemon, World

(* Type correctness: the files hold counts and budgets that are natural    *)
(* numbers and queues that exist, also after run_job decremented them.     *)
THEOREM TypeCorrect == Spec => []TypeOK
  <1>1. Init => TypeOK /\ DaemonKnows
    BY InitType
  <1>2. TypeOK /\ DaemonKnows /\ [Next]_vars => TypeOK' /\ DaemonKnows'
    BY TypeStep
  <1>3. QED
    BY <1>1, <1>2, PTL DEF Spec

-----------------------------------------------------------------------------
(* What a push adds *)

LEMMA InsertAdds ==
  ASSUME TypeOK, NEW j \in Jobs, Insert(j)
  PROVE  \E n \in Entry :
           /\ entries' = entries \cup {n} /\ nextKey' = nextKey + 1
           /\ n.key = nextKey /\ n.queue = 1 /\ n.job = j
           /\ n.count = params[j].count /\ n.budget = params[j].budget
  <1>1. params[j].count \in Nat /\ params[j].budget \in Nat
        /\ params[j].boost \in Int
    BY ConfigAssumption DEF TypeOK, ParamsType
  <1> DEFINE n == NewEntry(1, j, params[j].count, params[j].budget,
                           params[j].boost)
  <1>2. /\ n \in Entry /\ n.key = nextKey /\ n.queue = 1 /\ n.job = j
        /\ n.count = params[j].count /\ n.budget = params[j].budget
    <2>1. 1 \in QueueIds
      BY QueueIdFacts
    <2>2. QED
      BY <1>1, <2>1, NewEntryFacts
  <1>3. entries' = entries \cup {n} /\ nextKey' = nextKey + 1
    BY DEF Insert, PushFront
  <1> HIDE DEF n
  <1>4. QED
    BY <1>2, <1>3

LEMMA PushAdds ==
  ASSUME TypeOK, DaemonKnows, Push, verdict.queue # Nowhere
  PROVE  \E n \in Entry :
           /\ entries' = entries \cup {n} /\ nextKey' = nextKey + 1
           /\ n.key = nextKey /\ n.queue = verdict.queue /\ n.job = item.job
           /\ n.count = verdict.count /\ n.budget = verdict.budget
  <1>1. item.job \in Jobs /\ verdict.count \in Nat /\ verdict.budget \in Nat
        /\ verdict.queue \in QueueIds
    BY DEF Push, TypeOK, DaemonKnows, Entry, VerdictType
  <1> DEFINE n == NewEntry(verdict.queue, item.job, verdict.count,
                           verdict.budget, 0)
  <1>2. /\ n \in Entry /\ n.key = nextKey /\ n.queue = verdict.queue
        /\ n.job = item.job
        /\ n.count = verdict.count /\ n.budget = verdict.budget
    BY <1>1, NewEntryFacts
  <1>3. entries' = entries \cup {n} /\ nextKey' = nextKey + 1
    BY DEF Push, PushFront
  <1> HIDE DEF n
  <1>4. QED
    BY <1>2, <1>3

-----------------------------------------------------------------------------
(* The conjuncts of IInv, one by one *)

LEMMA KeysStep ==
  ASSUME TypeOK, DaemonKnows, KeysBelowNext, [Next]_vars
  PROVE  KeysBelowNext'
  <1> USE DEF KeysBelowNext
  <1> nextKey \in Nat /\ \A e \in Entry : e.key \in Nat
    BY DEF TypeOK, Entry
  <1> entries \subseteq Entry /\ snapshot \subseteq Entry
      /\ (item # NoItem => item \in Entry)
    BY DEF TypeOK
  <1>1. CASE Start \/ ReadQueues \/ SelectJob \/ SelectNothing \/ Loop
    BY <1>1 DEF Start, ReadQueues, SelectJob, SelectNothing, Loop
  <1>2. CASE StopStartBe \/ RunSucceeds \/ RunFails \/ RunNotNeeded \/ Delete
    BY <1>2 DEF StopStartBe, RunSucceeds, RunFails, RunNotNeeded, Delete
  <1>3. CASE ReadQueuesPanics \/ Exit \/ StopStartFails \/ Crash
    BY <1>3 DEF ReadQueuesPanics, Exit, StopStartFails, Crash, GoDown
  <1>4. CASE Push
    <2>1. CASE verdict.queue = Nowhere
      BY <1>4, <2>1 DEF Push
    <2>2. CASE verdict.queue # Nowhere
      BY <1>4, <2>2, PushAdds DEF Push
    <2>3. QED
      BY <2>1, <2>2
  <1>5. ASSUME NEW j \in Jobs, Insert(j)
        PROVE  KeysBelowNext'
    BY <1>5, InsertAdds DEF Insert, daemonVars
  <1>6. ASSUME NEW q \in WindowQueues, OpenWindow(q) \/ CloseWindow(q)
        PROVE  KeysBelowNext'
    BY <1>6 DEF OpenWindow, CloseWindow, daemonVars
  <1>7. ASSUME NEW e \in entries, Withdraw(e)
        PROVE  KeysBelowNext'
    BY <1>7 DEF Withdraw, daemonVars
  <1>8. CASE UNCHANGED vars
    BY <1>8 DEF vars, daemonVars
  <1>9. QED
    BY <1>1, <1>2, <1>3, <1>4, <1>5, <1>6, <1>7, <1>8 DEF Next, Daemon, World

LEMMA OnlyInsertedStep ==
  ASSUME TypeOK, DaemonKnows, OnlyInserted, [Next]_vars
  PROVE  OnlyInserted'
  <1> USE DEF OnlyInserted
  <1> runs \in [Jobs -> Nat] /\ errors \in [Jobs -> Nat]
    BY DEF TypeOK
  <1>1. CASE Start \/ ReadQueues \/ SelectJob \/ SelectNothing \/ Loop
    BY <1>1 DEF Start, ReadQueues, SelectJob, SelectNothing, Loop, auxVars
  <1>2. CASE StopStartBe \/ RunSucceeds \/ RunFails \/ RunNotNeeded \/ Delete
    <2>1. pc = "run_job" => item # NoItem
      BY DEF DaemonKnows
    <2>2. QED
      BY <1>2, <2>1 DEF StopStartBe, RunSucceeds, RunFails, RunNotNeeded,
                        Delete, auxVars
  <1>3. CASE ReadQueuesPanics \/ Exit \/ StopStartFails \/ Crash
    BY <1>3 DEF ReadQueuesPanics, Exit, StopStartFails, Crash, GoDown
  <1>4. CASE Push
    <2>1. CASE verdict.queue = Nowhere
      BY <1>4, <2>1 DEF Push, auxVars
    <2>2. CASE verdict.queue # Nowhere
      BY <1>4, <2>2, PushAdds DEF Push, DaemonKnows, auxVars
    <2>3. QED
      BY <2>1, <2>2
  <1>5. ASSUME NEW j \in Jobs, Insert(j)
        PROVE  OnlyInserted'
    BY <1>5, InsertAdds DEF Insert, daemonVars
  <1>6. ASSUME NEW q \in WindowQueues, OpenWindow(q) \/ CloseWindow(q)
        PROVE  OnlyInserted'
    BY <1>6 DEF OpenWindow, CloseWindow, daemonVars, auxVars
  <1>7. ASSUME NEW e \in entries, Withdraw(e)
        PROVE  OnlyInserted'
    BY <1>7 DEF Withdraw, daemonVars
  <1>8. CASE UNCHANGED vars
    BY <1>8 DEF vars, daemonVars, auxVars
  <1>9. QED
    BY <1>1, <1>2, <1>3, <1>4, <1>5, <1>6, <1>7, <1>8 DEF Next, Daemon, World

LEMMA VerdictStep ==
  ASSUME TypeOK, DaemonKnows, VerdictIsConsistent, [Next]_vars
  PROVE  VerdictIsConsistent'
  <1> USE DEF VerdictIsConsistent, Executed
  <1>1. CASE Start \/ ReadQueues \/ SelectJob \/ SelectNothing \/ StopStartBe
    BY <1>1 DEF Start, ReadQueues, SelectJob, SelectNothing, StopStartBe
  <1>2. CASE Push
    BY <1>2 DEF Push
  <1>3. CASE Delete \/ Loop
    BY <1>3 DEF Delete, Loop
  <1>4. CASE ReadQueuesPanics \/ Exit \/ StopStartFails \/ Crash
    BY <1>4 DEF ReadQueuesPanics, Exit, StopStartFails, Crash, GoDown
  <1>5. CASE RunSucceeds
    <2>1. IsVerdict(verdict')
      BY <1>5, AfterSuccessIsVerdict DEF RunSucceeds, TypeOK, DaemonKnows
    <2>2. QED
      BY <2>1 DEF IsVerdict
  <1>6. CASE RunFails
    <2>1. IsVerdict(verdict')
      BY <1>6, AfterFailureIsVerdict DEF RunFails, TypeOK, DaemonKnows
    <2>2. QED
      BY <2>1 DEF IsVerdict
  <1>7. CASE RunNotNeeded
    <2>1. item.count \in Nat /\ item.budget \in Nat
      BY <1>7 DEF RunNotNeeded, TypeOK, DaemonKnows, Entry
    <2>2. IsVerdict(verdict')
      BY <1>7, <2>1, FinishedIsVerdict, OutOfErrorBudgetIsVerdict
      DEF RunNotNeeded
    <2>3. QED
      BY <2>2 DEF IsVerdict
  <1>8. CASE World
    BY <1>8 DEF World, Insert, OpenWindow, CloseWindow, Withdraw, daemonVars
  <1>9. CASE UNCHANGED vars
    BY <1>9 DEF vars, daemonVars
  <1>10. QED
    BY <1>1, <1>2, <1>3, <1>4, <1>5, <1>6, <1>7, <1>8, <1>9 DEF Next, Daemon

LEMMA SuccessorStep ==
  ASSUME TypeOK, DaemonKnows, KeysBelowNext, OnlyInserted, SelectedIsSole,
         SuccessorPushed, [Next]_vars
  PROVE  SuccessorPushed'
  <1> USE DEF SuccessorPushed, EntriesOf, Gone
  <1>1. CASE Start \/ Exit \/ StopStartFails \/ Crash
    BY <1>1 DEF Start, Exit, StopStartFails, Crash, GoDown
  <1>2. CASE ReadQueues \/ ReadQueuesPanics \/ SelectJob \/ SelectNothing
    BY <1>2 DEF ReadQueues, ReadQueuesPanics, SelectJob, SelectNothing, GoDown
  <1>3. CASE StopStartBe \/ RunSucceeds \/ RunFails \/ RunNotNeeded
    BY <1>3 DEF StopStartBe, RunSucceeds, RunFails, RunNotNeeded
  <1>4. CASE Delete \/ Loop
    BY <1>4 DEF Delete, Loop
  <1>5. CASE Push
    <2>1. item # NoItem /\ Selected /\ pc # "delete"
      BY <1>5 DEF Push, DaemonKnows, Selected
    <2>2. UNCHANGED <<item, verdict, doubled>>
      BY <1>5 DEF Push, auxVars
    <2>3. CASE verdict.queue = Nowhere
      BY <1>5, <2>1, <2>2, <2>3 DEF Push, SelectedIsSole
    <2>4. CASE verdict.queue # Nowhere
      <3>1. PICK n \in Entry :
              /\ entries' = entries \cup {n}
              /\ n.key = nextKey /\ n.queue = verdict.queue /\ n.job = item.job
        BY <1>5, <2>4, PushAdds
      <3>2. n # item
        BY <2>1, <3>1 DEF KeysBelowNext, TypeOK, Entry
      <3>3. QED
        BY <2>1, <2>2, <3>1, <3>2 DEF SelectedIsSole
    <2>5. QED
      BY <2>3, <2>4
  <1>6. ASSUME NEW j \in Jobs, Insert(j)
        PROVE  SuccessorPushed'
    <2>1. pc = "delete" => item.job # j
      BY <1>6 DEF Insert, OnlyInserted, DaemonKnows
    <2>2. QED
      BY <1>6, <2>1, InsertAdds DEF Insert, daemonVars
  <1>7. ASSUME NEW q \in WindowQueues, OpenWindow(q) \/ CloseWindow(q)
        PROVE  SuccessorPushed'
    BY <1>7 DEF OpenWindow, CloseWindow, daemonVars, auxVars
  <1>8. ASSUME NEW e \in entries, Withdraw(e)
        PROVE  SuccessorPushed'
    <2>1. fate' = [fate EXCEPT ![e.job] = "Withdrawn"] /\ entries' = entries \ {e}
          /\ UNCHANGED <<pc, item, verdict, doubled>>
      BY <1>8 DEF Withdraw, daemonVars
    <2>2. e.job \in Jobs /\ fate \in [Jobs -> Statuses \cup {"Withdrawn"}]
      BY DEF TypeOK, Entry
    <2>3. QED
      BY <2>1, <2>2
  <1>9. CASE UNCHANGED vars
    BY <1>9 DEF vars, daemonVars, auxVars
  <1>10. QED
    BY <1>1, <1>2, <1>3, <1>4, <1>5, <1>6, <1>7, <1>8, <1>9
    DEF Next, Daemon, World

LEMMA SoleStep ==
  ASSUME TypeOK, DaemonKnows, OnlyInserted, OneHolder, SelectedIsSole,
         [Next]_vars
  PROVE  SelectedIsSole'
  <1> USE DEF SelectedIsSole, Selected, EntriesOf
  <1>1. CASE Start \/ Exit \/ StopStartFails \/ Crash
    BY <1>1 DEF Start, Exit, StopStartFails, Crash, GoDown
  <1>2. CASE ReadQueues \/ ReadQueuesPanics \/ SelectNothing
    BY <1>2 DEF ReadQueues, ReadQueuesPanics, SelectNothing, GoDown
  <1>3. CASE SelectJob
    BY <1>3 DEF SelectJob, OneHolder, auxVars
  <1>4. CASE StopStartBe \/ RunSucceeds \/ RunFails \/ RunNotNeeded
    BY <1>4 DEF StopStartBe, RunSucceeds, RunFails, RunNotNeeded, auxVars
  <1>5. CASE Push \/ Delete \/ Loop
    BY <1>5 DEF Push, Delete, Loop
  <1>6. ASSUME NEW j \in Jobs, Insert(j)
        PROVE  SelectedIsSole'
    BY <1>6, InsertAdds DEF Insert, OnlyInserted, daemonVars
  <1>7. ASSUME NEW q \in WindowQueues, OpenWindow(q) \/ CloseWindow(q)
        PROVE  SelectedIsSole'
    BY <1>7 DEF OpenWindow, CloseWindow, daemonVars, auxVars
  <1>8. ASSUME NEW e \in entries, Withdraw(e)
        PROVE  SelectedIsSole'
    BY <1>8 DEF Withdraw, daemonVars
  <1>9. CASE UNCHANGED vars
    BY <1>9 DEF vars, daemonVars, auxVars
  <1>10. QED
    BY <1>1, <1>2, <1>3, <1>4, <1>5, <1>6, <1>7, <1>8, <1>9
    DEF Next, Daemon, World

LEMMA NoJobLostStep ==
  ASSUME TypeOK, DaemonKnows, VerdictIsConsistent, SuccessorPushed, NoJobLost,
         [Next]_vars
  PROVE  NoJobLost'
  <1> USE DEF NoJobLost, EntriesOf, Gone
  <1>1. CASE Start \/ Exit \/ StopStartFails \/ Crash
    BY <1>1 DEF Start, Exit, StopStartFails, Crash, auxVars
  <1>2. CASE ReadQueues \/ ReadQueuesPanics \/ SelectJob \/ SelectNothing
    BY <1>2 DEF ReadQueues, ReadQueuesPanics, SelectJob, SelectNothing, auxVars
  <1>3. CASE StopStartBe \/ RunSucceeds \/ RunFails \/ RunNotNeeded \/ Loop
    BY <1>3 DEF StopStartBe, RunSucceeds, RunFails, RunNotNeeded, Loop, auxVars
  <1>4. CASE Push
    <2>1. entries \subseteq entries'
      BY <1>4 DEF Push, PushFront
    <2>2. QED
      BY <1>4, <2>1 DEF Push, auxVars
  <1>5. CASE Delete
    <2>1. item.job \in Jobs /\ fate \in [Jobs -> Statuses \cup {"Withdrawn"}]
      BY <1>5 DEF Delete, DaemonKnows, TypeOK, Entry
    <2>2. inserted' = inserted /\ entries' = entries \ {item}
          /\ \A j \in Jobs : j # item.job => fate'[j] = fate[j]
      BY <1>5, <2>1 DEF Delete
    <2>3. \A j \in inserted : j # item.job => Gone(j)' \/ EntriesOf(j)' # {}
      BY <2>2 DEF TypeOK
    <2>4. CASE verdict.queue = Nowhere
      <3>1. verdict.status # "Active"
        BY <1>5, <2>4, QueueIdFacts DEF VerdictIsConsistent, Delete, Executed
      <3>2. fate'[item.job] # "Active"
        BY <1>5, <2>1, <2>4, <3>1 DEF Delete
      <3>3. QED
        BY <2>2, <2>3, <3>2
    <2>5. CASE verdict.queue # Nowhere
      <3>1. fate' = fate
        BY <1>5, <2>5 DEF Delete
      <3>2. Gone(item.job) \/ \E e \in entries : e.job = item.job /\ e # item
        BY <1>5, <2>5 DEF SuccessorPushed, Delete
      <3>3. QED
        BY <2>2, <2>3, <3>1, <3>2
    <2>6. QED
      BY <2>4, <2>5
  <1>6. ASSUME NEW j \in Jobs, Insert(j)
        PROVE  NoJobLost'
    BY <1>6, InsertAdds DEF Insert
  <1>7. ASSUME NEW q \in WindowQueues, OpenWindow(q) \/ CloseWindow(q)
        PROVE  NoJobLost'
    BY <1>7 DEF OpenWindow, CloseWindow, auxVars
  <1>8. ASSUME NEW e \in entries, Withdraw(e)
        PROVE  NoJobLost'
    <2>1. e.job \in Jobs /\ fate \in [Jobs -> Statuses \cup {"Withdrawn"}]
      BY DEF TypeOK, Entry
    <2>2. QED
      BY <1>8, <2>1 DEF Withdraw, TypeOK
  <1>9. CASE UNCHANGED vars
    BY <1>9 DEF vars, auxVars
  <1>10. QED
    BY <1>1, <1>2, <1>3, <1>4, <1>5, <1>6, <1>7, <1>8, <1>9
    DEF Next, Daemon, World

LEMMA OneHolderStep ==
  ASSUME TypeOK, DaemonKnows, OnlyInserted, SelectedIsSole, OneHolder,
         [Next]_vars
  PROVE  OneHolder'
  <1> USE DEF OneHolder
  <1>1. CASE Start \/ Exit \/ StopStartFails
    BY <1>1 DEF Start, Exit, StopStartFails, auxVars
  <1>2. CASE ReadQueues \/ ReadQueuesPanics \/ SelectJob \/ SelectNothing
    BY <1>2 DEF ReadQueues, ReadQueuesPanics, SelectJob, SelectNothing, auxVars
  <1>3. CASE StopStartBe \/ RunSucceeds \/ RunFails \/ RunNotNeeded \/ Loop
    BY <1>3 DEF StopStartBe, RunSucceeds, RunFails, RunNotNeeded, Loop, auxVars
  <1>4. CASE Crash
    <2>1. CASE pc = "delete"
      BY <1>4, <2>1 DEF Crash
    <2>2. CASE pc # "delete"
      BY <1>4, <2>2 DEF Crash
    <2>3. QED
      BY <2>1, <2>2
  <1>5. CASE Push
    <2>1. \A e \in entries : e.job = item.job => e = item \/ item.job \in doubled
      BY <1>5 DEF Push, DaemonKnows, SelectedIsSole, Selected, EntriesOf
    <2>2. pc' = "delete" /\ item' = item /\ doubled' = doubled
      BY <1>5 DEF Push, auxVars
    <2>3. CASE verdict.queue = Nowhere
      BY <1>5, <2>2, <2>3 DEF Push
    <2>4. CASE verdict.queue # Nowhere
      <3>1. PICK n \in Entry : entries' = entries \cup {n} /\ n.job = item.job
        BY <1>5, <2>4, PushAdds
      <3>2. SUFFICES ASSUME NEW e \in entries', NEW f \in entries',
                            e.job = f.job, e # f, e.job \notin doubled
                     PROVE  item \in {e, f}
        BY <2>2
      <3>3. CASE e = n \/ f = n
        BY <2>1, <3>1, <3>2, <3>3
      <3>4. CASE e # n /\ f # n
        BY <1>5, <3>1, <3>2, <3>4 DEF Push
      <3>5. QED
        BY <3>3, <3>4
    <2>5. QED
      BY <2>3, <2>4
  <1>6. CASE Delete
    BY <1>6 DEF Delete
  <1>7. ASSUME NEW j \in Jobs, Insert(j)
        PROVE  OneHolder'
    BY <1>7, InsertAdds DEF Insert, OnlyInserted, daemonVars
  <1>8. ASSUME NEW q \in WindowQueues, OpenWindow(q) \/ CloseWindow(q)
        PROVE  OneHolder'
    BY <1>8 DEF OpenWindow, CloseWindow, daemonVars, auxVars
  <1>9. ASSUME NEW e \in entries, Withdraw(e)
        PROVE  OneHolder'
    BY <1>9 DEF Withdraw, daemonVars
  <1>10. CASE UNCHANGED vars
    BY <1>10 DEF vars, daemonVars, auxVars
  <1>11. QED
    BY <1>1, <1>2, <1>3, <1>4, <1>5, <1>6, <1>7, <1>8, <1>9, <1>10
    DEF Next, Daemon, World

LEMMA DoubledStep ==
  ASSUME DoubledWereRerun, [Next]_vars
  PROVE  DoubledWereRerun'
  <1> USE DEF DoubledWereRerun
  <1>1. CASE Daemon
    BY <1>1 DEF Daemon, ReadQueues, ReadQueuesPanics, SelectJob, SelectNothing,
                StopStartBe, RunSucceeds, RunFails, RunNotNeeded, Push, Delete,
                Loop, auxVars
  <1>2. CASE Start \/ Exit \/ StopStartFails \/ Crash
    BY <1>2 DEF Start, Exit, StopStartFails, Crash, auxVars
  <1>3. CASE World \/ UNCHANGED vars
    BY <1>3 DEF World, Insert, OpenWindow, CloseWindow, Withdraw, vars, auxVars
  <1>4. QED
    BY <1>1, <1>2, <1>3 DEF Next

LEMMA StoppedStep ==
  ASSUME TypeOK, DaemonKnows, StoppedByWhom, [Next]_vars
  PROVE  StoppedByWhom'
  <1> USE DEF StoppedByWhom
  <1>1. CASE Start
    BY <1>1 DEF Start, DaemonKnows, auxVars
  <1>2. CASE ReadQueues \/ SelectJob \/ SelectNothing \/ Loop
    BY <1>2 DEF ReadQueues, SelectJob, SelectNothing, Loop, auxVars
  <1>3. CASE RunSucceeds \/ RunFails \/ RunNotNeeded \/ Push \/ Delete
    BY <1>3 DEF RunSucceeds, RunFails, RunNotNeeded, Push, Delete, auxVars
  <1>4. CASE StopStartBe
    <2>1. stopped \ orphans = {stopStart} \ {NoCmd}
      BY <1>4 DEF StopStartBe
    <2>2. CASE Wanted = stopStart
      BY <1>4, <2>1, <2>2 DEF StopStartBe
    <2>3. CASE Wanted # stopStart
      <3>1. stopped' = (stopped \ {stopStart}) \cup ({Wanted} \ {NoCmd})
            /\ orphans' = orphans \ {stopStart, Wanted}
            /\ stopStart' = Wanted /\ pc' # "down"
        BY <1>4, <2>3 DEF StopStartBe, AfterSwitch
      <3>2. NoCmd \notin stopped
        BY DEF TypeOK, Cmds
      <3>3. stopped' \ orphans' = {Wanted} \ {NoCmd}
        BY <2>1, <2>3, <3>1, <3>2
      <3>4. QED
        BY <3>1, <3>3
    <2>4. QED
      BY <2>2, <2>3
  <1>5. CASE StopStartFails
    BY <1>5 DEF StopStartFails, GoDown
  <1>6. CASE ReadQueuesPanics \/ Exit \/ Crash
    BY <1>6 DEF ReadQueuesPanics, Exit, Crash, GoDown
  <1>7. CASE World
    BY <1>7 DEF World, Insert, OpenWindow, CloseWindow, Withdraw, daemonVars,
                auxVars
  <1>8. CASE UNCHANGED vars
    BY <1>8 DEF vars, daemonVars, auxVars
  <1>9. QED
    BY <1>1, <1>2, <1>3, <1>4, <1>5, <1>6, <1>7, <1>8 DEF Next, Daemon

-----------------------------------------------------------------------------
(* The accounts *)

(* One execution moves one unit from what is asked for to what was done    *)
LEMMA AfterSuccessAccounts ==
  ASSUME NEW e \in Entry, e.count > 0
  PROVE  /\ AfterSuccess(e).count = e.count - 1
         /\ AfterSuccess(e).budget = e.budget
  <1>1. e.count \in Nat
    BY DEF Entry
  <1>2. QED
    BY <1>1 DEF AfterSuccess, Finished, Verdict

LEMMA AfterFailureAccounts ==
  ASSUME NEW e \in Entry, e.budget > 0
  PROVE  /\ AfterFailure(e).count = e.count
         /\ AfterFailure(e).budget = e.budget - 1
  <1>1. e.budget \in Nat
    BY DEF Entry
  <1>2. QED
    BY <1>1 DEF AfterFailure, OutOfErrorBudget, Verdict

LEMMA AccountTypes ==
  ASSUME TypeOK, NEW j \in Jobs
  PROVE  /\ runs[j] \in Nat /\ errors[j] \in Nat
         /\ params[j].count \in Nat /\ params[j].budget \in Nat
  BY ConfigAssumption DEF TypeOK, ParamsType

LEMMA SelectedAccountedStep ==
  ASSUME TypeOK, DaemonKnows, RunsAccounted, SelectedAccounted, [Next]_vars
  PROVE  SelectedAccounted'
  <1> USE DEF SelectedAccounted, Selected, Executed, AccountOf
  <1>1. CASE Start \/ Exit \/ StopStartFails \/ Crash
    BY <1>1 DEF Start, Exit, StopStartFails, Crash, GoDown
  <1>2. CASE ReadQueues \/ ReadQueuesPanics \/ SelectNothing
    BY <1>2 DEF ReadQueues, ReadQueuesPanics, SelectNothing, GoDown
  <1>3. CASE SelectJob
    BY <1>3 DEF SelectJob, RunsAccounted, auxVars
  <1>4. CASE StopStartBe
    BY <1>4 DEF StopStartBe
  <1>5. CASE RunSucceeds
    <2>1. item \in Entry /\ item.job \in Jobs /\ item.count \in Nat
      BY <1>5 DEF RunSucceeds, DaemonKnows, TypeOK, Entry
    <2>2. verdict'.count = item.count - 1 /\ verdict'.budget = item.budget
      BY <1>5, <2>1, AfterSuccessAccounts DEF RunSucceeds
    <2>3. runs'[item.job] = runs[item.job] + 1
      BY <1>5, <2>1 DEF RunSucceeds, TypeOK
    <2>4. AccountOf(item.job, item.count, item.budget)
      BY <1>5 DEF RunSucceeds, DaemonKnows
    <2>5. item' = item /\ params' = params /\ errors' = errors /\ rerun' = rerun
          /\ pc' = "push"
      BY <1>5 DEF RunSucceeds
    <2>6. QED
      BY <2>1, <2>2, <2>3, <2>4, <2>5, AccountTypes
  <1>6. CASE RunFails
    <2>1. item \in Entry /\ item.job \in Jobs /\ item.count \in Nat
          /\ item.budget \in Nat
      BY <1>6 DEF RunFails, DaemonKnows, TypeOK, Entry
    <2>2. verdict'.count = item.count /\ verdict'.budget = item.budget - 1
      BY <1>6, <2>1, AfterFailureAccounts DEF RunFails
    <2>3. errors'[item.job] = errors[item.job] + 1
      BY <1>6, <2>1 DEF RunFails, TypeOK
    <2>4. AccountOf(item.job, item.count, item.budget)
      BY <1>6 DEF RunFails, DaemonKnows
    <2>5. item' = item /\ params' = params /\ runs' = runs /\ rerun' = rerun
          /\ pc' = "push"
      BY <1>6 DEF RunFails
    <2>6. QED
      BY <2>1, <2>2, <2>3, <2>4, <2>5, AccountTypes
  <1>7. CASE RunNotNeeded
    <2>1. verdict'.count = item.count /\ verdict'.budget = item.budget
      BY <1>7 DEF RunNotNeeded, OutOfErrorBudget, Finished, Verdict
    <2>2. QED
      BY <1>7, <2>1 DEF RunNotNeeded, DaemonKnows, auxVars
  <1>8. CASE Push
    BY <1>8 DEF Push, auxVars
  <1>9. CASE Delete \/ Loop
    BY <1>9 DEF Delete, Loop
  <1>10. CASE World
    BY <1>10 DEF World, Insert, OpenWindow, CloseWindow, Withdraw, daemonVars,
                 auxVars
  <1>11. CASE UNCHANGED vars
    BY <1>11 DEF vars, daemonVars, auxVars
  <1>12. QED
    BY <1>1, <1>2, <1>3, <1>4, <1>5, <1>6, <1>7, <1>8, <1>9, <1>10, <1>11
    DEF Next, Daemon

(* The accounts of the files that are not being worked on stay valid when  *)
(* the selected job executes: unless it was doubled, it has no other file. *)
LEMMA OthersAccounted ==
  ASSUME TypeOK, DaemonKnows, SelectedIsSole, DoubledWereRerun, RunsAccounted,
         pc = "run_job", entries' = entries, item' = item,
         params' = params, rerun' = rerun, Executed',
         \A j \in Jobs : runs'[j] >= runs[j],
         \A j \in Jobs : j # item.job => runs'[j] = runs[j] /\ errors'[j] = errors[j],
         \A j \in Jobs : runs'[j] \in Nat
  PROVE  RunsAccounted'
  <1>1. SUFFICES ASSUME NEW e \in entries, e # item
                 PROVE  AccountOf(e.job, e.count, e.budget)'
    BY DEF RunsAccounted
  <1>2. AccountOf(e.job, e.count, e.budget)
    BY <1>1 DEF RunsAccounted
  <1>3. e.job \in Jobs /\ e.count \in Nat
    BY <1>1 DEF TypeOK, Entry
  <1>4. CASE e.job # item.job
    BY <1>2, <1>3, <1>4 DEF AccountOf
  <1>5. CASE e.job = item.job
    <2>1. e.job \in rerun
      BY <1>1, <1>5 DEF SelectedIsSole, Selected, EntriesOf, DaemonKnows,
                        DoubledWereRerun
    <2>2. QED
      BY <1>2, <1>3, <2>1, AccountTypes DEF AccountOf
  <1>6. QED
    BY <1>4, <1>5

LEMMA DoneStep ==
  ASSUME TypeOK, DaemonKnows, VerdictIsConsistent, DoneHaveNoCount, [Next]_vars
  PROVE  DoneHaveNoCount'
  <1> USE DEF DoneHaveNoCount
  <1>1. CASE Start \/ Exit \/ StopStartFails \/ Crash
    BY <1>1 DEF Start, Exit, StopStartFails, Crash
  <1>2. CASE ReadQueues \/ ReadQueuesPanics \/ SelectJob \/ SelectNothing
    BY <1>2 DEF ReadQueues, ReadQueuesPanics, SelectJob, SelectNothing
  <1>3. CASE StopStartBe \/ RunSucceeds \/ RunFails \/ RunNotNeeded
    BY <1>3 DEF StopStartBe, RunSucceeds, RunFails, RunNotNeeded
  <1>4. CASE Push
    <2>1. CASE verdict.queue = Nowhere
      BY <1>4, <2>1 DEF Push
    <2>2. CASE verdict.queue # Nowhere
      BY <1>4, <2>2, PushAdds DEF Push, VerdictIsConsistent, Executed
    <2>3. QED
      BY <2>1, <2>2
  <1>5. CASE Delete \/ Loop
    BY <1>5 DEF Delete, Loop
  <1>6. ASSUME NEW j \in Jobs, Insert(j)
        PROVE  DoneHaveNoCount'
    BY <1>6, InsertAdds, QueueIdFacts
  <1>7. CASE World /\ ~(\E j \in Jobs : Insert(j))
    BY <1>7 DEF World, OpenWindow, CloseWindow, Withdraw
  <1>8. CASE UNCHANGED vars
    BY <1>8 DEF vars
  <1>9. QED
    BY <1>1, <1>2, <1>3, <1>4, <1>5, <1>6, <1>7, <1>8 DEF Next, Daemon, World

LEMMA RunsAccountedStep ==
  ASSUME TypeOK, DaemonKnows, OnlyInserted, SelectedIsSole, SelectedAccounted,
         DoubledWereRerun, RunsAccounted, [Next]_vars
  PROVE  RunsAccounted'
  <1> USE DEF RunsAccounted, Executed, AccountOf
  <1>1. CASE Start \/ Exit \/ StopStartFails
    BY <1>1 DEF Start, Exit, StopStartFails, auxVars
  <1>2. CASE ReadQueues \/ ReadQueuesPanics \/ SelectJob \/ SelectNothing
    BY <1>2 DEF ReadQueues, ReadQueuesPanics, SelectJob, SelectNothing, auxVars
  <1>3. CASE StopStartBe \/ Loop
    BY <1>3 DEF StopStartBe, Loop, auxVars
  <1>4. CASE RunSucceeds
    <2>1. item.job \in Jobs
      BY <1>4 DEF RunSucceeds, DaemonKnows, TypeOK, Entry
    <2>2. /\ \A j \in Jobs : runs'[j] >= runs[j] /\ runs'[j] \in Nat
          /\ \A j \in Jobs : j # item.job => runs'[j] = runs[j]
      BY <1>4, <2>1 DEF RunSucceeds, TypeOK
    <2>3. QED
      BY <1>4, <2>2, OthersAccounted DEF RunSucceeds
  <1>5. CASE RunFails
    <2>1. item.job \in Jobs
      BY <1>5 DEF RunFails, DaemonKnows, TypeOK, Entry
    <2>2. /\ \A j \in Jobs : runs'[j] >= runs[j] /\ runs'[j] \in Nat
          /\ \A j \in Jobs : j # item.job => errors'[j] = errors[j]
      BY <1>5, <2>1 DEF RunFails, TypeOK
    <2>3. QED
      BY <1>5, <2>2, OthersAccounted DEF RunFails
  <1>6. CASE RunNotNeeded
    BY <1>6 DEF RunNotNeeded, auxVars
  <1>7. CASE Push
    <2>1. UNCHANGED <<item, params, runs, errors, rerun>>
      BY <1>7 DEF Push, auxVars
    <2>2. AccountOf(item.job, verdict.count, verdict.budget)
      BY <1>7 DEF Push, SelectedAccounted
    <2>3. CASE verdict.queue = Nowhere
      BY <1>7, <2>1, <2>3 DEF Push
    <2>4. CASE verdict.queue # Nowhere
      BY <1>7, <2>1, <2>2, <2>4, PushAdds DEF Push
    <2>5. QED
      BY <2>3, <2>4
  <1>8. CASE Delete
    BY <1>8 DEF Delete
  <1>9. CASE Crash
    <2>1. UNCHANGED <<entries, params, runs, errors>> /\ rerun \subseteq rerun'
      BY <1>9 DEF Crash
    <2>2. SUFFICES ASSUME NEW e \in entries
                   PROVE  AccountOf(e.job, e.count, e.budget)'
      BY <2>1
    <2>3. CASE Executed /\ e = item
      BY <1>9, <2>1, <2>2, <2>3 DEF Crash, SelectedAccounted
    <2>4. CASE ~(Executed /\ e = item)
      BY <2>1, <2>2, <2>4
    <2>5. QED
      BY <2>3, <2>4
  <1>10. ASSUME NEW j \in Jobs, Insert(j)
         PROVE  RunsAccounted'
    <2>1. runs[j] = 0 /\ errors[j] = 0
      BY <1>10 DEF Insert, OnlyInserted
    <2>2. UNCHANGED <<pc, item, params, runs, errors, rerun>>
      BY <1>10 DEF Insert, daemonVars
    <2>3. QED
      BY <1>10, <2>1, <2>2, InsertAdds, AccountTypes
  <1>11. ASSUME NEW q \in WindowQueues, OpenWindow(q) \/ CloseWindow(q)
         PROVE  RunsAccounted'
    BY <1>11 DEF OpenWindow, CloseWindow, daemonVars, auxVars
  <1>12. ASSUME NEW e \in entries, Withdraw(e)
         PROVE  RunsAccounted'
    BY <1>12 DEF Withdraw, daemonVars
  <1>13. CASE UNCHANGED vars
    BY <1>13 DEF vars, daemonVars, auxVars
  <1>14. QED
    BY <1>1, <1>2, <1>3, <1>4, <1>5, <1>6, <1>7, <1>8, <1>9, <1>10, <1>11,
       <1>12, <1>13
    DEF Next, Daemon, World

-----------------------------------------------------------------------------
(* The theorems *)

LEMMA InitIInv == Init => IInv
  <1> SUFFICES ASSUME Init PROVE IInv
    OBVIOUS
  <1>1. TypeOK /\ DaemonKnows
    BY InitType
  <1>2. KeysBelowNext /\ OnlyInserted /\ VerdictIsConsistent /\ SuccessorPushed
    BY DEF Init, KeysBelowNext, OnlyInserted, VerdictIsConsistent, Executed,
           SuccessorPushed
  <1>3. SelectedIsSole /\ SelectedAccounted /\ DoubledWereRerun /\ StoppedByWhom
    BY DEF Init, SelectedIsSole, Selected, SelectedAccounted, Executed,
           DoubledWereRerun, StoppedByWhom
  <1>4. NoJobLost /\ OneHolder /\ RunsAccounted /\ DoneHaveNoCount
    BY DEF Init, NoJobLost, OneHolder, RunsAccounted, DoneHaveNoCount
  <1>5. QED
    BY <1>1, <1>2, <1>3, <1>4 DEF IInv

LEMMA IInvStep == IInv /\ [Next]_vars => IInv'
  <1> SUFFICES ASSUME IInv, [Next]_vars PROVE IInv'
    OBVIOUS
  <1> USE DEF IInv
  <1>1. TypeOK' /\ DaemonKnows'
    BY TypeStep
  <1>2. KeysBelowNext' /\ OnlyInserted' /\ VerdictIsConsistent'
    BY KeysStep, OnlyInsertedStep, VerdictStep
  <1>3. SuccessorPushed' /\ SelectedIsSole'
    BY SuccessorStep, SoleStep
  <1>4. SelectedAccounted' /\ DoubledWereRerun' /\ StoppedByWhom'
    BY SelectedAccountedStep, DoubledStep, StoppedStep
  <1>5. NoJobLost' /\ OneHolder' /\ RunsAccounted' /\ DoneHaveNoCount'
    BY NoJobLostStep, OneHolderStep, RunsAccountedStep, DoneStep
  <1>6. QED
    BY <1>1, <1>2, <1>3, <1>4, <1>5

THEOREM Inductive == Spec => []IInv
  BY InitIInv, IInvStep, PTL DEF Spec

(* Whenever the daemon dies, an inserted job is still in some queue unless *)
(* it was dropped or withdrawn: run_job pushes before it deletes.          *)
THEOREM JobsAreNotLost == Spec => []NoJobLost
  <1>1. IInv => NoJobLost
    BY DEF IInv
  <1>2. QED
    BY <1>1, Inductive, PTL

(* A job is in two queues only between run_job's push and delete, or when  *)
(* the daemon died there.                                                  *)
THEOREM JobsHaveOneHolder == Spec => []OneHolder
  <1>1. IInv => OneHolder
    BY DEF IInv
  <1>2. QED
    BY <1>1, Inductive, PTL

(* A job has one holder and is not lost.                                   *)
THEOREM JobsAreInOneQueue == Spec => []InOneQueue
  <1>1. NoJobLost /\ OneHolder => InOneQueue
    BY DEF InOneQueue
  <1>2. QED
    BY <1>1, JobsAreNotLost, JobsHaveOneHolder, PTL

(* The counts in the job files account for every execution.                *)
THEOREM ExecutionsAreAccounted == Spec => []RunsAccounted
  <1>1. IInv => RunsAccounted
    BY DEF IInv
  <1>2. QED
    BY <1>1, Inductive, PTL

(* A job in the done queue ran as often as asked for, and more often only  *)
(* when a daemon died after an execution.                                  *)
THEOREM DoneJobsRanAsAsked == Spec => []DoneRanAsAsked
  <1>1. IInv => DoneRanAsAsked
    <2> SUFFICES ASSUME IInv, NEW e \in entries, e.queue = DoneQueue
                 PROVE  /\ e.count = 0 /\ runs[e.job] >= params[e.job].count
                        /\ e.job \notin rerun => runs[e.job] = params[e.job].count
      BY DEF DoneRanAsAsked
    <2>1. TypeOK /\ DaemonKnows /\ RunsAccounted /\ DoneHaveNoCount
      BY DEF IInv
    <2>2. e # item \/ ~Executed
      BY <2>1, QueueIdFacts DEF DaemonKnows, Executed
    <2>3. e.job \in Jobs /\ e.count = 0
      BY <2>1 DEF TypeOK, Entry, DoneHaveNoCount
    <2>4. QED
      BY <2>1, <2>2, <2>3, AccountTypes DEF RunsAccounted, AccountOf
  <1>2. QED
    BY <1>1, Inductive, PTL

(* A job is executed as often as asked for, in all queues.                 *)
THEOREM JobsRunAsAsked == Spec => []RanAsAsked
  <1>1. RunsAccounted /\ DoneRanAsAsked => RanAsAsked
    BY DEF RanAsAsked
  <1>2. QED
    BY <1>1, ExecutionsAreAccounted, DoneJobsRanAsAsked, PTL

(* While a job executes, exactly its own queue's command is in "stop",     *)
(* apart from what earlier daemons left behind.                            *)
THEOREM JobsRunUnderTheirCommand == Spec => []JobRunsUnderItsCommand
  <1>1. IInv => JobRunsUnderItsCommand
    BY DEF IInv, DaemonKnows, StoppedByWhom, JobRunsUnderItsCommand
  <1>2. QED
    BY <1>1, Inductive, PTL

(* run_job returns Active just when the job has a file in a queue that is   *)
(* run, but for a job that moves to an Inactive queue.                     *)
THEOREM StatusIsTruthful == Spec => StatusTellsWhetherRunAgain
  <1>1. IInv /\ [Next]_vars =>
          [Delete /\ item.job \notin doubled /\ ~Gone(item.job)
                  /\ verdict.queue \notin InactiveQueues =>
            (verdict.status = "Active" <=> WillStillRun(item.job, entries'))]_vars
    <2> SUFFICES ASSUME IInv, Delete, item.job \notin doubled, ~Gone(item.job),
                        verdict.queue \notin InactiveQueues
                 PROVE  verdict.status = "Active"
                          <=> WillStillRun(item.job, entries')
      OBVIOUS
    <2>1. entries' = entries \ {item} /\ pc = "delete"
      BY DEF Delete
    <2>2. verdict.status = "Active" <=> verdict.queue \in Positions
      BY <2>1 DEF IInv, VerdictIsConsistent, Executed
    <2>3. ASSUME verdict.queue \in Positions
          PROVE  WillStillRun(item.job, entries')
      BY <2>1, <2>3, QueueIdFacts DEF IInv, SuccessorPushed, EntriesOf, WillStillRun
    <2>4. ASSUME WillStillRun(item.job, entries')
          PROVE  verdict.queue \in Positions
      BY <2>1, <2>4 DEF IInv, SuccessorPushed, EntriesOf, WillStillRun
    <2>5. QED
      BY <2>2, <2>3, <2>4
  <1>2. QED
    BY <1>1, Inductive, PTL DEF Spec, StatusTellsWhetherRunAgain

-----------------------------------------------------------------------------
(* Selection.                                                              *)

(* A finite set that is strictly ordered has an element before all others: *)
(* one with the fewest others before it.                                   *)
LEMMA FirstOfFinite ==
  ASSUME NEW S, IsFiniteSet(S), S # {}, NEW R,
         \A x \in S : <<x, x>> \notin R,
         \A x, y, z \in S : <<x, y>> \in R /\ <<y, z>> \in R => <<x, z>> \in R
  PROVE  \E x \in S : \A y \in S : <<y, x>> \notin R
  <1> DEFINE Before(x) == {y \in S : <<y, x>> \in R}
             numbers == {Cardinality(Before(x)) : x \in S}
  <1>1. ASSUME NEW x \in S
        PROVE  IsFiniteSet(Before(x)) /\ Cardinality(Before(x)) \in Nat
    <2>1. Before(x) \in SUBSET S
      OBVIOUS
    <2> HIDE DEF Before
    <2>2. IsFiniteSet(Before(x))
      BY <2>1, FS_Subset
    <2>3. QED
      BY <2>2, FS_CardinalityType
  <1>2. numbers \subseteq Nat /\ numbers # {}
    <2> HIDE DEF Before
    <2>1. QED
      BY <1>1
  <1>3. PICK n \in numbers : \A m \in numbers : <<m, n>> \notin OpToRel(<, Nat)
    <2> HIDE DEF numbers
    <2>1. QED
      BY <1>2, WFMin, NatLessThanWellFounded
  <1>4. PICK x \in S : n = Cardinality(Before(x))
    OBVIOUS
  <1>5. ASSUME NEW y \in S, <<y, x>> \in R
        PROVE  FALSE
    <2>1. Before(y) \subseteq Before(x) /\ y \in Before(x) /\ y \notin Before(y)
      BY <1>5
    <2>2. Cardinality(Before(y)) <= n /\ Cardinality(Before(y)) # n
      <3> HIDE DEF Before
      <3>1. Before(y) \in SUBSET Before(x) /\ Before(y) # Before(x)
        BY <2>1
      <3>2. IsFiniteSet(Before(x))
        BY <1>1
      <3>3. QED
        BY <1>4, <3>1, <3>2, FS_Subset
    <2>3. Cardinality(Before(y)) \in Nat /\ n \in Nat /\ Cardinality(Before(y)) \in numbers
      <3> HIDE DEF Before
      <3>1. QED
        BY <1>1, <1>2
    <2>4. <<Cardinality(Before(y)), n>> \in OpToRel(<, Nat)
      <3> HIDE DEF Before
      <3>1. QED
        BY <2>2, <2>3 DEF OpToRel
    <2>5. QED
      BY <1>3, <2>3, <2>4
  <1>6. QED
    BY <1>5

(* The queues, and what is read of them, stay finite                       *)
Finite == IsFiniteSet(entries) /\ IsFiniteSet(snapshot)

LEMMA InitFinite == Init => Finite
  BY FS_EmptySet DEF Init, Finite

LEMMA FiniteStep ==
  ASSUME Finite, [Next]_vars
  PROVE  Finite'
  <1>1. \/ entries' \subseteq entries
        \/ \E e : entries' = entries \cup {e}
    BY DEF Next, Daemon, World, Start, ReadQueues, ReadQueuesPanics, SelectJob,
           SelectNothing, StopStartBe, StopStartFails, RunSucceeds, RunFails,
           RunNotNeeded, Push, PushFront, Delete, Loop, Exit, Crash, Insert,
           OpenWindow, CloseWindow, Withdraw, vars
  <1>2. IsFiniteSet(entries')
    BY <1>1, FS_Subset, FS_AddElement DEF Finite
  <1>3. snapshot' \in {snapshot, {}} \/ snapshot' \subseteq entries
    BY DEF Next, Daemon, World, Start, ReadQueues, ReadQueuesPanics, SelectJob,
           SelectNothing, StopStartBe, StopStartFails, RunSucceeds, RunFails,
           RunNotNeeded, Push, Delete, Loop, Exit, Crash, Insert, GoDown,
           OpenWindow, CloseWindow, Withdraw, vars, daemonVars
  <1>4. IsFiniteSet(snapshot')
    BY <1>3, FS_Subset, FS_EmptySet DEF Finite
  <1>5. QED
    BY <1>2, <1>4 DEF Finite

LEMMA TotalPriorityType ==
  ASSUME NEW e \in Entry
  PROVE  TotalPriority(e) \in Int
  BY ConfigAssumption DEF TotalPriority, QueuePriority, WindowQueues, Entry

(* Every queue with a job has a first one                                  *)
LEMMA QueueHasFirst ==
  ASSUME TypeOK, Finite, NEW f \in snapshot
  PROVE  \E g \in snapshot :
           /\ g.queue = f.queue /\ FirstOfItsQueue(g)
           /\ \/ TotalPriority(f) < TotalPriority(g)
              \/ TotalPriority(f) = TotalPriority(g) /\ g.key <= f.key
  <1> DEFINE S == {g \in snapshot : g.queue = f.queue}
             Beats(g, h) == \/ TotalPriority(g) > TotalPriority(h)
                            \/ TotalPriority(g) = TotalPriority(h) /\ g.key < h.key
             R == {p \in S \X S : Beats(p[1], p[2])}
  <1>1. \A g \in snapshot : TotalPriority(g) \in Int /\ g.key \in Nat
    BY TotalPriorityType DEF TypeOK, Entry
  <1>2. \A g, h \in S : <<g, h>> \in R <=> Beats(g, h)
    OBVIOUS
  <1>3. f \in S /\ S \subseteq snapshot
    OBVIOUS
  <1>4. IsFiniteSet(S)
    BY <1>3, FS_Subset DEF Finite
  <1>5. PICK g \in S : \A h \in S : ~Beats(h, g)
    <2>1. \A h \in S : ~Beats(h, h)
      BY <1>1
    <2>2. \A h, i, j \in S : Beats(h, i) /\ Beats(i, j) => Beats(h, j)
      BY <1>1
    <2> HIDE DEF S, Beats, R
    <2>3. \E g \in S : \A h \in S : <<h, g>> \notin R
      BY <1>2, <1>3, <1>4, <2>1, <2>2, FirstOfFinite
    <2>4. QED
      BY <1>2, <2>3
  <1>6. \A h \in S : \/ TotalPriority(h) < TotalPriority(g)
                     \/ TotalPriority(h) = TotalPriority(g) /\ g.key <= h.key
    BY <1>1, <1>5
  <1>7. FirstOfItsQueue(g)
    BY <1>6 DEF FirstOfItsQueue
  <1>8. QED
    BY <1>6, <1>7

(* Out of the queues that may run now, the oldest job in the earliest      *)
(* queue is chosen among those with the highest priority, although         *)
(* most_prioritized_job compares the first jobs of the queues only.        *)
THEOREM OldestOfMostUrgentIsChosen == Spec => ChoosesOldestOfMostUrgent
  <1>1. IInv /\ Finite /\ [Next]_vars =>
          [SelectJob => \A f \in snapshot : Runnable(f.queue) =>
            \/ TotalPriority(f) < TotalPriority(item')
            \/ /\ TotalPriority(f) = TotalPriority(item')
               /\ \/ item'.queue < f.queue
                  \/ item'.queue = f.queue /\ item'.key <= f.key]_vars
    <2> SUFFICES ASSUME IInv, Finite, SelectJob, NEW f \in snapshot, Runnable(f.queue)
                 PROVE  \/ TotalPriority(f) < TotalPriority(item')
                        \/ /\ TotalPriority(f) = TotalPriority(item')
                           /\ \/ item'.queue < f.queue
                              \/ item'.queue = f.queue /\ item'.key <= f.key
      OBVIOUS
    <2>1. TypeOK
      BY DEF IInv
    <2>2. PICK e \in snapshot : MostPrioritized(e) /\ item' = e
      BY DEF SelectJob
    <2>3. PICK g \in snapshot :
            /\ g.queue = f.queue /\ FirstOfItsQueue(g)
            /\ \/ TotalPriority(f) < TotalPriority(g)
               \/ TotalPriority(f) = TotalPriority(g) /\ g.key <= f.key
      BY <2>1, QueueHasFirst
    <2>4. \/ TotalPriority(g) < TotalPriority(e)
          \/ TotalPriority(g) = TotalPriority(e) /\ e.queue <= g.queue
      BY <2>2, <2>3 DEF MostPrioritized
    <2>5. /\ TotalPriority(e) \in Int /\ TotalPriority(f) \in Int /\ TotalPriority(g) \in Int
          /\ e.queue \in Int /\ f.queue \in Int
      <3>1. e \in Entry /\ f \in Entry /\ g \in Entry
        BY <2>1 DEF TypeOK
      <3>2. QueueIds \subseteq Int
        BY QueueIdFacts DEF QueueIds, Positions, ErroneousQueue, DoneQueue
      <3>3. e.queue \in QueueIds /\ f.queue \in QueueIds
        BY <3>1 DEF Entry
      <3>4. QED
        BY <3>1, <3>2, <3>3, TotalPriorityType
    <2>6. CASE e.queue = f.queue
      BY <2>2, <2>6 DEF MostPrioritized, FirstOfItsQueue
    <2>7. CASE e.queue # f.queue
      BY <2>2, <2>3, <2>4, <2>5, <2>7
    <2>8. QED
      BY <2>6, <2>7
  <1>2. QED
    BY <1>1, Inductive, InitFinite, FiniteStep, PTL DEF Spec, ChoosesOldestOfMostUrgent

-----------------------------------------------------------------------------
(* The queues implement JobLifecycle.                                      *)

(* No daemon dies between push and delete, and no job file is removed      *)
Undisturbed == "delete" \notin CrashPoints /\ MaxWithdrawals = 0

(* Where run_job sends a job follows from the job as read *)
VerdictFollows ==
    \/ item.count > 0 /\ item.budget > 0 /\ verdict = AfterSuccess(item)
    \/ item.count > 0 /\ item.budget > 0 /\ verdict = AfterFailure(item)
    \/ item.budget = 0 /\ verdict = OutOfErrorBudget(item.count)
    \/ item.count = 0 /\ item.budget > 0 /\ verdict = Finished(item.count, item.budget)

LifeInv ==
    /\ doubled = {}
    /\ \A j \in Jobs : Gone(j) => j \in inserted /\ EntriesOf(j) = {}
    /\ \A e \in snapshot : e.queue \notin InactiveQueues
    /\ Selected => item \in entries /\ item.queue \notin InactiveQueues
    /\ Executed => VerdictFollows

LEMMA InitLife == Init => LifeInv
  BY DEF Init, LifeInv, Gone, Selected, Executed

(* At the end of run_job of a job without a queue to go to, nothing but    *)
(* the selected file is there to be deleted.                               *)
LEMMA NothingElse ==
  ASSUME IInv, LifeInv, pc = "delete", verdict.queue = Nowhere
  PROVE  EntriesOf(item.job) \subseteq {item}
  <1>1. \A e \in EntriesOf(item.job) : e # item => e.queue = Nowhere
    BY DEF IInv, LifeInv, SuccessorPushed
  <1>2. \A e \in EntriesOf(item.job) : e.queue # Nowhere
    BY QueueIdFacts DEF IInv, TypeOK, Entry, EntriesOf
  <1>3. QED
    BY <1>1, <1>2

(* Steps that change neither the queues nor what became of jobs *)
Aside == UNCHANGED <<entries, fate, inserted, params, doubled>>

LEMMA AsideSteps ==
  ASSUME Undisturbed, [Next]_vars, crashes \in Nat, withdrawals \in Nat
  PROVE  \/ Aside /\ ((pc # "delete" /\ pc' # "delete") \/ UNCHANGED <<pc, item, verdict>>)
         \/ Push \/ Delete \/ \E j \in Jobs : Insert(j)
  <1>1. CASE Start \/ ReadQueues \/ SelectJob \/ SelectNothing \/ Loop \/ StopStartBe
    BY <1>1 DEF Start, ReadQueues, SelectJob, SelectNothing, Loop, StopStartBe, Aside, auxVars
  <1>2. CASE RunSucceeds \/ RunFails \/ RunNotNeeded
    BY <1>2 DEF RunSucceeds, RunFails, RunNotNeeded, Aside, auxVars
  <1>3. CASE ReadQueuesPanics \/ Exit \/ StopStartFails
    BY <1>3 DEF ReadQueuesPanics, Exit, StopStartFails, GoDown, Aside
  <1>4. CASE Crash
    BY <1>4 DEF Crash, GoDown, Aside, Undisturbed
  <1>5. CASE \E q \in WindowQueues : OpenWindow(q) \/ CloseWindow(q)
    BY <1>5 DEF OpenWindow, CloseWindow, daemonVars, auxVars, Aside
  <1>6. CASE \E e \in entries : Withdraw(e)
    BY <1>6 DEF Withdraw, Undisturbed
  <1>7. CASE UNCHANGED vars
    BY <1>7 DEF vars, daemonVars, auxVars, Aside
  <1>8. QED
    BY <1>1, <1>2, <1>3, <1>4, <1>5, <1>6, <1>7 DEF Next, Daemon, World

LEMMA LifeStep ==
  ASSUME Undisturbed, IInv, LifeInv, [Next]_vars
  PROVE  LifeInv'
  <1>0. TypeOK /\ DaemonKnows /\ OnlyInserted
    BY DEF IInv
  <1>1. doubled' = {}
    <2>1. crashes \in Nat /\ withdrawals \in Nat
      BY <1>0 DEF TypeOK
    <2>2. UNCHANGED doubled
      BY <2>1, AsideSteps DEF Aside, Push, Delete, Insert, auxVars
    <2>3. QED
      BY <2>2 DEF LifeInv
  <1>2. \A j \in Jobs : Gone(j)' => j \in inserted' /\ EntriesOf(j)' = {}
    <2>1. CASE Aside
      BY <2>1 DEF Aside, LifeInv, Gone, EntriesOf
    <2>2. CASE Push
      <3>1. item # NoItem /\ item \in entries /\ item.job \in Jobs
        BY <1>0, <2>2 DEF Push, DaemonKnows, LifeInv, Selected, TypeOK, Entry
      <3>2. ~Gone(item.job)
        BY <3>1 DEF LifeInv, EntriesOf
      <3>3. CASE verdict.queue = Nowhere
        BY <2>2, <3>3 DEF Push, auxVars, LifeInv, Gone, EntriesOf
      <3>4. CASE verdict.queue # Nowhere
        BY <1>0, <2>2, <3>2, <3>4, PushAdds DEF Push, auxVars, LifeInv, Gone, EntriesOf
      <3>5. QED
        BY <3>3, <3>4
    <2>3. CASE Delete
      <3>1. item # NoItem /\ item \in Entry /\ item.job \in inserted
        BY <1>0, <2>3 DEF Delete, DaemonKnows, TypeOK, OnlyInserted
      <3>2. /\ entries' = entries \ {item} /\ UNCHANGED inserted /\ pc = "delete"
            /\ fate' = IF verdict.queue # Nowhere THEN fate
                       ELSE [fate EXCEPT ![item.job] = verdict.status]
        BY <2>3 DEF Delete
      <3>3. CASE verdict.queue # Nowhere
        BY <3>2, <3>3 DEF LifeInv, Gone, EntriesOf
      <3>4. CASE verdict.queue = Nowhere
        <4>1. EntriesOf(item.job) \subseteq {item}
          BY <3>2, <3>4, NothingElse
        <4>2. \A j \in Jobs : j # item.job => fate'[j] = fate[j]
          BY <1>0, <3>2, <3>4 DEF TypeOK
        <4>3. QED
          BY <3>1, <3>2, <4>1, <4>2 DEF LifeInv, Gone, EntriesOf
      <3>5. QED
        BY <3>3, <3>4
    <2>4. ASSUME NEW j \in Jobs, Insert(j)
          PROVE  \A k \in Jobs : Gone(k)' => k \in inserted' /\ EntriesOf(k)' = {}
      <3>1. /\ j \notin inserted /\ inserted' = inserted \cup {j} /\ UNCHANGED fate
        BY <2>4 DEF Insert
      <3>2. \A k \in Jobs \ {j} : EntriesOf(k)' = EntriesOf(k)
        BY <1>0, <2>4, InsertAdds DEF EntriesOf
      <3>3. QED
        BY <3>1, <3>2 DEF LifeInv, Gone
    <2>5. QED
      BY <1>0, <2>1, <2>2, <2>3, <2>4, AsideSteps DEF TypeOK
  <1>3. \A e \in snapshot' : e.queue \notin InactiveQueues
    BY DEF LifeInv, Next, Daemon, World, Start, ReadQueues, ReadQueuesPanics, SelectJob,
           SelectNothing, StopStartBe, StopStartFails, RunSucceeds, RunFails,
           RunNotNeeded, Push, Delete, Loop, Exit, Crash, Insert, GoDown,
           OpenWindow, CloseWindow, Withdraw, vars, daemonVars
  <1>4. Selected' => item' \in entries' /\ item'.queue \notin InactiveQueues
    <2>1. CASE SelectJob
      BY <2>1 DEF SelectJob, LifeInv
    <2>2. CASE \/ Start \/ ReadQueues \/ SelectNothing \/ Delete \/ Loop
               \/ ReadQueuesPanics \/ StopStartFails \/ Exit \/ Crash
      BY <1>0, <2>2
      DEF Start, ReadQueues, SelectNothing, Delete, Loop, ReadQueuesPanics, StopStartFails,
          Exit, Crash, GoDown, Selected, DaemonKnows
    <2>3. CASE StopStartBe \/ RunSucceeds \/ RunFails \/ RunNotNeeded \/ Push
      <3>1. entries \subseteq entries' /\ UNCHANGED item /\ (Selected' => Selected)
        BY <2>3 DEF StopStartBe, RunSucceeds, RunFails, RunNotNeeded, Push, PushFront, Selected
      <3>2. QED
        BY <3>1 DEF LifeInv
    <2>4. CASE \/ UNCHANGED vars \/ \E j \in Jobs : Insert(j)
               \/ \E q \in WindowQueues : OpenWindow(q) \/ CloseWindow(q)
      <3>1. entries \subseteq entries' /\ UNCHANGED item /\ (Selected' => Selected)
        BY <2>4 DEF vars, Insert, PushFront, OpenWindow, CloseWindow, daemonVars, Selected
      <3>2. QED
        BY <3>1 DEF LifeInv
    <2>5. CASE \E e \in entries : Withdraw(e)
      BY <1>0, <2>5 DEF Withdraw, Undisturbed, TypeOK
    <2>6. QED
      BY <2>1, <2>2, <2>3, <2>4, <2>5 DEF Next, Daemon, World
  <1>5. Executed' => VerdictFollows'
    <2>1. CASE RunSucceeds \/ RunFails
      BY <2>1 DEF RunSucceeds, RunFails, VerdictFollows, AfterSuccess, AfterFailure
    <2>2. CASE RunNotNeeded
      <3>1. item.count \in Nat /\ item.budget \in Nat
        BY <1>0, <2>2 DEF RunNotNeeded, DaemonKnows, TypeOK, Entry
      <3>2. /\ UNCHANGED item
            /\ \/ item.budget = 0 /\ verdict' = OutOfErrorBudget(item.count)
               \/ /\ item.budget > 0 /\ item.count = 0
                  /\ verdict' = Finished(item.count, item.budget)
        BY <2>2, <3>1 DEF RunNotNeeded
      <3>3. QED
        BY <3>2 DEF VerdictFollows
    <2>3. CASE \/ Start \/ ReadQueues \/ SelectJob \/ SelectNothing \/ StopStartBe \/ Delete
               \/ Loop \/ ReadQueuesPanics \/ StopStartFails \/ Exit \/ Crash
      BY <2>3
      DEF Start, ReadQueues, SelectJob, SelectNothing, StopStartBe, Delete, Loop,
          ReadQueuesPanics, StopStartFails, Exit, Crash, GoDown, Executed
    <2>4. CASE Push \/ World \/ UNCHANGED vars
      <3>1. UNCHANGED <<item, verdict>> /\ (Executed' => Executed)
        BY <2>4 DEF Push, World, Insert, OpenWindow, CloseWindow, Withdraw, vars,
                    daemonVars, Executed
      <3>2. QED
        BY <3>1 DEF LifeInv, VerdictFollows, AfterSuccess, AfterFailure
    <2>5. QED
      BY <2>1, <2>2, <2>3, <2>4 DEF Next, Daemon
  <1>6. QED
    BY <1>1, <1>2, <1>3, <1>4, <1>5 DEF LifeInv

(* The account of every job: outside, of the file that holds it, and when  *)
(* it has left.                                                            *)
EndOf(j) == IF fate[j] = "Error" THEN ErroneousQueue
            ELSE IF fate[j] = "Done" THEN DoneQueue ELSE Len(Pipeline) + 3
Account(j, p, c, b) == PlaceOf[j] = p /\ CountOf[j] = c /\ BudgetOf[j] = b
Left(j, p) == Account(j, p, 0, 0)
HeldBy(e) == IF e.queue \in Positions THEN Account(e.job, e.queue, e.count, e.budget)
             ELSE Left(e.job, e.queue)

Accounts ==
    /\ PlaceOf = [j \in Jobs |-> PlaceOf[j]] /\ CountOf = [j \in Jobs |-> CountOf[j]]
    /\ BudgetOf = [j \in Jobs |-> BudgetOf[j]]
    /\ \A j \in Jobs \ inserted : Account(j, 0, params[j].count, params[j].budget)
    /\ \A e \in entries : Holds(e) => HeldBy(e)
    /\ \A j \in inserted : EntriesOf(j) = {} => Left(j, EndOf(j))
    /\ \A j \in inserted : EntriesOf(j) # {} => \E e \in EntriesOf(j) : Holds(e)

LEMMA AccountsHold == IInv /\ LifeInv => Accounts
  <1> SUFFICES ASSUME IInv, LifeInv PROVE Accounts
    OBVIOUS
  <1>0. /\ entries \subseteq Entry /\ inserted \subseteq Jobs
        /\ \A e \in entries : e.job \in inserted /\ e.job \in Jobs /\ e.queue \in QueueIds
    BY DEF IInv, TypeOK, OnlyInserted, Entry
  <1>1. \A e, f \in entries : e.job = f.job /\ Holds(e) /\ Holds(f) => e = f
    <2> SUFFICES ASSUME NEW e \in entries, NEW f \in entries, e.job = f.job,
                        Holds(e), Holds(f), e # f
                 PROVE  FALSE
      OBVIOUS
    <2>1. pc = "delete" /\ item \in {e, f}
      BY DEF IInv, LifeInv, OneHolder
    <2>2. verdict.queue = Nowhere
      BY <2>1 DEF Holds
    <2>3. e \in EntriesOf(item.job) /\ f \in EntriesOf(item.job)
      BY <2>1 DEF EntriesOf
    <2>4. QED
      BY <2>1, <2>2, <2>3, NothingElse
  <1>2. ASSUME NEW e \in entries, Holds(e)
        PROVE  Current(e.job) = e /\ EntriesOf(e.job) # {}
    <2>1. e \in EntriesOf(e.job) /\ \A f \in EntriesOf(e.job) : Holds(f) => f = e
      BY <1>1, <1>2 DEF EntriesOf
    <2>2. QED
      BY <1>2, <2>1 DEF Current
  <1>3. ASSUME NEW e \in entries, Holds(e)
        PROVE  HeldBy(e)
    <2>1. /\ e.job \in inserted /\ e.job \in Jobs /\ Current(e.job) = e /\ EntriesOf(e.job) # {}
      BY <1>0, <1>2, <1>3
    <2>2. Place(e.job) = e.queue
      BY <2>1 DEF Place
    <2>3. QED
      BY <2>1, <2>2 DEF HeldBy, Left, Account, PlaceOf, CountOf, BudgetOf
  <1>4. ASSUME NEW j \in Jobs \ inserted
        PROVE  Account(j, 0, params[j].count, params[j].budget)
    BY DEF Place, Account, PlaceOf, CountOf, BudgetOf
  <1>5. ASSUME NEW j \in inserted, EntriesOf(j) = {}
        PROVE  Left(j, EndOf(j))
    <2>1. Place(j) = EndOf(j)
      BY <1>5 DEF Place, EndOf
    <2>2. EndOf(j) \notin Positions
      BY QueueIdFacts DEF EndOf, Positions
    <2>3. QED
      BY <1>0, <2>1, <2>2 DEF Left, Account, PlaceOf, CountOf, BudgetOf
  <1>6. ASSUME NEW j \in inserted, EntriesOf(j) # {}
        PROVE  \E e \in EntriesOf(j) : Holds(e)
    <2>1. PICK e \in EntriesOf(j) : TRUE
      BY <1>6
    <2>2. CASE Holds(e)
      BY <2>2
    <2>3. CASE ~Holds(e)
      <3>1. pc = "delete" /\ e = item /\ verdict.queue # Nowhere /\ item.job = j
        BY <2>1, <2>3 DEF Holds, EntriesOf
      <3>2. ~Gone(j)
        BY <1>0, <1>6 DEF LifeInv
      <3>3. PICK f \in EntriesOf(j) : f # item
        BY <3>1, <3>2 DEF IInv, SuccessorPushed
      <3>4. QED
        BY <3>3 DEF Holds
    <2>4. QED
      BY <2>2, <2>3
  <1>7. /\ PlaceOf = [j \in Jobs |-> PlaceOf[j]] /\ CountOf = [j \in Jobs |-> CountOf[j]]
        /\ BudgetOf = [j \in Jobs |-> BudgetOf[j]]
    BY DEF PlaceOf, CountOf, BudgetOf
  <1>8. QED
    BY <1>3, <1>4, <1>5, <1>6, <1>7 DEF Accounts

LEMMA AccountsHoldNext == IInv' /\ LifeInv' => Accounts'
  BY AccountsHold, PTL

(* A job that a step does not touch *)
Untouched(k) ==
    /\ EntriesOf(k)' = EntriesOf(k) /\ fate'[k] = fate[k] /\ params' = params
    /\ k \in inserted' <=> k \in inserted
    /\ \A e \in EntriesOf(k) : Holds(e) => Holds(e)'
Stays(k) == PlaceOf'[k] = PlaceOf[k] /\ CountOf'[k] = CountOf[k] /\ BudgetOf'[k] = BudgetOf[k]

LEMMA UntouchedStays ==
  ASSUME Accounts, Accounts', NEW k \in Jobs, Untouched(k)
  PROVE  Stays(k)
  <1> USE DEF Untouched, Stays
  <1>1. CASE k \notin inserted
    BY <1>1 DEF Accounts, Account
  <1>2. CASE k \in inserted /\ EntriesOf(k) = {}
    <2>1. EndOf(k)' = EndOf(k)
      BY DEF EndOf
    <2>2. Left(k, EndOf(k)) /\ Left(k, EndOf(k))'
      BY <1>2 DEF Accounts
    <2>3. QED
      BY <2>1, <2>2 DEF Left, Account
  <1>3. CASE k \in inserted /\ EntriesOf(k) # {}
    <2>1. PICK e \in EntriesOf(k) : Holds(e)
      BY <1>3 DEF Accounts
    <2>2. e \in entries /\ e \in entries' /\ Holds(e) /\ Holds(e)' /\ e.job = k
      BY <2>1 DEF EntriesOf
    <2>3. HeldBy(e) /\ HeldBy(e)'
      BY <2>2 DEF Accounts
    <2>4. QED
      BY <2>2, <2>3 DEF HeldBy, Left, Account
  <1>4. QED
    BY <1>1, <1>2, <1>3

LEMMA AllStay ==
  ASSUME Accounts, Accounts', \A k \in Jobs : Stays(k)
  PROVE  UNCHANGED <<PlaceOf, CountOf, BudgetOf>>
  BY DEF Accounts, Stays

LEMMA OneMoves ==
  ASSUME Accounts, Accounts', NEW j \in Jobs, \A k \in Jobs \ {j} : Stays(k)
  PROVE  /\ PlaceOf' = [PlaceOf EXCEPT ![j] = PlaceOf'[j]]
         /\ CountOf' = [CountOf EXCEPT ![j] = CountOf'[j]]
         /\ BudgetOf' = [BudgetOf EXCEPT ![j] = BudgetOf'[j]]
  BY DEF Accounts, Stays

(* Where the verdict sends the job, and with what account *)
Goes(j, p, c, b) ==
    /\ PlaceOf' = [PlaceOf EXCEPT ![j] = p]
    /\ CountOf' = [CountOf EXCEPT ![j] = c]
    /\ BudgetOf' = [BudgetOf EXCEPT ![j] = b]
Target ==
    IF verdict.queue # Nowhere THEN verdict.queue
    ELSE IF verdict.status = "Error" THEN ErroneousQueue
    ELSE IF verdict.status = "Done" THEN DoneQueue ELSE Len(Pipeline) + 3

LEMMA LastIsLength ==
  ASSUME NEW q \in Positions, NextQueue(q) = Nowhere
  PROVE  q = Len(Pipeline)
  BY QueueIdFacts DEF NextQueue, Positions, Nowhere

(* Every execution is a step of the abstract life of the job *)
LEMMA VerdictIsALifeStep ==
  ASSUME NEW j \in Jobs, item \in Entry, item.queue \in Positions \ InactiveQueues,
         VerdictFollows, Account(j, item.queue, item.count, item.budget),
         IF verdict.queue \in Positions
         THEN Goes(j, verdict.queue, verdict.count, verdict.budget)
         ELSE Goes(j, Target, 0, 0)
  PROVE  Lifecycle!Next
  <1> DEFINE q == item.queue
             n == item.count
             b == item.budget
  <1>1. /\ PlaceOf[j] = q /\ CountOf[j] = n /\ BudgetOf[j] = b
        /\ q \in 1 .. Len(Pipeline) /\ ExecutesJobs(q) /\ n \in Nat /\ b \in Nat
    BY DEF Account, Positions, ExecutesJobs, Entry
  <1>2. Positions = 1 .. Len(Pipeline) /\ Len(Pipeline) \in Nat /\ Nowhere = 0
    BY QueueIdFacts DEF Positions, Nowhere
  <1>3. /\ Lifecycle!Done = DoneQueue /\ Lifecycle!Errored = ErroneousQueue
        /\ Lifecycle!Dropped = Len(Pipeline) + 3
    BY DEF Lifecycle!Done, Lifecycle!Errored, Lifecycle!Dropped, DoneQueue, ErroneousQueue
  <1>4. /\ DoneQueue \notin Positions /\ ErroneousQueue \notin Positions
        /\ DoneQueue # Nowhere /\ ErroneousQueue # Nowhere /\ Nowhere \notin Positions
    BY QueueIdFacts DEF QueueIds
  <1>l. ASSUME NEW end, Goes(j, end, 0, 0)
        PROVE  Lifecycle!Leave(j, end)
    BY <1>l DEF Goes, Lifecycle!Leave, Lifecycle!Move
  <1>5. CASE n \in {0, 1} /\ b > 0 /\ verdict \in {Finished(0, b), Finished(n, b)}
    <2>1. Goes(j, DoneQueue, 0, 0)
      BY <1>4, <1>5 DEF Finished, Verdict, Target
    <2>2. Lifecycle!Finish(j)
      BY <1>1, <1>3, <1>5, <1>l, <2>1 DEF Lifecycle!Finish
    <2>3. QED
      BY <2>2 DEF Lifecycle!Next
  <1>6. CASE b \in {0, 1} /\ (b = 1 => n > 0) /\ verdict = OutOfErrorBudget(n)
    <2>1. Goes(j, ErroneousQueue, 0, 0)
      BY <1>4, <1>6 DEF OutOfErrorBudget, Verdict, Target
    <2>2. Lifecycle!GiveUp(j)
      BY <1>1, <1>3, <1>6, <1>l, <2>1 DEF Lifecycle!GiveUp
    <2>3. QED
      BY <2>2 DEF Lifecycle!Next
  <1>7. CASE n > 0 /\ b > 1 /\ verdict = Verdict(q, n, b - 1, "Active")
    <2>1. Goes(j, q, n, b - 1)
      BY <1>1, <1>2, <1>7 DEF Verdict
    <2>2. PlaceOf' = PlaceOf /\ CountOf' = CountOf
      <3>1. PlaceOf' = [PlaceOf EXCEPT ![j] = PlaceOf[j]]
            /\ CountOf' = [CountOf EXCEPT ![j] = CountOf[j]]
        BY <1>1, <2>1 DEF Goes
      <3>2. PlaceOf = [k \in Jobs |-> PlaceOf[k]] /\ CountOf = [k \in Jobs |-> CountOf[k]]
        BY DEF PlaceOf, CountOf
      <3>3. QED
        BY <3>1, <3>2
    <2>3. Lifecycle!Fail(j)
      BY <1>1, <1>7, <2>1, <2>2 DEF Goes, Lifecycle!Fail, Lifecycle!CanRun
    <2>4. QED
      BY <2>3 DEF Lifecycle!Next
  <1>8. CASE n > 1 /\ b > 0 /\ verdict = AfterSuccess(item)
    <2>1. verdict = Verdict(QueueAfter(q), n - 1, b,
                            IF QueueAfter(q) = Nowhere THEN "Dropped" ELSE "Active")
      BY <1>8 DEF AfterSuccess
    <2>2. QueueAfter(q) \in Positions \cup {Nowhere}
      BY QueueAfterType
    <2>3. CASE QueueAfter(q) \in Positions
      <3>1. Goes(j, QueueAfter(q), n - 1, b)
        BY <2>1, <2>3 DEF Verdict
      <3>2. BudgetOf' = BudgetOf
        <4>1. BudgetOf' = [BudgetOf EXCEPT ![j] = BudgetOf[j]]
          BY <1>1, <3>1 DEF Goes
        <4>2. BudgetOf = [k \in Jobs |-> BudgetOf[k]]
          BY DEF BudgetOf
        <4>3. QED
          BY <4>1, <4>2
      <3>3. IF KeepsJobs(q) THEN QueueAfter(q) = q
            ELSE q < Len(Pipeline) /\ QueueAfter(q) = q + 1
        BY <1>2, <2>3 DEF QueueAfter, NextQueue
      <3>4. Lifecycle!Succeed(j)
        <4>1. Lifecycle!CanRun(j) /\ CountOf[j] > 1
          BY <1>1, <1>8 DEF Lifecycle!CanRun
        <4>2. CountOf' = [CountOf EXCEPT ![j] = CountOf[j] - 1]
          BY <1>1, <3>1 DEF Goes
        <4>3. IF KeepsJobs(PlaceOf[j]) THEN Lifecycle!Move(j, PlaceOf[j])
              ELSE PlaceOf[j] < Len(Pipeline) /\ Lifecycle!Move(j, PlaceOf[j] + 1)
          BY <1>1, <3>1, <3>3 DEF Goes, Lifecycle!Move
        <4>4. QED
          BY <3>2, <4>1, <4>2, <4>3 DEF Lifecycle!Succeed
      <3>5. QED
        BY <3>4 DEF Lifecycle!Next
    <2>4. CASE QueueAfter(q) = Nowhere
      <3>1. Goes(j, Lifecycle!Dropped, 0, 0)
        BY <1>3, <1>4, <2>1, <2>4 DEF Verdict, Target
      <3>2. ~KeepsJobs(q) /\ q = Len(Pipeline)
        BY <1>4, <2>4, LastIsLength DEF QueueAfter
      <3>3. Lifecycle!DropOff(j)
        BY <1>1, <1>8, <1>l, <3>1, <3>2 DEF Lifecycle!DropOff, Lifecycle!CanRun
      <3>4. QED
        BY <3>3 DEF Lifecycle!Next
    <2>5. QED
      BY <2>2, <2>3, <2>4
  <1>9. CASE n > 0 /\ b > 0 /\ verdict = AfterSuccess(item)
    <2>1. CASE n = 1
      BY <1>5, <1>9, <2>1 DEF AfterSuccess
    <2>2. CASE n # 1
      BY <1>1, <1>8, <1>9, <2>2
    <2>3. QED
      BY <2>1, <2>2
  <1>10. CASE n > 0 /\ b > 0 /\ verdict = AfterFailure(item)
    <2>1. CASE b = 1
      BY <1>6, <1>10, <2>1 DEF AfterFailure
    <2>2. CASE b # 1
      BY <1>1, <1>7, <1>10, <2>2 DEF AfterFailure
    <2>3. QED
      BY <2>1, <2>2
  <1>11. CASE b = 0 /\ verdict = OutOfErrorBudget(n)
    BY <1>6, <1>11
  <1>12. CASE n = 0 /\ b > 0 /\ verdict = Finished(n, b)
    BY <1>5, <1>12
  <1>13. QED
    BY <1>9, <1>10, <1>11, <1>12 DEF VerdictFollows

(* The selected job has its account in the selected file *)
LEMMA SelectedHolds ==
  ASSUME IInv, LifeInv, Accounts, Selected, Holds(item)
  PROVE  /\ item \in Entry /\ item.job \in Jobs /\ item.job \in inserted
         /\ item.queue \in Positions \ InactiveQueues
         /\ Account(item.job, item.queue, item.count, item.budget)
  <1>1. item \in entries /\ item # NoItem
    BY DEF LifeInv, Selected
  <1>2. item \in Entry /\ item.job \in Jobs /\ item.job \in inserted
    BY <1>1 DEF IInv, TypeOK, Entry, OnlyInserted
  <1>3. item.queue \in Positions \ InactiveQueues
    BY <1>1 DEF IInv, DaemonKnows, LifeInv
  <1>4. QED
    BY <1>1, <1>2, <1>3 DEF Accounts, HeldBy

LEMMA RefinementStep ==
  ASSUME Undisturbed, IInv, LifeInv, IInv', LifeInv', [Next]_vars
  PROVE  Lifecycle!Next \/ UNCHANGED <<PlaceOf, CountOf, BudgetOf>>
  <1>0. TypeOK /\ DaemonKnows /\ OnlyInserted /\ KeysBelowNext
    BY DEF IInv
  <1>1. Accounts /\ Accounts'
    BY AccountsHold, AccountsHoldNext
  <1>2. CASE Aside /\ ((pc # "delete" /\ pc' # "delete") \/ UNCHANGED <<pc, item, verdict>>)
    <2>1. \A k \in Jobs : Untouched(k)
      BY <1>2 DEF Aside, Untouched, EntriesOf, Holds
    <2>2. QED
      BY <1>1, <2>1, UntouchedStays, AllStay
  <1>3. CASE Push
    <2>1. /\ pc = "push" /\ pc' = "delete" /\ UNCHANGED <<item, verdict>>
          /\ UNCHANGED <<fate, inserted, params>> /\ item # NoItem
      BY <1>0, <1>3 DEF Push, auxVars, DaemonKnows
    <2>2. \A e \in entries : Holds(e)
      BY <2>1 DEF Holds
    <2>3. CASE verdict.queue = Nowhere
      <3>1. UNCHANGED entries
        BY <1>3, <2>3 DEF Push
      <3>2. \A k \in Jobs : Untouched(k)
        BY <2>1, <2>3, <3>1 DEF Untouched, EntriesOf, Holds
      <3>3. QED
        BY <1>1, <3>2, UntouchedStays, AllStay
    <2>4. CASE verdict.queue # Nowhere
      <3>1. PICK j \in Jobs : j = item.job
        BY <1>0, <2>1 DEF TypeOK, Entry
      <3>2. PICK n \in Entry :
              /\ entries' = entries \cup {n} /\ n.key = nextKey
              /\ n.queue = verdict.queue /\ n.job = j
              /\ n.count = verdict.count /\ n.budget = verdict.budget
        BY <1>0, <1>3, <2>4, <3>1, PushAdds
      <3>3. n # item
        <4>1. item.key < nextKey /\ nextKey \in Nat
          BY <1>0, <2>1 DEF KeysBelowNext, TypeOK
        <4>2. QED
          BY <3>2, <4>1
      <3>4. HeldBy(n)'
        <4>1. Holds(n)' /\ n \in entries'
          BY <2>1, <3>2, <3>3 DEF Holds
        <4>2. QED
          BY <1>1, <4>1 DEF Accounts
      <3>5. \A k \in Jobs \ {j} : Untouched(k)
        BY <2>1, <3>1, <3>2 DEF Untouched, EntriesOf, Holds
      <3>6. \A k \in Jobs \ {j} : Stays(k)
        BY <1>1, <3>5, UntouchedStays
      <3>7. IF verdict.queue \in Positions
            THEN PlaceOf'[j] = verdict.queue /\ CountOf'[j] = verdict.count
                 /\ BudgetOf'[j] = verdict.budget
            ELSE PlaceOf'[j] = Target /\ CountOf'[j] = 0 /\ BudgetOf'[j] = 0
        BY <2>4, <3>2, <3>4 DEF HeldBy, Left, Account, Target
      <3>8. IF verdict.queue \in Positions
            THEN Goes(j, verdict.queue, verdict.count, verdict.budget)
            ELSE Goes(j, Target, 0, 0)
        BY <1>1, <3>6, <3>7, OneMoves DEF Goes
      <3>9. Selected /\ Holds(item) /\ VerdictFollows
        BY <2>1 DEF Selected, Holds, LifeInv, Executed
      <3>10. QED
        BY <1>1, <3>1, <3>8, <3>9, SelectedHolds, VerdictIsALifeStep
    <2>5. QED
      BY <2>3, <2>4
  <1>4. CASE Delete
    <2>1. /\ pc = "delete" /\ pc' = "loop_end" /\ entries' = entries \ {item}
          /\ fate' = (IF verdict.queue # Nowhere THEN fate
                      ELSE [fate EXCEPT ![item.job] = verdict.status])
          /\ UNCHANGED <<inserted, params>> /\ item # NoItem
      BY <1>0, <1>4 DEF Delete, DaemonKnows
    <2>2. \A e : Holds(e)'
      BY <2>1 DEF Holds
    <2>3. PICK j \in Jobs : j = item.job
      BY <1>0, <2>1 DEF TypeOK, Entry
    <2>4. \A k \in Jobs \ {j} : Untouched(k)
      <3>1. \A k \in Jobs \ {j} : fate'[k] = fate[k]
        BY <1>0, <2>1, <2>3 DEF TypeOK
      <3>2. QED
        BY <2>1, <2>2, <2>3, <3>1 DEF Untouched, EntriesOf
    <2>5. \A k \in Jobs \ {j} : Stays(k)
      BY <1>1, <2>4, UntouchedStays
    <2>6. Selected /\ VerdictFollows
      BY <2>1 DEF Selected, LifeInv, Executed
    <2>7. CASE verdict.queue # Nowhere
      <3>1. item \in EntriesOf(j) /\ j \in inserted
        BY <1>0, <2>1, <2>3, <2>6 DEF LifeInv, EntriesOf, OnlyInserted
      <3>2. PICK e \in EntriesOf(j) : Holds(e)
        BY <1>1, <3>1 DEF Accounts
      <3>3. e # item
        BY <2>1, <2>7, <3>2 DEF Holds
      <3>4. e \in entries /\ e \in entries' /\ e.job = j
        BY <2>1, <3>2, <3>3 DEF EntriesOf
      <3>5. HeldBy(e) /\ HeldBy(e)'
        BY <1>1, <2>2, <3>2, <3>4 DEF Accounts
      <3>6. Stays(j)
        BY <3>4, <3>5 DEF HeldBy, Left, Account, Stays
      <3>7. QED
        BY <1>1, <2>5, <3>6, AllStay
    <2>8. CASE verdict.queue = Nowhere
      <3>1. EntriesOf(j) \subseteq {item}
        BY <2>1, <2>3, <2>8, NothingElse
      <3>2. EntriesOf(j)' = {} /\ j \in inserted'
        BY <1>0, <2>1, <2>3, <3>1 DEF EntriesOf, OnlyInserted
      <3>3. fate'[j] = verdict.status
        BY <1>0, <2>1, <2>3, <2>8 DEF TypeOK
      <3>4. Left(j, EndOf(j))'
        BY <1>1, <3>2 DEF Accounts
      <3>5. PlaceOf'[j] = Target /\ CountOf'[j] = 0 /\ BudgetOf'[j] = 0
        BY <2>8, <3>3, <3>4 DEF Left, Account, EndOf, Target
      <3>6. Goes(j, Target, 0, 0)
        BY <1>1, <2>5, <3>5, OneMoves DEF Goes
      <3>7. verdict.queue \notin Positions
        BY <2>8, QueueIdFacts
      <3>8. Holds(item)
        BY <2>8 DEF Holds
      <3>9. QED
        BY <1>1, <2>3, <2>6, <3>6, <3>7, <3>8, SelectedHolds, VerdictIsALifeStep
    <2>9. QED
      BY <2>7, <2>8
  <1>5. ASSUME NEW j \in Jobs, Insert(j)
        PROVE  Lifecycle!Next
    <2>1. /\ j \notin inserted /\ inserted' = inserted \cup {j}
          /\ UNCHANGED <<pc, item, verdict, fate, params>>
      BY <1>5 DEF Insert, daemonVars
    <2>2. PICK n \in Entry :
            /\ entries' = entries \cup {n} /\ n.key = nextKey /\ n.queue = 1 /\ n.job = j
            /\ n.count = params[j].count /\ n.budget = params[j].budget
      BY <1>0, <1>5, InsertAdds
    <2>3. \A k \in Jobs \ {j} : Stays(k)
      <3>1. \A k \in Jobs \ {j} : Untouched(k)
        BY <2>1, <2>2 DEF Untouched, EntriesOf, Holds
      <3>2. QED
        BY <1>1, <3>1, UntouchedStays
    <2>4. HeldBy(n)'
      <3>1. n # item
        <4>1. item # NoItem => item.job # j
          BY <1>0, <2>1 DEF OnlyInserted
        <4>2. QED
          BY <2>2, <4>1, NoItemAssumption
      <3>2. Holds(n)' /\ n \in entries'
        BY <2>1, <2>2, <3>1 DEF Holds
      <3>3. QED
        BY <1>1, <3>2 DEF Accounts
    <2>5. Account(j, 1, params[j].count, params[j].budget)'
      <3>1. n.queue \in Positions
        BY <2>2, QueueIdFacts
      <3>2. Account(n.job, n.queue, n.count, n.budget)'
        BY <2>4, <3>1 DEF HeldBy
      <3>3. QED
        BY <2>1, <2>2, <3>2 DEF Account
    <2>6. Account(j, 0, params[j].count, params[j].budget)
      BY <1>1, <2>1 DEF Accounts
    <2>7. PlaceOf' = [PlaceOf EXCEPT ![j] = 1]
      BY <1>1, <2>3, <2>5, OneMoves DEF Account
    <2>8. CountOf' = CountOf /\ BudgetOf' = BudgetOf
      <3>1. CountOf'[j] = CountOf[j] /\ BudgetOf'[j] = BudgetOf[j]
        BY <2>1, <2>5, <2>6 DEF Account
      <3>2. \A k \in Jobs : CountOf'[k] = CountOf[k] /\ BudgetOf'[k] = BudgetOf[k]
        BY <2>3, <3>1 DEF Stays
      <3>3. QED
        BY <1>1, <3>2 DEF Accounts
    <2>9. Lifecycle!Enter(j)
      BY <2>6, <2>7, <2>8 DEF Account, Lifecycle!Enter, Lifecycle!Outside, Lifecycle!Move
    <2>10. QED
      BY <2>9 DEF Lifecycle!Next
  <1>6. QED
    BY <1>0, <1>2, <1>3, <1>4, <1>5, AsideSteps DEF TypeOK

(* Every job moves forward through the pipeline only, at the price of one  *)
(* execution per move, and ends where its count and budget say.  A daemon  *)
(* that dies between an execution and its push leaves the account alone.   *)
THEOREM QueuesImplementLifecycle ==
  ASSUME Undisturbed
  PROVE  Spec => ImplementsLifecycle
  <1>1. Init => Lifecycle!Init
    <2> SUFFICES ASSUME Init PROVE Lifecycle!Init
      OBVIOUS
    <2>1. inserted = {} /\ \A j \in Jobs : params[j].count \in Nat /\ params[j].budget \in Nat
      BY ConfigAssumption DEF Init, ParamsType
    <2>2. PlaceOf = [j \in Jobs |-> 0]
      BY <2>1 DEF PlaceOf, Place
    <2>3. CountOf \in [Jobs -> Nat] /\ BudgetOf \in [Jobs -> Nat]
      BY <2>1 DEF CountOf, BudgetOf
    <2>4. QED
      BY <2>2, <2>3 DEF Lifecycle!Init, Lifecycle!Outside
  <1>2. LifeInv /\ IInv /\ [Next]_vars => LifeInv'
    BY LifeStep
  <1>3. LifeInv /\ LifeInv' /\ IInv /\ IInv' /\ [Next]_vars
          => [Lifecycle!Next]_(Lifecycle!vars)
    BY RefinementStep DEF Lifecycle!vars
  <1>4. QED
    BY <1>1, <1>2, <1>3, Inductive, InitLife, PTL
    DEF Spec, ImplementsLifecycle, Lifecycle!Spec
=============================================================================
