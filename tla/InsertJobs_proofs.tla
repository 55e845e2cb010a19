-------------------------- MODULE InsertJobs_proofs --------------------------
(***************************************************************************)
(* Proofs about InsertJobs.  The argument: the lock is held from the check *)
(* of a batch until its first job is recorded, and only while it is held   *)
(* does a process know that what it read of the table is still true.       *)
(***************************************************************************)
EXTENDS InsertJobs, TLAPS

LEMMA HeadIsElement ==
    ASSUME NEW S, NEW s \in Seq(S), s # <<>>
    PROVE  /\ Head(s) \in S /\ Head(s) = s[1] /\ 1 \in DOMAIN s
           /\ Tail(s) \in Seq(S)
           /\ \A n \in DOMAIN Tail(s) : n + 1 \in DOMAIN s /\ Tail(s)[n] = s[n + 1]
  OBVIOUS

LEMMA AppendElements ==
    ASSUME NEW S, NEW s \in Seq(S), NEW e \in S
    PROVE  /\ Append(s, e) \in Seq(S)
           /\ \A n \in DOMAIN Append(s, e) :
                \/ n \in DOMAIN s /\ Append(s, e)[n] = s[n]
                \/ Append(s, e)[n] = e
  OBVIOUS

LEMMA JobFacts ==
    ASSUME TypeOK, NEW i \in Processes, jobs[i] # <<>>
    PROVE  /\ Job(i) \in JobType /\ Job(i).params \in Params
           /\ Job(i).times \in SUBSET Nat
           /\ Job(i) = jobs[i][1] /\ 1 \in DOMAIN jobs[i]
           /\ Tail(jobs[i]) \in Seq(JobType)
           /\ \A n \in DOMAIN Tail(jobs[i]) :
                n + 1 \in DOMAIN jobs[i] /\ Tail(jobs[i])[n] = jobs[i][n + 1]
  <1>1. jobs[i] \in Seq(JobType)
    BY DEF TypeOK
  <1>2. Job(i) \in JobType
    BY <1>1, HeadIsElement DEF Job
  <1>3. QED
    BY <1>1, <1>2, HeadIsElement DEF Job, JobType

LEMMA InitIInv == Init => IInv
  <1> SUFFICES ASSUME Init PROVE IInv
    OBVIOUS
  <1> USE DEF Init
  <1>1. TypeOK
    BY NobodyAssumption DEF TypeOK, NoCall, CallType, Outcomes
  <1>2. LockUntilFirstRecord /\ CallKnows /\ LateAreKnown /\ ReadIsTrue
    BY NobodyAssumption
    DEF LockUntilFirstRecord, First, CallKnows, LateAreKnown, ReadIsTrue, Inserting
  <1>3. RecordsWhatIsPushed /\ TimesWerePushed
    BY DEF RecordsWhatIsPushed, TimesWerePushed, Inserting
  <1>4. /\ InsertedOnceUnlessLate /\ TableTellsAllInsertions
        /\ ListedWereInserted /\ RefusalInsertsNothing
    BY DEF InsertedOnceUnlessLate, TableTellsAllInsertions, ListedWereInserted,
           RefusalInsertsNothing, Pushed, Times
  <1>5. QED
    BY <1>1, <1>2, <1>3, <1>4 DEF IInv

-----------------------------------------------------------------------------
(* Types, one step per action *)

LEMMA TypeStep ==
  ASSUME TypeOK, CallKnows, [Next]_vars
  PROVE  TypeOK'
  <1> USE DEF TypeOK, Goto, Outcomes
  <1>1. ASSUME NEW i \in Processes, Begin(i)
        PROVE  TypeOK'
    BY <1>1, CallsAssumption DEF Begin, stateVars, CallType
  <1>2. ASSUME NEW i \in Processes, Lock(i) \/ StartInserting(i)
        PROVE  TypeOK'
    BY <1>2 DEF Lock, StartInserting, stateVars, auxVars
  <1>2a. ASSUME NEW i \in Processes, SkipKnown(i)
         PROVE  TypeOK'
    <2>1. Tail(todo[i]) \in Seq(Params)
      BY <1>2a, HeadIsElement DEF SkipKnown
    <2>2. call[i].quiet \in BOOLEAN
      BY DEF CallType
    <2>3. todo' \in [Processes -> Seq(Params)] /\ known' \in [Processes -> BOOLEAN]
      BY <1>2a, <2>1, <2>2 DEF SkipKnown
    <2>4. QED
      BY <1>2a, <2>3 DEF SkipKnown, stateVars, auxVars
  <1>3. ASSUME NEW i \in Processes, NEW r \in Outcomes, Finish(i, r),
               UNCHANGED <<table, pushed, clock, call, known, now, num, forced,
                           late, calls>>,
               cut' \in SUBSET Params
        PROVE  TypeOK'
    BY <1>3 DEF Finish
  <1>4. ASSUME NEW i \in Processes, CommitInvalid(i) \/ Refuse(i) \/ DryRun(i)
                                    \/ Done(i)
        PROVE  TypeOK'
    BY <1>3, <1>4 DEF CommitInvalid, Refuse, DryRun, Done, auxVars
  <1>5. ASSUME NEW i \in Processes, RecordExists(i) \/ Die(i)
        PROVE  TypeOK'
    <2>1. Inserting(i) => Job(i).params \in Params
      BY JobFacts DEF CallKnows
    <2>2. QED
      <3>1. CASE RecordExists(i)
        <4>1. cut' \in SUBSET Params
          BY <3>1, <2>1 DEF RecordExists, Inserting
        <4>2. QED
          BY <1>3, <3>1, <4>1 DEF RecordExists
      <3>2. CASE Die(i)
        <4>1. cut' \in SUBSET Params
          BY <3>2, <2>1 DEF Die, Inserting
        <4>2. QED
          BY <1>3, <3>2, <4>1 DEF Die
      <3>3. QED
        BY <1>5, <3>1, <3>2
  <1>6. ASSUME NEW i \in Processes, Accept(i)
        PROVE  TypeOK'
    <2>1. Head(todo[i]) \in Params /\ Tail(todo[i]) \in Seq(Params)
      BY <1>6, HeadIsElement DEF Accept
    <2> DEFINE e == [params |-> Head(todo[i]), times |-> table[Head(todo[i])]]
    <2>2. e \in JobType
      BY <2>1 DEF JobType
    <2>3. Append(jobs[i], e) \in Seq(JobType)
      BY <2>2, AppendElements
    <2>4. QED
      BY <1>6, <2>1, <2>3 DEF Accept, stateVars, auxVars
  <1>7. ASSUME NEW i \in Processes, Push(i) \/ Unlist(i) \/ Record(i)
        PROVE  TypeOK'
    <2>1. jobs[i] # <<>>
      BY <1>7 DEF Push, Unlist, Record, CallKnows, Inserting
    <2>2. Job(i) \in JobType /\ Tail(jobs[i]) \in Seq(JobType)
      BY <2>1, JobFacts
    <2>3. Job(i).params \in Params /\ Job(i).times \in SUBSET Nat
      BY <2>1, JobFacts
    <2>4. CASE Push(i)
      <3>1. pushed' \in SUBSET [params: Params, time: Nat]
        BY <2>3, <2>4 DEF Push
      <3>2. QED
        BY <2>3, <2>4, <3>1 DEF Push
    <2>5. CASE Unlist(i)
      BY <2>3, <2>5 DEF Unlist, auxVars
    <2>6. CASE Record(i)
      <3>1. now[i] \in Nat
        OBVIOUS
      <3>2. table' \in [Params -> SUBSET Nat]
        BY <2>3, <2>6, <3>1 DEF Record
      <3>3. QED
        BY <2>2, <2>6, <3>2 DEF Record, auxVars
    <2>7. QED
      BY <1>7, <2>4, <2>5, <2>6
  <1>8. CASE UNCHANGED vars
    BY <1>8 DEF vars, stateVars, callVars, auxVars
  <1>9. QED
    BY <1>1, <1>2, <1>2a, <1>4, <1>5, <1>6, <1>7, <1>8 DEF Next, Step

-----------------------------------------------------------------------------
(* The lock and the state of the calls *)

(* What every step of process i leaves to the others *)
Others(i) ==
    \A j \in Processes \ {i} :
        /\ pc'[j] = pc[j] /\ call'[j] = call[j] /\ jobs'[j] = jobs[j]
        /\ now'[j] = now[j] /\ num'[j] = num[j] /\ outcome'[j] = outcome[j]

LEMMA OthersUnchanged ==
  ASSUME TypeOK, NEW i \in Processes, Begin(i) \/ Step(i) \/ Die(i)
  PROVE  Others(i)
  <1> USE DEF TypeOK, Others, Goto
  <1>1. CASE Begin(i)
    BY <1>1 DEF Begin
  <1>2. CASE Lock(i) \/ SkipKnown(i) \/ Accept(i) \/ StartInserting(i)
    BY <1>2 DEF Lock, SkipKnown, Accept, StartInserting
  <1>3. CASE CommitInvalid(i) \/ Refuse(i) \/ DryRun(i) \/ Done(i)
    BY <1>3 DEF CommitInvalid, Refuse, DryRun, Done, Finish
  <1>4. CASE RecordExists(i) \/ Die(i)
    BY <1>4 DEF RecordExists, Die, Finish
  <1>5. CASE Push(i) \/ Unlist(i) \/ Record(i)
    BY <1>5 DEF Push, Unlist, Record
  <1>6. QED
    BY <1>1, <1>2, <1>3, <1>4, <1>5 DEF Step

LEMMA LockStep ==
  ASSUME TypeOK, LockUntilFirstRecord, CallKnows, [Next]_vars
  PROVE  LockUntilFirstRecord'
  <1> USE DEF LockUntilFirstRecord, First, Inserting
  <1>1. ASSUME NEW i \in Processes, Begin(i) \/ Step(i) \/ Die(i)
        PROVE  LockUntilFirstRecord'
    <2>1. Others(i)
      BY <1>1, OthersUnchanged
    <2>2. ASSUME lock' = lock, First(i)' <=> First(i)
          PROVE  LockUntilFirstRecord'
      BY <2>1, <2>2 DEF Others
    <2>3. ASSUME lock' = (IF lock = i THEN Nobody ELSE lock), ~First(i)'
          PROVE  LockUntilFirstRecord'
      BY <2>1, <2>3, NobodyAssumption DEF Others
    <2> USE DEF TypeOK, Goto
    <2>4. CASE Begin(i)
      BY <2>2, <2>4 DEF Begin, stateVars
    <2>5. CASE Lock(i)
      <3>1. lock = Nobody /\ lock' = i /\ First(i)'
        BY <2>5 DEF Lock
      <3>2. QED
        BY <2>1, <3>1, NobodyAssumption DEF Others
    <2>6. CASE SkipKnown(i) \/ Accept(i)
      BY <2>2, <2>6 DEF SkipKnown, Accept, stateVars
    <2>7. CASE StartInserting(i)
      BY <2>2, <2>7 DEF StartInserting, stateVars, CallKnows
    <2>8. CASE \E r \in Outcomes : Finish(i, r)
      BY <2>3, <2>8 DEF Finish
    <2>9. CASE Push(i)
      <3>1. num'[i] = num[i] + 1 /\ num[i] \in Nat
        BY <2>9 DEF Push
      <3>2. (num'[i] = 1) <=> (num[i] = 0)
        BY <3>1
      <3>3. pc[i] = "push" /\ pc'[i] = "unlist" /\ lock' = lock
        BY <2>9 DEF Push
      <3>4. QED
        BY <2>2, <3>2, <3>3
    <2>10. CASE Unlist(i)
      BY <2>2, <2>10 DEF Unlist
    <2>11. CASE Record(i)
      <3>1. num'[i] > 0 /\ pc'[i] = "push"
        BY <2>11 DEF Record, CallKnows
      <3>2. lock' = (IF lock = i THEN Nobody ELSE lock)
        BY <2>11 DEF Record, CanInsert
      <3>3. num'[i] # 0
        BY <3>1
      <3>4. QED
        BY <2>3, <3>1, <3>2, <3>3
    <2>12. QED
      BY <1>1, <2>4, <2>5, <2>6, <2>7, <2>8, <2>9, <2>10, <2>11
      DEF Step, CommitInvalid, Refuse, DryRun, Done, RecordExists, Die, Outcomes
  <1>2. CASE UNCHANGED vars
    BY <1>2 DEF vars, stateVars, callVars
  <1>3. QED
    BY <1>1, <1>2 DEF Next

LEMMA CallStep ==
  ASSUME TypeOK, CallKnows, [Next]_vars
  PROVE  CallKnows'
  <1> DEFINE Knows(i) ==
        /\ pc[i] \in {"idle", "lock"} => jobs[i] = <<>>
        /\ pc[i] \in {"lock", "check"} => num[i] = 0
        /\ pc[i] # "idle" => outcome[i] = "none"
        /\ Inserting(i) => jobs[i] # <<>> /\ num[i] > 0
        /\ ~call[i].force => \A n \in DOMAIN jobs[i] : jobs[i][n].times = {}
  <1>1. ASSUME NEW i \in Processes, Begin(i) \/ Step(i) \/ Die(i)
        PROVE  CallKnows'
    <2>1. Others(i) /\ Knows(i)
      BY <1>1, OthersUnchanged DEF CallKnows
    <2>2. ASSUME Knows(i)' PROVE CallKnows'
      BY <2>1, <2>2 DEF Others, CallKnows, Inserting
    <2> USE DEF TypeOK, Goto, Inserting
    <2>3. CASE Begin(i) \/ Lock(i) \/ StartInserting(i)
      BY <2>1, <2>2, <2>3 DEF Begin, Lock, StartInserting
    <2>4. CASE SkipKnown(i) \/ Unlist(i)
      BY <2>1, <2>2, <2>4 DEF SkipKnown, Unlist
    <2>5. CASE \E r \in Outcomes :
                 Finish(i, r) /\ UNCHANGED <<call, num>>
      BY <2>1, <2>2, <2>5 DEF Finish
    <2>6. CASE Push(i)
      <3>1. num'[i] > 0
        BY <2>6 DEF Push
      <3>2. jobs'[i] = jobs[i] /\ call'[i] = call[i] /\ outcome'[i] = outcome[i]
            /\ pc[i] = "push" /\ pc'[i] = "unlist" /\ jobs[i] # <<>>
        BY <2>6 DEF Push
      <3>3. QED
        BY <2>1, <2>2, <3>1, <3>2
    <2>7. CASE Accept(i)
      <3> DEFINE e == [params |-> Head(todo[i]), times |-> table[Head(todo[i])]]
      <3>1. jobs'[i] = Append(jobs[i], e) /\ call'[i] = call[i]
        BY <2>7 DEF Accept
      <3>2. e \in JobType
        BY <2>7, HeadIsElement DEF Accept, JobType
      <3>3. ~call[i].force => e.times = {}
        BY <2>7 DEF Accept, Skips
      <3>4. ~call'[i].force => \A n \in DOMAIN jobs'[i] : jobs'[i][n].times = {}
        BY <2>1, <3>1, <3>2, <3>3, AppendElements
      <3>5. pc'[i] = "check" /\ num'[i] = num[i] /\ outcome'[i] = outcome[i]
            /\ pc[i] = "check"
        BY <2>7 DEF Accept
      <3>6. QED
        BY <2>1, <2>2, <3>4, <3>5
    <2>8. CASE Record(i)
      <3>1. jobs'[i] = Tail(jobs[i]) /\ call'[i] = call[i] /\ pc'[i] = "push"
            /\ outcome'[i] = outcome[i] /\ Inserting(i)
        BY <2>8 DEF Record
      <3>2. ~call'[i].force => \A n \in DOMAIN jobs'[i] : jobs'[i][n].times = {}
        BY <2>1, <3>1, JobFacts
      <3>3. QED
        BY <2>1, <2>2, <3>1, <3>2
    <2>9. QED
      BY <1>1, <2>3, <2>4, <2>5, <2>6, <2>7, <2>8
      DEF Step, CommitInvalid, Refuse, DryRun, Done, RecordExists, Die, Outcomes
  <1>2. CASE UNCHANGED vars
    BY <1>2 DEF vars, stateVars, callVars, CallKnows, Inserting
  <1>3. QED
    BY <1>1, <1>2 DEF Next

-----------------------------------------------------------------------------
(* The table and the queue *)

(* A process whose job is not late and is being inserted has the lock *)
LEMMA LateElsewhere ==
  ASSUME TypeOK, LockUntilFirstRecord, CallKnows, LateAreKnown,
         NEW i \in Processes, lock = i,
         NEW j \in Processes, j # i, Inserting(j)
  PROVE  Job(j).params \in late
  <1>1. num[j] \in Nat /\ num[j] > 0 /\ num[j] # 1
    BY DEF TypeOK, CallKnows, LockUntilFirstRecord, First
  <1>2. num[j] > 1
    BY <1>1
  <1>3. QED
    BY <1>2 DEF LateAreKnown

LEMMA OnlyGrows ==
  ASSUME [Next]_vars
  PROVE  /\ pushed \subseteq pushed' /\ forced \subseteq forced'
         /\ cut \subseteq cut' /\ late \subseteq late'
  <1>1. ASSUME NEW i \in Processes, Begin(i) \/ Step(i) \/ Die(i)
        PROVE  /\ pushed \subseteq pushed' /\ forced \subseteq forced'
               /\ cut \subseteq cut' /\ late \subseteq late'
    BY <1>1 DEF Begin, Step, Lock, SkipKnown, CommitInvalid, Accept, Refuse, DryRun,
                StartInserting, Push, Unlist, Record, RecordExists, Done, Die,
                stateVars, auxVars
  <1>2. QED
    BY <1>1 DEF Next, vars, stateVars, auxVars

LEMMA PushedByPush ==
  ASSUME TypeOK, NEW i \in Processes, Push(i), NEW q \in Params
  PROVE  /\ Times(q)' = IF q = Job(i).params THEN Times(q) \cup {clock} ELSE Times(q)
         /\ q # Job(i).params => Pushed(q)' = Pushed(q)
         /\ Times(q) = {} /\ q = Job(i).params => \A d, e \in Pushed(q)' : d = e
  <1> DEFINE new == [params |-> Job(i).params, time |-> clock]
  <1>1. pushed' = pushed \cup {new}
    BY DEF Push
  <1>2. Pushed(q)' = IF q = Job(i).params THEN Pushed(q) \cup {new} ELSE Pushed(q)
    BY <1>1 DEF Pushed
  <1>3. Times(q)' = {e.time : e \in Pushed(q)'}
    BY DEF Times
  <1>4. Times(q) = {} => Pushed(q) = {}
    BY DEF Times
  <1>5. CASE q = Job(i).params
    <2>1. Pushed(q)' = Pushed(q) \cup {new} /\ new.time = clock
      BY <1>2, <1>5
    <2>2. Times(q)' = Times(q) \cup {clock}
      BY <1>3, <2>1 DEF Times
    <2>3. QED
      BY <1>4, <1>5, <2>1, <2>2
  <1>6. CASE q # Job(i).params
    BY <1>2, <1>3, <1>6 DEF Times
  <1>7. QED
    BY <1>5, <1>6

(* The steps that touch neither the table nor the queue *)
Quiet(i) ==
    \/ Begin(i) \/ Lock(i) \/ SkipKnown(i) \/ CommitInvalid(i) \/ Accept(i)
    \/ Refuse(i) \/ DryRun(i) \/ StartInserting(i) \/ RecordExists(i)
    \/ Done(i) \/ Die(i)

LEMMA QuietFacts ==
  ASSUME TypeOK, CallKnows, NEW i \in Processes, Quiet(i)
  PROVE  /\ UNCHANGED <<table, pushed, forced, late, now>> /\ cut \subseteq cut'
         /\ ~Inserting(i)'
         /\ Inserting(i) => Job(i).params \in cut'
         /\ jobs'[i] = jobs[i] \/ jobs'[i] = <<>> \/ Accept(i)
  <1> USE DEF TypeOK, Goto, Inserting
  <1>1. CASE Begin(i) \/ Lock(i) \/ SkipKnown(i) \/ StartInserting(i)
    BY <1>1 DEF Begin, Lock, SkipKnown, StartInserting, stateVars, auxVars
  <1>2. CASE Accept(i)
    BY <1>2 DEF Accept, stateVars, auxVars
  <1>3. CASE CommitInvalid(i) \/ Refuse(i) \/ DryRun(i) \/ Done(i)
    BY <1>3 DEF CommitInvalid, Refuse, DryRun, Done, Finish, auxVars
  <1>4. CASE RecordExists(i) \/ Die(i)
    BY <1>4 DEF RecordExists, Die, Finish
  <1>5. QED
    BY <1>1, <1>2, <1>3, <1>4 DEF Quiet

LEMMA Steps ==
  ASSUME [Next]_vars
  PROVE  \/ \E i \in Processes : Quiet(i) \/ Push(i) \/ Unlist(i) \/ Record(i)
         \/ UNCHANGED vars
  BY DEF Next, Step, Quiet

LEMMA LateStep ==
  ASSUME TypeOK, CallKnows, LateAreKnown, [Next]_vars
  PROVE  LateAreKnown'
  <1>1. ASSUME NEW i \in Processes, Quiet(i) \/ Push(i) \/ Unlist(i) \/ Record(i)
        PROVE  LateAreKnown'
    <2>1. Others(i) /\ late \subseteq late'
      BY <1>1, OthersUnchanged, OnlyGrows DEF Quiet, Step, Next
    <2>2. ASSUME Inserting(i)', num'[i] > 1 PROVE Job(i)'.params \in late'
      <3>1. CASE Quiet(i)
        BY <2>2, <3>1, QuietFacts
      <3>2. CASE Push(i)
        <4>1. num[i] > 0
          BY <2>2, <3>2 DEF Push, TypeOK
        <4>2. QED
          BY <3>2, <4>1 DEF Push, Job
      <3>3. CASE Unlist(i)
        BY <2>2, <3>3 DEF Unlist, Job, LateAreKnown, Inserting, auxVars
      <3>4. CASE Record(i)
        BY <2>2, <3>4 DEF Record, Inserting, Goto, TypeOK
      <3>5. QED
        BY <1>1, <3>1, <3>2, <3>3, <3>4
    <2>3. QED
      BY <2>1, <2>2 DEF Others, LateAreKnown, Inserting, Job
  <1>2. CASE UNCHANGED vars
    BY <1>2 DEF vars, stateVars, callVars, auxVars, LateAreKnown, Inserting, Job
  <1>3. QED
    BY <1>1, <1>2, Steps

LEMMA RefusalStep ==
  ASSUME TypeOK, CallKnows, RefusalInsertsNothing, [Next]_vars
  PROVE  RefusalInsertsNothing'
  <1> USE DEF TypeOK, CallKnows, Outcomes
  <1>1. ASSUME NEW i \in Processes, Begin(i) \/ Step(i) \/ Die(i)
        PROVE  RefusalInsertsNothing'
    <2>1. Others(i)
      BY <1>1, OthersUnchanged
    <2>2. outcome'[i] \in {"already_inserted", "invalid_commit"} => num'[i] = 0
      BY <1>1 DEF RefusalInsertsNothing, Begin, Step, Lock, SkipKnown, CommitInvalid,
           Accept, Refuse, DryRun, StartInserting, Push, Unlist, Record, RecordExists,
           Done, Die, Finish
    <2>3. QED
      BY <2>1, <2>2 DEF Others, RefusalInsertsNothing
  <1>2. CASE UNCHANGED vars
    BY <1>2 DEF vars, callVars, RefusalInsertsNothing
  <1>3. QED
    BY <1>1, <1>2 DEF Next

LEMMA TimesStep ==
  ASSUME TypeOK, CallKnows, TimesWerePushed, ListedWereInserted, [Next]_vars
  PROVE  TimesWerePushed'
  <1> DEFINE Mine(j) ==
        /\ \A n \in DOMAIN jobs[j] : jobs[j][n].times \subseteq Times(jobs[j][n].params)
        /\ Inserting(j) => now[j] \in Times(Job(j).params)
  <1> TimesWerePushed <=> \A j \in Processes : Mine(j)
    BY DEF TimesWerePushed
  <1>0. \A q : Times(q) \subseteq Times(q)'
    BY OnlyGrows DEF Times, Pushed
  <1>1. ASSUME NEW i \in Processes, Quiet(i) \/ Push(i) \/ Unlist(i) \/ Record(i)
        PROVE  TimesWerePushed'
    <2>1. Others(i)
      BY <1>1, OthersUnchanged DEF Quiet, Step
    <2>2. ASSUME NEW j \in Processes \ {i} PROVE Mine(j)'
      BY <2>1, <1>0 DEF Others, TimesWerePushed, Inserting, Job
    <2>3. CASE Accept(i)
      <3> DEFINE e == [params |-> Head(todo[i]), times |-> table[Head(todo[i])]]
      <3>1. jobs'[i] = Append(jobs[i], e) /\ ~Inserting(i)'
        BY <2>3 DEF Accept, TypeOK, Inserting
      <3>2. Head(todo[i]) \in Params /\ e \in JobType
        BY <2>3, HeadIsElement DEF Accept, JobType, TypeOK
      <3>3. jobs[i] \in Seq(JobType)
        BY DEF TypeOK
      <3>4. e.times \subseteq Times(e.params)
        BY <3>2 DEF ListedWereInserted
      <3>5. Mine(i)'
        BY <3>1, <3>2, <3>3, <3>4, <1>0, AppendElements DEF TimesWerePushed
      <3>6. QED
        BY <2>2, <3>5 DEF TimesWerePushed
    <2>4. CASE Quiet(i) /\ ~Accept(i)
      <3>1. Mine(i)'
        BY <2>4, <1>0, QuietFacts DEF TimesWerePushed
      <3>2. QED
        BY <2>2, <3>1 DEF TimesWerePushed
    <2>5. CASE Push(i)
      <3>1. jobs'[i] = jobs[i] /\ now'[i] = clock /\ jobs[i] # <<>>
        BY <2>5 DEF Push, TypeOK
      <3> PICK p \in Params : p = Job(i).params
        BY <3>1, JobFacts
      <3>a. p = Job(i)'.params
        BY <3>1 DEF Job
      <3>b. clock \in Times(p)'
        BY <2>5, PushedByPush
      <3>2. clock \in Times(Job(i).params)'
        BY <3>a, <3>b DEF Times, Pushed
      <3>3. Mine(i)'
        BY <3>1, <3>2, <1>0 DEF TimesWerePushed, Job
      <3>4. QED
        BY <2>2, <3>3 DEF TimesWerePushed
    <2>6. CASE Unlist(i)
      <3>1. Mine(i)'
        BY <2>6, <1>0 DEF Unlist, TimesWerePushed, Inserting, Job
      <3>2. QED
        BY <2>2, <3>1 DEF TimesWerePushed
    <2>7. CASE Record(i)
      <3>1. jobs'[i] = Tail(jobs[i]) /\ ~Inserting(i)' /\ jobs[i] # <<>>
        BY <2>7 DEF Record, TypeOK, Goto, Inserting, CallKnows
      <3>2. Mine(i)'
        BY <3>1, <1>0, JobFacts DEF TimesWerePushed
      <3>3. QED
        BY <2>2, <3>2 DEF TimesWerePushed
    <2>8. QED
      BY <1>1, <2>3, <2>4, <2>5, <2>6, <2>7
  <1>2. CASE UNCHANGED vars
    BY <1>2 DEF vars, stateVars, callVars, TimesWerePushed, Inserting, Job, Times, Pushed
  <1>3. QED
    BY <1>1, <1>2, Steps

LEMMA ListedStep ==
  ASSUME TypeOK, CallKnows, TimesWerePushed, ListedWereInserted, [Next]_vars
  PROVE  ListedWereInserted'
  <1>0. \A q : Times(q) \subseteq Times(q)'
    BY OnlyGrows DEF Times, Pushed
  <1>1. ASSUME NEW i \in Processes, Quiet(i) \/ Push(i)
        PROVE  ListedWereInserted'
    <2>1. table' = table
      BY <1>1, QuietFacts DEF Push
    <2>2. QED
      BY <1>0, <2>1 DEF ListedWereInserted
  <1>2. ASSUME NEW i \in Processes, Unlist(i)
        PROVE  ListedWereInserted'
    BY <1>0, <1>2 DEF Unlist, ListedWereInserted, TypeOK
  <1>3. ASSUME NEW i \in Processes, Record(i)
        PROVE  ListedWereInserted'
    <2>1. Job(i).times \cup {now[i]} \subseteq Times(Job(i).params)
      BY <1>3, JobFacts DEF Record, Inserting, CallKnows, TimesWerePushed
    <2>2. QED
      BY <1>0, <1>3, <2>1 DEF Record, ListedWereInserted, TypeOK
  <1>4. CASE UNCHANGED vars
    BY <1>0, <1>4 DEF vars, stateVars, ListedWereInserted
  <1>5. QED
    BY <1>1, <1>2, <1>3, <1>4, Steps

LEMMA ReadStep ==
  ASSUME TypeOK, LockUntilFirstRecord, CallKnows, LateAreKnown, ReadIsTrue, [Next]_vars
  PROVE  ReadIsTrue'
  <1> DEFINE Reads(j) ==
        First(j) /\ ~Inserting(j) =>
          \A n \in DOMAIN jobs[j] :
            \/ jobs[j][n].params \in cut \cup late
            \/ jobs[j][n].times = table[jobs[j][n].params]
  <1>r. (\A j \in Processes : Reads(j)') => ReadIsTrue'
    BY DEF ReadIsTrue
  <1>0. cut \subseteq cut' /\ late \subseteq late'
    BY OnlyGrows
  <1>1. ASSUME NEW i \in Processes, Quiet(i) \/ Push(i)
        PROVE  ReadIsTrue'
    <2>1. Others(i) /\ table' = table
      BY <1>1, OthersUnchanged, QuietFacts DEF Quiet, Step, Push
    <2>2. ASSUME NEW j \in Processes \ {i} PROVE Reads(j)'
      BY <2>1, <1>0 DEF Others, ReadIsTrue, First, Inserting
    <2>3. CASE Push(i)
      <3>1. Inserting(i)'
        BY <2>3 DEF Push, Goto, TypeOK, Inserting
      <3>2. QED
        BY <1>r, <2>2, <3>1
    <2>4. CASE Accept(i)
      <3> DEFINE e == [params |-> Head(todo[i]), times |-> table[Head(todo[i])]]
      <3>1. jobs'[i] = Append(jobs[i], e) /\ First(i) /\ ~Inserting(i)
        BY <2>4 DEF Accept, TypeOK, Inserting, First
      <3>2. Head(todo[i]) \in Params /\ e \in JobType
        BY <2>4, HeadIsElement DEF Accept, JobType, TypeOK
      <3>3. jobs[i] \in Seq(JobType)
        BY DEF TypeOK
      <3>4. \A n \in DOMAIN jobs'[i] : \/ n \in DOMAIN jobs[i] /\ jobs'[i][n] = jobs[i][n]
                                       \/ jobs'[i][n] = e
        BY <3>1, <3>2, <3>3, AppendElements
      <3>5. e.times = table'[e.params]
        BY <2>1
      <3>6. Reads(i)'
        BY <2>1, <3>1, <3>4, <3>5, <1>0 DEF ReadIsTrue
      <3>7. QED
        BY <1>r, <2>2, <3>6
    <2>5. CASE Quiet(i) /\ jobs'[i] = <<>>
      BY <1>r, <2>2, <2>5
    <2>6. CASE Quiet(i) /\ jobs'[i] = jobs[i] /\ jobs[i] # <<>> /\ ~Accept(i)
      <3>1. First(i)' => First(i) /\ ~Inserting(i)
        BY <2>6 DEF Quiet, Begin, Lock, SkipKnown, CommitInvalid, Refuse, DryRun,
             StartInserting, RecordExists, Done, Die, Finish, Goto, TypeOK, First,
             Inserting, CallKnows
      <3>2. Reads(i)'
        BY <2>1, <2>6, <3>1, <1>0 DEF ReadIsTrue
      <3>3. QED
        BY <1>r, <2>2, <3>2
    <2>7. QED
      BY <1>1, <2>3, <2>4, <2>5, <2>6, QuietFacts
  <1>2. ASSUME NEW i \in Processes, Unlist(i) \/ Record(i)
        PROVE  ReadIsTrue'
    <2>1. Others(i) /\ Inserting(i)
      BY <1>2, OthersUnchanged DEF Step, Unlist, Record, Inserting
    <2>2. \A q \in Params : q # Job(i).params => table'[q] = table[q]
      BY <1>2 DEF Unlist, Record, TypeOK
    <2>3. ASSUME NEW j \in Processes \ {i} PROVE Reads(j)'
      <3> SUFFICES ASSUME First(j), ~Inserting(j), NEW n \in DOMAIN jobs[j]
                   PROVE  \/ jobs[j][n].params \in cut' \cup late'
                          \/ jobs[j][n].times = table'[jobs[j][n].params]
        BY <2>1 DEF Others, First, Inserting
      <3>1. lock = j
        BY DEF LockUntilFirstRecord
      <3>2. Job(i).params \in late
        BY <2>1, <3>1, LateElsewhere
      <3>a. jobs[j] \in Seq(JobType)
        BY DEF TypeOK
      <3>b. jobs[j][n] \in JobType
        BY <3>a
      <3>3. jobs[j][n].params \in Params
        BY <3>b DEF JobType
      <3>4. \/ jobs[j][n].params \in cut \cup late
            \/ jobs[j][n].times = table[jobs[j][n].params]
        BY DEF ReadIsTrue
      <3>5. CASE jobs[j][n].params = Job(i).params
        BY <3>2, <3>5, <1>0
      <3>6. CASE jobs[j][n].params # Job(i).params
        BY <2>2, <3>3, <3>4, <3>6, <1>0
      <3>7. QED
        BY <3>5, <3>6
    <2>4. Reads(i)'
      <3>1. CASE Unlist(i)
        BY <3>1 DEF Unlist, Goto, TypeOK, Inserting
      <3>2. CASE Record(i)
        <4>1. num'[i] = num[i] /\ num[i] > 0 /\ pc'[i] = "push"
          BY <2>1, <3>2 DEF Record, Goto, TypeOK, CallKnows
        <4>2. QED
          BY <4>1 DEF First, Inserting
      <3>3. QED
        BY <1>2, <3>1, <3>2
    <2>5. QED
      BY <1>r, <2>3, <2>4
  <1>3. CASE UNCHANGED vars
    BY <1>3 DEF vars, stateVars, callVars, auxVars, ReadIsTrue, First, Inserting
  <1>4. QED
    BY <1>1, <1>2, <1>3, Steps

(* What a process that inserts records: the time it pushed at and, with    *)
(* TableTellsAllInsertions, those of all pushes before                     *)
LEMMA RecordsStep ==
  ASSUME TypeOK, LockUntilFirstRecord, CallKnows, LateAreKnown, ReadIsTrue,
         RecordsWhatIsPushed, TableTellsAllInsertions, [Next]_vars
  PROVE  RecordsWhatIsPushed'
  <1> DEFINE Records(j) ==
        Inserting(j) => \/ Job(j).params \in cut \cup late
                        \/ Times(Job(j).params) = Job(j).times \cup {now[j]}
  <1>r. (\A j \in Processes : Records(j)') => RecordsWhatIsPushed'
    BY DEF RecordsWhatIsPushed
  <1>0. cut \subseteq cut' /\ late \subseteq late'
    BY OnlyGrows
  <1>1. ASSUME NEW i \in Processes, Quiet(i) \/ Unlist(i) \/ Record(i)
        PROVE  RecordsWhatIsPushed'
    <2>1. Others(i) /\ pushed' = pushed
      BY <1>1, OthersUnchanged, QuietFacts DEF Quiet, Step, Unlist, Record
    <2>2. ASSUME NEW j \in Processes \ {i} PROVE Records(j)'
      BY <2>1, <1>0 DEF Others, RecordsWhatIsPushed, Inserting, Job, Times, Pushed
    <2>3. Records(i)'
      <3>1. CASE Quiet(i)
        BY <3>1, QuietFacts
      <3>2. CASE Unlist(i)
        BY <2>1, <3>2, <1>0
        DEF Unlist, RecordsWhatIsPushed, Inserting, Job, Times, Pushed
      <3>3. CASE Record(i)
        BY <3>3 DEF Record, Goto, TypeOK, Inserting
      <3>4. QED
        BY <1>1, <3>1, <3>2, <3>3
    <2>4. QED
      BY <1>r, <2>2, <2>3
  <1>2. ASSUME NEW i \in Processes, Push(i)
        PROVE  RecordsWhatIsPushed'
    <2> PICK p \in Params : p = Job(i).params
      BY <1>2, JobFacts DEF Push
    <2>1. Others(i) /\ jobs'[i] = jobs[i] /\ jobs[i] # <<>> /\ now'[i] = clock
      BY <1>2, OthersUnchanged DEF Step, Push, TypeOK
    <2>2. CASE num[i] > 0
      <3>1. p \in late'
        BY <1>2, <2>2 DEF Push
      <3>2. ASSUME NEW j \in Processes \ {i} PROVE Records(j)'
        <4> SUFFICES ASSUME Inserting(j)
                     PROVE  \/ Job(j).params \in cut' \cup late'
                            \/ Times(Job(j).params)' = Job(j).times \cup {now[j]}
          BY <2>1 DEF Others, Inserting, Job, Times, Pushed
        <4> PICK q \in Params : q = Job(j).params
          BY JobFacts DEF CallKnows
        <4>0. Job(j)' = Job(j)
          BY <2>1 DEF Others, Job
        <4>1. CASE q = p
          BY <3>1, <4>1
        <4>2. CASE q # p
          <5>1. Times(q)' = Times(q)
            BY <1>2, <4>2, PushedByPush
          <5>2. Times(Job(j).params)' = Times(q)
            BY <4>0, <5>1 DEF Times, Pushed
          <5>3. QED
            BY <5>2, <1>0 DEF RecordsWhatIsPushed
        <4>3. QED
          BY <4>1, <4>2
      <3>3. Job(i)'.params \in late'
        BY <2>1, <3>1 DEF Job
      <3>4. Records(i)'
        BY <3>3
      <3>5. QED
        BY <1>r, <3>2, <3>4
    <2>3. CASE num[i] = 0
      <3>1. First(i) /\ ~Inserting(i) /\ lock = i
        BY <1>2, <2>3 DEF Push, First, Inserting, LockUntilFirstRecord
      <3>2. ASSUME NEW j \in Processes \ {i}, Inserting(j)
            PROVE  Job(j).params \in late
        BY <3>1, <3>2, LateElsewhere
      <3>3. ASSUME NEW j \in Processes \ {i} PROVE Records(j)'
        BY <2>1, <3>2, <1>0 DEF Others, Inserting, Job
      <3>4. p \in cut \cup late \/ Times(p) = Job(i).times
        <4>1. p \in cut \cup late \/ Job(i).times = table[p]
          BY <2>1, <3>1, JobFacts DEF ReadIsTrue
        <4>2. ASSUME NEW j \in Processes, Recording(j, p) PROVE p \in late
          BY <3>1, <3>2, <4>2 DEF Recording, Inserting
        <4>3. QED
          BY <4>1, <4>2 DEF TableTellsAllInsertions
      <3>5. Times(p)' = Times(p) \cup {clock} /\ Job(i)' = Job(i)
        BY <1>2, <2>1, PushedByPush DEF Job
      <3>6. Times(Job(i).params)' = Times(p) \cup {clock}
        BY <3>5 DEF Times, Pushed
      <3>7. Records(i)'
        BY <2>1, <3>4, <3>5, <3>6, <1>0
      <3>8. QED
        BY <1>r, <3>3, <3>7
    <2>4. QED
      BY <2>2, <2>3 DEF TypeOK
  <1>3. CASE UNCHANGED vars
    BY <1>3 DEF vars, stateVars, callVars, auxVars, RecordsWhatIsPushed, Inserting,
                Job, Times, Pushed
  <1>4. QED
    BY <1>1, <1>2, <1>3, Steps

(* A first insertion finds that nothing was pushed yet *)
LEMMA FirstPush ==
  ASSUME TypeOK, LockUntilFirstRecord, CallKnows, LateAreKnown, ReadIsTrue,
         TableTellsAllInsertions, NEW i \in Processes, Push(i), num[i] = 0,
         ~call[i].force, Job(i).params \notin cut \cup late
  PROVE  Times(Job(i).params) = {}
  <1> PICK p \in Params : p = Job(i).params
    BY JobFacts DEF Push
  <1>1. First(i) /\ ~Inserting(i) /\ lock = i /\ jobs[i] # <<>>
    BY DEF Push, First, Inserting, LockUntilFirstRecord
  <1>2. ~Recording(i, p)
    BY <1>1 DEF Recording, Inserting
  <1>3. ASSUME NEW j \in Processes \ {i}, Recording(j, p) PROVE FALSE
    BY <1>1, <1>3, LateElsewhere DEF Recording, Inserting
  <1>4. table[p] = Times(p)
    BY <1>2, <1>3 DEF TableTellsAllInsertions
  <1>5. Job(i).times = table[p]
    BY <1>1, JobFacts DEF ReadIsTrue
  <1>6. Job(i).times = {}
    BY <1>1, JobFacts DEF CallKnows
  <1>7. QED
    BY <1>4, <1>5, <1>6

LEMMA OnceStep ==
  ASSUME TypeOK, LockUntilFirstRecord, CallKnows, LateAreKnown, ReadIsTrue,
         TableTellsAllInsertions, InsertedOnceUnlessLate, [Next]_vars
  PROVE  InsertedOnceUnlessLate'
  <1>0. forced \subseteq forced' /\ cut \subseteq cut' /\ late \subseteq late'
    BY OnlyGrows
  <1>1. ASSUME pushed' = pushed PROVE InsertedOnceUnlessLate'
    BY <1>0, <1>1 DEF InsertedOnceUnlessLate, Pushed
  <1>2. ASSUME NEW i \in Processes, Push(i)
        PROVE  InsertedOnceUnlessLate'
    <2> SUFFICES ASSUME NEW q \in Params, q \notin forced' \cup cut' \cup late'
                 PROVE  \A d, e \in Pushed(q)' : d = e
      BY DEF InsertedOnceUnlessLate, Pushed
    <2>1. CASE q # Job(i).params
      BY <1>0, <1>2, <2>1, PushedByPush DEF InsertedOnceUnlessLate
    <2>2. CASE q = Job(i).params
      <3>1. ~call[i].force /\ num[i] = 0
        BY <1>2, <2>2 DEF Push, TypeOK
      <3>2. Times(q) = {}
        BY <1>0, <1>2, <2>2, <3>1, FirstPush
      <3>3. QED
        BY <1>2, <2>2, <3>2, PushedByPush
    <2>3. QED
      BY <2>1, <2>2
  <1>3. ASSUME NEW i \in Processes, Quiet(i) \/ Unlist(i) \/ Record(i)
        PROVE  pushed' = pushed
    BY <1>3, QuietFacts DEF Unlist, Record
  <1>4. QED
    BY <1>1, <1>2, <1>3, Steps DEF vars, stateVars

LEMMA TellsStep ==
  ASSUME TypeOK, CallKnows, RecordsWhatIsPushed, TableTellsAllInsertions,
         [Next]_vars
  PROVE  TableTellsAllInsertions'
  <1> DEFINE Told(q) == table[q] = Times(q) \/ \E j \in Processes : Recording(j, q)
  <1>0. cut \subseteq cut' /\ late \subseteq late'
    BY OnlyGrows
  <1>r. (\A q \in Params \ (cut' \cup late') : Told(q)') => TableTellsAllInsertions'
    BY DEF TableTellsAllInsertions
  <1>1. ASSUME NEW i \in Processes, Quiet(i) \/ Push(i) \/ Unlist(i) \/ Record(i)
        PROVE  TableTellsAllInsertions'
    <2>1. Others(i)
      BY <1>1, OthersUnchanged DEF Quiet, Step
    <2> SUFFICES ASSUME NEW q \in Params \ (cut' \cup late') PROVE Told(q)'
      BY <1>r
    <2>2. Told(q)
      BY <1>0 DEF TableTellsAllInsertions
    <2>3. ASSUME NEW j \in Processes \ {i}, Recording(j, q) PROVE Recording(j, q)'
      BY <2>1, <2>3 DEF Others, Recording, Job
    <2>4. CASE Quiet(i)
      <3>1. table' = table /\ pushed' = pushed
        BY <2>4, QuietFacts
      <3>2. ~Recording(i, q)
        BY <2>4, QuietFacts DEF Recording, Inserting
      <3>3. table'[q] = table[q] /\ Times(q)' = Times(q)
        BY <3>1 DEF Times, Pushed
      <3>4. QED
        BY <2>2, <2>3, <3>2, <3>3
    <2>5. CASE Push(i)
      <3>1. table' = table /\ pc[i] = "push" /\ pc'[i] = "unlist" /\ jobs' = jobs
        BY <2>5 DEF Push, Goto, TypeOK
      <3>2. CASE q = Job(i).params
        <4>1. Recording(i, q)'
          BY <3>1, <3>2 DEF Recording, Job
        <4>2. QED
          BY <4>1
      <3>3. CASE q # Job(i).params
        <4>1. Times(q)' = Times(q) /\ ~Recording(i, q)
          BY <2>5, <3>1, <3>3, PushedByPush DEF Recording
        <4>2. QED
          BY <2>2, <2>3, <3>1, <4>1
      <3>4. QED
        BY <3>2, <3>3
    <2>6. CASE Unlist(i)
      <3>1. pc[i] = "unlist" /\ pc'[i] = "record" /\ jobs' = jobs /\ pushed' = pushed
        BY <2>6 DEF Unlist, Goto, TypeOK
      <3>2. CASE q = Job(i).params
        <4>1. Recording(i, q)'
          BY <3>1, <3>2 DEF Recording, Job
        <4>2. QED
          BY <4>1
      <3>3. CASE q # Job(i).params
        <4>1. table'[q] = table[q] /\ ~Recording(i, q)
          BY <2>6, <3>3 DEF Unlist, TypeOK, Recording
        <4>2. Times(q)' = Times(q)
          BY <3>1 DEF Times, Pushed
        <4>3. QED
          BY <2>2, <2>3, <4>1, <4>2
      <3>4. QED
        BY <3>2, <3>3
    <2>7. CASE Record(i)
      <3>1. Inserting(i) /\ pushed' = pushed /\ jobs[i] # <<>>
        BY <2>7 DEF Record, Inserting, CallKnows
      <3>2. Times(q)' = Times(q)
        BY <3>1 DEF Times, Pushed
      <3>3. CASE q = Job(i).params
        <4>1. table'[q] = Job(i).times \cup {now[i]}
          BY <2>7, <3>3 DEF Record, TypeOK
        <4>2. Times(q) = Job(i).times \cup {now[i]}
          BY <1>0, <3>1, <3>3 DEF RecordsWhatIsPushed
        <4>3. QED
          BY <3>2, <4>1, <4>2
      <3>4. CASE q # Job(i).params
        <4>1. table'[q] = table[q] /\ ~Recording(i, q)
          BY <2>7, <3>4 DEF Record, TypeOK, Recording
        <4>2. QED
          BY <2>2, <2>3, <3>2, <4>1
      <3>5. QED
        BY <3>3, <3>4
    <2>8. QED
      BY <1>1, <2>4, <2>5, <2>6, <2>7
  <1>2. CASE UNCHANGED vars
    BY <1>2 DEF vars, stateVars, callVars, auxVars, TableTellsAllInsertions,
                Recording, Job, Times, Pushed
  <1>3. QED
    BY <1>1, <1>2, Steps

-----------------------------------------------------------------------------
(* The theorems *)

(* The invariant behind the safety properties: the lock is held exactly    *)
(* until the first record, and what a process with the lock has read of    *)
(* the table (insert_jobs.rs:106-143) is still so.                         *)
THEOREM Inductive == Spec => []IInv
  <1>1. IInv /\ [Next]_vars => IInv'
    BY TypeStep, LockStep, CallStep, LateStep, ReadStep, RecordsStep, TimesStep,
       OnceStep, TellsStep, ListedStep, RefusalStep DEF IInv
  <1>2. QED
    BY InitIInv, <1>1, PTL DEF Spec

(* Type correctness *)
THEOREM TypeCorrect == Spec => []TypeOK
  <1>1. IInv => TypeOK
    BY DEF IInv
  <1>2. QED
    BY Inductive, <1>1, PTL

(* Job parameters are inserted once, if every insertion of them is the     *)
(* first one of its call, is not forced, and is not cut off before it is   *)
(* recorded (insert_jobs.rs:106-126).                                      *)
THEOREM FirstJobsAreInsertedOnce == Spec => []InsertedOnceUnlessLate
  <1>1. IInv => InsertedOnceUnlessLate
    BY DEF IInv
  <1>2. QED
    BY Inductive, <1>1, PTL

(* The table has the times of all insertions of such parameters, even of   *)
(* the forced ones (insert_jobs.rs:177-188).                               *)
THEOREM TableIsComplete == Spec => []TableTellsAllInsertions
  <1>1. IInv => TableTellsAllInsertions
    BY DEF IInv
  <1>2. QED
    BY Inductive, <1>1, PTL

(* The table has no time at which nothing was inserted: the queue is       *)
(* written before it (insert_jobs.rs:171-188).                             *)
THEOREM TableIsTruthful == Spec => []ListedWereInserted
  <1>1. IInv => ListedWereInserted
    BY DEF IInv
  <1>2. QED
    BY Inductive, <1>1, PTL

(* The table tells of the insertions, of all, and of nothing else.         *)
THEOREM TableIsRight == Spec => []TableTellsInsertions
  <1>1. TableTellsAllInsertions /\ ListedWereInserted => TableTellsInsertions
    BY DEF TableTellsInsertions
  <1>2. QED
    BY <1>1, TableIsComplete, TableIsTruthful, PTL

(* A refused batch is not inserted in part (insert_jobs.rs:106-150).       *)
THEOREM RefusalsInsertNothing == Spec => []RefusalInsertsNothing
  <1>1. IInv => RefusalInsertsNothing
    BY DEF IInv
  <1>2. QED
    BY Inductive, <1>1, PTL

=============================================================================
