------------------------- MODULE JobResults_proofs --------------------------
(***************************************************************************)
(* Proofs about CleanupDaemon, for any number of processes and files and   *)
(* any capacity of the pipes: what a child deletes is what its process has *)
(* registered, in whatever order the two of them act.  And about           *)
(* JobResults, which implements it, for any number of daemons, runs and    *)
(* situations, any pipes, and any number of kills and failing operations.  *)
(***************************************************************************)
EXTENDS JobResults, FiniteSetTheorems, TLAPS

\* A child that was not started has nothing.
NothingBeforeStart ==
    \A p \in Processes :
        cleaner[p] = "none" => /\ p \notin open /\ pipe[p] = <<>>
                               /\ items[p] = {} /\ registered[p] = {}

CleanupInv == CleanupTypeOK /\ NothingBeforeStart /\ CleansWhatIsRegistered

-----------------------------------------------------------------------------
(* What the messages in a pipe amount to.                                  *)

\* An empty pipe changes nothing.
LEMMA EmptyPipe ==
  ASSUME NEW p, NEW f, pipe[p] = <<>>
  PROVE  WillClean(p, f) <=> f \in items[p]
  <1>1. Len(pipe[p]) = 0
    OBVIOUS
  <1>2. About(p, f) = {}
    BY <1>1 DEF About
  <1>3. QED
    BY <1>2 DEF WillClean

\* The message sent last decides about its file, and about no other one.
LEMMA LastMessageDecides ==
  ASSUME CleanupTypeOK, NEW p \in Processes, NEW op \in {"Add", "Cancel"},
         NEW f \in Items, NEW g \in Items, Send(p, op, f),
         UNCHANGED items
  PROVE  WillClean(p, g)' <=> IF g = f THEN op = "Add" ELSE WillClean(p, g)
  <1> DEFINE n == Len(pipe[p])
             m == [op |-> op, item |-> f]
  <1>1. /\ pipe[p] \in Seq(Message) /\ m \in Message /\ n \in Nat
        /\ pipe'[p] = Append(pipe[p], m)
    <2>1. pipe \in [Processes -> Seq(Message)]
      BY DEF CleanupTypeOK
    <2>2. pipe[p] \in Seq(Message) /\ n \in Nat
      BY <2>1
    <2>3. m \in Message
      BY DEF Message
    <2>4. pipe'[p] = Append(pipe[p], m)
      BY <2>1 DEF Send
    <2>5. QED
      BY <2>2, <2>3, <2>4
  <1>2. /\ Len(pipe'[p]) = n + 1 /\ pipe'[p][n + 1] = m
        /\ \A k \in 1 .. n : pipe'[p][k] = pipe[p][k]
    BY <1>1
  <1>3. CASE g = f
    <2>1. n + 1 \in About(p, g)' /\ \A l \in About(p, g)' : l <= n + 1
      BY <1>1, <1>2, <1>3 DEF About
    <2>2. ASSUME NEW k \in About(p, g)', \A l \in About(p, g)' : l <= k
          PROVE  k = n + 1
      BY <1>1, <1>2, <2>1, <2>2 DEF About
    <2>3. pipe'[p][n + 1].op = op
      BY <1>2
    <2>4. QED
      BY <1>3, <2>1, <2>2, <2>3 DEF WillClean
  <1>4. CASE g # f
    <2>1. About(p, g)' = About(p, g)
      BY <1>1, <1>2, <1>4 DEF About
    <2>2. \A k \in About(p, g) : pipe'[p][k] = pipe[p][k]
      BY <1>2 DEF About
    <2>3. QED
      BY <1>4, <2>1, <2>2 DEF WillClean
  <1>5. QED
    BY <1>3, <1>4

\* Reading a message changes nothing of what it all amounts to.
LEMMA ReadingKeepsTheMeaning ==
  ASSUME CleanupTypeOK, NEW p \in Processes, NEW g \in Items, ReadMessage(p)
  PROVE  WillClean(p, g)' <=> WillClean(p, g)
  <1> DEFINE n == Len(pipe[p])
             m == pipe[p][1]
  <1>1. /\ pipe[p] \in Seq(Message) /\ pipe[p] # <<>> /\ n \in Nat /\ n >= 1
        /\ pipe'[p] = Tail(pipe[p])
    BY DEF CleanupTypeOK, ReadMessage
  <1>2. /\ Len(pipe'[p]) = n - 1 /\ Head(pipe[p]) = m
        /\ \A k \in 1 .. n - 1 : pipe'[p][k] = pipe[p][k + 1]
    BY <1>1
  <1>3. \A k : k \in About(p, g)' <=> k \in 1 .. n - 1 /\ k + 1 \in About(p, g)
    BY <1>1, <1>2 DEF About
  <1>4. g \in items'[p] <=> IF m.item = g THEN m.op = "Add" ELSE g \in items[p]
    <2>1. m \in Message
      BY <1>1
    <2>2. items'[p] = IF m.op = "Add" THEN items[p] \cup {m.item}
                                      ELSE items[p] \ {m.item}
      BY <1>2 DEF ReadMessage, CleanupTypeOK
    <2>3. QED
      BY <2>2
  <1>5. CASE About(p, g)' = {}
    <2>1. ASSUME NEW k \in About(p, g)
          PROVE  k = 1
      <3>1. k \in 1 .. n
        BY DEF About
      <3>2. k # 1 => k - 1 \in 1 .. n - 1 /\ (k - 1) + 1 = k
        BY <1>1, <3>1
      <3>3. QED
        BY <1>3, <1>5, <3>2
    <2>2. 1 \in About(p, g) <=> m.item = g
      BY <1>1 DEF About
    <2>3. CASE m.item = g
      <3>1. About(p, g) = {1}
        BY <2>1, <2>2, <2>3
      <3>2. WillClean(p, g) <=> m.op = "Add"
        BY <3>1 DEF WillClean
      <3>3. QED
        BY <1>4, <1>5, <2>3, <3>2 DEF WillClean
    <2>4. CASE m.item # g
      <3>1. About(p, g) = {}
        BY <2>1, <2>2, <2>4
      <3>2. QED
        BY <1>4, <1>5, <2>4, <3>1 DEF WillClean
    <2>5. QED
      BY <2>3, <2>4
  <1>6. CASE About(p, g)' # {}
    <2>1. PICK j : j \in About(p, g)'
      BY <1>6
    <2>2. About(p, g) # {} /\ j + 1 \in About(p, g) /\ j \in 1 .. n - 1
      BY <1>3, <2>1
    <2>3. ASSUME NEW k \in About(p, g)', \A l \in About(p, g)' : l <= k,
                 pipe'[p][k].op = "Add"
          PROVE  WillClean(p, g)
      <3>1. k \in 1 .. n - 1 /\ k + 1 \in About(p, g) /\ pipe[p][k + 1].op = "Add"
        BY <1>2, <1>3, <2>3
      <3>2. ASSUME NEW l \in About(p, g)
            PROVE  l <= k + 1
        <4>1. l \in 1 .. n
          BY DEF About
        <4>2. CASE l = 1
          BY <3>1, <4>2
        <4>3. CASE l # 1
          <5>1. l - 1 \in 1 .. n - 1 /\ (l - 1) + 1 = l
            BY <1>1, <4>1, <4>3
          <5>2. l - 1 \in About(p, g)'
            BY <1>3, <5>1
          <5>3. QED
            BY <2>3, <3>1, <4>1, <5>2
        <4>4. QED
          BY <4>2, <4>3
      <3>3. QED
        BY <2>2, <3>1, <3>2 DEF WillClean
    <2>4. ASSUME NEW k \in About(p, g), \A l \in About(p, g) : l <= k,
                 pipe[p][k].op = "Add"
          PROVE  WillClean(p, g)'
      <3>1. k \in 1 .. n /\ k >= j + 1
        BY <2>2, <2>4 DEF About
      <3>2. k - 1 \in 1 .. n - 1 /\ (k - 1) + 1 = k
        BY <1>1, <2>2, <3>1
      <3>3. k - 1 \in About(p, g)' /\ pipe'[p][k - 1].op = "Add"
        BY <1>2, <1>3, <2>4, <3>2
      <3>4. ASSUME NEW l \in About(p, g)'
            PROVE  l <= k - 1
        <4>1. l \in 1 .. n - 1 /\ l + 1 \in About(p, g)
          BY <1>3
        <4>2. QED
          BY <2>4, <3>1, <4>1
      <3>5. QED
        BY <1>6, <3>3, <3>4 DEF WillClean
    <2>5. QED
      BY <1>6, <2>2, <2>3, <2>4 DEF WillClean
  <1>7. QED
    BY <1>5, <1>6
-----------------------------------------------------------------------------
(* The invariant.                                                          *)

LEMMA CleanupInitInv == CleanupInit => CleanupInv
  <1> SUFFICES ASSUME CleanupInit PROVE CleanupInv
    OBVIOUS
  <1>1. CleanupTypeOK
    BY DEF CleanupInit, CleanupTypeOK, CleanerStates
  <1>2. NothingBeforeStart
    BY DEF CleanupInit, NothingBeforeStart
  <1>3. CleansWhatIsRegistered
    BY DEF CleanupInit, CleansWhatIsRegistered
  <1>4. QED
    BY <1>1, <1>2, <1>3 DEF CleanupInv

LEMMA CleanupTypeStep ==
  ASSUME CleanupTypeOK, [CleanupNext]_cleanupVars
  PROVE  CleanupTypeOK'
  <1> USE DEF CleanupTypeOK, CleanerStates
  <1>1. CASE UNCHANGED cleanupVars
    BY <1>1 DEF cleanupVars
  <1>2. ASSUME NEW p \in Processes,
               StartCleaner(p) \/ ProcessEnds(p) \/ SeeEnd(p) \/ CleanerEnds(p)
               \/ CleanerDies(p)
        PROVE  CleanupTypeOK'
    BY <1>2 DEF StartCleaner, ProcessEnds, SeeEnd, CleanerEnds, CleanerDies
  <1>3. ASSUME NEW p \in Processes, ReadMessage(p)
        PROVE  CleanupTypeOK'
    <2>1. Head(pipe[p]) \in Message /\ Tail(pipe[p]) \in Seq(Message)
      BY <1>3 DEF ReadMessage
    <2>2. Head(pipe[p]).item \in Items
      BY <2>1 DEF Message
    <2>3. QED
      BY <1>3, <2>1, <2>2 DEF ReadMessage
  <1>4. ASSUME NEW p \in Processes, NEW f \in Items,
               RegisterCleanup(p, f) \/ CancelCleanup(p, f)
        PROVE  CleanupTypeOK'
    <2>1. ASSUME NEW op \in {"Add", "Cancel"}, Send(p, op, f)
          PROVE  pipe' \in [Processes -> Seq(Message)]
      <3>1. [op |-> op, item |-> f] \in Message
        BY DEF Message
      <3>2. Append(pipe[p], [op |-> op, item |-> f]) \in Seq(Message)
        BY <3>1
      <3>3. QED
        BY <2>1, <3>2 DEF Send
    <2>2. QED
      BY <1>4, <2>1 DEF RegisterCleanup, CancelCleanup
  <1>5. ASSUME NEW p \in Processes, NEW f \in Items, CleanItem(p, f)
        PROVE  CleanupTypeOK'
    BY <1>5 DEF CleanItem
  <1>6. QED
    BY <1>1, <1>2, <1>3, <1>4, <1>5 DEF CleanupNext

\* Nothing of another process is touched.
LEMMA OthersAreUntouched ==
  ASSUME NEW p, NEW q \in Processes, NEW g, pipe'[q] = pipe[q], items'[q] = items[q]
  PROVE  WillClean(q, g)' <=> WillClean(q, g)
  <1>1. About(q, g)' = About(q, g)
    BY DEF About
  <1>2. QED
    BY <1>1 DEF WillClean

\* What the invariant says of one file of one process.
CleansOne(p, f) ==
    /\ cleaner[p] = "reads" => (WillClean(p, f) <=> f \in registered[p])
    /\ cleaner[p] \in {"cleans", "ended"} /\ f \in items[p] => f \in registered[p]

LEMMA CleansStep ==
  ASSUME CleanupInv, [CleanupNext]_cleanupVars,
         NEW q \in Processes, NEW g \in Items
  PROVE  CleansOne(q, g)'
  <1> USE DEF CleanupTypeOK
  <1>0. CleansOne(q, g) /\ CleanupTypeOK
    BY DEF CleanupInv, CleansWhatIsRegistered, CleansOne
  <1>1. ASSUME UNCHANGED <<pipe[q], items[q], cleaner[q], registered[q]>>
        PROVE  CleansOne(q, g)'
    BY <1>0, <1>1, OthersAreUntouched DEF CleansOne
  <1>2. ASSUME NEW p \in Processes, StartCleaner(p) \/ ProcessEnds(p)
        PROVE  CleansOne(q, g)'
    <2>1. WillClean(q, g)' <=> WillClean(q, g)
      BY <1>2, OthersAreUntouched DEF StartCleaner, ProcessEnds
    <2>2. CASE cleaner[q] = "none"
      <3>1. pipe[q] = <<>> /\ items[q] = {} /\ registered[q] = {}
        BY <2>2 DEF CleanupInv, NothingBeforeStart
      <3>2. ~WillClean(q, g)
        BY <3>1, EmptyPipe
      <3>3. QED
        BY <1>2, <2>1, <3>1, <3>2 DEF CleansOne, StartCleaner, ProcessEnds
    <2>3. CASE cleaner[q] # "none"
      BY <1>0, <1>2, <2>1, <2>3 DEF CleansOne, StartCleaner, ProcessEnds
    <2>4. QED
      BY <2>2, <2>3
  <1>3. ASSUME NEW p \in Processes, ReadMessage(p)
        PROVE  CleansOne(q, g)'
    <2>1. CASE q = p
      <3>1. WillClean(q, g)' <=> WillClean(q, g)
        BY <1>0, <1>3, <2>1, ReadingKeepsTheMeaning
      <3>2. QED
        BY <1>0, <1>3, <2>1, <3>1 DEF CleansOne, ReadMessage
    <2>2. CASE q # p
      BY <1>0, <1>1, <1>3, <2>2 DEF ReadMessage
    <2>3. QED
      BY <2>1, <2>2
  <1>4. ASSUME NEW p \in Processes, SeeEnd(p)
        PROVE  CleansOne(q, g)'
    <2>1. CASE q = p
      <3>1. g \in items[q] <=> g \in registered[q]
        BY <1>0, <1>4, <2>1, EmptyPipe DEF CleansOne, SeeEnd
      <3>2. QED
        BY <1>0, <1>4, <2>1, <3>1 DEF CleansOne, SeeEnd
    <2>2. CASE q # p
      BY <1>0, <1>1, <1>4, <2>2 DEF SeeEnd
    <2>3. QED
      BY <2>1, <2>2
  <1>5. ASSUME NEW p \in Processes, CleanerEnds(p) \/ CleanerDies(p)
        PROVE  CleansOne(q, g)'
    <2>1. CASE q = p
      BY <1>0, <1>5, <2>1 DEF CleansOne, CleanerEnds, CleanerDies
    <2>2. CASE q # p
      BY <1>0, <1>1, <1>5, <2>2 DEF CleanerEnds, CleanerDies
    <2>3. QED
      BY <2>1, <2>2
  <1>6. ASSUME NEW p \in Processes, NEW f \in Items, CleanItem(p, f)
        PROVE  CleansOne(q, g)'
    <2>1. CASE q = p
      BY <1>0, <1>6, <2>1 DEF CleansOne, CleanItem
    <2>2. CASE q # p
      BY <1>0, <1>1, <1>6, <2>2 DEF CleanItem
    <2>3. QED
      BY <2>1, <2>2
  <1>7. ASSUME NEW p \in Processes, NEW f \in Items, RegisterCleanup(p, f)
        PROVE  CleansOne(q, g)'
    <2>1. CASE q = p
      <3>1. WillClean(q, g)' <=> IF g = f THEN TRUE ELSE WillClean(q, g)
        BY <1>0, <1>7, <2>1, LastMessageDecides DEF RegisterCleanup
      <3>2. QED
        BY <1>0, <1>7, <2>1, <3>1 DEF CleansOne, RegisterCleanup, Send, CanSend
    <2>2. CASE q # p
      BY <1>0, <1>1, <1>7, <2>2 DEF RegisterCleanup, Send
    <2>3. QED
      BY <2>1, <2>2
  <1>8. ASSUME NEW p \in Processes, NEW f \in Items, CancelCleanup(p, f)
        PROVE  CleansOne(q, g)'
    <2>1. CASE q = p
      <3>1. WillClean(q, g)' <=> IF g = f THEN FALSE ELSE WillClean(q, g)
        BY <1>0, <1>8, <2>1, LastMessageDecides DEF CancelCleanup
      <3>2. QED
        BY <1>0, <1>8, <2>1, <3>1 DEF CleansOne, CancelCleanup, Send, CanSend
    <2>2. CASE q # p
      BY <1>0, <1>1, <1>8, <2>2 DEF CancelCleanup, Send
    <2>3. QED
      BY <2>1, <2>2
  <1>9. CASE UNCHANGED cleanupVars
    BY <1>1, <1>9 DEF cleanupVars
  <1>10. QED
    BY <1>2, <1>3, <1>4, <1>5, <1>6, <1>7, <1>8, <1>9 DEF CleanupNext

LEMMA CleanupStepInv ==
  ASSUME CleanupInv, [CleanupNext]_cleanupVars
  PROVE  CleanupInv'
  <1>1. CleanupTypeOK'
    BY CleanupTypeStep DEF CleanupInv
  <1>2. NothingBeforeStart'
    <2> USE DEF CleanupInv, CleanupTypeOK, NothingBeforeStart
    <2>1. CASE UNCHANGED cleanupVars
      BY <2>1 DEF cleanupVars
    <2>2. ASSUME NEW p \in Processes, StartCleaner(p) \/ ProcessEnds(p)
          PROVE  NothingBeforeStart'
      BY <2>2 DEF StartCleaner, ProcessEnds
    <2>3. ASSUME NEW p \in Processes,
                 ReadMessage(p) \/ SeeEnd(p) \/ CleanerEnds(p) \/ CleanerDies(p)
          PROVE  NothingBeforeStart'
      BY <2>3 DEF ReadMessage, SeeEnd, CleanerEnds, CleanerDies
    <2>4. ASSUME NEW p \in Processes, NEW f \in Items,
                 RegisterCleanup(p, f) \/ CancelCleanup(p, f) \/ CleanItem(p, f)
          PROVE  NothingBeforeStart'
      BY <2>4 DEF RegisterCleanup, CancelCleanup, CleanItem, Send, CanSend
    <2>5. QED
      BY <2>1, <2>2, <2>3, <2>4 DEF CleanupNext
  <1>3. CleansWhatIsRegistered'
    BY CleansStep DEF CleansWhatIsRegistered, CleansOne
  <1>4. QED
    BY <1>1, <1>2, <1>3 DEF CleanupInv

\* However the sending and ending of processes and the reading and deleting of
\* their children interleave, a child is about to delete just what its process
\* has registered and not cancelled.
THEOREM CleaningIsRegistered == CleanupSpec => []CleansWhatIsRegistered
  <1>1. CleanupInv => CleansWhatIsRegistered
    BY DEF CleanupInv
  <1>2. QED
    BY CleanupInitInv, CleanupStepInv, <1>1, PTL DEF CleanupSpec

-----------------------------------------------------------------------------
(* The daemon and its jobs.                                                *)

Drops == [op : {"delete", "cancel"}, file : Files]

\* Where the daemon is tells what it knows.
Located ==
    /\ pc \in {"down", "execs", "locked"} => open = {}
    /\ pc # "down" => newest \in Processes /\ pid[newest] \in Processes
    /\ pc \notin {"down", "execs", "locked", "idle"} => run \in Runs

Typed == TypeOK /\ wrote \in [Runs -> SUBSET Files] /\ Located

LEMMA Numbers == /\ Runs \subseteq Nat \ {0} /\ Processes \subseteq Nat \ {0}
                 /\ Items = Files
  <1>1. Cardinality(Runs) \in Nat /\ Cardinality(Processes) \in Nat
    BY FilesAssumption, FS_CardinalityType
  <1>2. QED
    BY <1>1, FilesAssumption

-----------------------------------------------------------------------------
(* Files and destructors.                                                  *)

LEMMA FilesAreFiles ==
  /\ \A id \in Processes : EvobenchLog(id) \in Files /\ BenchOutput(id) \in Files
  /\ \A r \in Runs : Standard(r) \in Files
  /\ \A r \in Runs, name \in RunFiles : RunFile(r, name) \in Files
  BY DEF Files, RunFile

\* Two destructor steps of one file.
LEMMA DropOpsType ==
  ASSUME NEW f \in Files
  PROVE  /\ DropOps(f) \in Seq(Drops)
         /\ \A k \in 1 .. Len(DropOps(f)) : DropOps(f)[k].file = f
  <1>1. [op |-> "delete", file |-> f] \in Drops /\ [op |-> "cancel", file |-> f] \in Drops
    BY DEF Drops
  <1>2. QED
    BY <1>1 DEF DropOps

LEMMA Concatenation ==
  ASSUME NEW s \in Seq(Drops), NEW t \in Seq(Drops), NEW k \in 1 .. Len(s \o t)
  PROVE  \/ \E i \in 1 .. Len(s) : (s \o t)[k] = s[i]
         \/ \E i \in 1 .. Len(t) : (s \o t)[k] = t[i]
  <1>1. CASE k <= Len(s)
    BY <1>1
  <1>2. CASE k > Len(s)
    <2>1. k - Len(s) \in 1 .. Len(t) /\ (s \o t)[k] = t[k - Len(s)]
      BY <1>2
    <2>2. QED
      BY <2>1
  <1>3. QED
    BY <1>1, <1>2

\* What is dropped at the end of run_job are the temporary files.
LEMMA DropAllType ==
  ASSUME temps \in SUBSET Files
  PROVE  /\ DropAll \in Seq(Drops)
         /\ \A k \in 1 .. Len(DropAll) : DropAll[k].file \in temps
  <1> DEFINE Part(f) == IF f \in temps THEN DropOps(f) ELSE <<>>
  <1>1. ASSUME NEW f
        PROVE  /\ Part(f) \in Seq(Drops)
               /\ \A k \in 1 .. Len(Part(f)) : Part(f)[k].file \in temps
    <2>1. CASE f \in temps
      BY <2>1, DropOpsType
    <2>2. CASE f \notin temps
      <3>1. Part(f) = <<>>
        BY <2>2
      <3>2. <<>> \in Seq(Drops) /\ 1 .. Len(<<>>) = {}
        OBVIOUS
      <3>3. Part(f) \in Seq(Drops) /\ 1 .. Len(Part(f)) = {}
        BY ONLY <3>1, <3>2
      <3>4. QED
        BY ONLY <3>3
    <2>3. QED
      BY <2>1, <2>2
  <1> HIDE DEF Part
  <1>2. ASSUME NEW s \in Seq(Drops), NEW t \in Seq(Drops),
               \A k \in 1 .. Len(s) : s[k].file \in temps,
               \A k \in 1 .. Len(t) : t[k].file \in temps
        PROVE  /\ s \o t \in Seq(Drops)
               /\ \A k \in 1 .. Len(s \o t) : (s \o t)[k].file \in temps
    BY <1>2, Concatenation
  <1> DEFINE a == Part(Standard(run))
             b == Part(BenchOutput(Id))
             c == Part(EvobenchLog(Id))
  <1>3. DropAll = (a \o b) \o c
    BY DEF DropAll, Part
  <1>4. /\ a \o b \in Seq(Drops)
        /\ \A k \in 1 .. Len(a \o b) : (a \o b)[k].file \in temps
    BY <1>1, <1>2
  <1>5. /\ (a \o b) \o c \in Seq(Drops)
        /\ \A k \in 1 .. Len((a \o b) \o c) : ((a \o b) \o c)[k].file \in temps
    BY <1>1, <1>2, <1>4
  <1>6. QED
    BY <1>3, <1>5
-----------------------------------------------------------------------------
(* Every step of the daemons and their children is one of CleanupDaemon.   *)

LEMMA Names ==
  ASSUME Typed
  PROVE  /\ pc # "down" => Id \in Processes
         /\ todo # <<>> => Head(todo) \in Drops /\ Tail(todo) \in Seq(Drops)
         /\ todo # <<>> => SubSeq(todo, 3, Len(todo)) \in Seq(Drops)
  <1>1. pc # "down" => Id \in Processes
    BY DEF Typed, Located, Id
  <1>2. todo \in Seq(Drops)
    BY DEF Typed, TypeOK, Drops
  <1>3. todo # <<>> => SubSeq(todo, 3, Len(todo)) \in Seq(Drops)
    <2>1. ASSUME NEW i \in 3 .. Len(todo)
          PROVE  todo[i] \in Drops
      BY <1>2, <2>1
    <2>2. QED
      BY <1>2
  <1>4. QED
    BY <1>1, <1>2, <1>3

LEMMA EveryStepCleans ==
  ASSUME Typed, [Next]_vars
  PROVE  [CleanupNext]_cleanupVars
  <1> USE Names, Numbers, FilesAreFiles DEF cleaning, cleanupVars
  <1>0. cleaning = cleanupVars
    OBVIOUS
  <1>1. CASE UNCHANGED vars
    BY <1>1 DEF vars
  <1>2. CASE Start \/ ChooseRun \/ RemoveStale \/ StartProgram
    BY <1>2 DEF Start, ChooseRun, RemoveStale, StartProgram
  <1>3. CASE StartHandler \/ Return(TRUE) \/ Return(FALSE) \/ Killed
    <2>1. newest \in Processes
      BY <1>3 DEF StartHandler, Return, Killed, Alive, Typed, Located
    <2>2. QED
      BY <1>3, <2>1 DEF StartHandler, Return, Killed, CleanupNext
  <1>4. CASE DropDelete \/ DropFails
    BY <1>4 DEF DropDelete, DropFails
  <1>5. CASE DropCancel
    <2>1. newest \in Processes /\ Head(todo).file \in Items
      BY <1>5 DEF DropCancel, Alive, Typed, Located, Drops
    <2>2. QED
      BY <1>5, <2>1 DEF DropCancel, CleanupNext
  <1>6. CASE RegisterLog \/ RegisterOutput \/ RegisterStandard
    <2>1. ASSUME NEW from, NEW to, NEW f \in Items, Register(from, to, f)
          PROVE  [CleanupNext]_cleanupVars
      <3>1. newest \in Processes
        BY <2>1 DEF Register, Live, Alive, Typed, Located
      <3>2. QED
        BY <2>1, <3>1 DEF Register, CleanupNext
    <2>2. CASE RegisterLog
      <3>1. EvobenchLog(Id) \in Items
        BY <2>2 DEF RegisterLog, Register
      <3>2. QED
        BY <2>1, <2>2, <3>1 DEF RegisterLog
    <2>3. CASE RegisterOutput
      <3>1. BenchOutput(Id) \in Items
        BY <2>3 DEF RegisterOutput, Register
      <3>2. QED
        BY <2>1, <2>3, <3>1 DEF RegisterOutput
    <2>4. CASE RegisterStandard
      <3>1. Standard(run) \in Items
        BY <2>4 DEF RegisterStandard, Register, Typed, Located
      <3>2. QED
        BY <2>1, <2>4, <3>1 DEF RegisterStandard
    <2>5. QED
      BY <1>6, <2>2, <2>3, <2>4
  <1>7. ASSUME NEW p \in programs, ProgramWrites(p) \/ ProgramEnds(p)
        PROVE  [CleanupNext]_cleanupVars
    BY <1>7 DEF ProgramWrites, ProgramEnds
  <1>8. CASE CompressOutput \/ NoOutput \/ CompressLog \/ CompressStandard
             \/ SaveCondition \/ Evaluate \/ Publish \/ WriteExtract \/ NoExtract
    BY <1>8 DEF CompressOutput, NoOutput, CompressLog, CompressStandard, Compress,
                SaveCondition, Evaluate, Publish, WriteExtract, NoExtract
  <1>9. CASE DropOutput \/ DropLog \/ DropStandard \/ SummarizeAll \/ RunIsDone
             \/ ExtractIsRefused \/ StepFails
    BY <1>9 DEF DropOutput, DropLog, DropStandard, DropsOne, SummarizeAll,
                RunIsDone, ExtractIsRefused, StepFails
  <1>10. ASSUME NEW st \in Situations, Summarize(st)
         PROVE  [CleanupNext]_cleanupVars
    BY <1>10 DEF Summarize
  <1>11. ASSUME NEW p \in Processes,
                ChildReads(p) \/ ChildSeesEnd(p) \/ ChildEnds(p)
                \/ \E f \in items[p] : ChildDeletes(p, f)
         PROVE  [CleanupNext]_cleanupVars
    <2>1. items[p] \subseteq Items
      BY DEF Typed, TypeOK, CleanupTypeOK
    <2>2. QED
      BY <1>11, <2>1 DEF ChildReads, ChildSeesEnd, ChildEnds, ChildDeletes, CleanupNext
  <1>12. QED
    BY <1>1, <1>2, <1>3, <1>4, <1>5, <1>6, <1>7, <1>8, <1>9, <1>10, <1>11 DEF Next
-----------------------------------------------------------------------------
(* Type correctness.                                                       *)

\* The part of Typed that is about the variables of JobResults.
Rest ==
    /\ newest \in Processes \cup {0} /\ pid \in [Processes -> Processes \cup {0}]
    /\ lock \subseteq Processes \cup {Daemon}
    /\ run \in Runs \cup {0} /\ situation \in [Runs -> Situations]
    /\ temps \subseteq Files /\ todo \in Seq(Drops)
    /\ disk \in [Files -> Contents]
    /\ programs \subseteq [run : Runs, id : Processes]
    /\ summary \in [Situations \cup {"all"} -> SUBSET Runs]
    /\ wrote \in [Runs -> SUBSET Files]
    /\ open \subseteq {newest}

LEMMA TypedParts == Typed <=> CleanupTypeOK /\ Rest /\ Located
  BY DEF Typed, TypeOK, Rest, Drops

LEMMA InitTyped == Init => Typed
  <1> SUFFICES ASSUME Init PROVE Typed
    OBVIOUS
  <1>1. CleanupTypeOK
    BY CleanupInitInv DEF Init, CleanupInv
  <1>2. Rest
    BY DEF Init, Rest, Contents, CleanupInit
  <1>3. Located
    BY DEF Init, Located, CleanupInit
  <1>4. QED
    BY <1>1, <1>2, <1>3, TypedParts

LEMMA ContentTypes ==
  /\ Absent \in Contents
  /\ \A r \in Runs, is \in {"partial", "broken", "whole"} : Holds(r, is) \in Contents
  BY DEF Contents, Holds

LEMMA PutType ==
  ASSUME Rest, NEW f \in Files, NEW c \in Contents, Put(f, c)
  PROVE  disk' \in [Files -> Contents]
  BY DEF Put, Rest

LEMMA EndsType ==
  ASSUME Rest, NEW result, Ends(result)
  PROVE  temps' \subseteq Files /\ todo' \in Seq(Drops) /\ pc' = "idle"
  BY DropAllType DEF Ends, Rest

LEMMA DaemonTyped ==
  ASSUME Typed,
         Start \/ StartHandler \/ Return(TRUE) \/ Return(FALSE) \/ Killed
  PROVE  Rest' /\ Located'
  <1> USE TypedParts, Numbers DEF Rest, Located, Daemon
  <1>1. CASE Start
    <2>1. newest + 1 # newest /\ newest' \in Processes
      BY <1>1 DEF Start
    <2>2. pid'[newest'] \in Processes
      <3>1. pid'[newest'] = IF pc = "execs" THEN Id ELSE newest + 1
        BY <1>1, <2>1 DEF Start
      <3>2. QED
        BY <1>1, <2>1, <3>1 DEF Start, Id
    <2>3. pid' \in [Processes -> Processes \cup {0}]
      BY <1>1, <2>1 DEF Start, Id
    <2>4. open = {} /\ open' = {}
      BY <1>1 DEF Start, cleaning
    <2>5. lock' \subseteq Processes \cup {Daemon} /\ pc' = "locked"
      BY <1>1 DEF Start
    <2>6. UNCHANGED <<run, situation, temps, todo, disk, programs, summary, wrote>>
      BY <1>1 DEF Start, plans, ghosts
    <2>7. QED
      BY <2>1, <2>2, <2>3, <2>4, <2>5, <2>6
  <1>2. CASE StartHandler
    BY <1>2 DEF StartHandler, StartCleaner, plans, ghosts
  <1>3. ASSUME NEW exec \in BOOLEAN, Return(exec)
        PROVE  Rest' /\ Located'
    <2>1. open' = {}
      BY <1>3 DEF Return, ProcessEnds
    <2>2. QED
      BY <1>3, <2>1 DEF Return, plans, ghosts
  <1>4. CASE Killed
    <2>1. open' = {} /\ todo' = <<>> /\ <<>> \in Seq(Drops)
      BY <1>4 DEF Killed, ProcessEnds
    <2>2. QED
      BY <1>4, <2>1 DEF Killed
  <1>5. QED
    BY <1>1, <1>2, <1>3, <1>4

LEMMA DropsTyped ==
  ASSUME Typed, DropDelete \/ DropFails \/ DropCancel
  PROVE  Rest' /\ Located'
  <1> USE TypedParts, Names DEF Rest, Located, identity, ghosts, cleaning
  <1>1. CASE DropDelete
    <2>1. Head(todo).file \in Files
      BY <1>1 DEF DropDelete, Drops
    <2>2. disk' \in [Files -> Contents]
      BY <1>1, <2>1, PutType, ContentTypes DEF DropDelete
    <2>3. QED
      BY <1>1, <2>2 DEF DropDelete
  <1>2. CASE DropFails
    BY <1>2 DEF DropFails
  <1>3. CASE DropCancel
    <2>1. UNCHANGED open
      BY <1>3 DEF DropCancel, CancelCleanup
    <2>2. QED
      BY <1>3, <2>1 DEF DropCancel
  <1>4. QED
    BY <1>1, <1>2, <1>3

LEMMA ChildTyped ==
  ASSUME Typed, NEW p \in Processes,
         ChildReads(p) \/ ChildSeesEnd(p) \/ ChildEnds(p)
         \/ \E f \in items[p] : ChildDeletes(p, f)
  PROVE  Rest' /\ Located'
  <1> USE TypedParts DEF Rest, Located, identity, plans, ghosts
  <1>1. CASE ChildReads(p) \/ ChildSeesEnd(p)
    BY <1>1 DEF ChildReads, ChildSeesEnd, ReadMessage, SeeEnd, jobVars
  <1>2. CASE ChildEnds(p)
    BY <1>2 DEF ChildEnds, CleanerEnds, CleanerDies
  <1>3. ASSUME NEW f \in items[p], ChildDeletes(p, f)
        PROVE  Rest' /\ Located'
    <2>1. f \in Files
      BY Numbers DEF CleanupTypeOK
    <2>2. disk' \in [Files -> Contents]
      BY <1>3, <2>1, PutType, ContentTypes DEF ChildDeletes
    <2>3. QED
      BY <1>3, <2>2 DEF ChildDeletes, CleanItem
  <1>4. QED
    BY <1>1, <1>2, <1>3

LEMMA ProgramTyped ==
  ASSUME Typed, NEW p \in programs, ProgramWrites(p) \/ ProgramEnds(p)
  PROVE  Rest' /\ Located'
  <1> USE TypedParts, FilesAreFiles, ContentTypes
      DEF Rest, Located, identity, plans, ghosts, cleaning
  <1>0. p.run \in Runs /\ p.id \in Processes
    OBVIOUS
  <1>1. CASE ProgramWrites(p)
    <2>1. PICK f \in {EvobenchLog(p.id), BenchOutput(p.id)} :
                 /\ Put(f, Holds(p.run, "whole")) \/ Put(f, Holds(p.run, "broken"))
                 /\ wrote' = [wrote EXCEPT ![p.run] = @ \cup {f}]
      BY <1>1 DEF ProgramWrites
    <2>2. f \in Files
      BY <1>0
    <2>3. disk' \in [Files -> Contents] /\ wrote' \in [Runs -> SUBSET Files]
      BY <1>0, <2>1, <2>2, PutType
    <2>4. QED
      BY <1>1, <2>3 DEF ProgramWrites
  <1>2. CASE ProgramEnds(p)
    <2>1. CASE Alive /\ pc = "program" /\ p.run = run
      <3>1. disk' \in [Files -> Contents]
        BY <1>0, <1>2, <2>1, PutType DEF ProgramEnds
      <3>2. \/ pc' = "bench output" /\ UNCHANGED <<temps, todo>>
            \/ temps' \subseteq Files /\ todo' \in Seq(Drops) /\ pc' = "idle"
        BY <1>2, <2>1, EndsType DEF ProgramEnds
      <3>3. QED
        BY <1>2, <2>1, <3>1, <3>2 DEF ProgramEnds
    <2>2. CASE ~(Alive /\ pc = "program" /\ p.run = run)
      BY <1>2, <2>2 DEF ProgramEnds
    <2>3. QED
      BY <2>1, <2>2
  <1>3. QED
    BY <1>1, <1>2

\* A step of run_job goes on, keeping or dropping temporary files, or ends it.
LEMMA RunJobTyped ==
  ASSUME Typed, pc \notin {"down", "execs", "locked", "idle"}, pc' # "execs",
         pc' \notin {"down", "locked"},
         UNCHANGED <<newest, pid, lock, situation, run, programs, wrote, open>>,
         temps' \subseteq Files, todo' \in Seq(Drops),
         disk' \in [Files -> Contents],
         summary' \in [Situations \cup {"all"} -> SUBSET Runs]
  PROVE  Rest' /\ Located'
  BY TypedParts DEF Rest, Located

LEMMA RegisterTyped ==
  ASSUME Typed, NEW from, from \notin {"down", "execs", "locked", "idle"},
         NEW to, to \notin {"down", "execs", "locked", "idle"}, NEW f \in Files,
         Register(from, to, f)
  PROVE  Rest' /\ Located'
  <1>0. Rest
    BY TypedParts
  <1>1. temps' \subseteq Files /\ todo' \in Seq(Drops) /\ pc' \in {to, "idle"}
    BY <1>0, EndsType DEF Register, Rest
  <1>2. UNCHANGED open
    BY DEF Register, RegisterCleanup, cleaning
  <1>3. QED
    BY <1>0, <1>1, <1>2, RunJobTyped DEF Register, Rest, identity, ghosts

LEMMA CompressTyped ==
  ASSUME Typed, NEW from, from \notin {"down", "execs", "locked", "idle"},
         NEW to, to \notin {"down", "execs", "locked", "idle"},
         NEW source \in Files, NEW target \in Files, Compress(from, to, source, target)
  PROVE  Rest' /\ Located'
  <1>0. Rest /\ run \in Runs
    BY TypedParts DEF Located, Compress
  <1>1. temps' \subseteq Files /\ todo' \in Seq(Drops) /\ pc' \in {pc, to, "idle"}
    BY <1>0, EndsType DEF Compress, Rest, plans
  <1>2. disk' \in [Files -> Contents]
    <2>1. disk[source] \in Contents
      BY <1>0 DEF Rest
    <2>2. \/ UNCHANGED disk
          \/ \E c \in Contents : Put(target, c)
      BY <1>0, <2>1, ContentTypes DEF Compress
    <2>3. QED
      BY <1>0, <2>2, PutType DEF Rest
  <1>3. QED
    BY <1>0, <1>1, <1>2, RunJobTyped DEF Compress, Rest, identity, ghosts, cleaning

LEMMA TypedStep ==
  ASSUME Typed, [Next]_vars
  PROVE  Typed'
  <1>0. CleanupTypeOK' /\ CleanupTypeOK
    BY EveryStepCleans, CleanupTypeStep, TypedParts
  <1> SUFFICES Rest' /\ Located'
    BY <1>0, TypedParts, PTL
  <1>1. CASE UNCHANGED vars
    BY <1>1, TypedParts DEF vars, jobVars, cleanupVars, Rest, Located
  <1>2. CASE Start \/ StartHandler \/ Return(TRUE) \/ Return(FALSE) \/ Killed
    BY <1>2, DaemonTyped
  <1>3. CASE DropDelete \/ DropFails \/ DropCancel
    BY <1>3, DropsTyped
  <1> USE TypedParts, FilesAreFiles, ContentTypes, Names
      DEF identity, plans, ghosts, cleaning, Goes, Live, Alive, RunFiles
  <1>4. CASE ChooseRun
    BY <1>4, TypedParts DEF ChooseRun, Rest, Located
  <1>5. CASE RegisterLog \/ RegisterOutput \/ RegisterStandard
    <2>1. pc # "down" /\ (RegisterStandard => run \in Runs)
      BY <1>5 DEF RegisterLog, RegisterOutput, RegisterStandard, Register, Located
    <2>2. QED
      BY <1>5, <2>1, RegisterTyped DEF RegisterLog, RegisterOutput, RegisterStandard
  <1>6. CASE CompressOutput \/ CompressLog \/ CompressStandard
    <2>1. pc # "down" /\ run \in Runs
      BY <1>6 DEF CompressOutput, CompressLog, CompressStandard, Compress, Located
    <2>2. QED
      BY <1>6, <2>1, CompressTyped
         DEF CompressOutput, CompressLog, CompressStandard, TmpLog
  <1>7. CASE RemoveStale
    BY <1>7, RunJobTyped DEF RemoveStale, Rest
  <1>8. CASE StartProgram
    <2>1. run \in Runs /\ Id \in Processes
      BY <1>8 DEF StartProgram, Located
    <2>2. disk' \in [Files -> Contents]
      BY <1>8, <2>1, PutType DEF StartProgram
    <2>3. programs' \subseteq [run : Runs, id : Processes]
      <3>1. programs' = programs \cup {[run |-> run, id |-> Id]}
        BY <1>8 DEF StartProgram
      <3>2. programs \subseteq [run : Runs, id : Processes]
        BY DEF Rest
      <3>3. QED
        BY ONLY <2>1, <3>1, <3>2
    <2>4. /\ pc = "start" /\ pc' = "program"
          /\ UNCHANGED <<newest, pid, lock, situation, run, temps, todo, summary, wrote, open>>
      BY <1>8 DEF StartProgram
    <2>5. QED
      BY <2>1, <2>2, <2>3, <2>4 DEF Rest, Located
  <1>9. ASSUME NEW p \in programs, ProgramWrites(p) \/ ProgramEnds(p)
        PROVE  Rest' /\ Located'
    BY <1>9, ProgramTyped
  <1>10. CASE NoOutput \/ Evaluate \/ NoExtract \/ ExtractIsRefused
    BY <1>10, RunJobTyped, EndsType DEF NoOutput, Evaluate, NoExtract, ExtractIsRefused, Rest
  <1>11. CASE DropOutput \/ DropLog \/ DropStandard
    <2>1. ASSUME NEW from, from \notin {"down", "execs", "locked", "idle"},
                 NEW to, to \notin {"down", "execs", "locked", "idle"}, NEW f \in Files,
                 DropsOne(from, to, f)
          PROVE  Rest' /\ Located'
      BY <2>1, RunJobTyped, DropOpsType DEF DropsOne, Rest
    <2>2. pc # "down" /\ run \in Runs
      BY <1>11 DEF DropOutput, DropLog, DropStandard, DropsOne, Located
    <2>3. QED
      BY <1>11, <2>1, <2>2 DEF DropOutput, DropLog, DropStandard
  <1>12. CASE SaveCondition \/ WriteExtract
    <2>1. run \in Runs
      BY <1>12 DEF SaveCondition, WriteExtract, Located
    <2>2. disk' \in [Files -> Contents] /\ pc' \in {pc, "evaluate", "drop standard"}
      BY <1>12, <2>1, PutType DEF SaveCondition, WriteExtract, LogExtract
    <2>3. QED
      BY <1>12, <2>1, <2>2, RunJobTyped DEF SaveCondition, WriteExtract, Rest
  <1>13. CASE Publish
    <2>1. run \in Runs /\ PublishedLog(run) \in Files /\ TmpLog(run) \in Files
      BY <1>13 DEF Publish, Located, PublishedLog, TmpLog
    <2>2. disk' \in [Files -> Contents]
      BY <1>13, <2>1 DEF Publish, Rest
    <2>3. QED
      BY <1>13, <2>2, RunJobTyped DEF Publish, Rest
  <1>14. ASSUME NEW st \in Situations \cup {"all"}, NEW rs \in SUBSET Runs,
                SumUp(st, rs) \/ UNCHANGED summary, Rest
         PROVE  summary' \in [Situations \cup {"all"} -> SUBSET Runs]
    BY <1>14 DEF SumUp, Published, Rest
  <1>15. CASE SummarizeAll
    BY <1>15, <1>14, RunJobTyped, EndsType DEF SummarizeAll, Rest
  <1>16. ASSUME NEW st \in Situations, Summarize(st)
         PROVE  Rest' /\ Located'
    <2>1. InSituation(st) \subseteq Runs
      BY DEF InSituation
    <2>2. QED
      BY <1>16, <1>14, <2>1, RunJobTyped, EndsType DEF Summarize, Rest
  <1>17. CASE RunIsDone \/ StepFails
    BY <1>17, EndsType, TypedParts DEF RunIsDone, StepFails, Rest, Located
  <1>18. ASSUME NEW p \in Processes,
                ChildReads(p) \/ ChildSeesEnd(p) \/ ChildEnds(p)
                \/ \E f \in items[p] : ChildDeletes(p, f)
         PROVE  Rest' /\ Located'
    BY <1>18, ChildTyped
  <1>19. QED
    BY <1>1, <1>2, <1>3, <1>4, <1>5, <1>6, <1>7, <1>8, <1>9, <1>10, <1>11, <1>12,
       <1>13, <1>15, <1>16, <1>17, <1>18 DEF Next
-----------------------------------------------------------------------------
(* Why the output of a program is never lost.  The captured output becomes *)
(* a temporary file only when its compressed copy is whole, and nothing    *)
(* ever writes to a whole copy: the run whose copy is being written is the *)
(* last one, and has no copy before.                                       *)

Archive(r) == RunFile(r, "standard.log.zstd")
Archived(r) == disk[Archive(r)] = Holds(r, "whole")

\* Before the copy is whole; of that, while there is the whole output; and after.
Early == {"log", "output", "stale", "start", "program", "bench output",
          "drop output", "tmp", "standard"}
HasOutput == {"bench output", "drop output", "tmp", "standard"}
HasCopy == {"keep standard", "condition", "evaluate", "drop log", "rename", "extract",
            "drop standard"}

\* What can be deleted: files for a program, and archived output.
Deletable(f) ==
    \/ \E id \in Processes : f \in {EvobenchLog(id), BenchOutput(id)}
    \/ \E r \in Runs : f = Standard(r) /\ Archived(r)

DeletesArchivedOutput ==
    /\ \A p \in Processes : \A f \in registered[p] : Deletable(f)
    /\ \A f \in temps : Deletable(f)
    /\ \A k \in 1 .. Len(todo) : Deletable(todo[k].file)

ArchivesOnce ==
    /\ pc \in Early => ~Archived(run)
    /\ pc \in HasOutput => disk[Standard(run)] = Holds(run, "whole")
    /\ pc \in HasCopy => Archived(run)
    /\ \A r \in Runs : r > run => disk[Archive(r)] = Absent

HasOutputOf(r) == Exists(Standard(r)) \/ Archived(r)
WritersHaveOutput == \A p \in programs : HasOutputOf(p.run)

ArchiveInv ==
    Typed /\ CleanupInv /\ DeletesArchivedOutput /\ ArchivesOnce
    /\ WritersHaveOutput /\ OutputIsNeverLost

\* Names of different kinds are different.
LEMMA NamesDiffer ==
  /\ \A r \in Runs, q \in Runs :
        /\ Standard(r) # Archive(q)
        /\ Standard(r) = Standard(q) => r = q
        /\ Archive(r) = Archive(q) => r = q
  /\ \A r \in Runs, id \in Processes :
        {EvobenchLog(id), BenchOutput(id)} \cap {Standard(r), Archive(r)} = {}
  /\ \A r \in Runs, q \in Runs, name \in RunFiles \ {"standard.log.zstd"} :
        RunFile(q, name) \notin {Standard(r), Archive(r)}
  <1> USE DEF Standard, Archive, RunFile
  <1>1. \A r, q : /\ Standard(r) # Archive(q)
                  /\ Standard(r) = Standard(q) => r = q
                  /\ Archive(r) = Archive(q) => r = q
    OBVIOUS
  <1>2. \A r, id : {EvobenchLog(id), BenchOutput(id)} \cap {Standard(r), Archive(r)} = {}
    BY DEF EvobenchLog, BenchOutput
  <1>3. \A r, q : \A name : name # "standard.log.zstd" => RunFile(q, name) # Archive(r)
    OBVIOUS
  <1>4. "standard_log" \notin RunFiles
    BY DEF RunFiles
  <1>5. \A r, q : \A name \in RunFiles : RunFile(q, name) # Standard(r)
    BY <1>4
  <1>6. QED
    BY ONLY <1>1, <1>2, <1>3, <1>5

LEMMA ContentsDiffer ==
  /\ \A r \in Runs : Holds(r, "whole") # Absent /\ Holds(r, "partial") # Absent
  /\ \A r \in Runs : Holds(r, "partial") # Holds(r, "whole")
  BY DEF Holds, Absent

\* Steps that leave both copies of every output alone, and delete nothing new.
LEMMA OtherSteps ==
  ASSUME ArchiveInv, Typed', CleanupInv',
         \A r \in Runs : UNCHANGED <<disk[Standard(r)], disk[Archive(r)]>>,
         \A p \in Processes : \A f \in registered'[p] : Deletable(f),
         \A f \in temps' : Deletable(f),
         \A k \in 1 .. Len(todo') : Deletable(todo'[k].file),
         UNCHANGED run, (pc' \in Early) => (pc \in Early),
         (pc' \in HasOutput) => (pc \in HasOutput),
         (pc' \in HasCopy) => (pc \in HasCopy),
         programs' \subseteq programs,
         \A r \in Runs : wrote'[r] = wrote[r] \/ HasOutputOf(r)
  PROVE  ArchiveInv'
  <1> USE DEF ArchiveInv
  <1>0. run \in Runs \/ (pc \notin Early /\ pc \notin HasCopy)
    BY DEF Typed, Located, Early, HasCopy
  <1>1. \A r \in Runs : Archived(r)' <=> Archived(r)
    BY DEF Archived
  <1>2. \A f : Deletable(f) => Deletable(f)'
    BY <1>1 DEF Deletable
  <1>3. DeletesArchivedOutput'
    BY <1>2 DEF DeletesArchivedOutput
  <1>4. ArchivesOnce'
    BY <1>0, <1>1 DEF ArchivesOnce, HasOutput, HasCopy, Early
  <1>5. \A r \in Runs : HasOutputOf(r)' <=> HasOutputOf(r)
    BY <1>1 DEF HasOutputOf, Exists
  <1>6. WritersHaveOutput'
    <2>1. \A p \in programs : p.run \in Runs
      BY DEF Typed, TypeOK
    <2>2. QED
      BY <1>5, <2>1 DEF WritersHaveOutput
  <1>7. OutputIsNeverLost'
    <2>1. \A r \in Runs : wrote[r] # {} => HasOutputOf(r)
      BY DEF OutputIsNeverLost, HasOutputOf, Archived, Archive
    <2>2. QED
      BY <1>5, <2>1 DEF OutputIsNeverLost, HasOutputOf, Archived, Archive
  <1>8. QED
    BY <1>3, <1>4, <1>6, <1>7
\* A file that is put in place of another content is neither copy of an output.
LEMMA PutOther ==
  ASSUME Typed, NEW f \in Files, NEW c, Put(f, c),
         \A r \in Runs : f # Standard(r) /\ f # Archive(r)
  PROVE  \A r \in Runs : UNCHANGED <<disk[Standard(r)], disk[Archive(r)]>>
  <1>1. disk \in [Files -> Contents]
    BY DEF Typed, TypeOK
  <1>2. \A r \in Runs : Standard(r) \in Files /\ Archive(r) \in Files
    BY FilesAreFiles DEF RunFiles, Archive
  <1>3. QED
    BY <1>1, <1>2 DEF Put

LEMMA StandardIsAlone ==
  ASSUME Typed, NEW q \in Runs, NEW c, Put(Standard(q), c)
  PROVE  \A r \in Runs : /\ disk'[Archive(r)] = disk[Archive(r)]
                         /\ disk'[Standard(r)] = IF r = q THEN c ELSE disk[Standard(r)]
  <1>1. disk \in [Files -> Contents]
    BY DEF Typed, TypeOK
  <1>2. \A r \in Runs : Standard(r) \in Files /\ Archive(r) \in Files
    BY FilesAreFiles DEF RunFiles, Archive
  <1>3. QED
    BY <1>1, <1>2, NamesDiffer DEF Put

\* A deletable file is deleted, by the daemon or by a child.
LEMMA Deletion ==
  ASSUME ArchiveInv, Typed', CleanupInv', NEW f \in Files, Deletable(f),
         Put(f, Absent) \/ UNCHANGED disk,
         \A p \in Processes : registered'[p] \subseteq registered[p],
         UNCHANGED <<temps, run, pc, programs, wrote>>,
         \A k \in 1 .. Len(todo') : \E j \in 1 .. Len(todo) : todo'[k].file = todo[j].file
  PROVE  ArchiveInv'
  <1> USE DEF ArchiveInv
  <1>1. CASE \A r \in Runs : UNCHANGED <<disk[Standard(r)], disk[Archive(r)]>>
    BY <1>1, OtherSteps DEF DeletesArchivedOutput
  <1>2. CASE \E id \in Processes : f \in {EvobenchLog(id), BenchOutput(id)}
    BY <1>1, <1>2, NamesDiffer, PutOther
  <1>3. ASSUME NEW q \in Runs, f = Standard(q), Archived(q), Put(f, Absent)
        PROVE  ArchiveInv'
    <2>1. \A r \in Runs : /\ disk'[Archive(r)] = disk[Archive(r)]
                          /\ r # q => disk'[Standard(r)] = disk[Standard(r)]
      BY <1>3, StandardIsAlone
    <2>2. \A r \in Runs : Archived(r)' <=> Archived(r)
      BY <2>1 DEF Archived, Archive, RunFile, Holds
    <2>3. \A g : Deletable(g) => Deletable(g)'
      BY <2>2 DEF Deletable
    <2>4. DeletesArchivedOutput'
      BY <2>3 DEF DeletesArchivedOutput
    <2>5. run \in Runs \/ (pc \notin Early /\ pc \notin HasCopy)
      BY DEF Typed, Located, Early, HasCopy
    <2>6. ArchivesOnce'
      <3>1. pc \in HasOutput => run # q
        BY <1>3 DEF ArchivesOnce, HasOutput, HasCopy, Early
      <3>2. QED
        BY <2>1, <2>2, <2>5, <3>1
           DEF ArchivesOnce, HasOutput, HasCopy, Early, Archive, RunFile, Standard, Holds
    <2>7. \A r \in Runs : HasOutputOf(r) => HasOutputOf(r)'
      BY <1>3, <2>1, <2>2 DEF HasOutputOf, Exists, Standard, Absent
    <2>8. WritersHaveOutput'
      BY <2>7 DEF WritersHaveOutput, Typed, TypeOK
    <2>9. OutputIsNeverLost'
      BY <2>7 DEF OutputIsNeverLost, HasOutputOf, Archived, Archive
    <2>10. QED
      BY <2>4, <2>6, <2>8, <2>9
  <1>4. QED
    BY <1>1, <1>2, <1>3 DEF Deletable

LEMMA ArchiveInit == Init => ArchiveInv
  <1> SUFFICES ASSUME Init PROVE ArchiveInv
    OBVIOUS
  <1>1. Typed /\ CleanupInv
    BY InitTyped, CleanupInitInv DEF Init
  <1>2. \A r \in Runs : disk[Archive(r)] = Absent
    BY FilesAreFiles DEF Init, RunFiles, Archive
  <1>3. DeletesArchivedOutput
    BY DEF Init, CleanupInit, DeletesArchivedOutput
  <1>4. ArchivesOnce
    BY <1>2 DEF Init, ArchivesOnce, Early, HasOutput, HasCopy
  <1>5. WritersHaveOutput /\ OutputIsNeverLost
    BY DEF Init, WritersHaveOutput, OutputIsNeverLost
  <1>6. QED
    BY <1>1, <1>3, <1>4, <1>5 DEF ArchiveInv

\* run_job returns: what is dropped are its temporary files.
LEMMA EndsArchive ==
  ASSUME ArchiveInv, Typed', CleanupInv', NEW result, Ends(result),
         \A r \in Runs : UNCHANGED <<disk[Standard(r)], disk[Archive(r)]>>,
         UNCHANGED <<run, wrote, registered>>, programs' \subseteq programs
  PROVE  ArchiveInv'
  <1>1. temps \in SUBSET Files
    BY DEF ArchiveInv, Typed, TypeOK
  <1>2. /\ \A k \in 1 .. Len(todo') : todo'[k].file \in temps
        /\ temps' = {} /\ pc' = "idle"
    BY <1>1, DropAllType DEF Ends
  <1>3. QED
    BY <1>2, OtherSteps DEF Early, HasOutput, HasCopy, ArchiveInv, DeletesArchivedOutput

\* A step of run_job that writes other files and may drop one of its own.
LEMMA GoesOn ==
  ASSUME ArchiveInv, Typed', CleanupInv',
         \A r \in Runs : UNCHANGED <<disk[Standard(r)], disk[Archive(r)]>>,
         UNCHANGED <<run, wrote, registered, programs>>,
         (pc' \in Early) => (pc \in Early),
         (pc' \in HasOutput) => (pc \in HasOutput),
         (pc' \in HasCopy) => (pc \in HasCopy),
         temps' \subseteq temps,
         todo' = todo \/ \E f \in Files : Deletable(f) /\ todo' = DropOps(f)
  PROVE  ArchiveInv'
  <1>1. CASE todo' = todo
    BY <1>1, OtherSteps DEF ArchiveInv, DeletesArchivedOutput
  <1>2. CASE \E f \in Files : Deletable(f) /\ todo' = DropOps(f)
    BY <1>2, OtherSteps, DropOpsType DEF ArchiveInv, DeletesArchivedOutput
  <1>3. QED
    BY <1>1, <1>2
-----------------------------------------------------------------------------
(* The steps.                                                              *)

LEMMA DaemonArchive ==
  ASSUME ArchiveInv, Typed', CleanupInv',
         Start \/ StartHandler \/ Return(TRUE) \/ Return(FALSE) \/ Killed
  PROVE  ArchiveInv'
  <1> USE DEF Early, HasOutput, HasCopy, identity, plans, ghosts, cleaning
  <1>0. DeletesArchivedOutput
    BY DEF ArchiveInv
  <1>1. pc' \notin Early /\ pc' \notin HasCopy /\ UNCHANGED <<registered, run>>
    BY DEF Start, StartHandler, StartCleaner, Return, ProcessEnds, Killed
  <1>2. UNCHANGED <<disk, programs, wrote>>
    BY DEF Start, StartHandler, Return, Killed
  <1>3. /\ \A f \in temps' : f \in temps
        /\ todo' = todo \/ Len(todo') = 0
    BY DEF Start, StartHandler, Return, Killed
  <1>4. \A k \in 1 .. Len(todo') : Deletable(todo'[k].file)
    <2>1. CASE todo' = todo
      BY <1>0, <2>1 DEF DeletesArchivedOutput
    <2>2. CASE Len(todo') = 0
      <3>1. 1 .. Len(todo') = {}
        BY <2>2
      <3>2. QED
        BY <3>1
    <2>3. QED
      BY <1>3, <2>1, <2>2
  <1>5. QED
    BY <1>0, <1>1, <1>2, <1>3, <1>4, OtherSteps DEF DeletesArchivedOutput

LEMMA DropsArchive ==
  ASSUME ArchiveInv, Typed', CleanupInv', DropDelete \/ DropFails \/ DropCancel
  PROVE  ArchiveInv'
  <1> USE Names DEF identity, ghosts, cleaning
  <1>0. Typed /\ DeletesArchivedOutput /\ todo \in Seq(Drops) /\ todo # <<>>
    BY DEF ArchiveInv, Typed, TypeOK, Drops, DropDelete, DropFails, DropCancel
  <1>1. Head(todo).file \in Files /\ Deletable(Head(todo).file)
    BY <1>0 DEF DeletesArchivedOutput, Drops
  <1>2. \A k \in 1 .. Len(todo') : \E j \in 1 .. Len(todo) : todo'[k] = todo[j]
    <2>1. CASE todo' = Tail(todo)
      BY <1>0, <2>1
    <2>2. CASE todo' = SubSeq(todo, 3, Len(todo))
      BY <1>0, <2>2
    <2>3. QED
      BY <2>1, <2>2 DEF DropDelete, DropFails, DropCancel
  <1>3. \A q \in Processes : registered'[q] \subseteq registered[q]
    <2>1. registered \in [Processes -> SUBSET Items]
      BY <1>0 DEF Typed, TypeOK, CleanupTypeOK
    <2>2. QED
      BY <2>1 DEF DropDelete, DropFails, DropCancel, CancelCleanup
  <1>4. /\ UNCHANGED <<temps, run, pc, programs, wrote>>
        /\ Put(Head(todo).file, Absent) \/ UNCHANGED disk
    BY DEF DropDelete, DropFails, DropCancel
  <1>5. QED
    BY <1>1, <1>2, <1>3, <1>4, Deletion

LEMMA ChildArchive ==
  ASSUME ArchiveInv, Typed', CleanupInv', NEW p \in Processes,
         ChildReads(p) \/ ChildSeesEnd(p) \/ ChildEnds(p)
         \/ \E f \in items[p] : ChildDeletes(p, f)
  PROVE  ArchiveInv'
  <1> USE DEF identity, plans, ghosts
  <1>0. DeletesArchivedOutput
    BY DEF ArchiveInv
  <1>1. CASE ChildReads(p) \/ ChildSeesEnd(p) \/ ChildEnds(p)
    <2>1. UNCHANGED <<registered, disk, temps, todo, run, pc, programs, wrote>>
      BY <1>1 DEF ChildReads, ChildSeesEnd, ChildEnds, ReadMessage, SeeEnd, CleanerEnds,
                  CleanerDies, jobVars
    <2>2. QED
      BY <1>0, <2>1, OtherSteps DEF DeletesArchivedOutput
  <1>2. ASSUME NEW f \in items[p], ChildDeletes(p, f)
        PROVE  ArchiveInv'
    <2>1. f \in Files
      BY Numbers DEF ArchiveInv, CleanupInv, CleanupTypeOK
    <2>2. f \in registered[p]
      BY <1>2, <2>1, Numbers
         DEF ArchiveInv, CleanupInv, CleansWhatIsRegistered, ChildDeletes, CleanItem
    <2>3. Deletable(f)
      BY <1>0, <2>2 DEF DeletesArchivedOutput
    <2>4. UNCHANGED <<registered, temps, todo, run, pc, programs, wrote>>
      BY <1>2 DEF ChildDeletes, CleanItem
    <2>5. Put(f, Absent) \/ UNCHANGED disk
      BY <1>2 DEF ChildDeletes
    <2>6. QED
      BY <2>1, <2>3, <2>4, <2>5, Deletion
  <1>3. QED
    BY <1>1, <1>2

LEMMA RegisterArchive ==
  ASSUME ArchiveInv, Typed', CleanupInv', NEW from, NEW to, NEW f \in Files,
         Deletable(f), Register(from, to, f),
         (to \in Early) => (from \in Early), to \notin HasOutput,
         (to \in HasCopy) => (from \in HasCopy)
  PROVE  ArchiveInv'
  <1> USE DEF identity, ghosts, cleaning
  <1>0. DeletesArchivedOutput /\ registered \in [Processes -> SUBSET Items]
    BY DEF ArchiveInv, Typed, TypeOK, CleanupTypeOK
  <1>1. CASE CanSend(newest)
    <2>1. /\ \A q \in Processes : registered'[q] \subseteq registered[q] \cup {f}
          /\ temps' = temps \cup {f} /\ UNCHANGED todo /\ pc = from /\ pc' = to
          /\ UNCHANGED <<disk, run, programs, wrote>>
      BY <1>0, <1>1 DEF Register, RegisterCleanup
    <2>2. QED
      BY <1>0, <2>1, OtherSteps DEF DeletesArchivedOutput
  <1>2. CASE ~CanSend(newest)
    BY <1>2, EndsArchive DEF Register
  <1>3. QED
    BY <1>1, <1>2

\* Any file but the copy of an output is compressed.
LEMMA CompressOther ==
  ASSUME ArchiveInv, Typed', CleanupInv', NEW from, NEW to,
         NEW source, NEW target \in Files, Compress(from, to, source, target),
         \A r \in Runs : target # Standard(r) /\ target # Archive(r),
         (to \in Early) => (from \in Early),
         (to \in HasOutput) => (from \in HasOutput), to \notin HasCopy
  PROVE  ArchiveInv'
  <1> USE DEF identity, plans, ghosts, cleaning
  <1>1. \/ UNCHANGED disk
        \/ \E c : Put(target, c)
    BY DEF Compress
  <1>2. \A r \in Runs : UNCHANGED <<disk[Standard(r)], disk[Archive(r)]>>
    BY <1>1, PutOther DEF ArchiveInv
  <1>3. CASE \E result : Ends(result)
    BY <1>2, <1>3, EndsArchive DEF Compress
  <1>4. CASE UNCHANGED <<temps, todo>> /\ (pc' = pc \/ pc' = to)
    BY <1>2, <1>4, GoesOn DEF Compress
  <1>5. QED
    BY <1>3, <1>4 DEF Compress

\* The output of the program is archived.
LEMMA CompressStandardArchive ==
  ASSUME ArchiveInv, Typed', CleanupInv', CompressStandard
  PROVE  ArchiveInv'
  <1> USE DEF ArchiveInv, identity, plans, ghosts, cleaning
  <1>0. /\ pc = "standard" /\ run \in Runs /\ disk \in [Files -> Contents]
        /\ ~Archived(run) /\ disk[Standard(run)] = Holds(run, "whole")
        /\ Exists(Standard(run)) /\ Archive(run) \in Files /\ Standard(run) \in Files
        /\ UNCHANGED <<run, programs, wrote, registered>>
    <2>1. pc = "standard" /\ UNCHANGED <<run, programs, wrote, registered>>
      BY DEF CompressStandard, Compress
    <2>2. run \in Runs /\ disk \in [Files -> Contents]
      BY <2>1 DEF Typed, TypeOK, Located
    <2>3. ~Archived(run) /\ disk[Standard(run)] = Holds(run, "whole")
      BY <2>1 DEF ArchivesOnce, Early, HasOutput, HasCopy
    <2>4. QED
      BY <2>1, <2>2, <2>3, ContentsDiffer, FilesAreFiles DEF Exists, Archive, RunFiles
  <1>1. /\ UNCHANGED <<temps, todo>>
        /\ \/ Put(Archive(run), Holds(run, "partial")) /\ pc' = pc
           \/ Put(Archive(run), Holds(run, "whole")) /\ pc' = "keep standard"
    BY <1>0 DEF CompressStandard, Compress, Archive
  <1>2. /\ \A r \in Runs : disk'[Standard(r)] = disk[Standard(r)]
        /\ \A r \in Runs : r # run => disk'[Archive(r)] = disk[Archive(r)]
        /\ disk'[Archive(run)] = Holds(run, IF pc' = pc THEN "partial" ELSE "whole")
    <2>1. \A r \in Runs : Standard(r) \in Files /\ Archive(r) \in Files
      BY FilesAreFiles DEF RunFiles, Archive
    <2>2. QED
      BY <1>0, <1>1, <2>1, NamesDiffer DEF Put
  <1>3. /\ \A r \in Runs : Archived(r) => Archived(r)'
        /\ pc' = pc => ~Archived(run)'
        /\ pc' # pc => Archived(run)'
    BY <1>0, <1>2, ContentsDiffer DEF Archived, Archive, RunFile, Holds
  <1>4. \A f : Deletable(f) => Deletable(f)'
    BY <1>3 DEF Deletable
  <1>5. DeletesArchivedOutput'
    BY <1>0, <1>1, <1>4 DEF DeletesArchivedOutput
  <1>6. ArchivesOnce'
    <2>1. \A r \in Runs : r > run => r # run
      BY Numbers, <1>0
    <2>2. QED
      BY <1>0, <1>1, <1>2, <1>3, <2>1
         DEF ArchivesOnce, Early, HasOutput, HasCopy, Archive, RunFile, Standard, Holds, Absent
  <1>7. \A r \in Runs : HasOutputOf(r) => HasOutputOf(r)'
    BY <1>2, <1>3 DEF HasOutputOf, Exists, Standard, Absent
  <1>8. WritersHaveOutput'
    BY <1>0, <1>7 DEF WritersHaveOutput, Typed, TypeOK
  <1>9. OutputIsNeverLost'
    BY <1>0, <1>7 DEF OutputIsNeverLost, HasOutputOf, Archived, Archive
  <1>10. QED
    BY <1>5, <1>6, <1>8, <1>9

LEMMA ArchiveStep ==
  ASSUME ArchiveInv, [Next]_vars
  PROVE  ArchiveInv'
  <1>0. Typed' /\ CleanupInv'
    BY TypedStep, EveryStepCleans, CleanupStepInv DEF ArchiveInv
  <1> USE <1>0, FilesAreFiles, NamesDiffer, ContentsDiffer
      DEF identity, plans, ghosts, cleaning, Goes, Live, Alive, RunFiles, Early,
          HasOutput, HasCopy
  <1>a. Typed /\ DeletesArchivedOutput /\ ArchivesOnce /\ WritersHaveOutput
    BY DEF ArchiveInv
  <1>b. /\ pc \notin {"down", "execs", "locked", "idle"} => run \in Runs
        /\ pc # "down" => Id \in Processes
        /\ programs \subseteq [run : Runs, id : Processes]
        /\ disk \in [Files -> Contents]
    BY <1>a, Names DEF Typed, TypeOK, Located
  <1>c. \A id \in Processes : Deletable(EvobenchLog(id)) /\ Deletable(BenchOutput(id))
    BY DEF Deletable
  <1>1. CASE UNCHANGED vars
    <2>1. UNCHANGED <<registered, disk, temps, todo, run, pc, programs, wrote>>
      BY <1>1 DEF vars, jobVars, cleanupVars
    <2>2. QED
      BY <1>a, <2>1, OtherSteps DEF DeletesArchivedOutput
  <1>2. CASE Start \/ StartHandler \/ Return(TRUE) \/ Return(FALSE) \/ Killed
    BY <1>2, DaemonArchive
  <1>3. CASE DropDelete \/ DropFails \/ DropCancel
    BY <1>3, DropsArchive
  <1>4. CASE ChooseRun
    <2>1. run + 1 \in Runs /\ run + 1 > run
      <3>1. run \in Nat /\ run + 1 \in Runs
        BY <1>4, <1>a, Numbers DEF ChooseRun, Typed, TypeOK
      <3>2. QED
        BY ONLY <3>1
    <2>2. disk[Archive(run + 1)] = Absent
      BY <1>a, <2>1 DEF ArchivesOnce
    <2>3. UNCHANGED <<registered, disk, temps, todo, programs, wrote>> /\ run' = run + 1
      BY <1>4 DEF ChooseRun
    <2>4. DeletesArchivedOutput'
      <3>1. \A f : Deletable(f)' <=> Deletable(f)
        BY <2>3 DEF Deletable, Archived
      <3>2. QED
        BY <1>a, <2>3, <3>1 DEF DeletesArchivedOutput
    <2>5. \A r \in Runs : r > run + 1 => r > run
      BY <1>a, Numbers DEF Typed, TypeOK
    <2>6. ArchivesOnce'
      BY <1>4, <1>a, <2>1, <2>2, <2>3, <2>5
         DEF ChooseRun, ArchivesOnce, Archived, Archive, RunFile, Holds, Absent
    <2>7. WritersHaveOutput' /\ OutputIsNeverLost'
      BY <1>a, <2>3 DEF ArchiveInv, WritersHaveOutput, HasOutputOf, Archived, Exists,
                        OutputIsNeverLost
    <2>8. QED
      BY <1>0, <2>4, <2>6, <2>7 DEF ArchiveInv
  <1>5. CASE RegisterLog \/ RegisterOutput
    <2>1. EvobenchLog(Id) \in Files /\ Deletable(EvobenchLog(Id))
      BY <1>5, <1>b, <1>c DEF RegisterLog, RegisterOutput, Register
    <2>2. BenchOutput(Id) \in Files /\ Deletable(BenchOutput(Id))
      BY <1>5, <1>b, <1>c DEF RegisterLog, RegisterOutput, Register
    <2>3. CASE RegisterLog
      BY <2>1, <2>3, RegisterArchive DEF RegisterLog
    <2>4. CASE RegisterOutput
      BY <2>2, <2>4, RegisterArchive DEF RegisterOutput
    <2>5. QED
      BY <1>5, <2>3, <2>4
  <1>6. CASE RegisterStandard
    <2>1. run \in Runs /\ Archived(run)
      BY <1>6, <1>a, <1>b DEF RegisterStandard, Register, ArchivesOnce
    <2>2. Deletable(Standard(run))
      BY <2>1 DEF Deletable
    <2>3. QED
      BY <1>6, <2>1, <2>2, RegisterArchive DEF RegisterStandard
  <1>7. CASE RemoveStale
    <2>1. Id \in Processes
      BY <1>7, <1>b DEF RemoveStale
    <2>2. \A r \in Runs : UNCHANGED <<disk[Standard(r)], disk[Archive(r)]>>
      <3>1. \A r \in Runs : Standard(r) \in Files /\ Archive(r) \in Files
        BY DEF Archive
      <3>2. QED
        BY <1>7, <2>1, <3>1 DEF RemoveStale
    <2>3. QED
      BY <1>7, <2>2, GoesOn DEF RemoveStale
  <1>8. CASE StartProgram
    <2>1. run \in Runs /\ Id \in Processes /\ pc = "start" /\ pc' = "program"
      BY <1>8, <1>b DEF StartProgram
    <2>2. /\ \A r \in Runs : disk'[Archive(r)] = disk[Archive(r)]
          /\ \A r \in Runs : disk'[Standard(r)] = IF r = run THEN Holds(run, "partial")
                                                   ELSE disk[Standard(r)]
      BY <1>8, <1>a, <2>1, StandardIsAlone DEF StartProgram
    <2>3. /\ UNCHANGED <<registered, temps, todo, run, wrote>>
          /\ programs' = programs \cup {[run |-> run, id |-> Id]}
      BY <1>8 DEF StartProgram
    <2>4. \A r \in Runs : /\ Archived(r)' <=> Archived(r)
                          /\ HasOutputOf(r) => HasOutputOf(r)'
      BY <2>1, <2>2 DEF Archived, HasOutputOf, Exists, Archive, RunFile, Standard,
                        Holds, Absent
    <2>5. DeletesArchivedOutput'
      BY <1>a, <2>3, <2>4 DEF DeletesArchivedOutput, Deletable
    <2>6. ArchivesOnce'
      BY <1>a, <2>1, <2>2, <2>3, <2>4 DEF ArchivesOnce, Archive, RunFile, Absent
    <2>7. HasOutputOf(run)'
      BY <2>1, <2>2, <2>3 DEF HasOutputOf, Exists, Standard, Holds, Absent
    <2>8. WritersHaveOutput'
      <3>1. \A q \in programs : q.run \in Runs /\ HasOutputOf(q.run)
        BY <1>a, <1>b DEF WritersHaveOutput
      <3>2. \A q \in programs : HasOutputOf(q.run)'
        BY <2>4, <3>1
      <3>3. QED
        BY <2>3, <2>7, <3>2 DEF WritersHaveOutput
    <2>9. OutputIsNeverLost'
      BY <2>3, <2>4 DEF ArchiveInv, OutputIsNeverLost, HasOutputOf, Archived, Archive
    <2>10. QED
      BY <1>0, <2>5, <2>6, <2>8, <2>9 DEF ArchiveInv
  <1>9. ASSUME NEW p \in programs, ProgramWrites(p)
        PROVE  ArchiveInv'
    <2>1. p.run \in Runs /\ p.id \in Processes
      BY <1>b
    <2>2. \A r \in Runs : UNCHANGED <<disk[Standard(r)], disk[Archive(r)]>>
      <3>1. PICK f \in {EvobenchLog(p.id), BenchOutput(p.id)} : \E c : Put(f, c)
        BY <1>9 DEF ProgramWrites
      <3>2. f \in Files
        BY <2>1, <3>1
      <3>3. ASSUME NEW r \in Runs
            PROVE  f # Standard(r) /\ f # Archive(r)
        <4>1. {EvobenchLog(p.id), BenchOutput(p.id)} \cap {Standard(r), Archive(r)} = {}
          BY <2>1, NamesDiffer
        <4>2. QED
          BY ONLY <3>1, <4>1
      <3>4. QED
        BY <1>a, <3>1, <3>2, <3>3, PutOther
    <2>3. HasOutputOf(p.run)
      BY <1>a DEF WritersHaveOutput
    <2>4. \A r \in Runs : wrote'[r] = wrote[r] \/ HasOutputOf(r)
      BY <1>9, <1>a, <2>3 DEF ProgramWrites, Typed
    <2>5. QED
      BY <1>9, <1>a, <2>2, <2>4, OtherSteps DEF ProgramWrites, DeletesArchivedOutput
  <1>10. ASSUME NEW p \in programs, ProgramEnds(p)
         PROVE  ArchiveInv'
    <2>1. CASE ~(Alive /\ pc = "program" /\ p.run = run)
      BY <1>10, <1>a, <2>1, OtherSteps DEF ProgramEnds, DeletesArchivedOutput
    <2>2. CASE Alive /\ pc = "program" /\ p.run = run
      <3>1. run \in Runs /\ Put(Standard(run), Holds(run, "whole"))
        BY <1>10, <1>b, <2>2 DEF ProgramEnds
      <3>2. /\ \A r \in Runs : disk'[Archive(r)] = disk[Archive(r)]
            /\ \A r \in Runs : disk'[Standard(r)] = IF r = run THEN Holds(run, "whole")
                                                     ELSE disk[Standard(r)]
        BY <1>a, <3>1, StandardIsAlone
      <3>3. \A r \in Runs : /\ Archived(r)' <=> Archived(r)
                            /\ HasOutputOf(r) => HasOutputOf(r)'
        BY <3>1, <3>2 DEF Archived, HasOutputOf, Exists, Archive, RunFile, Standard,
                          Holds, Absent
      <3>4. \A f : Deletable(f) => Deletable(f)'
        BY <3>3 DEF Deletable
      <3>5. /\ UNCHANGED <<registered, run, wrote>> /\ programs' \subseteq programs
            /\ \/ UNCHANGED <<temps, todo>> /\ pc' = "bench output"
               \/ Ends("error")
        BY <1>10, <2>2 DEF ProgramEnds
      <3>6. \/ UNCHANGED <<temps, todo>> /\ pc' = "bench output"
            \/ /\ temps' = {} /\ pc' = "idle"
               /\ \A k \in 1 .. Len(todo') : todo'[k].file \in temps
        BY <1>a, <3>5, DropAllType DEF Ends, Typed, TypeOK
      <3>7. DeletesArchivedOutput'
        BY <1>a, <3>4, <3>5, <3>6 DEF DeletesArchivedOutput
      <3>8. ArchivesOnce'
        BY <1>a, <2>2, <3>1, <3>2, <3>3, <3>5, <3>6
           DEF ArchivesOnce, Archive, RunFile, Standard, Holds, Absent
      <3>9. WritersHaveOutput'
        <4>1. \A w \in programs : w.run \in Runs /\ HasOutputOf(w.run)
          BY <1>a, <1>b DEF WritersHaveOutput
        <4>2. \A w \in programs : HasOutputOf(w.run)'
          BY <3>3, <4>1
        <4>3. QED
          BY <3>5, <4>2 DEF WritersHaveOutput
      <3>10. OutputIsNeverLost'
        BY <3>3, <3>5 DEF ArchiveInv, OutputIsNeverLost, HasOutputOf, Archived, Archive
      <3>11. QED
        BY <1>0, <3>7, <3>8, <3>9, <3>10 DEF ArchiveInv
    <2>3. QED
      BY <2>1, <2>2
  <1>11. CASE CompressOutput \/ CompressLog
    <2>1. run \in Runs
      BY <1>11, <1>b DEF CompressOutput, CompressLog, Compress
    <2>2. QED
      <3>1. CASE CompressOutput
        <4>1. /\ RunFile(run, "bench_output.log.zstd") \in Files
              /\ \A r \in Runs : RunFile(run, "bench_output.log.zstd")
                                \notin {Standard(r), Archive(r)}
          BY <2>1
        <4>2. QED
          BY <3>1, <4>1, CompressOther DEF CompressOutput
      <3>2. CASE CompressLog
        <4>1. /\ TmpLog(run) \in Files
              /\ \A r \in Runs : TmpLog(run) \notin {Standard(r), Archive(r)}
          BY <2>1 DEF TmpLog
        <4>2. QED
          BY <3>2, <4>1, CompressOther DEF CompressLog
      <3>3. QED
        BY <1>11, <3>1, <3>2
  <1>12. CASE CompressStandard
    BY <1>12, CompressStandardArchive
  <1>13. CASE NoOutput \/ NoExtract
    BY <1>13, GoesOn DEF NoOutput, NoExtract
  <1>14. CASE Evaluate
    BY <1>14, GoesOn, EndsArchive DEF Evaluate
  <1>15. CASE DropOutput \/ DropLog
    BY <1>15, <1>b, <1>c, GoesOn DEF DropOutput, DropLog, DropsOne
  <1>16. CASE DropStandard
    <2>1. run \in Runs /\ pc = "drop standard" /\ pc' = "summarize"
      BY <1>16, <1>b DEF DropStandard, DropsOne
    <2>2. Deletable(Standard(run))
      BY <1>a, <2>1 DEF ArchivesOnce, Deletable
    <2>3. QED
      BY <1>16, <2>1, <2>2, GoesOn DEF DropStandard, DropsOne
  <1>17. CASE SaveCondition \/ WriteExtract
    <2>1. run \in Runs
      BY <1>17, <1>b DEF SaveCondition, WriteExtract
    <2>2. \A r \in Runs : UNCHANGED <<disk[Standard(r)], disk[Archive(r)]>>
      <3>1. PICK name \in RunFiles \ {"standard.log.zstd"} : \E c : Put(RunFile(run, name), c)
        BY <1>17 DEF SaveCondition, WriteExtract, LogExtract
      <3>2. RunFile(run, name) \in Files
        BY <2>1
      <3>3. \A r \in Runs : RunFile(run, name) \notin {Standard(r), Archive(r)}
        BY <2>1
      <3>4. QED
        BY <1>a, <3>1, <3>2, <3>3, PutOther
    <2>3. QED
      BY <1>17, <2>2, GoesOn DEF SaveCondition, WriteExtract
  <1>18. CASE Publish
    <2>1. run \in Runs
      BY <1>18, <1>b DEF Publish
    <2>2. \A r \in Runs : UNCHANGED <<disk[Standard(r)], disk[Archive(r)]>>
      <3>1. \A r \in Runs : Standard(r) \in Files /\ Archive(r) \in Files
        BY DEF Archive
      <3>2. QED
        BY <1>18, <1>b, <2>1, <3>1 DEF Publish, PublishedLog, TmpLog
    <2>3. QED
      BY <1>18, <2>2, GoesOn DEF Publish
  <1>19. CASE SummarizeAll \/ RunIsDone \/ ExtractIsRefused \/ StepFails
    BY <1>19, GoesOn, EndsArchive DEF SummarizeAll, RunIsDone, ExtractIsRefused, StepFails
  <1>20. ASSUME NEW st \in Situations, Summarize(st)
         PROVE  ArchiveInv'
    BY <1>20, GoesOn, EndsArchive DEF Summarize
  <1>21. ASSUME NEW p \in Processes,
                ChildReads(p) \/ ChildSeesEnd(p) \/ ChildEnds(p)
                \/ \E f \in items[p] : ChildDeletes(p, f)
         PROVE  ArchiveInv'
    BY <1>21, ChildArchive
  <1>22. QED
    BY <1>1, <1>2, <1>3, <1>4, <1>5, <1>6, <1>7, <1>8, <1>9, <1>10, <1>11, <1>12,
       <1>13, <1>14, <1>15, <1>16, <1>17, <1>18, <1>19, <1>20, <1>21 DEF Next

LEMMA ArchiveInvHolds == Spec => []ArchiveInv
  BY ArchiveInit, ArchiveStep, PTL DEF Spec

-----------------------------------------------------------------------------
(* The theorems.                                                           *)

\* Type correctness of the daemons, their children, files and summaries.
THEOREM TypeCorrect == Spec => []TypeOK
  <1>1. ArchiveInv => TypeOK
    BY DEF ArchiveInv, Typed
  <1>2. QED
    BY ArchiveInvHolds, <1>1, PTL

\* Daemons and children use the pipes as CleanupDaemon says, through restarts,
\* kills and failures.
THEOREM ImplementsCleanup == Spec => CleanupSpec
  <1>1. Init => CleanupInit
    BY DEF Init
  <1>2. ArchiveInv /\ [Next]_vars => [CleanupNext]_cleanupVars
    BY EveryStepCleans DEF ArchiveInv
  <1>3. QED
    BY ArchiveInvHolds, <1>1, <1>2, PTL DEF Spec, CleanupSpec

\* So children delete what the daemon has registered and not cancelled.
THEOREM ChildrenCleanWhatIsRegistered == Spec => []CleansWhatIsRegistered
  BY ImplementsCleanup, CleaningIsRegistered, PTL

\* However a run, its daemon and its child end, what the program said is in its
\* captured output or, whole, in the directory of the run.
THEOREM OutputStays == Spec => []OutputIsNeverLost
  <1>1. ArchiveInv => OutputIsNeverLost
    BY DEF ArchiveInv
  <1>2. QED
    BY ArchiveInvHolds, <1>1, PTL

-----------------------------------------------------------------------------
(* What the daemon, its children and the programs know of each other.      *)

NamesOf(id) == {EvobenchLog(id), BenchOutput(id)}
Working == pc \notin {"down", "execs", "locked", "idle"}

\* Ids of processes are not used again but by a re-exec; one that has outlived its
\* daemon belongs to a daemon before.
IdsAreFresh ==
    /\ \A p \in Processes : /\ p > newest => pid[p] = 0 /\ cleaner[p] = "none"
                            /\ p <= newest => pid[p] \in 1 .. p
    /\ \A id \in outlived : id \in Processes /\ id <= newest
    /\ pc # "down" => Id \notin outlived

\* A child reads as long as its daemon is there, or was killed itself.
ChildrenRead ==
    /\ \A p \in open : cleaner[p] \in {"reads", "killed"}
    /\ pc = "locked" => cleaner[newest] = "none"
    /\ Alive /\ pc # "locked" => newest \in open

\* Programs are that of the current run, or have outlived their daemon.
Own(q) == pc = "program" /\ q.run = run /\ q.id = Id
ProgramsAreKnown ==
    /\ \A q \in programs :
         Own(q) \/ (q.id \in outlived /\ q.run <= run /\ (Working => q.run < run))
    /\ \A r \in Runs : r > run => wrote[r] = {}
    /\ pc \in {"log", "output", "stale", "start"} => wrote[run] = {}
    /\ Working => \A id \in Processes : id = Id \/ wrote[run] \cap NamesOf(id) = {}

\* Destructors run only after the steps that leave some; a file is deleted before it
\* is cancelled.
Op(op, f) == [op |-> op, file |-> f]
DeletedBefore(s, k) == \E j \in 1 .. k - 1 : s[j] = Op("delete", s[k].file)
CancelIn(s, f) == \E k \in 1 .. Len(s) : s[k] = Op("cancel", f)
DropsAreOrdered ==
    /\ pc \notin {"idle", "tmp", "rename", "summarize"} => todo = <<>>
    /\ \A k \in 1 .. Len(todo) :
         /\ todo[k].file \in NamesOf(Id) \cup {Standard(run)}
         /\ pc = "tmp" => todo[k].file = BenchOutput(Id)
         /\ todo[k].file \notin temps
    /\ failures = 0 => \A k \in 1 .. Len(todo) :
         todo[k].op = "cancel" => ~Exists(todo[k].file) \/ DeletedBefore(todo, k)

TempsAreNamed ==
    /\ \A f \in temps : f \in NamesOf(Id) \cup {Standard(run)}
    /\ pc \in {"down", "execs", "locked", "idle", "log"} => temps = {}
    /\ pc = "output" => EvobenchLog(Id) \in temps
    /\ pc \in {"stale", "start", "program"} => NamesOf(Id) \subseteq temps

\* The daemon registers files under its names only, those that it has still to drop; of
\* what a child of the same id has been told before, all is cancelled.
RegistersOwn ==
    /\ \A p \in Processes : \A f \in registered[p] :
         f \in NamesOf(pid[p]) \/ \E r \in Runs : f = Standard(r)
    /\ \A f \in temps : f \in registered[newest]
    /\ pc # "down" /\ failures = 0 =>
         \A p \in Processes : pid[p] = Id /\ cleaner[p] \in {"reads", "cleans"} =>
            \A f \in registered[p] : p = newest /\ (f \in temps \/ CancelIn(todo, f))

Books ==
    /\ failures \in Nat /\ IdsAreFresh /\ ChildrenRead /\ ProgramsAreKnown
    /\ DropsAreOrdered /\ TempsAreNamed /\ RegistersOwn

\* The types that its lemmas use.
LEMMA Types ==
  ASSUME ArchiveInv
  PROVE  /\ newest \in Nat /\ newest \in Processes \cup {0}
         /\ pid \in [Processes -> Processes \cup {0}] /\ run \in Nat
         /\ temps \subseteq Files /\ todo \in Seq(Drops)
         /\ disk \in [Files -> Contents] /\ wrote \in [Runs -> SUBSET Files]
         /\ programs \subseteq [run : Runs, id : Processes]
         /\ registered \in [Processes -> SUBSET Files] /\ items \in [Processes -> SUBSET Files]
         /\ cleaner \in [Processes -> CleanerStates] /\ open \subseteq {newest}
         /\ pc # "down" => newest \in Processes /\ Id \in Processes
         /\ Working => run \in Runs
         /\ pc \in {"down", "execs", "locked"} => open = {}
         /\ Typed /\ CleanupInv
  <1>1. Typed /\ CleanupInv
    BY DEF ArchiveInv
  <1>2. newest \in Nat /\ run \in Nat
    BY <1>1, Numbers DEF Typed, TypeOK
  <1>3. todo \in Seq(Drops)
    BY <1>1 DEF Typed, TypeOK, Drops
  <1>4. /\ registered \in [Processes -> SUBSET Files] /\ items \in [Processes -> SUBSET Files]
        /\ cleaner \in [Processes -> CleanerStates]
    BY <1>1, Numbers DEF Typed, TypeOK, CleanupTypeOK
  <1>5. /\ newest \in Processes \cup {0} /\ pid \in [Processes -> Processes \cup {0}]
        /\ temps \subseteq Files /\ disk \in [Files -> Contents]
        /\ wrote \in [Runs -> SUBSET Files]
        /\ programs \subseteq [run : Runs, id : Processes] /\ open \subseteq {newest}
    BY <1>1 DEF Typed, TypeOK
  <1>6. /\ pc # "down" => newest \in Processes /\ Id \in Processes
        /\ Working => run \in Runs
        /\ pc \in {"down", "execs", "locked"} => open = {}
    BY <1>1 DEF Typed, Located, Working, Id
  <1>7. QED
    BY <1>1, <1>2, <1>3, <1>4, <1>5, <1>6

\* Names of different processes and of different kinds are different.
LEMMA NamesAreOwn ==
  /\ \A i, j : i # j => NamesOf(i) \cap NamesOf(j) = {}
  /\ \A i, r : EvobenchLog(i) # BenchOutput(i) /\ Standard(r) \notin NamesOf(i)
  /\ \A i, r : \A name \in RunFiles : RunFile(r, name) \notin NamesOf(i) /\ RunFile(r, name) # Standard(r)
  /\ \A i \in Processes : NamesOf(i) \subseteq Files
  <1>1. \A i, j : /\ EvobenchLog(i) # BenchOutput(j)
                  /\ EvobenchLog(i) = EvobenchLog(j) => i = j
                  /\ BenchOutput(i) = BenchOutput(j) => i = j
    BY DEF EvobenchLog, BenchOutput
  <1>2. \A i, r : Standard(r) # EvobenchLog(i) /\ Standard(r) # BenchOutput(i)
    BY DEF EvobenchLog, BenchOutput, Standard
  <1>3. \A i, r : \A name \in RunFiles : /\ RunFile(r, name) # EvobenchLog(i)
                                     /\ RunFile(r, name) # BenchOutput(i)
                                     /\ RunFile(r, name) # Standard(r)
    BY DEF EvobenchLog, BenchOutput, Standard, RunFile, RunFiles
  <1>4. \A i \in Processes : NamesOf(i) \subseteq Files
    BY FilesAreFiles DEF NamesOf
  <1>5. QED
    BY <1>1, <1>2, <1>3, <1>4 DEF NamesOf

-----------------------------------------------------------------------------
(* The kinds of steps.                                                     *)

Forward == {<<"stale", "start">>, <<"bench output", "drop output">>,
            <<"bench output", "tmp">>, <<"tmp", "standard">>,
            <<"standard", "keep standard">>, <<"condition", "evaluate">>,
            <<"evaluate", "drop log">>, <<"rename", "extract">>, <<"extract", "drop standard">>,
            <<"summarize", "situations">>}
FailsMaybe == failures' = failures \/ failures' = failures + 1
Leaves(from, to, f) ==
    pc = from /\ pc' = to /\ todo' = DropOps(f) /\ temps' = temps \ {f}

\* A step of run_job that goes on, ends the run, or drops a file.
Plain ==
    /\ Working /\ todo = <<>> /\ pc # "program"
    /\ UNCHANGED <<identity, programs, wrote, outlived, cleaning>> /\ FailsMaybe
    /\ \/ UNCHANGED <<temps, todo>> /\ (pc' = pc \/ <<pc, pc'>> \in Forward)
       \/ \E result \in {"ok", "error"} : Ends(result)
       \/ Leaves("drop output", "tmp", BenchOutput(Id))
       \/ Leaves("drop log", "rename", EvobenchLog(Id))
       \/ Leaves("drop standard", "summarize", Standard(run))

DaemonStep == Start \/ StartHandler \/ Return(TRUE) \/ Return(FALSE) \/ Killed
DropStep == DropDelete \/ DropFails \/ DropCancel
RegisterStep == RegisterLog \/ RegisterOutput \/ RegisterStandard
ChildStep == \E p \in Processes : \/ ChildReads(p) \/ ChildSeesEnd(p) \/ ChildEnds(p)
                                  \/ \E f \in items[p] : ChildDeletes(p, f)
ProgramStep == \E p \in programs : ProgramWrites(p) \/ ProgramEnds(p)

PlainSteps ==
    \/ RemoveStale \/ CompressOutput \/ NoOutput \/ DropOutput \/ CompressLog
    \/ CompressStandard \/ SaveCondition \/ Evaluate \/ DropLog \/ Publish
    \/ WriteExtract \/ NoExtract \/ ExtractIsRefused \/ DropStandard
    \/ SummarizeAll \/ (\E s \in Situations : Summarize(s)) \/ RunIsDone \/ StepFails

LEMMA StepKinds ==
  ASSUME [Next]_vars
  PROVE  \/ UNCHANGED vars \/ DaemonStep \/ DropStep \/ RegisterStep \/ ChildStep
         \/ ProgramStep \/ ChooseRun \/ StartProgram \/ PlainSteps
  BY DEF Next, DaemonStep, DropStep, RegisterStep, ChildStep, ProgramStep, PlainSteps

LEMMA PlainStepsArePlain ==
  ASSUME PlainSteps
  PROVE  Plain
  <1> USE DEF Plain, Goes, Live, Alive, Working, FailsMaybe, plans, ghosts
  <1>1. CASE RemoveStale
    BY <1>1 DEF RemoveStale, Forward
  <1>2. CASE NoOutput
    BY <1>2 DEF NoOutput, Forward
  <1>3. CASE SaveCondition \/ WriteExtract \/ NoExtract
    BY <1>3 DEF SaveCondition, WriteExtract, NoExtract, Forward
  <1>4. CASE Evaluate
    BY <1>4 DEF Evaluate, Forward
  <1>5. CASE Publish
    BY <1>5 DEF Publish, Forward
  <1>6. CASE SummarizeAll
    BY <1>6 DEF SummarizeAll, Forward
  <1>7. CASE \E s \in Situations : Summarize(s)
    BY <1>7 DEF Summarize
  <1>8. CASE RunIsDone \/ ExtractIsRefused
    BY <1>8 DEF RunIsDone, ExtractIsRefused
  <1>9. CASE StepFails
    BY <1>9 DEF StepFails
  <1>10. CASE DropOutput \/ DropLog \/ DropStandard
    BY <1>10 DEF DropOutput, DropLog, DropStandard, DropsOne, Leaves
  <1>11. ASSUME NEW from, NEW to, NEW source, NEW target, Compress(from, to, source, target),
                <<from, to>> \in Forward, from \notin {"down", "execs", "locked", "idle", "program"}
         PROVE  Plain
    BY <1>11 DEF Compress
  <1>12. CASE CompressOutput
    BY <1>12, <1>11 DEF CompressOutput, Forward
  <1>13. CASE CompressLog
    BY <1>13, <1>11 DEF CompressLog, Forward
  <1>14. CASE CompressStandard
    BY <1>14, <1>11 DEF CompressStandard, Forward
  <1>15. QED
    BY <1>1, <1>2, <1>3, <1>4, <1>5, <1>6, <1>7, <1>8, <1>9, <1>10, <1>12, <1>13, <1>14
       DEF PlainSteps

\* Only the steps of the daemon as a whole change who it is.
LEMMA SameDaemon ==
  ASSUME [Next]_vars, ~ DaemonStep
  PROVE  /\ UNCHANGED <<newest, pid, outlived, open>> /\ FailsMaybe
         /\ ~ ChooseRun => UNCHANGED run
         /\ pc \in {"down", "execs", "locked"} => pc' = pc
         /\ pc' \in {"down", "execs", "locked"} => pc' = pc
  <1> USE DEF identity, ghosts, cleaning, FailsMaybe
  <1>1. CASE UNCHANGED vars
    BY <1>1 DEF vars, jobVars, cleanupVars
  <1>2. CASE DropStep
    BY <1>2 DEF DropStep, DropDelete, DropFails, DropCancel, CancelCleanup
  <1>3. CASE RegisterStep
    BY <1>3 DEF RegisterStep, RegisterLog, RegisterOutput, RegisterStandard, Register,
                RegisterCleanup, Ends, Live, Alive
  <1>4. CASE ChildStep
    BY <1>4 DEF ChildStep, ChildReads, ChildSeesEnd, ChildEnds, ChildDeletes, ReadMessage,
                SeeEnd, CleanerEnds, CleanerDies, CleanItem, jobVars, plans
  <1>5. CASE ProgramStep
    BY <1>5 DEF ProgramStep, ProgramWrites, ProgramEnds, Ends, Alive
  <1>6. CASE ChooseRun \/ StartProgram
    BY <1>6 DEF ChooseRun, StartProgram, Goes
  <1>7. CASE PlainSteps
    BY <1>7, PlainStepsArePlain DEF Plain, Working, Ends, Leaves, Forward
  <1>8. QED
    BY <1>1, <1>2, <1>3, <1>4, <1>5, <1>6, <1>7, StepKinds

-----------------------------------------------------------------------------
(* Daemons and their children.                                             *)

\* What a step does to the state of a child.
LEMMA ChildChanges ==
  ASSUME ArchiveInv, [Next]_vars, ~ DaemonStep, NEW p \in Processes
  PROVE  \/ cleaner'[p] = cleaner[p]
         \/ cleaner[p] = "reads" /\ p \notin open /\ cleaner'[p] = "cleans"
         \/ cleaner[p] = "cleans" /\ cleaner'[p] = "ended"
         \/ cleaner[p] \in {"reads", "cleans"} /\ cleaner'[p] = "killed"
  <1>0. cleaner \in [Processes -> CleanerStates]
    BY Types
  <1>1. ASSUME UNCHANGED cleaner PROVE cleaner'[p] = cleaner[p]
    BY <1>1
  <1>2. CASE UNCHANGED vars \/ DropStep \/ RegisterStep \/ ProgramStep \/ ChooseRun \/ StartProgram
    <2>1. UNCHANGED cleaner
      BY <1>2 DEF vars, cleanupVars, DropStep, DropDelete, DropFails, DropCancel, CancelCleanup,
         RegisterStep, RegisterLog, RegisterOutput, RegisterStandard, Register, RegisterCleanup,
         ProgramStep, ProgramWrites, ProgramEnds, ChooseRun, StartProgram, cleaning
    <2>2. QED
      BY <2>1
  <1>3. CASE PlainSteps
    BY <1>3, PlainStepsArePlain DEF Plain, cleaning
  <1>4. ASSUME NEW q \in Processes,
               \/ ChildReads(q) \/ ChildSeesEnd(q) \/ ChildEnds(q)
               \/ \E f \in items[q] : ChildDeletes(q, f)
        PROVE  \/ cleaner'[p] = cleaner[p]
               \/ cleaner[p] = "reads" /\ p \notin open /\ cleaner'[p] = "cleans"
               \/ cleaner[p] = "cleans" /\ cleaner'[p] = "ended"
               \/ cleaner[p] \in {"reads", "cleans"} /\ cleaner'[p] = "killed"
    <2>1. \/ UNCHANGED cleaner
          \/ cleaner[q] = "reads" /\ q \notin open /\ cleaner' = [cleaner EXCEPT ![q] = "cleans"]
          \/ cleaner[q] = "cleans" /\ cleaner' = [cleaner EXCEPT ![q] = "ended"]
          \/ cleaner[q] \in {"reads", "cleans"} /\ cleaner' = [cleaner EXCEPT ![q] = "killed"]
      BY <1>4 DEF ChildReads, ChildSeesEnd, ChildEnds, ChildDeletes, ReadMessage, SeeEnd,
                  CleanerEnds, CleanerDies, CleanItem
    <2>2. QED
      BY <1>0, <2>1
  <1>5. QED
    BY <1>2, <1>3, <1>4, StepKinds DEF ChildStep

LEMMA IdsStep ==
  ASSUME ArchiveInv, Books, [Next]_vars
  PROVE  IdsAreFresh' /\ ChildrenRead' /\ failures' \in Nat
  <1> USE DEF IdsAreFresh, ChildrenRead
  <1>0. /\ newest \in Nat /\ newest \in Processes \cup {0} /\ Processes \subseteq Nat \ {0}
        /\ pid \in [Processes -> Processes \cup {0}]
        /\ cleaner \in [Processes -> CleanerStates] /\ open \subseteq {newest}
        /\ pc \in {"down", "execs", "locked"} => open = {}
        /\ pc # "down" => newest \in Processes
        /\ programs \subseteq [run : Runs, id : Processes]
        /\ IdsAreFresh /\ ChildrenRead /\ failures \in Nat
    BY Types, Numbers DEF Books
  <1>1. CASE ~ DaemonStep
    <2>1. /\ UNCHANGED <<newest, pid, outlived, open>> /\ FailsMaybe
          /\ pc \in {"down", "execs", "locked"} => pc' = pc
          /\ pc' \in {"down", "execs", "locked"} => pc' = pc
      BY <1>1, SameDaemon
    <2>2. \A p \in Processes : /\ cleaner[p] = "none" => cleaner'[p] = "none"
                               /\ p \in open => cleaner'[p] \in {"reads", "killed"}
      BY <1>0, <1>1, ChildChanges
    <2>3. failures' \in Nat
      BY <1>0, <2>1 DEF FailsMaybe
    <2>4. IdsAreFresh'
      BY <1>0, <2>1, <2>2 DEF Id
    <2>5. \A p \in open' : cleaner'[p] \in {"reads", "killed"}
      <3>1. \A p \in open : p \in Processes
        BY DEF ArchiveInv, Typed, TypeOK, CleanupTypeOK
      <3>2. QED
        BY <2>1, <2>2, <3>1
    <2>6. pc' = "locked" => cleaner'[newest'] = "none"
      BY <1>0, <2>1, <2>2
    <2>7. Alive' /\ pc' # "locked" => newest' \in open'
      BY <1>0, <2>1 DEF Alive
    <2>8. QED
      BY <2>3, <2>4, <2>5, <2>6, <2>7
  <1>2. CASE Start
    <2>1. /\ newest' = newest + 1 /\ newest + 1 \in Processes /\ pc' = "locked"
          /\ pid' = [pid EXCEPT ![newest + 1] = IF pc = "execs" THEN Id ELSE newest + 1]
          /\ UNCHANGED <<outlived, failures, open, cleaner>> /\ pc \in {"down", "execs"}
      BY <1>2 DEF Start, ghosts, cleaning
    <2>2. /\ pid'[newest + 1] = IF pc = "execs" THEN Id ELSE newest + 1
          /\ \A p \in Processes : p # newest + 1 => pid'[p] = pid[p]
      BY <1>0, <2>1
    <2>3. pid'[newest + 1] \in 1 .. newest + 1
      <3>1. CASE pc = "execs"
        <4>1. Id \in 1 .. newest
          BY <1>0, <3>1 DEF Id
        <4>2. QED
          BY <1>0, <2>2, <3>1, <4>1
      <3>2. CASE pc # "execs"
        BY <1>0, <2>2, <3>2
      <3>3. QED
        BY <3>1, <3>2
    <2>4. pid'[newest + 1] \notin outlived
      BY <1>0, <2>1, <2>2
    <2>5. \A p \in Processes : p > newest + 1 => p > newest /\ p # newest + 1
      BY <1>0
    <2>6. \A p \in Processes : p <= newest + 1 => p = newest + 1 \/ (p <= newest /\ p # newest + 1)
      BY <1>0
    <2>7. \A id \in outlived : id <= newest + 1
      <3>1. \A id \in outlived : id \in Nat /\ id <= newest
        BY <1>0
      <3>2. QED
        BY <1>0, <3>1
    <2>8. IdsAreFresh'
      <3>1. \A p \in Processes : p > newest + 1 => pid'[p] = 0 /\ cleaner'[p] = "none"
        BY <1>0, <2>1, <2>2, <2>5
      <3>2. \A p \in Processes : p <= newest + 1 => pid'[p] \in 1 .. p
        BY <1>0, <2>2, <2>3, <2>6
      <3>3. QED
        BY <1>0, <2>1, <2>4, <2>7, <3>1, <3>2 DEF Id
    <2>9. cleaner'[newest'] = "none"
      BY <1>0, <2>1
    <2>10. ChildrenRead'
      BY <1>0, <2>1, <2>9
    <2>11. QED
      BY <1>0, <2>1, <2>8, <2>10
  <1>3. CASE StartHandler
    <2>1. /\ pc = "locked" /\ pc' = "idle" /\ UNCHANGED <<newest, pid, outlived, failures>>
          /\ cleaner' = [cleaner EXCEPT ![newest] = "reads"] /\ open' = open \cup {newest}
      BY <1>3 DEF StartHandler, StartCleaner, ghosts
    <2>2. \A p \in Processes : p > newest => p # newest
      BY <1>0
    <2>3. QED
      BY <1>0, <2>1, <2>2 DEF Id
  <1>4. ASSUME NEW exec \in BOOLEAN, Return(exec)
        PROVE  IdsAreFresh' /\ ChildrenRead' /\ failures' \in Nat
    BY <1>0, <1>4 DEF Return, ProcessEnds, ghosts, Id, Alive
  <1>5. CASE Killed
    <2>1. /\ pc # "down" /\ pc # "execs" /\ pc' = "down" /\ open' = open \ {newest}
          /\ UNCHANGED <<newest, pid, cleaner, failures>>
          /\ outlived' = outlived \cup {p.id : p \in programs}
      BY <1>5 DEF Killed, ProcessEnds, Alive
    <2>2. \A q \in programs : q.id \in Processes /\ q.id <= newest
      <3>1. Id \in Processes /\ Id <= newest
        BY <1>0, <2>1 DEF Id
      <3>2. QED
        BY <1>0, <3>1 DEF Books, ProgramsAreKnown, Own
    <2>3. QED
      BY <1>0, <2>1, <2>2 DEF Alive
  <1>6. QED
    BY <1>1, <1>2, <1>3, <1>4, <1>5 DEF DaemonStep

-----------------------------------------------------------------------------
(* Programs, and what they wrote.                                          *)

LEMMA ProgramsStep ==
  ASSUME ArchiveInv, Books, [Next]_vars
  PROVE  ProgramsAreKnown'
  <1>0. /\ programs \subseteq [run : Runs, id : Processes] /\ run \in Nat /\ Runs \subseteq Nat \ {0}
        /\ wrote \in [Runs -> SUBSET Files]
        /\ pc # "down" => Id \in Processes /\ Id \notin outlived
        /\ Working => run \in Runs
        /\ ProgramsAreKnown
    BY Types, Numbers DEF Books, IdsAreFresh
  <1>1. ASSUME UNCHANGED <<newest, pid, run, outlived, wrote>>, programs' \subseteq programs,
               Working' => Working,
               pc = "program" => pc' = "program" \/ \A q \in programs' : ~ Own(q),
               pc' \in {"log", "output", "stale", "start"} => pc \in {"log", "output", "stale", "start"}
        PROVE  ProgramsAreKnown'
    <2>1. \A q \in programs' : Own(q) => Own(q)'
      BY <1>1 DEF Own, Id
    <2>2. QED
      BY <1>0, <1>1, <2>1 DEF ProgramsAreKnown, Id
  <1>2. CASE UNCHANGED vars \/ DropStep \/ ChildStep
    <2>1. UNCHANGED <<newest, pid, run, outlived, wrote, programs, pc>>
      BY <1>2 DEF vars, jobVars, DropStep, DropDelete, DropFails, DropCancel, ChildStep, ChildReads,
         ChildSeesEnd, ChildEnds, ChildDeletes, identity, ghosts
    <2>2. QED
      BY <1>1, <2>1 DEF Working
  <1>3. CASE PlainSteps
    <2>1. Plain /\ pc \notin {"down", "execs", "locked", "idle"}
      BY <1>3, PlainStepsArePlain DEF Plain, Working
    <2>2. pc' \in {"log", "output", "stale", "start"} => pc = "stale" \/ pc' = pc
      BY <2>1 DEF Plain, Forward, Ends, Leaves
    <2>3. pc # "program" /\ UNCHANGED <<newest, pid, run, outlived, wrote, programs>>
      BY <2>1 DEF Plain, identity
    <2>4. QED
      BY <1>1, <2>1, <2>2, <2>3 DEF Working
  <1>4. CASE RegisterStep
    <2>1. /\ UNCHANGED <<newest, pid, run, outlived, wrote, programs>>
          /\ pc \in {"log", "output", "keep standard"}
          /\ pc' = "idle" \/ <<pc, pc'>> \in {<<"log", "output">>, <<"output", "stale">>,
                                              <<"keep standard", "condition">>}
      BY <1>4 DEF RegisterStep, RegisterLog, RegisterOutput, RegisterStandard, Register,
                  identity, ghosts, Ends
    <2>2. QED
      BY <1>1, <2>1 DEF Working
  <1>5. CASE DaemonStep
    <2>1. CASE Start
      <3>1. /\ pc \in {"down", "execs"} /\ pc' = "locked"
            /\ UNCHANGED <<run, outlived, wrote, programs>>
        BY <2>1 DEF Start, ghosts
      <3>2. \A q \in programs : q.id \in outlived /\ q.run <= run
        BY <1>0, <3>1 DEF ProgramsAreKnown, Own
      <3>3. QED
        BY <1>0, <3>1, <3>2 DEF ProgramsAreKnown, Working
    <2>2. CASE StartHandler \/ Return(TRUE) \/ Return(FALSE)
      <3>1. /\ UNCHANGED <<newest, pid, run, outlived, wrote, programs>>
            /\ pc \in {"locked", "idle"} /\ pc' \in {"down", "execs", "idle"}
        BY <2>2 DEF StartHandler, Return, ghosts
      <3>2. QED
        BY <1>1, <3>1 DEF Working
    <2>3. CASE Killed
      <3>1. /\ UNCHANGED <<newest, pid, run, wrote, programs>> /\ pc' = "down"
            /\ outlived' = outlived \cup {p.id : p \in programs}
        BY <2>3 DEF Killed
      <3>2. \A q \in programs : q.id \in outlived' /\ q.run <= run
        BY <1>0, <3>1 DEF ProgramsAreKnown, Own
      <3>3. QED
        BY <1>0, <3>1, <3>2 DEF ProgramsAreKnown, Working
    <2>4. QED
      BY <1>5, <2>1, <2>2, <2>3 DEF DaemonStep
  <1>6. CASE ChooseRun
    <2>1. /\ pc = "idle" /\ pc' = "log" /\ run' = run + 1 /\ run + 1 \in Runs
          /\ UNCHANGED <<newest, pid, outlived, wrote, programs>>
      BY <1>6 DEF ChooseRun, Goes, ghosts
    <2>2. \A q \in programs : q.id \in outlived /\ q.run < run + 1 /\ q.run <= run + 1
      <3>1. \A q \in programs : q.run \in Nat /\ q.id \in outlived /\ q.run <= run
        BY <1>0, <2>1 DEF ProgramsAreKnown, Own
      <3>2. QED
        BY <1>0, <3>1
    <2>3. /\ wrote[run + 1] = {} /\ \A r \in Runs : r > run + 1 => wrote[r] = {}
      BY <1>0, <2>1 DEF ProgramsAreKnown
    <2>4. QED
      BY <1>0, <2>1, <2>2, <2>3 DEF ProgramsAreKnown, Working
  <1>7. CASE StartProgram
    <2>1. /\ pc = "start" /\ pc' = "program" /\ UNCHANGED <<newest, pid, run, outlived, wrote>>
          /\ programs' = programs \cup {[run |-> run, id |-> Id]}
      BY <1>7 DEF StartProgram, Goes, identity, ghosts
    <2>2. \A q \in programs : q.id \in outlived /\ q.run <= run /\ q.run < run
      BY <1>0, <2>1 DEF ProgramsAreKnown, Own, Working
    <2>3. ASSUME NEW q, q = [run |-> run, id |-> Id] PROVE Own(q)'
      BY <2>1, <2>3 DEF Own, Id
    <2>4. \A q \in programs' : Own(q)' \/ (q.id \in outlived' /\ q.run <= run' /\ (Working' => q.run < run'))
      BY <2>1, <2>2, <2>3
    <2>5. QED
      BY <1>0, <2>1, <2>4 DEF ProgramsAreKnown, Working, Id
  <1>8. ASSUME NEW p \in programs, ProgramWrites(p) PROVE ProgramsAreKnown'
    <2>1. PICK f \in NamesOf(p.id) : wrote' = [wrote EXCEPT ![p.run] = @ \cup {f}]
      BY <1>8 DEF ProgramWrites, NamesOf
    <2>2. UNCHANGED <<newest, pid, run, outlived, programs, pc>>
      BY <1>8 DEF ProgramWrites, identity
    <2>3. p.run \in Runs /\ p.id \in Processes
      BY <1>0
    <2>4. \A r \in Runs : r # p.run => wrote'[r] = wrote[r]
      BY <1>0, <2>1
    <2>5. wrote'[p.run] = wrote[p.run] \cup {f}
      BY <1>0, <2>1, <2>3
    <2>6. p.run <= run /\ (Working => p.run < run \/ Own(p))
      BY <1>0 DEF ProgramsAreKnown, Own
    <2>7. \A r \in Runs : r > run => wrote'[r] = {}
      BY <1>0, <2>4, <2>6 DEF ProgramsAreKnown
    <2>8. Working => \A id \in Processes : id = Id \/ wrote'[run] \cap NamesOf(id) = {}
      <3>1. SUFFICES ASSUME Working, NEW id \in Processes, id # Id
                     PROVE  wrote'[run] \cap NamesOf(id) = {}
        OBVIOUS
      <3>2. wrote[run] \cap NamesOf(id) = {} /\ run \in Runs
        BY <1>0, <3>1 DEF ProgramsAreKnown
      <3>3. CASE p.run # run
        BY <2>4, <3>2, <3>3
      <3>4. CASE p.run = run
        <4>1. Own(p)
          BY <2>6, <3>1, <3>4, <1>0
        <4>2. f \notin NamesOf(id)
          BY <2>1, <3>1, <4>1, NamesAreOwn DEF Own
        <4>3. QED
          BY <2>5, <3>2, <3>4, <4>2
      <3>5. QED
        BY <3>3, <3>4
    <2>9. pc \in {"log", "output", "stale", "start"} => wrote'[run] = {}
      <3>1. SUFFICES ASSUME pc \in {"log", "output", "stale", "start"} PROVE wrote'[run] = {}
        OBVIOUS
      <3>2. Working /\ ~ Own(p)
        BY <3>1 DEF Working, Own
      <3>3. run \in Runs /\ run # p.run /\ wrote[run] = {}
        BY <1>0, <2>3, <2>6, <3>1, <3>2 DEF ProgramsAreKnown
      <3>4. QED
        BY <2>4, <3>3
    <2>10. \A q \in programs' : Own(q)' \/ (q.id \in outlived' /\ q.run <= run' /\ (Working' => q.run < run'))
      BY <1>0, <2>2 DEF ProgramsAreKnown, Own, Working, Id
    <2>11. QED
      BY <2>2, <2>7, <2>8, <2>9, <2>10 DEF ProgramsAreKnown, Working, Id
  <1>9. ASSUME NEW p \in programs, ProgramEnds(p) PROVE ProgramsAreKnown'
    <2>1. UNCHANGED <<newest, pid, run, outlived, wrote>> /\ programs' = programs \ {p}
      BY <1>9 DEF ProgramEnds, identity, ghosts
    <2>2. CASE Alive /\ pc = "program" /\ p.run = run
      <3>1. pc' \in {"bench output", "idle"}
        BY <1>9, <2>2 DEF ProgramEnds, Ends
      <3>2. \A q \in programs' : ~ Own(q)
        <4>1. Own(p)
          BY <1>0, <2>2 DEF ProgramsAreKnown, Working
        <4>2. ASSUME NEW q \in programs, Own(q) PROVE q = p
          BY <1>0, <4>1, <4>2 DEF Own
        <4>3. QED
          BY <2>1, <4>2
      <3>3. QED
        BY <1>1, <2>1, <2>2, <3>1, <3>2 DEF Working
    <2>3. CASE ~ (Alive /\ pc = "program" /\ p.run = run)
      <3>1. UNCHANGED pc
        BY <1>9, <2>3 DEF ProgramEnds
      <3>2. QED
        BY <1>1, <2>1, <3>1 DEF Working
    <2>4. QED
      BY <2>2, <2>3
  <1>10. QED
    BY <1>2, <1>3, <1>4, <1>5, <1>6, <1>7, <1>8, <1>9, StepKinds DEF ProgramStep

-----------------------------------------------------------------------------
(* Temporary files, and what is to be dropped.                             *)

Ordered(s) == \A k \in 1 .. Len(s) : s[k].op = "cancel" => DeletedBefore(s, k)

LEMMA DropOpsOrdered ==
  ASSUME NEW f
  PROVE  Ordered(DropOps(f)) /\ CancelIn(DropOps(f), f)
  <1> DEFINE s == DropOps(f)
  <1>1. Len(s) = 2 /\ s[1] = Op("delete", f) /\ s[2] = Op("cancel", f)
    BY DEF DropOps, Op
  <1> HIDE DEF s
  <1>2. CancelIn(s, f)
    BY <1>1 DEF CancelIn
  <1>3. ASSUME NEW k \in 1 .. Len(s), s[k].op = "cancel" PROVE DeletedBefore(s, k)
    <2>1. s[1].op # "cancel"
      BY <1>1 DEF Op
    <2>2. k = 2 /\ s[2].file = f
      BY <1>1, <1>3, <2>1 DEF Op
    <2>3. QED
      BY <1>1, <2>2 DEF DeletedBefore
  <1>4. QED
    BY <1>2, <1>3 DEF Ordered, s

LEMMA NothingIsOrdered == Ordered(<<>>) /\ <<>> \in Seq(Drops) /\ \A f : ~ CancelIn(<<>>, f)
  BY DEF Ordered, CancelIn

LEMMA ConcatenationOrdered ==
  ASSUME NEW s \in Seq(Drops), NEW t \in Seq(Drops), Ordered(s), Ordered(t)
  PROVE  /\ Ordered(s \o t)
         /\ \A f : CancelIn(s, f) \/ CancelIn(t, f) => CancelIn(s \o t, f)
  <1> DEFINE u == s \o t
  <1>1. /\ Len(s) \in Nat /\ Len(t) \in Nat /\ Len(u) = Len(s) + Len(t)
        /\ \A k \in 1 .. Len(s) : u[k] = s[k]
        /\ \A k \in 1 .. Len(t) : u[Len(s) + k] = t[k]
    OBVIOUS
  <1> HIDE DEF u
  <1>2. ASSUME NEW k \in 1 .. Len(u), u[k].op = "cancel" PROVE DeletedBefore(u, k)
    <2>1. CASE k <= Len(s)
      <3>1. k \in 1 .. Len(s) /\ u[k] = s[k]
        BY <1>1, <2>1
      <3>2. PICK j \in 1 .. k - 1 : s[j] = Op("delete", s[k].file)
        BY <1>2, <3>1 DEF Ordered, DeletedBefore
      <3>3. j \in 1 .. Len(s)
        BY <1>1, <3>1, <3>2
      <3>4. u[j] = Op("delete", u[k].file)
        BY <1>1, <3>1, <3>2, <3>3
      <3>5. QED
        BY <3>4 DEF DeletedBefore
    <2>2. CASE ~ (k <= Len(s))
      <3>1. k - Len(s) \in 1 .. Len(t) /\ u[k] = t[k - Len(s)]
        <4>1. k - Len(s) \in 1 .. Len(t)
          BY <1>1, <2>2
        <4>2. Len(s) + (k - Len(s)) = k
          BY <1>1
        <4>3. QED
          BY <1>1, <4>1, <4>2
      <3>2. PICK j \in 1 .. (k - Len(s)) - 1 : t[j] = Op("delete", t[k - Len(s)].file)
        BY <1>2, <3>1 DEF Ordered, DeletedBefore
      <3>3. j \in 1 .. Len(t) /\ Len(s) + j \in 1 .. k - 1
        BY <1>1, <3>1, <3>2
      <3>4. u[Len(s) + j] = Op("delete", u[k].file)
        BY <1>1, <3>1, <3>2, <3>3
      <3>5. QED
        BY <3>3, <3>4 DEF DeletedBefore
    <2>3. QED
      BY <2>1, <2>2
  <1>3. ASSUME NEW f, CancelIn(s, f) PROVE CancelIn(u, f)
    <2>1. PICK k \in 1 .. Len(s) : s[k] = Op("cancel", f)
      BY <1>3 DEF CancelIn
    <2>2. k \in 1 .. Len(u) /\ u[k] = Op("cancel", f)
      BY <1>1, <2>1
    <2>3. QED
      BY <2>2 DEF CancelIn
  <1>4. ASSUME NEW f, CancelIn(t, f) PROVE CancelIn(u, f)
    <2>1. PICK k \in 1 .. Len(t) : t[k] = Op("cancel", f)
      BY <1>4 DEF CancelIn
    <2>2. Len(s) + k \in 1 .. Len(u) /\ u[Len(s) + k] = Op("cancel", f)
      BY <1>1, <2>1
    <2>3. QED
      BY <2>2 DEF CancelIn
  <1>5. QED
    BY <1>2, <1>3, <1>4 DEF Ordered, u

\* At the end of run_job, every temporary file is deleted, then cancelled.
LEMMA DropAllOrdered ==
  ASSUME temps \in SUBSET Files
  PROVE  /\ Ordered(DropAll)
         /\ \A f \in temps : f \in NamesOf(Id) \cup {Standard(run)} => CancelIn(DropAll, f)
  <1> DEFINE Part(f) == IF f \in temps THEN DropOps(f) ELSE <<>>
             a == Part(Standard(run))
             b == Part(BenchOutput(Id))
             c == Part(EvobenchLog(Id))
  <1>1. ASSUME NEW f
        PROVE  /\ Part(f) \in Seq(Drops) /\ Ordered(Part(f))
               /\ f \in temps => CancelIn(Part(f), f)
    <2>1. CASE f \in temps
      BY <2>1, DropOpsType, DropOpsOrdered
    <2>2. CASE f \notin temps
      BY <2>2, NothingIsOrdered
    <2>3. QED
      BY <2>1, <2>2
  <1>2. DropAll = (a \o b) \o c
    BY DEF DropAll
  <1>3. /\ a \in Seq(Drops) /\ b \in Seq(Drops) /\ c \in Seq(Drops)
        /\ Ordered(a) /\ Ordered(b) /\ Ordered(c)
        /\ Standard(run) \in temps => CancelIn(a, Standard(run))
        /\ BenchOutput(Id) \in temps => CancelIn(b, BenchOutput(Id))
        /\ EvobenchLog(Id) \in temps => CancelIn(c, EvobenchLog(Id))
    BY <1>1
  <1> HIDE DEF a, b, c
  <1>4. /\ a \o b \in Seq(Drops) /\ Ordered(a \o b)
        /\ \A f : CancelIn(a, f) \/ CancelIn(b, f) => CancelIn(a \o b, f)
    BY <1>3, ConcatenationOrdered
  <1>5. /\ Ordered((a \o b) \o c)
        /\ \A f : CancelIn(a \o b, f) \/ CancelIn(c, f) => CancelIn((a \o b) \o c, f)
    BY <1>3, <1>4, ConcatenationOrdered
  <1>6. QED
    BY <1>2, <1>3, <1>4, <1>5 DEF NamesOf

\* What goes with every end of a run, and with every single drop.
LEMMA EndsDrops ==
  ASSUME ArchiveInv, Books, NEW result, Ends(result), UNCHANGED <<newest, pid, run>>
  PROVE  /\ DropsAreOrdered' /\ TempsAreNamed'
         /\ \A f \in temps : CancelIn(todo', f)
         /\ temps' = {}
  <1>1. temps \in SUBSET Files /\ \A f \in temps : f \in NamesOf(Id) \cup {Standard(run)}
    BY Types DEF Books, TempsAreNamed
  <1>2. temps' = {} /\ pc' = "idle" /\ todo' = DropAll /\ Id' = Id
    BY DEF Ends, Id
  <1>3. /\ \A k \in 1 .. Len(DropAll) : DropAll[k].file \in temps
        /\ Ordered(DropAll)
        /\ \A f \in temps : f \in NamesOf(Id) \cup {Standard(run)} => CancelIn(DropAll, f)
    BY <1>1, DropAllType, DropAllOrdered
  <1>4. DropsAreOrdered'
    BY <1>1, <1>2, <1>3 DEF DropsAreOrdered, Ordered
  <1>5. TempsAreNamed'
    BY <1>2 DEF TempsAreNamed
  <1>6. QED
    BY <1>1, <1>2, <1>3, <1>4, <1>5

\* What goes with dropping one file before the end.
LEMMA LeavesDrops ==
  ASSUME ArchiveInv, Books, NEW f \in Files, NEW from, NEW to, Leaves(from, to, f),
         f \in NamesOf(Id) \cup {Standard(run)}, to \in {"tmp", "rename", "summarize"},
         to = "tmp" => f = BenchOutput(Id), UNCHANGED <<newest, pid, run>>
  PROVE  DropsAreOrdered' /\ TempsAreNamed' /\ CancelIn(todo', f)
  <1>1. /\ pc' = to /\ todo' = DropOps(f) /\ temps' = temps \ {f} /\ Id' = Id
        /\ \A g \in temps : g \in NamesOf(Id) \cup {Standard(run)}
    BY DEF Leaves, Id, Books, TempsAreNamed
  <1>2. /\ \A k \in 1 .. Len(todo') : todo'[k].file = f
        /\ Ordered(todo') /\ CancelIn(todo', f)
    BY <1>1, DropOpsType, DropOpsOrdered
  <1>3. DropsAreOrdered'
    BY <1>1, <1>2 DEF DropsAreOrdered, Ordered
  <1>4. TempsAreNamed'
    BY <1>1 DEF TempsAreNamed
  <1>5. QED
    BY <1>2, <1>3, <1>4

\* With nothing to drop, the order of the drops is not in question.
LEMMA NoDrops ==
  ASSUME todo' = <<>>
  PROVE  DropsAreOrdered'
  BY DEF DropsAreOrdered

\* The destructors run in their order, with everything else standing still.
LEMMA DropStepDrops ==
  ASSUME ArchiveInv, Books, DropStep
  PROVE  DropsAreOrdered' /\ TempsAreNamed'
  <1>0. /\ todo \in Seq(Drops) /\ disk \in [Files -> Contents] /\ DropsAreOrdered /\ TempsAreNamed
        /\ failures \in Nat
        /\ UNCHANGED <<newest, pid, run, pc, temps>> /\ todo # <<>> /\ Id' = Id
    BY Types DEF Books, DropStep, DropDelete, DropFails, DropCancel, identity, Id
  <1>1. TempsAreNamed'
    BY <1>0 DEF TempsAreNamed
  <1>2. pc \in {"idle", "tmp", "rename", "summarize"}
    BY <1>0 DEF DropsAreOrdered
  <1>3. /\ Len(todo) \in Nat \ {0} /\ Head(todo) = todo[1] /\ todo[1] \in Drops
        /\ \A k \in 1 .. Len(todo) : todo[k] \in Drops
    BY <1>0
  <1>4. ASSUME todo' = Tail(todo), UNCHANGED failures, NEW k \in 1 .. Len(todo'),
               failures = 0, todo'[k].op = "cancel",
               \A g \in Files : disk[g] = Absent => disk'[g] = Absent,
               todo[1].op = "delete" => disk'[todo[1].file] = Absent
        PROVE  disk'[todo'[k].file] = Absent \/ DeletedBefore(todo', k)
    <2>1. k + 1 \in 1 .. Len(todo) /\ todo'[k] = todo[k + 1] /\ todo[k + 1].file \in Files
      BY <1>0, <1>3, <1>4 DEF Drops
    <2>2. ~ Exists(todo[k + 1].file) \/ DeletedBefore(todo, k + 1)
      BY <1>0, <1>4, <2>1 DEF DropsAreOrdered, Exists
    <2>3. CASE ~ Exists(todo[k + 1].file)
      BY <1>4, <2>1, <2>3 DEF Exists
    <2>4. CASE DeletedBefore(todo, k + 1)
      <3>1. PICK j \in 1 .. (k + 1) - 1 : todo[j] = Op("delete", todo[k + 1].file)
        BY <2>4 DEF DeletedBefore
      <3>2. CASE j = 1
        BY <1>4, <2>1, <3>1, <3>2 DEF Op
      <3>3. CASE j # 1
        <4>1. j - 1 \in 1 .. k - 1 /\ j - 1 \in 1 .. Len(todo') /\ todo'[j - 1] = todo[j]
          BY <1>0, <1>3, <1>4, <2>1, <3>1, <3>3
        <4>2. QED
          BY <2>1, <3>1, <4>1 DEF DeletedBefore
      <3>4. QED
        BY <3>2, <3>3
    <2>5. QED
      BY <2>2, <2>3, <2>4
  <1>5. ASSUME UNCHANGED failures, todo' = Tail(todo),
               \A g \in Files : disk[g] = Absent => disk'[g] = Absent,
               todo[1].op = "delete" => disk'[todo[1].file] = Absent
        PROVE  DropsAreOrdered'
    <2>1. \A k \in 1 .. Len(todo') : k + 1 \in 1 .. Len(todo) /\ todo'[k] = todo[k + 1]
      BY <1>0, <1>3, <1>5
    <2>2. QED
      BY <1>0, <1>2, <1>4, <1>5, <2>1 DEF DropsAreOrdered, Exists
  <1>6. CASE DropDelete
    <2>1. /\ todo' = Tail(todo) /\ UNCHANGED failures
          /\ disk' = [disk EXCEPT ![todo[1].file] = Absent] /\ todo[1].file \in Files
      BY <1>3, <1>6 DEF DropDelete, Put, ghosts, Drops
    <2>2. /\ \A g \in Files : disk[g] = Absent => disk'[g] = Absent
          /\ disk'[todo[1].file] = Absent
      BY <1>0, <2>1
    <2>3. QED
      BY <1>1, <1>5, <2>1, <2>2
  <1>7. CASE DropCancel
    <2>1. /\ todo' = Tail(todo) /\ UNCHANGED <<failures, disk>> /\ todo[1].op = "cancel"
      BY <1>3, <1>7 DEF DropCancel, ghosts
    <2>2. QED
      BY <1>1, <1>5, <2>1
  <1>8. CASE DropFails
    <2>1. todo' = SubSeq(todo, 3, Len(todo)) /\ failures' # 0
      BY <1>0, <1>8 DEF DropFails
    <2>2. \A k \in 1 .. Len(todo') : k + 2 \in 1 .. Len(todo) /\ todo'[k] = todo[k + 2]
      BY <1>0, <1>3, <2>1
    <2>3. QED
      BY <1>0, <1>1, <1>2, <2>1, <2>2 DEF DropsAreOrdered
  <1>9. QED
    BY <1>6, <1>7, <1>8 DEF DropStep

LEMMA DropsStep ==
  ASSUME ArchiveInv, Books, [Next]_vars
  PROVE  DropsAreOrdered' /\ TempsAreNamed'
  <1>0. /\ todo \in Seq(Drops) /\ disk \in [Files -> Contents] /\ temps \subseteq Files
        /\ DropsAreOrdered /\ TempsAreNamed /\ ProgramsAreKnown /\ failures \in Nat
        /\ pc # "down" => Id \in Processes /\ Id \notin outlived
        /\ Working => run \in Runs
        /\ \A k \in 1 .. Len(todo) : todo[k].file \in Files
    <2>1. todo \in Seq(Drops)
      BY Types
    <2>2. \A k \in 1 .. Len(todo) : todo[k] \in Drops
      BY <2>1
    <2>3. QED
      BY <2>1, <2>2, Types DEF Books, IdsAreFresh, Drops
  <1>1. ASSUME UNCHANGED <<newest, pid, run, pc, temps, todo, failures>>,
               todo # <<>> => \A k \in 1 .. Len(todo) : disk[todo[k].file] = Absent
                                                        => disk'[todo[k].file] = Absent
        PROVE  DropsAreOrdered' /\ TempsAreNamed'
    <2>1. TempsAreNamed'
      BY <1>0, <1>1 DEF TempsAreNamed, Id
    <2>2. DropsAreOrdered'
      BY <1>0, <1>1 DEF DropsAreOrdered, Exists, Id
    <2>3. QED
      BY <2>1, <2>2
  <1>2. CASE UNCHANGED vars
    BY <1>1, <1>2 DEF vars, jobVars
  <1>3. CASE DropStep
    BY <1>3, DropStepDrops
  <1>4. CASE ChildStep
    <2>1. UNCHANGED <<newest, pid, run, pc, temps, todo>>
      BY <1>4 DEF ChildStep, ChildReads, ChildSeesEnd, ChildEnds, ChildDeletes, jobVars, identity, plans
    <2>2. \/ UNCHANGED failures /\ \A g \in Files : disk[g] = Absent => disk'[g] = Absent
          \/ failures' = failures + 1
      BY <1>0, <1>4 DEF ChildStep, ChildReads, ChildSeesEnd, ChildEnds, ChildDeletes, jobVars, Put
    <2>3. CASE UNCHANGED failures /\ \A g \in Files : disk[g] = Absent => disk'[g] = Absent
      BY <1>0, <1>1, <2>1, <2>3
    <2>4. CASE failures' = failures + 1
      <3>1. TempsAreNamed'
        BY <1>0, <2>1 DEF TempsAreNamed, Id
      <3>2. DropsAreOrdered'
        BY <1>0, <2>1, <2>4 DEF DropsAreOrdered, Id
      <3>3. QED
        BY <3>1, <3>2
    <2>5. QED
      BY <2>2, <2>3, <2>4
  <1>5. ASSUME NEW p \in programs, ProgramWrites(p)
        PROVE  DropsAreOrdered' /\ TempsAreNamed'
    <2>1. UNCHANGED <<newest, pid, run, pc, temps, todo, failures>>
      BY <1>5 DEF ProgramWrites, identity, plans
    <2>2. \A g \in Files : g \notin NamesOf(p.id) => disk'[g] = disk[g]
      <3>1. PICK f \in NamesOf(p.id) : \E c : disk' = [disk EXCEPT ![f] = c]
        BY <1>5 DEF ProgramWrites, Put, NamesOf
      <3>2. QED
        BY <1>0, <3>1
    <2>3. ASSUME todo # <<>>, NEW k \in 1 .. Len(todo)
          PROVE  todo[k].file \notin NamesOf(p.id)
      <3>1. pc \in {"idle", "tmp", "rename", "summarize"} /\ todo[k].file \in NamesOf(Id) \cup {Standard(run)}
        BY <1>0, <2>3 DEF DropsAreOrdered
      <3>2. p.id # Id
        BY <1>0, <3>1 DEF ProgramsAreKnown, Own
      <3>3. QED
        BY <3>1, <3>2, NamesAreOwn
    <2>4. QED
      BY <1>0, <1>1, <2>1, <2>2, <2>3
  <1>6. ASSUME NEW p \in programs, ProgramEnds(p)
        PROVE  DropsAreOrdered' /\ TempsAreNamed'
    <2>1. UNCHANGED <<newest, pid, run, failures>>
      BY <1>6 DEF ProgramEnds, identity, ghosts
    <2>2. CASE Ends("error")
      BY <2>1, <2>2, EndsDrops
    <2>3. CASE pc = "program" /\ pc' = "bench output" /\ UNCHANGED plans
      <3>1. todo' = <<>> /\ UNCHANGED temps
        BY <1>0, <2>3 DEF DropsAreOrdered, plans
      <3>2. TempsAreNamed'
        BY <1>0, <2>1, <2>3, <3>1 DEF TempsAreNamed, Id
      <3>3. QED
        BY <3>1, <3>2, NoDrops
    <2>4. CASE UNCHANGED <<pc, plans, disk>>
      BY <1>1, <2>1, <2>4 DEF plans
    <2>5. QED
      <3>1. CASE Alive /\ pc = "program" /\ p.run = run
        <4>1. (pc' = "bench output" /\ UNCHANGED <<plans, outcome>>) \/ Ends("error")
          BY <1>6, <3>1 DEF ProgramEnds
        <4>2. QED
          BY <2>2, <2>3, <3>1, <4>1
      <3>2. CASE ~ (Alive /\ pc = "program" /\ p.run = run)
        <4>1. UNCHANGED <<pc, plans, outcome, disk>>
          BY <1>6, <3>2 DEF ProgramEnds
        <4>2. QED
          BY <2>4, <4>1
      <3>3. QED
        BY <3>1, <3>2
  <1>7. CASE RegisterStep
    <2>1. ASSUME NEW from, NEW to, NEW f, Register(from, to, f), f \in NamesOf(Id) \cup {Standard(run)},
                 \/ from = "log" /\ to = "output" /\ f = EvobenchLog(Id)
                 \/ from = "output" /\ to = "stale" /\ f = BenchOutput(Id)
                 \/ from = "keep standard" /\ to = "condition"
          PROVE  DropsAreOrdered' /\ TempsAreNamed'
      <3>1. UNCHANGED <<newest, pid, run>> /\ todo = <<>> /\ pc = from
        BY <2>1 DEF Register, identity, Live
      <3>2. CASE Ends("error")
        BY <3>1, <3>2, EndsDrops
      <3>3. CASE temps' = temps \cup {f} /\ pc' = to /\ UNCHANGED todo
        <4>1. TempsAreNamed'
          BY <1>0, <2>1, <3>1, <3>3 DEF TempsAreNamed, Id, NamesOf
        <4>2. QED
          BY <3>1, <3>3, <4>1, NoDrops
      <3>4. QED
        BY <2>1, <3>2, <3>3 DEF Register
    <2>2. QED
      BY <1>7, <2>1 DEF RegisterStep, RegisterLog, RegisterOutput, RegisterStandard, NamesOf
  <1>8. CASE ChooseRun
    <2>1. /\ pc = "idle" /\ pc' = "log" /\ todo = <<>> /\ UNCHANGED <<temps, todo>>
      BY <1>8 DEF ChooseRun, Goes, Live, plans
    <2>2. temps' = {}
      BY <1>0, <2>1 DEF TempsAreNamed
    <2>3. TempsAreNamed'
      BY <2>1, <2>2 DEF TempsAreNamed
    <2>4. QED
      BY <2>1, <2>3, NoDrops
  <1>9. CASE StartProgram
    <2>1. /\ pc = "start" /\ pc' = "program" /\ todo = <<>>
          /\ UNCHANGED <<temps, todo, newest, pid, run>>
      BY <1>9 DEF StartProgram, Goes, Live, plans, identity
    <2>2. TempsAreNamed'
      BY <1>0, <2>1 DEF TempsAreNamed, Id
    <2>3. QED
      BY <2>1, <2>2, NoDrops
  <1>10. CASE PlainSteps
    <2>1. Plain
      BY <1>10, PlainStepsArePlain
    <2>2. UNCHANGED <<newest, pid, run>> /\ todo = <<>> /\ Working /\ pc # "program"
      BY <2>1 DEF Plain, identity
    <2>3. CASE UNCHANGED <<temps, todo>> /\ (pc' = pc \/ <<pc, pc'>> \in Forward)
      <3>1. TempsAreNamed'
        <4>1. CASE pc' = pc
          BY <1>0, <2>2, <2>3, <4>1 DEF TempsAreNamed, Id
        <4>2. CASE <<pc, pc'>> \in Forward
          <5>1. pc' \notin {"down", "execs", "locked", "idle", "log", "output", "stale", "program"}
                /\ (pc' = "start" => pc = "stale")
            BY <4>2 DEF Forward
          <5>2. QED
            BY <1>0, <2>2, <2>3, <5>1 DEF TempsAreNamed, Id
        <4>3. QED
          BY <2>3, <4>1, <4>2
      <3>2. QED
        BY <2>2, <2>3, <3>1, NoDrops
    <2>4. CASE \E result \in {"ok", "error"} : Ends(result)
      BY <2>2, <2>4, EndsDrops
    <2>5. CASE \/ Leaves("drop output", "tmp", BenchOutput(Id))
               \/ Leaves("drop log", "rename", EvobenchLog(Id))
               \/ Leaves("drop standard", "summarize", Standard(run))
      <3>1. BenchOutput(Id) \in Files /\ EvobenchLog(Id) \in Files /\ Standard(run) \in Files
        BY <1>0, <2>2, FilesAreFiles DEF Working
      <3>2. QED
        BY <2>2, <2>5, <3>1, LeavesDrops DEF NamesOf
    <2>6. QED
      BY <2>1, <2>3, <2>4, <2>5 DEF Plain
  <1>11. CASE DaemonStep
    <2>1. /\ todo' = <<>> /\ temps' = {} /\ pc' \in {"locked", "idle", "down", "execs"}
      BY <1>0, <1>11 DEF DaemonStep, Start, StartHandler, Return, Killed, plans,
         TempsAreNamed, DropsAreOrdered
    <2>2. TempsAreNamed'
      BY <2>1 DEF TempsAreNamed
    <2>3. QED
      BY <2>1, <2>2, NoDrops
  <1>12. QED
    BY <1>2, <1>3, <1>4, <1>5, <1>6, <1>7, <1>8, <1>9, <1>10, <1>11, StepKinds DEF ProgramStep

-----------------------------------------------------------------------------
(* What the children know of the files of the daemon.                      *)

\* Whatever is neither registered nor cancelled meanwhile stays as it is known.
LEMMA KeepsRegistered ==
  ASSUME ArchiveInv, Books, [Next]_vars, ~ DaemonStep, UNCHANGED registered, temps' \subseteq temps,
         failures' = 0 => \A f \in Files : f \in temps \/ CancelIn(todo, f)
                                           => f \in temps' \/ CancelIn(todo', f)
  PROVE  RegistersOwn'
  <1>0. /\ RegistersOwn /\ failures \in Nat /\ registered \in [Processes -> SUBSET Files]
        /\ cleaner \in [Processes -> CleanerStates]
    BY Types DEF Books
  <1>1. /\ UNCHANGED <<newest, pid>> /\ Id' = Id
        /\ failures' = 0 => failures = 0
        /\ pc' # "down" => pc # "down"
    BY <1>0, SameDaemon DEF FailsMaybe, Id
  <1>2. \A p \in Processes : cleaner'[p] \in {"reads", "cleans"} => cleaner[p] \in {"reads", "cleans"}
    BY ChildChanges
  <1>3. \A p \in Processes : \A f \in registered[p] : f \in Files
    BY <1>0
  <1>4. QED
    BY <1>0, <1>1, <1>2, <1>3 DEF RegistersOwn

LEMMA DaemonRegisters ==
  ASSUME ArchiveInv, Books, DaemonStep
  PROVE  RegistersOwn'
  <1>0. /\ RegistersOwn /\ failures \in Nat /\ registered \in [Processes -> SUBSET Files]
        /\ cleaner \in [Processes -> CleanerStates] /\ pid \in [Processes -> Processes \cup {0}]
        /\ newest \in Nat /\ Processes \subseteq Nat \ {0} /\ NothingBeforeStart
        /\ IdsAreFresh
        /\ pc # "down" => newest \in Processes /\ Id \in Processes
    BY Types, Numbers DEF Books, CleanupInv
  <1>1. /\ pc \in {"down", "execs", "locked", "idle"} => temps = {}
        /\ pc \in {"down", "execs", "locked"} => todo = <<>>
    BY DEF Books, TempsAreNamed, DropsAreOrdered
  <1>2. CASE Start
    <2>1. /\ pc \in {"down", "execs"} /\ newest + 1 \in Processes /\ newest' = newest + 1
          /\ pid' = [pid EXCEPT ![newest + 1] = IF pc = "execs" THEN Id ELSE newest + 1]
          /\ UNCHANGED <<registered, cleaner, temps, todo, failures>>
      BY <1>2 DEF Start, cleaning, plans, ghosts
    <2>2. temps = {} /\ todo = <<>>
      BY <1>1, <2>1
    <2>3. cleaner[newest + 1] = "none" /\ registered[newest + 1] = {}
      BY <1>0, <2>1 DEF IdsAreFresh, NothingBeforeStart
    <2>4. /\ pid'[newest + 1] = IF pc = "execs" THEN Id ELSE newest + 1
          /\ \A p \in Processes : p # newest + 1 => pid'[p] = pid[p]
          /\ Id' = pid'[newest + 1]
      BY <1>0, <2>1 DEF Id
    <2>5. ASSUME NEW p \in Processes, NEW f \in registered[p]
          PROVE  f \in NamesOf(pid'[p]) \/ \E r \in Runs : f = Standard(r)
      BY <1>0, <2>3, <2>4, <2>5 DEF RegistersOwn
    <2>6. ASSUME failures = 0, NEW p \in Processes, pid'[p] = Id', cleaner[p] \in {"reads", "cleans"}
          PROVE  registered[p] = {}
      <3>1. p # newest + 1
        BY <2>3, <2>6
      <3>2. pid[p] = Id' /\ p < newest + 1
        <4>1. pid[p] = Id' /\ cleaner[p] # "none"
          BY <2>4, <2>6, <3>1
        <4>2. ~ (p > newest)
          BY <1>0, <4>1 DEF IdsAreFresh
        <4>3. QED
          BY <1>0, <4>1, <4>2
      <3>3. CASE pc = "execs"
        <4>1. pid[p] = Id
          BY <2>4, <3>2, <3>3
        <4>2. \A f \in registered[p] : CancelIn(todo, f)
          BY <1>0, <2>2, <2>6, <3>3, <4>1 DEF RegistersOwn
        <4>3. QED
          BY <2>2, <4>2, NothingIsOrdered
      <3>4. CASE pc = "down"
        <4>1. pid[p] \in 1 .. p
          BY <1>0, <3>2 DEF IdsAreFresh
        <4>2. pid[p] = newest + 1
          BY <2>4, <3>2, <3>4
        <4>3. QED
          BY <1>0, <3>2, <4>1, <4>2
      <3>5. QED
        BY <2>1, <3>3, <3>4
    <2>7. QED
      BY <2>1, <2>2, <2>5, <2>6 DEF RegistersOwn
  <1>3. CASE StartHandler
    <2>1. /\ pc = "locked" /\ pc' = "idle" /\ UNCHANGED <<newest, pid, registered, temps, todo, failures>>
          /\ cleaner[newest] = "none" /\ cleaner' = [cleaner EXCEPT ![newest] = "reads"]
      BY <1>3 DEF StartHandler, StartCleaner, plans, ghosts
    <2>2. newest \in Processes /\ registered[newest] = {}
      BY <1>0, <2>1 DEF NothingBeforeStart
    <2>3. \A p \in Processes : p # newest => cleaner'[p] = cleaner[p]
      BY <1>0, <2>1
    <2>4. ASSUME NEW p \in Processes, NEW f \in registered[p], failures = 0, pid[p] = Id,
                 cleaner'[p] \in {"reads", "cleans"}
          PROVE  p = newest /\ (f \in temps \/ CancelIn(todo, f))
      <3>1. p # newest
        BY <2>2, <2>4
      <3>2. cleaner[p] \in {"reads", "cleans"}
        BY <2>3, <2>4, <3>1
      <3>3. QED
        BY <1>0, <2>1, <2>4, <3>2 DEF RegistersOwn
    <2>5. Id' = Id
      BY <2>1 DEF Id
    <2>6. QED
      BY <1>0, <2>1, <2>4, <2>5 DEF RegistersOwn
  <1>4. CASE Return(TRUE) \/ Return(FALSE)
    <2>1. /\ pc = "idle" /\ UNCHANGED <<newest, pid, registered, cleaner, temps, todo, failures>>
      BY <1>4 DEF Return, ProcessEnds, plans, ghosts
    <2>2. QED
      BY <1>0, <2>1 DEF RegistersOwn, Id
  <1>5. CASE Killed
    <2>1. /\ pc' = "down" /\ temps' = {} /\ UNCHANGED <<newest, pid, registered>>
      BY <1>5 DEF Killed, ProcessEnds
    <2>2. QED
      BY <1>0, <2>1 DEF RegistersOwn
  <1>6. QED
    BY <1>2, <1>3, <1>4, <1>5 DEF DaemonStep

LEMMA CancelRegisters ==
  ASSUME ArchiveInv, Books, DropCancel
  PROVE  RegistersOwn'
  <1>0. /\ RegistersOwn /\ failures \in Nat /\ registered \in [Processes -> SUBSET Files]
        /\ DropsAreOrdered /\ ChildrenRead /\ todo \in Seq(Drops) /\ newest \in Processes
    BY Types DEF Books, DropCancel, Alive
  <1>1. /\ Alive /\ todo # <<>> /\ todo[1].op = "cancel" /\ todo' = Tail(todo)
        /\ UNCHANGED <<newest, pid, pc, temps, failures>> /\ Id' = Id /\ Head(todo) = todo[1]
    BY <1>0 DEF DropCancel, identity, ghosts, Id
  <1>2. todo[1].file \notin temps /\ pc # "locked" /\ pc # "down"
    <2>1. 1 \in 1 .. Len(todo)
      BY <1>0, <1>1
    <2>2. QED
      BY <1>0, <1>1, <2>1 DEF DropsAreOrdered
  <1>3. CASE CanSend(newest)
    <2>1. UNCHANGED cleaner /\ registered' = [registered EXCEPT ![newest] = @ \ {todo[1].file}]
      BY <1>1, <1>3 DEF DropCancel, CancelCleanup
    <2>2. /\ registered'[newest] = registered[newest] \ {todo[1].file}
          /\ \A p \in Processes : p # newest => registered'[p] = registered[p]
      BY <1>0, <2>1
    <2>3. ASSUME NEW f, f # todo[1].file, CancelIn(todo, f) PROVE CancelIn(todo', f)
      <3>1. PICK k \in 1 .. Len(todo) : todo[k] = Op("cancel", f)
        BY <2>3 DEF CancelIn
      <3>2. k # 1
        BY <2>3, <3>1 DEF Op
      <3>3. k - 1 \in 1 .. Len(todo') /\ todo'[k - 1] = todo[k]
        BY <1>0, <1>1, <3>1, <3>2
      <3>4. QED
        BY <3>1, <3>3 DEF CancelIn
    <2>4. QED
      BY <1>0, <1>1, <1>2, <2>1, <2>2, <2>3 DEF RegistersOwn
  <1>4. CASE ~ CanSend(newest)
    <2>1. UNCHANGED <<cleaner, registered>>
      BY <1>1, <1>4 DEF DropCancel, cleaning
    <2>2. cleaner[newest] = "killed"
      BY <1>0, <1>1, <1>2, <1>4 DEF ChildrenRead, CanSend
    <2>3. \A p \in Processes : p # newest /\ failures = 0 /\ pid[p] = Id /\ cleaner[p] \in {"reads", "cleans"}
                               => registered[p] = {}
      BY <1>0, <1>2 DEF RegistersOwn
    <2>4. QED
      BY <1>0, <1>1, <2>1, <2>2, <2>3 DEF RegistersOwn
  <1>5. QED
    BY <1>3, <1>4

LEMMA RegistersStep ==
  ASSUME ArchiveInv, Books, [Next]_vars
  PROVE  RegistersOwn'
  <1>0. /\ RegistersOwn /\ failures \in Nat /\ registered \in [Processes -> SUBSET Files]
        /\ todo \in Seq(Drops) /\ temps \subseteq Files
        /\ pc # "down" => newest \in Processes /\ Id \in Processes
        /\ Working => run \in Runs
    BY Types DEF Books
  <1>1. ASSUME ~ DaemonStep, UNCHANGED <<registered, temps, todo>> PROVE RegistersOwn'
    BY <1>1, KeepsRegistered
  <1>2. ASSUME ~ DaemonStep, UNCHANGED <<registered, newest, pid, run>>, todo = <<>>,
               NEW result, Ends(result)
        PROVE  RegistersOwn'
    <2>1. temps' = {} /\ \A f \in temps : CancelIn(todo', f)
      BY <1>2, EndsDrops
    <2>2. \A f : ~ CancelIn(todo, f)
      BY <1>2, NothingIsOrdered
    <2>3. QED
      BY <1>2, <2>1, <2>2, KeepsRegistered
  <1>3. ASSUME ~ DaemonStep, UNCHANGED <<registered, newest, pid, run>>, todo = <<>>,
               NEW from, NEW to, NEW f \in Files, Leaves(from, to, f)
        PROVE  RegistersOwn'
    <2>1. temps' = temps \ {f} /\ CancelIn(todo', f)
      BY <1>3, DropOpsOrdered DEF Leaves
    <2>2. \A g : ~ CancelIn(todo, g)
      BY <1>3, NothingIsOrdered
    <2>3. QED
      BY <1>3, <2>1, <2>2, KeepsRegistered
  <1>4. CASE DaemonStep
    BY <1>4, DaemonRegisters
  <1>5. CASE UNCHANGED vars \/ ChildStep \/ ChooseRun \/ StartProgram
    <2>1. UNCHANGED <<registered, temps, todo>>
      BY <1>5 DEF vars, jobVars, cleanupVars, ChildStep, ChildReads, ChildSeesEnd, ChildEnds,
         ChildDeletes, ReadMessage, SeeEnd, CleanerEnds, CleanerDies, CleanItem, ChooseRun,
         StartProgram, plans, cleaning
    <2>2. QED
      BY <1>1, <1>4, <2>1
  <1>6. CASE DropStep /\ ~ DaemonStep
    <2>1. CASE DropCancel
      BY <2>1, CancelRegisters
    <2>2. CASE DropFails
      <3>1. UNCHANGED <<registered, temps>> /\ failures' # 0
        BY <1>0, <2>2 DEF DropFails, cleaning
      <3>2. QED
        BY <1>6, <3>1, KeepsRegistered
    <2>3. CASE DropDelete
      <3>1. /\ UNCHANGED <<registered, temps>> /\ todo' = Tail(todo) /\ todo[1].op = "delete"
            /\ todo # <<>>
        BY <1>0, <2>3 DEF DropDelete, cleaning
      <3>2. ASSUME NEW f, CancelIn(todo, f) PROVE CancelIn(todo', f)
        <4>1. PICK k \in 1 .. Len(todo) : todo[k] = Op("cancel", f)
          BY <3>2 DEF CancelIn
        <4>2. k # 1
          BY <3>1, <4>1 DEF Op
        <4>3. k - 1 \in 1 .. Len(todo') /\ todo'[k - 1] = todo[k]
          BY <1>0, <3>1, <4>1, <4>2
        <4>4. QED
          BY <4>1, <4>3 DEF CancelIn
      <3>3. QED
        BY <1>6, <3>1, <3>2, KeepsRegistered
    <2>4. QED
      BY <1>6, <2>1, <2>2, <2>3 DEF DropStep
  <1>7. CASE ProgramStep /\ ~ DaemonStep
    <2>1. ASSUME NEW p \in programs, ProgramWrites(p) PROVE RegistersOwn'
      BY <1>1, <1>7, <2>1 DEF ProgramWrites, plans, cleaning
    <2>2. ASSUME NEW p \in programs, ProgramEnds(p) PROVE RegistersOwn'
      <3>1. UNCHANGED <<registered, newest, pid, run>>
        BY <2>2 DEF ProgramEnds, identity, cleaning
      <3>2. \/ UNCHANGED <<temps, todo>>
            \/ pc = "program" /\ Ends("error")
        BY <2>2 DEF ProgramEnds, plans
      <3>3. pc = "program" => todo = <<>>
        BY DEF Books, DropsAreOrdered
      <3>4. QED
        BY <1>1, <1>2, <1>7, <3>1, <3>2, <3>3
    <2>3. QED
      BY <1>7, <2>1, <2>2 DEF ProgramStep
  <1>8. CASE PlainSteps /\ ~ DaemonStep
    <2>1. Plain
      BY <1>8, PlainStepsArePlain
    <2>2. UNCHANGED <<registered, newest, pid, run>> /\ todo = <<>> /\ Working
      BY <2>1 DEF Plain, identity, cleaning
    <2>3. BenchOutput(Id) \in Files /\ EvobenchLog(Id) \in Files /\ Standard(run) \in Files
      BY <1>0, <2>2, FilesAreFiles DEF Working
    <2>4. QED
      BY <1>1, <1>2, <1>3, <1>8, <2>1, <2>2, <2>3 DEF Plain
  <1>9. CASE RegisterStep /\ ~ DaemonStep
    <2>1. ASSUME NEW from, NEW to, NEW f \in Files, Register(from, to, f),
                 f \in NamesOf(Id) \/ f = Standard(run), Working
          PROVE  RegistersOwn'
      <3>1. UNCHANGED <<newest, pid, run, failures>> /\ todo = <<>> /\ Id' = Id /\ pc # "down"
        BY <2>1 DEF Register, identity, Live, Id, ghosts, Working
      <3>2. CASE CanSend(newest)
        <4>1. /\ UNCHANGED <<cleaner, todo>> /\ registered' = [registered EXCEPT ![newest] = @ \cup {f}]
              /\ temps' = temps \cup {f}
          BY <2>1, <3>2 DEF Register, RegisterCleanup
        <4>2. /\ registered'[newest] = registered[newest] \cup {f}
              /\ \A p \in Processes : p # newest => registered'[p] = registered[p]
          BY <1>0, <3>1, <4>1
        <4>3. f \in NamesOf(pid[newest]) \/ \E r \in Runs : f = Standard(r)
          BY <1>0, <2>1 DEF Id
        <4>4. QED
          BY <1>0, <3>1, <4>1, <4>2, <4>3 DEF RegistersOwn
      <3>3. CASE ~ CanSend(newest)
        BY <1>2, <1>9, <2>1, <3>1, <3>3 DEF Register, cleaning
      <3>4. QED
        BY <3>2, <3>3
    <2>2. pc \in {"log", "output", "keep standard"} /\ Working
      BY <1>9 DEF RegisterStep, RegisterLog, RegisterOutput, RegisterStandard, Register, Working
    <2>3. BenchOutput(Id) \in Files /\ EvobenchLog(Id) \in Files /\ Standard(run) \in Files
      BY <1>0, <2>2, FilesAreFiles DEF Working
    <2>4. QED
      BY <1>9, <2>1, <2>2, <2>3 DEF RegisterStep, RegisterLog, RegisterOutput, RegisterStandard, NamesOf
  <1>10. QED
    BY <1>4, <1>5, <1>6, <1>7, <1>8, <1>9, StepKinds

LEMMA BooksInit == Init => Books
  <1> SUFFICES ASSUME Init PROVE Books
    OBVIOUS
  <1>0. Processes \subseteq Nat \ {0}
    BY Numbers
  <1> USE DEF Init, CleanupInit
  <1>1. IdsAreFresh /\ ChildrenRead
    BY <1>0 DEF IdsAreFresh, ChildrenRead, Alive
  <1>2. ProgramsAreKnown
    BY DEF ProgramsAreKnown, Working
  <1>3. DropsAreOrdered /\ TempsAreNamed /\ RegistersOwn
    BY DEF DropsAreOrdered, TempsAreNamed, RegistersOwn
  <1>4. QED
    BY <1>1, <1>2, <1>3 DEF Books

LEMMA BooksStep ==
  ASSUME ArchiveInv, Books, [Next]_vars
  PROVE  Books'
  BY IdsStep, ProgramsStep, DropsStep, RegistersStep DEF Books

-----------------------------------------------------------------------------
(* The log of the run that is under way.                                   *)

UsesLog == {"start", "program", "bench output", "drop output", "tmp", "standard",
            "keep standard", "condition", "evaluate"}
UsesOutput == {"start", "program", "bench output"}

\* While a run may still read them, what lies under its names is its own, or what an
\* earlier run has left and its program has not replaced; and what its program has
\* written is there.
IsLeft(f) == failures > 0 /\ f \notin wrote[run]
LogsAreOwn ==
    /\ pc \in UsesLog =>
        /\ Exists(EvobenchLog(Id)) => disk[EvobenchLog(Id)].of = run \/ IsLeft(EvobenchLog(Id))
        /\ failures = 0 /\ EvobenchLog(Id) \in wrote[run] => Exists(EvobenchLog(Id))
    /\ pc \in UsesOutput =>
        /\ failures = 0 /\ BenchOutput(Id) \in wrote[run] => Exists(BenchOutput(Id))
        /\ failures = 0 /\ Exists(BenchOutput(Id)) => disk[BenchOutput(Id)] = Holds(run, "whole")

\* Without RemoveStale, the steps of run_job change files of the run only.
LEMMA PlainDisk ==
  ASSUME ArchiveInv, PlainSteps, ~ RemoveStale
  PROVE  /\ \A f \in Files : f \notin {RunFile(run, name) : name \in RunFiles} => disk'[f] = disk[f]
         /\ pc = "stale" => pc' = "idle"
  <1>0. disk \in [Files -> Contents]
    BY Types
  <1>1. CASE NoOutput \/ Evaluate \/ NoExtract \/ ExtractIsRefused \/ RunIsDone \/ StepFails
             \/ SummarizeAll \/ \E s \in Situations : Summarize(s)
    BY <1>1 DEF NoOutput, Evaluate, NoExtract, ExtractIsRefused, RunIsDone, StepFails,
                SummarizeAll, Summarize, Goes, Ends
  <1>2. CASE DropOutput \/ DropLog \/ DropStandard
    BY <1>2 DEF DropOutput, DropLog, DropStandard, DropsOne, Goes
  <1>3. ASSUME NEW from, NEW to, NEW source, NEW name \in RunFiles, from # "stale",
               Compress(from, to, source, RunFile(run, name))
        PROVE  /\ \A f \in Files : f \notin {RunFile(run, n) : n \in RunFiles} => disk'[f] = disk[f]
               /\ pc = "stale" => pc' = "idle"
    <2>1. UNCHANGED disk \/ \E c : disk' = [disk EXCEPT ![RunFile(run, name)] = c]
      BY <1>3 DEF Compress, Put
    <2>2. QED
      BY <1>0, <1>3, <2>1 DEF Compress
  <1>4. CASE CompressOutput \/ CompressLog \/ CompressStandard
    BY <1>4, <1>3 DEF CompressOutput, CompressLog, CompressStandard, TmpLog, RunFiles
  <1>5. CASE SaveCondition \/ WriteExtract
    <2>1. \E c : \E name \in {"schedule_condition.ron", "log_extract"} :
            disk' = [disk EXCEPT ![RunFile(run, name)] = c]
      BY <1>5 DEF SaveCondition, WriteExtract, LogExtract, Put
    <2>2. QED
      BY <1>0, <1>5, <2>1 DEF SaveCondition, WriteExtract, RunFiles
  <1>6. CASE Publish
    <2>1. \E c, d : disk' = [disk EXCEPT ![RunFile(run, "evobench.log.zstd")] = c,
                                         ![RunFile(run, "evobench.log.zstd.tmp")] = d]
      BY <1>6 DEF Publish, PublishedLog, TmpLog
    <2>2. QED
      BY <1>0, <1>6, <2>1 DEF Publish, Goes, RunFiles
  <1>7. QED
    BY <1>1, <1>2, <1>4, <1>5, <1>6 DEF PlainSteps

\* What a child deletes is not what the run uses.
LEMMA ChildrenSpareTheRun ==
  ASSUME ArchiveInv, Books, Working, failures = 0,
         NEW p \in Processes, NEW f \in items[p], cleaner[p] = "cleans"
  PROVE  f \notin NamesOf(Id)
  <1>1. f \in registered[p]
    <2>1. f \in Items
      BY Types, Numbers
    <2>2. QED
      BY <2>1, Types DEF CleanupInv, CleansWhatIsRegistered
  <1>2. SUFFICES ASSUME f \in NamesOf(Id) PROVE FALSE
    OBVIOUS
  <1>3. pid[p] = Id
    BY <1>1, <1>2, NamesAreOwn DEF Books, RegistersOwn
  <1>4. p = newest
    BY <1>1, <1>3 DEF Books, RegistersOwn, Working
  <1>5. newest \in open
    BY DEF Books, ChildrenRead, Working, Alive
  <1>6. QED
    BY <1>4, <1>5 DEF Books, ChildrenRead

LEMMA LogsStep ==
  ASSUME ArchiveInv, Books, LogsAreOwn, [Next]_vars
  PROVE  LogsAreOwn'
  <1>0. /\ disk \in [Files -> Contents] /\ failures \in Nat /\ wrote \in [Runs -> SUBSET Files]
        /\ pc # "down" => newest \in Processes /\ Id \in Processes
        /\ pc # "down" => NamesOf(Id) \subseteq Files
        /\ Working => run \in Runs
        /\ ProgramsAreKnown /\ DropsAreOrdered
    BY Types, NamesAreOwn DEF Books
  <1>1. ASSUME UNCHANGED <<newest, pid, run, wrote>>, FailsMaybe,
               pc' \in UsesLog => pc \in UsesLog /\ disk'[EvobenchLog(Id)] = disk[EvobenchLog(Id)],
               pc' \in UsesOutput => pc \in UsesOutput /\ disk'[BenchOutput(Id)] = disk[BenchOutput(Id)]
        PROVE  LogsAreOwn'
    <2>1. Id' = Id /\ (failures' = 0 => failures = 0) /\ (failures > 0 => failures' > 0)
      BY <1>0, <1>1 DEF Id, FailsMaybe
    <2>2. QED
      BY <1>1, <2>1 DEF LogsAreOwn, Exists, IsLeft
  <1>2. CASE UNCHANGED vars
    BY <1>1, <1>2 DEF vars, jobVars, FailsMaybe
  <1>3. CASE DaemonStep
    BY <1>3 DEF DaemonStep, Start, StartHandler, Return, Killed, LogsAreOwn, UsesLog, UsesOutput
  <1>4. CASE ChooseRun
    BY <1>4 DEF ChooseRun, Goes, LogsAreOwn, UsesLog, UsesOutput
  <1>5. CASE DropStep
    <2>1. /\ UNCHANGED <<newest, pid, run, wrote, pc>> /\ FailsMaybe /\ todo # <<>> /\ todo \in Seq(Drops)
      BY <1>5, Types DEF DropStep, DropDelete, DropFails, DropCancel, identity, ghosts, FailsMaybe
    <2>2. pc \in UsesLog => pc = "tmp"
      BY <1>0, <2>1 DEF DropsAreOrdered, UsesLog
    <2>3. pc = "tmp" => disk'[EvobenchLog(Id)] = disk[EvobenchLog(Id)]
      <3>1. 1 \in 1 .. Len(todo) /\ Head(todo) = todo[1]
        BY <2>1
      <3>2. pc = "tmp" => todo[1].file # EvobenchLog(Id)
        BY <1>0, <3>1, NamesAreOwn DEF DropsAreOrdered
      <3>3. UNCHANGED disk \/ disk' = [disk EXCEPT ![todo[1].file] = Absent]
        BY <1>5, <3>1 DEF DropStep, DropDelete, DropFails, DropCancel, Put
      <3>4. pc = "tmp" => EvobenchLog(Id) \in Files
        BY <1>0 DEF NamesOf
      <3>5. QED
        BY <1>0, <3>2, <3>3, <3>4
    <2>4. QED
      BY <1>1, <2>1, <2>2, <2>3 DEF UsesLog, UsesOutput
  <1>6. CASE RegisterStep
    <2>1. UNCHANGED <<newest, pid, run, wrote, disk, failures>>
      BY <1>6 DEF RegisterStep, RegisterLog, RegisterOutput, RegisterStandard, Register, identity, ghosts
    <2>2. pc' \in {"idle", "output", "stale"} \/ (pc = "keep standard" /\ pc' = "condition")
      BY <1>6 DEF RegisterStep, RegisterLog, RegisterOutput, RegisterStandard, Register, Ends
    <2>3. QED
      BY <1>1, <2>1, <2>2 DEF UsesLog, UsesOutput, FailsMaybe
  <1>7. CASE StartProgram
    <2>1. /\ UNCHANGED <<newest, pid, run, wrote, failures>> /\ pc = "start" /\ pc' = "program"
          /\ disk' = [disk EXCEPT ![Standard(run)] = Holds(run, "partial")]
      BY <1>7 DEF StartProgram, Goes, identity, ghosts, Put
    <2>2. Standard(run) \notin NamesOf(Id) /\ NamesOf(Id) \subseteq Files
      BY <1>0, <2>1, NamesAreOwn
    <2>3. QED
      BY <1>0, <1>1, <2>1, <2>2 DEF UsesLog, UsesOutput, FailsMaybe, NamesOf
  <1>8. CASE PlainSteps
    <2>1. CASE RemoveStale
      <3>1. PICK kept \in SUBSET {f \in NamesOf(Id) : Exists(f)} :
              /\ disk' = [f \in Files |-> IF f \in NamesOf(Id) \ kept THEN Absent ELSE disk[f]]
              /\ failures' = IF kept = {} THEN failures ELSE failures + 1
        BY <2>1 DEF RemoveStale, NamesOf
      <3>2. /\ pc = "stale" /\ pc' = "start" /\ UNCHANGED <<newest, pid, run, wrote>> /\ Id' = Id
            /\ wrote[run] = {}
        BY <1>0, <2>1 DEF RemoveStale, Goes, identity, ghosts, Id, ProgramsAreKnown
      <3>3. CASE kept = {}
        <4>1. disk'[EvobenchLog(Id)] = Absent /\ disk'[BenchOutput(Id)] = Absent
          BY <1>0, <3>1, <3>2, <3>3 DEF NamesOf
        <4>2. QED
          BY <3>2, <4>1 DEF LogsAreOwn, Exists
      <3>4. CASE kept # {}
        <4>1. failures' > 0
          BY <1>0, <3>1, <3>4
        <4>2. QED
          BY <3>2, <4>1 DEF LogsAreOwn, IsLeft
      <3>5. QED
        BY <3>3, <3>4
    <2>2. CASE ~ RemoveStale
      <3>1. Plain
        BY <1>8, PlainStepsArePlain
      <3>2. UNCHANGED <<newest, pid, run, wrote>> /\ FailsMaybe /\ Working
        BY <3>1 DEF Plain, identity
      <3>3. \A f \in NamesOf(Id) : disk'[f] = disk[f]
        <4>1. /\ \A f \in NamesOf(Id) : f \in Files /\ f \notin {RunFile(run, name) : name \in RunFiles}
          BY <1>0, <3>2, NamesAreOwn DEF Working, RunFiles
        <4>2. QED
          BY <1>8, <2>2, <4>1, PlainDisk
      <3>4. pc' \in UsesLog => pc \in UsesLog
        BY <1>8, <2>2, <3>1, PlainDisk DEF Plain, Forward, UsesLog, Ends, Leaves
      <3>5. pc' \in UsesOutput => pc \in UsesOutput
        BY <1>8, <2>2, <3>1, PlainDisk DEF Plain, Forward, UsesOutput, Ends, Leaves
      <3>6. QED
        BY <1>1, <3>2, <3>3, <3>4, <3>5 DEF NamesOf
    <2>3. QED
      BY <2>1, <2>2
  <1>9. ASSUME NEW p \in programs, ProgramEnds(p) PROVE LogsAreOwn'
    <2>1. UNCHANGED <<newest, pid, run, wrote, failures>>
      BY <1>9 DEF ProgramEnds, identity, ghosts
    <2>2. CASE Alive /\ pc = "program" /\ p.run = run
      <3>1. disk' = [disk EXCEPT ![Standard(run)] = Holds(run, "whole")] /\ pc' \in {"bench output", "idle"}
        BY <1>9, <2>2 DEF ProgramEnds, Put, Ends
      <3>2. Standard(run) \notin NamesOf(Id) /\ NamesOf(Id) \subseteq Files
        BY <1>0, <2>2, NamesAreOwn
      <3>3. QED
        BY <1>0, <1>1, <2>1, <2>2, <3>1, <3>2 DEF UsesLog, UsesOutput, FailsMaybe, NamesOf
    <2>3. CASE ~ (Alive /\ pc = "program" /\ p.run = run)
      <3>1. UNCHANGED <<pc, disk>>
        BY <1>9, <2>3 DEF ProgramEnds
      <3>2. QED
        BY <1>1, <2>1, <3>1 DEF FailsMaybe
    <2>4. QED
      BY <2>2, <2>3
  <1>10. ASSUME NEW p \in programs, ProgramWrites(p) PROVE LogsAreOwn'
    <2>1. UNCHANGED <<newest, pid, run, failures, pc>> /\ Id' = Id
      BY <1>10 DEF ProgramWrites, identity, Id
    <2>2. PICK f \in NamesOf(p.id) :
            /\ wrote' = [wrote EXCEPT ![p.run] = @ \cup {f}]
            /\ \E is \in {"broken", "whole"} : /\ disk' = [disk EXCEPT ![f] = Holds(p.run, is)]
                                               /\ f = BenchOutput(p.id) => is = "whole"
      BY <1>10 DEF ProgramWrites, NamesOf, Put
    <2>3. SUFFICES ASSUME pc \in UsesLog PROVE LogsAreOwn'
      BY <2>1 DEF LogsAreOwn, UsesLog, UsesOutput
    <2>4. Working /\ run \in Runs /\ NamesOf(Id) \subseteq Files /\ run \in Nat
      BY <1>0, <2>3, Types DEF UsesLog, Working
    <2>5. p.run \in Runs /\ p.id \in Processes /\ p.run \in Nat
      BY Types, Numbers
    <2>6. CASE Own(p)
      <3>1. p.run = run /\ p.id = Id /\ f \in NamesOf(Id)
        BY <2>2, <2>6 DEF Own
      <3>2. /\ wrote'[run] = wrote[run] \cup {f}
            /\ \A g \in NamesOf(Id) : g # f => disk'[g] = disk[g]
            /\ \E is \in {"broken", "whole"} : disk'[f] = Holds(run, is) /\ (f = BenchOutput(Id) => is = "whole")
        BY <1>0, <2>2, <2>4, <3>1
      <3>3. disk'[f] # Absent /\ disk'[f].of = run
        BY <3>2 DEF Holds, Absent
      <3>4. EvobenchLog(Id) \in NamesOf(Id) /\ BenchOutput(Id) \in NamesOf(Id)
        BY DEF NamesOf
      <3>5. QED
        BY <2>1, <3>1, <3>2, <3>3, <3>4 DEF LogsAreOwn, IsLeft, Exists
    <2>7. CASE ~ Own(p)
      <3>1. p.run # run /\ p.id # Id
        BY <1>0, <2>4, <2>5, <2>7 DEF ProgramsAreKnown, Books, IdsAreFresh, Working
      <3>2. wrote'[run] = wrote[run] /\ f \notin NamesOf(Id)
        BY <1>0, <2>2, <2>4, <3>1, NamesAreOwn
      <3>3. disk'[EvobenchLog(Id)] = disk[EvobenchLog(Id)] /\ disk'[BenchOutput(Id)] = disk[BenchOutput(Id)]
        BY <1>0, <2>2, <2>4, <3>2 DEF NamesOf
      <3>4. QED
        BY <2>1, <3>2, <3>3 DEF LogsAreOwn, IsLeft, Exists
    <2>8. QED
      BY <2>6, <2>7
  <1>11. CASE ChildStep
    <2>1. UNCHANGED <<newest, pid, run, wrote, pc>> /\ FailsMaybe /\ Id' = Id
      BY <1>11 DEF ChildStep, ChildReads, ChildSeesEnd, ChildEnds, ChildDeletes, jobVars, identity,
         FailsMaybe, Id
    <2>2. CASE UNCHANGED disk
      BY <1>1, <2>1, <2>2
    <2>3. CASE disk' # disk
      <3>1. PICK p \in Processes : \E f \in items[p] : ChildDeletes(p, f)
        BY <1>11, <2>3 DEF ChildStep, ChildReads, ChildSeesEnd, ChildEnds, jobVars
      <3>2. PICK f \in items[p] : ChildDeletes(p, f)
        BY <3>1
      <3>3. /\ cleaner[p] = "cleans" /\ disk' = [disk EXCEPT ![f] = Absent] /\ UNCHANGED failures
        BY <2>3, <3>2 DEF ChildDeletes, CleanItem, Put
      <3>4. \A g \in Files : disk'[g] # Absent => disk'[g] = disk[g]
        BY <1>0, <3>3
      <3>5. pc \in UsesLog /\ failures = 0 => \A g \in NamesOf(Id) : disk'[g] = disk[g]
        <4>1. SUFFICES ASSUME pc \in UsesLog, failures = 0, NEW g \in NamesOf(Id) PROVE disk'[g] = disk[g]
          OBVIOUS
        <4>2. f \notin NamesOf(Id) /\ Working
          BY <3>3, <4>1, ChildrenSpareTheRun DEF UsesLog, Working
        <4>3. g \in Files
          BY <1>0, <4>1, <4>2 DEF Working
        <4>4. QED
          BY <1>0, <3>3, <4>1, <4>2, <4>3
      <3>6. pc \in UsesLog => EvobenchLog(Id) \in Files /\ BenchOutput(Id) \in Files
        BY <1>0 DEF UsesLog, NamesOf
      <3>7. pc \in UsesOutput => pc \in UsesLog
        BY DEF UsesLog, UsesOutput
      <3>8. EvobenchLog(Id) \in NamesOf(Id) /\ BenchOutput(Id) \in NamesOf(Id)
        BY DEF NamesOf
      <3>9. QED
        BY <2>1, <3>3, <3>4, <3>5, <3>6, <3>7, <3>8 DEF LogsAreOwn, IsLeft, Exists
    <2>4. QED
      BY <2>2, <2>3
  <1>12. QED
    BY <1>2, <1>3, <1>4, <1>5, <1>6, <1>7, <1>8, <1>9, <1>10, <1>11, StepKinds DEF ProgramStep

LogsInv == ArchiveInv /\ Books /\ LogsAreOwn

LEMMA LogsInvHolds == Spec => []LogsInv
  <1>1. Init => LogsInv
    BY ArchiveInit, BooksInit DEF LogsInv, Init, LogsAreOwn, UsesLog, UsesOutput
  <1>2. LogsInv /\ [Next]_vars => LogsInv'
    BY ArchiveStep, BooksStep, LogsStep DEF LogsInv
  <1>3. QED
    BY <1>1, <1>2, PTL DEF Spec

\* However runs, kills, re-executions and the children of earlier daemons interleave,
\* a run that is to evaluate what its program has logged finds its own log, and
\* the only copy of what the program said is not deleted.
THEOREM NothingNeededIsDeleted == Spec => []NothingIsDeletedEarly
  <1>1. LogsInv => RunFindsItsLog
    BY DEF LogsInv, LogsAreOwn, IsLeft, RunFindsItsLog, UsesLog
  <1>2. QED
    BY LogsInvHolds, OutputStays, <1>1, PTL DEF NothingIsDeletedEarly

\* For any number of daemons, pipes and kills: without failed deletions, what the
\* children under the daemon's process id will delete is what it has guards for or is
\* about to cancel, and they know all its guards.
THEOREM ChildrenKnow == Spec => []ChildrenKnowTheGuards
  <1>1. LogsInv => ChildrenKnowTheGuards
    <2> SUFFICES ASSUME LogsInv, failures = 0, pc # "down" PROVE ChildrenKnowTheGuards
      BY DEF ChildrenKnowTheGuards
    <2>0. /\ Items = Files /\ newest \in Processes /\ temps \subseteq Files
          /\ CleansWhatIsRegistered /\ RegistersOwn
      BY Types, Numbers DEF LogsInv, CleanupInv, Books
    <2>1. ASSUME NEW p \in Processes, NEW f \in Files, pid[p] = Id,
                 \/ cleaner[p] = "reads" /\ WillClean(p, f)
                 \/ cleaner[p] = "cleans" /\ f \in items[p]
          PROVE  p = newest /\ (f \in temps \/ CancelIn(todo, f))
      <3>1. f \in registered[p] /\ cleaner[p] \in {"reads", "cleans"}
        BY <2>0, <2>1 DEF CleansWhatIsRegistered
      <3>2. QED
        BY <2>0, <2>1, <3>1 DEF RegistersOwn
    <2>2. ASSUME NEW f \in temps, cleaner[newest] = "reads"
          PROVE  WillClean(newest, f)
      BY <2>0, <2>2 DEF CleansWhatIsRegistered, RegistersOwn
    <2>3. \A f : CancelIn(todo, f) => [op |-> "cancel", file |-> f] \in {todo[k] : k \in 1 .. Len(todo)}
      BY DEF CancelIn, Op
    <2>4. QED
      BY <2>1, <2>2, <2>3 DEF ChildrenKnowTheGuards
  <1>2. QED
    BY LogsInvHolds, <1>1, PTL

-----------------------------------------------------------------------------
(* Who deletes the files for the programs.                                 *)

IsCleanedBy(p, f) ==
    /\ f \in registered[p]
    /\ cleaner[p] = "reads" \/ (cleaner[p] = "cleans" /\ f \in items[p])

\* Whatever there is under the names of a process, some child is about to delete.
TempsAreCleaned ==
    failures = 0 /\ (\A p \in Processes : cleaner[p] # "killed") =>
        \A id \in Processes \ outlived : \A f \in NamesOf(id) :
            Exists(f) => \E p \in Processes : IsCleanedBy(p, f)

\* Only programs write under their names.
LEMMA OnlyProgramsWrite ==
  ASSUME LogsInv, [Next]_vars, NEW id \in Processes, NEW f \in NamesOf(id),
         disk'[f] # Absent, disk'[f] # disk[f]
  PROVE  \E p \in programs : ProgramWrites(p) /\ p.id = id
  <1>0. /\ disk \in [Files -> Contents] /\ f \in Files /\ ArchiveInv
        /\ \A r : f # Standard(r) /\ \A name \in RunFiles : f # RunFile(r, name)
    BY Types, NamesAreOwn DEF LogsInv
  <1>1. ~ UNCHANGED disk
    BY <1>0
  <1>2. ~ UNCHANGED vars /\ ~ DaemonStep /\ ~ RegisterStep /\ ~ ChooseRun
    BY <1>1 DEF vars, jobVars, DaemonStep, Start, StartHandler, Return, Killed, RegisterStep,
       RegisterLog, RegisterOutput, RegisterStandard, Register, ChooseRun
  <1>3. ~ \E g : disk' = [disk EXCEPT ![g] = Absent]
    BY <1>0
  <1>4. ~ DropStep /\ ~ ChildStep
    BY <1>1, <1>3 DEF DropStep, DropDelete, DropFails, DropCancel, ChildStep, ChildReads,
       ChildSeesEnd, ChildEnds, ChildDeletes, jobVars, Put
  <1>5. ~ \E r, c : disk' = [disk EXCEPT ![Standard(r)] = c]
    BY <1>0
  <1>6. ~ StartProgram /\ \A p \in programs : ~ ProgramEnds(p)
    BY <1>1, <1>5 DEF StartProgram, ProgramEnds, Put
  <1>7. ~ PlainSteps
    <2>1. ~ RemoveStale
      BY <1>0 DEF RemoveStale
    <2>2. f \notin {RunFile(run, name) : name \in RunFiles}
      BY <1>0
    <2>3. QED
      BY <1>0, <2>1, <2>2, PlainDisk
  <1>8. PICK p \in programs : ProgramWrites(p)
    BY <1>2, <1>4, <1>6, <1>7, StepKinds DEF ProgramStep
  <1>9. f \in NamesOf(p.id)
    <2>1. PICK g \in NamesOf(p.id) : \E c : disk' = [disk EXCEPT ![g] = c]
      BY <1>8 DEF ProgramWrites, NamesOf, Put
    <2>2. QED
      BY <1>0, <2>1
  <1>10. p.id = id
    BY <1>9, NamesAreOwn
  <1>11. QED
    BY <1>8, <1>10

\* A child that is to delete a file still is after any step that leaves the file.
LEMMA CleanersKeep ==
  ASSUME LogsInv, [Next]_vars, failures' = 0, NEW p \in Processes, NEW f \in Files,
         IsCleanedBy(p, f), disk[f] # Absent, disk'[f] # Absent, cleaner'[p] # "killed"
  PROVE  IsCleanedBy(p, f)'
  <1>0. /\ ArchiveInv /\ Books /\ disk \in [Files -> Contents] /\ failures \in Nat
        /\ cleaner \in [Processes -> CleanerStates] /\ registered \in [Processes -> SUBSET Files]
        /\ items \in [Processes -> SUBSET Files] /\ todo \in Seq(Drops)
        /\ CleansWhatIsRegistered /\ Items = Files
    BY Types, Numbers DEF LogsInv, Books, CleanupInv
  <1>1. ASSUME UNCHANGED <<cleaner, items>>, registered[p] \subseteq registered'[p]
        PROVE  IsCleanedBy(p, f)'
    BY <1>1 DEF IsCleanedBy
  <1>2. CASE UNCHANGED vars \/ Start \/ Return(TRUE) \/ Return(FALSE) \/ Killed \/ DropDelete
             \/ DropFails \/ ProgramStep \/ ChooseRun \/ StartProgram
    <2>1. UNCHANGED <<cleaner, items, registered>>
      BY <1>2 DEF vars, cleanupVars, Start, Return, Killed, ProcessEnds, DropDelete,
         DropFails, ProgramStep, ProgramWrites, ProgramEnds, ChooseRun, StartProgram, cleaning
    <2>2. QED
      BY <1>1, <2>1
  <1>3. CASE PlainSteps
    BY <1>1, <1>3, PlainStepsArePlain DEF Plain, cleaning
  <1>4. CASE StartHandler
    <2>1. /\ cleaner[newest] = "none" /\ cleaner' = [cleaner EXCEPT ![newest] = "reads"]
          /\ UNCHANGED <<items, registered>>
      BY <1>4 DEF StartHandler, StartCleaner
    <2>2. p # newest
      BY <2>1 DEF IsCleanedBy
    <2>3. QED
      BY <1>0, <2>1, <2>2 DEF IsCleanedBy
  <1>5. CASE RegisterStep
    <2>1. \/ UNCHANGED <<cleaner, items, registered>>
          \/ UNCHANGED <<cleaner, items>> /\ \E g : registered' = [registered EXCEPT ![newest] = @ \cup {g}]
      BY <1>5 DEF RegisterStep, RegisterLog, RegisterOutput, RegisterStandard, Register,
                  RegisterCleanup, cleaning
    <2>2. QED
      BY <1>0, <1>1, <2>1
  <1>6. CASE DropCancel
    <2>1. \/ UNCHANGED <<cleaner, items, registered>>
          \/ UNCHANGED <<cleaner, items>> /\ registered' = [registered EXCEPT ![newest] = @ \ {todo[1].file}]
      BY <1>0, <1>6 DEF DropCancel, CancelCleanup, cleaning
    <2>2. todo[1].file # f
      <3>1. failures = 0 /\ todo[1].op = "cancel" /\ 1 \in 1 .. Len(todo)
        BY <1>0, <1>6 DEF DropCancel, ghosts
      <3>2. ~ DeletedBefore(todo, 1)
        BY DEF DeletedBefore
      <3>3. QED
        BY <1>0, <3>1, <3>2 DEF Books, DropsAreOrdered, Exists
    <2>3. f \in registered'[p] /\ UNCHANGED <<cleaner, items>>
      BY <1>0, <2>1, <2>2 DEF IsCleanedBy
    <2>4. QED
      BY <2>3 DEF IsCleanedBy
  <1>7. ASSUME NEW q \in Processes, ChildReads(q) PROVE IsCleanedBy(p, f)'
    <2>1. /\ cleaner[q] = "reads" /\ UNCHANGED <<cleaner, registered>>
          /\ \E c : items' = [items EXCEPT ![q] = c]
      BY <1>7 DEF ChildReads, ReadMessage
    <2>2. p # q => items'[p] = items[p]
      BY <1>0, <2>1
    <2>3. QED
      BY <2>1, <2>2 DEF IsCleanedBy
  <1>8. ASSUME NEW q \in Processes, ChildSeesEnd(q) PROVE IsCleanedBy(p, f)'
    <2>1. /\ cleaner[q] = "reads" /\ UNCHANGED <<items, registered>> /\ pipe[q] = <<>>
          /\ cleaner' = [cleaner EXCEPT ![q] = "cleans"]
      BY <1>8 DEF ChildSeesEnd, SeeEnd
    <2>2. CASE p # q
      BY <1>0, <2>1, <2>2 DEF IsCleanedBy
    <2>3. CASE p = q
      <3>1. About(p, f) = {}
        BY <2>1, <2>3 DEF About
      <3>2. WillClean(p, f)
        BY <1>0, <2>1, <2>3 DEF CleansWhatIsRegistered, IsCleanedBy
      <3>3. f \in items[p]
        BY <3>1, <3>2 DEF WillClean
      <3>4. cleaner'[p] = "cleans"
        BY <1>0, <2>1, <2>3
      <3>5. QED
        BY <2>1, <3>3, <3>4 DEF IsCleanedBy
    <2>4. QED
      BY <2>2, <2>3
  <1>9. ASSUME NEW q \in Processes, ChildEnds(q) PROVE IsCleanedBy(p, f)'
    <2>1. /\ UNCHANGED <<items, registered>>
          /\ \/ cleaner[q] = "cleans" /\ items[q] = {} /\ cleaner' = [cleaner EXCEPT ![q] = "ended"]
             \/ cleaner' = [cleaner EXCEPT ![q] = "killed"]
      BY <1>9 DEF ChildEnds, CleanerEnds, CleanerDies
    <2>2. p # q
      BY <1>0, <2>1 DEF IsCleanedBy
    <2>3. cleaner'[p] = cleaner[p]
      BY <1>0, <2>1, <2>2
    <2>4. QED
      BY <2>1, <2>3 DEF IsCleanedBy
  <1>10. ASSUME NEW q \in Processes, NEW g \in items[q], ChildDeletes(q, g)
         PROVE  IsCleanedBy(p, f)'
    <2>1. /\ UNCHANGED <<cleaner, registered>>
          /\ items' = [items EXCEPT ![q] = @ \ {g}]
          /\ disk' = [disk EXCEPT ![g] = Absent] \/ failures' = failures + 1
      BY <1>10 DEF ChildDeletes, CleanItem, Put
    <2>2. disk' = [disk EXCEPT ![g] = Absent]
      BY <1>0, <2>1
    <2>3. f # g
      BY <1>0, <2>2
    <2>4. f \in items[p] => f \in items'[p]
      BY <1>0, <2>1, <2>3
    <2>5. QED
      BY <2>1, <2>4 DEF IsCleanedBy
  <1>11. QED
    BY <1>2, <1>3, <1>4, <1>5, <1>6, <1>7, <1>8, <1>9, <1>10, StepKinds
       DEF DaemonStep, DropStep, ChildStep

LEMMA CleanedStep ==
  ASSUME LogsInv, TempsAreCleaned, [Next]_vars
  PROVE  TempsAreCleaned'
  <1>1. SUFFICES ASSUME failures' = 0, \A p \in Processes : cleaner'[p] # "killed",
                        NEW id \in Processes, id \notin outlived', NEW f \in NamesOf(id), disk'[f] # Absent
                 PROVE  \E p \in Processes : IsCleanedBy(p, f)'
    BY DEF TempsAreCleaned, Exists
  <1>0. /\ ArchiveInv /\ Books /\ f \in Files /\ failures \in Nat
        /\ cleaner \in [Processes -> CleanerStates]
    BY <1>1, Types, NamesAreOwn DEF LogsInv, Books
  <1>2. failures = 0 /\ id \notin outlived /\ \A p \in Processes : cleaner[p] # "killed"
    <2>1. CASE ~ DaemonStep
      <3>1. UNCHANGED outlived /\ failures = 0
        BY <1>0, <1>1, <2>1, SameDaemon DEF FailsMaybe
      <3>2. \A p \in Processes : cleaner[p] # "killed"
        BY <1>0, <1>1, <2>1, ChildChanges
      <3>3. QED
        BY <1>1, <3>1, <3>2
    <2>2. CASE DaemonStep
      <3>1. outlived \subseteq outlived' /\ UNCHANGED failures
        BY <2>2 DEF DaemonStep, Start, StartHandler, Return, Killed, ghosts
      <3>2. UNCHANGED cleaner \/ (cleaner[newest] = "none" /\ cleaner' = [cleaner EXCEPT ![newest] = "reads"])
        BY <2>2 DEF DaemonStep, Start, StartHandler, StartCleaner, Return, Killed, ProcessEnds, cleaning
      <3>3. QED
        BY <1>0, <1>1, <3>1, <3>2
    <2>3. QED
      BY <2>1, <2>2
  <1>3. CASE disk[f] # Absent
    <2>1. PICK p \in Processes : IsCleanedBy(p, f)
      BY <1>2, <1>3 DEF TempsAreCleaned, Exists
    <2>2. IsCleanedBy(p, f)'
      BY <1>0, <1>1, <1>3, <2>1, CleanersKeep
    <2>3. QED
      BY <2>2
  <1>4. CASE disk[f] = Absent
    <2>1. PICK q \in programs : ProgramWrites(q) /\ q.id = id
      BY <1>1, <1>4, OnlyProgramsWrite
    <2>2. Own(q)
      BY <1>0, <1>2, <2>1 DEF Books, ProgramsAreKnown
    <2>3. f \in temps /\ f \in registered[newest]
      BY <1>0, <1>1, <2>1, <2>2 DEF Books, TempsAreNamed, RegistersOwn, Own
    <2>4. newest \in Processes /\ newest \in open
      BY <1>0, <2>2, Types DEF Books, ChildrenRead, Own, Alive
    <2>5. cleaner[newest] = "reads"
      BY <1>0, <1>2, <2>4 DEF Books, ChildrenRead
    <2>6. UNCHANGED <<cleaner, registered>>
      BY <2>1 DEF ProgramWrites, cleaning
    <2>7. IsCleanedBy(newest, f)'
      <3>1. UNCHANGED newest
        BY <2>1 DEF ProgramWrites, identity
      <3>2. QED
        BY <2>3, <2>5, <2>6, <3>1 DEF IsCleanedBy
    <2>8. newest' = newest
      BY <2>1 DEF ProgramWrites, identity
    <2>9. QED
      BY <2>4, <2>7, <2>8
  <1>5. QED
    BY <1>3, <1>4

\* However runs and daemons end and whatever their children have still to read, when
\* all are gone their temporary files are, but for the exceptions that it names.
THEOREM NoFileIsForgotten == Spec => []NothingTemporaryRemains
  <1>1. Init => TempsAreCleaned
    BY DEF Init, TempsAreCleaned, Exists, NamesOf, Files
  <1>2. LogsInv /\ TempsAreCleaned /\ [Next]_vars => TempsAreCleaned'
    BY CleanedStep
  <1>3. TempsAreCleaned => NothingTemporaryRemains
    BY DEF TempsAreCleaned, NothingTemporaryRemains, IsCleanedBy, NamesOf
  <1>4. QED
    BY LogsInvHolds, <1>1, <1>2, <1>3, PTL DEF Spec

-----------------------------------------------------------------------------
(* What is published.                                                      *)

AfterOutput == {"drop output", "tmp", "standard", "keep standard", "condition", "evaluate",
                "drop log", "rename"}
AfterLog == {"standard", "keep standard", "condition", "evaluate"}
AfterCondition == {"evaluate", "drop log", "rename"}
Evaluated == {"drop log", "rename"}
AfterPublish == {"extract", "drop standard", "summarize", "situations"}
AfterExtract == {"drop standard", "summarize", "situations"}

WroteOutput(r) == \E id \in Processes : BenchOutput(id) \in wrote[r]
HasOutputFile(r) == disk[RunFile(r, "bench_output.log.zstd")] = Holds(r, "whole")

\* What the directory of the current run has, as it grows.
OutputIsCompressed ==
    pc \in AfterOutput /\ failures = 0 /\ WroteOutput(run) => HasOutputFile(run)
LogIsCompressed ==
    pc \in AfterLog /\ Exists(EvobenchLog(Id)) => disk[TmpLog(run)] = disk[EvobenchLog(Id)]
IsValidLog(r, log) == log.is = "whole" /\ OwnLog(r, log)
LogIsValid == pc \in Evaluated => IsValidLog(run, disk[TmpLog(run)])
ConditionIsSaved == pc \in AfterCondition => Condition(run) = Holds(run, "whole")
PublishesOnce ==
    /\ pc \in AfterPublish => Exists(PublishedLog(run))
    /\ Working /\ pc \notin AfterPublish => ~ Exists(PublishedLog(run))
    /\ \A r \in Runs, name \in RunFiles : r > run => ~ Exists(RunFile(r, name))
IsInSummaries(r) == r \in summary["all"] /\ r \in summary[situation[r]]
SummarizesItself ==
    pc = "situations" =>
        run \in summary["all"] /\ (situation[run] \in pending \/ run \in summary[situation[run]])

\* What is published is whole, and nothing of it is written any more.
IsWhole(r) ==
    /\ IsValidLog(r, disk[PublishedLog(r)])
    /\ disk[RunFile(r, "standard.log.zstd")] = Holds(r, "whole")
    /\ Condition(r) = Holds(r, "whole")
    /\ failures = 0 /\ WroteOutput(r) => HasOutputFile(r)
    /\ \A q \in programs : q.run # r
WholeWhenPublished == \A r \in Runs : Exists(PublishedLog(r)) => IsWhole(r)
SummariesAreOfPublished ==
    \A s \in Situations \cup {"all"} : \A r \in summary[s] :
        Exists(PublishedLog(r)) /\ (s = "all" \/ situation[r] = s)

\* The log extracts come after the log; they are whole when the run goes on.
IsCut(r) == disk[LogExtract(r)].is = "partial"
ExtractsComeLater ==
    /\ \A r \in Runs : Exists(LogExtract(r)) => Exists(PublishedLog(r))
    /\ pc \in AfterExtract => ~ IsCut(run)

\* A run is done when it is published; none is before its end.
DoneIsPublished ==
    \A r \in Runs : outcome[r] = "ok" => Exists(PublishedLog(r)) /\ IsInSummaries(r) /\ ~ IsCut(r)
DoneAtItsEnd ==
    /\ Working => outcome[run] # "ok"
    /\ \A r \in Runs : r > run => outcome[r] # "ok"

Outcomes == {"none", "ok", "error", "killed"}
PublishInv ==
    /\ outcome \in [Runs -> Outcomes] /\ pending \subseteq Situations
    /\ OutputIsCompressed /\ LogIsCompressed /\ LogIsValid /\ ConditionIsSaved
    /\ PublishesOnce /\ SummarizesItself
    /\ WholeWhenPublished /\ SummariesAreOfPublished
    /\ ExtractsComeLater /\ DoneIsPublished /\ DoneAtItsEnd

\* How a run gets from one place to the next.
LEMMA Moves ==
  ASSUME [Next]_vars, Working', pc' # pc
  PROVE  \/ ChooseRun /\ pc = "idle" /\ pc' = "log"
         \/ /\ pc \in {"log", "output", "stale", "start", "program"}
            /\ pc' \in {"output", "stale", "start", "program", "bench output"}
         \/ CompressOutput /\ pc = "bench output" /\ pc' = "drop output"
         \/ NoOutput /\ pc = "bench output" /\ pc' = "tmp"
         \/ DropOutput /\ pc = "drop output" /\ pc' = "tmp"
         \/ CompressLog /\ pc = "tmp" /\ pc' = "standard"
         \/ CompressStandard /\ pc = "standard" /\ pc' = "keep standard"
         \/ RegisterStandard /\ pc = "keep standard" /\ pc' = "condition"
         \/ SaveCondition /\ pc = "condition" /\ pc' = "evaluate"
         \/ Evaluate /\ pc = "evaluate" /\ pc' = "drop log"
         \/ DropLog /\ pc = "drop log" /\ pc' = "rename"
         \/ Publish /\ pc = "rename" /\ pc' = "extract"
         \/ (WriteExtract \/ NoExtract) /\ pc = "extract" /\ pc' = "drop standard"
         \/ DropStandard /\ pc = "drop standard" /\ pc' = "summarize"
         \/ SummarizeAll /\ pc = "summarize" /\ pc' = "situations"
  <1> USE DEF Goes, Working, Ends
  <1>1. ~ UNCHANGED vars /\ ~ DaemonStep /\ ~ DropStep /\ ~ ChildStep
    BY DEF vars, jobVars, DaemonStep, Start, StartHandler, Return, Killed, DropStep, DropDelete,
       DropFails, DropCancel, ChildStep, ChildReads, ChildSeesEnd, ChildEnds, ChildDeletes
  <1>2. ~ RunIsDone /\ ~ ExtractIsRefused /\ ~ StepFails /\ \A s \in Situations : ~ Summarize(s)
    BY DEF RunIsDone, ExtractIsRefused, StepFails, Summarize
  <1>3. CASE ChooseRun
    BY <1>3 DEF ChooseRun
  <1>4. CASE RegisterStep \/ ProgramStep \/ StartProgram \/ RemoveStale
    BY <1>4 DEF RegisterStep, RegisterLog, RegisterOutput, RegisterStandard, Register,
       ProgramStep, ProgramWrites, ProgramEnds, StartProgram, RemoveStale
  <1>5. CASE CompressOutput \/ CompressLog \/ CompressStandard
    BY <1>5 DEF CompressOutput, CompressLog, CompressStandard, Compress
  <1>6. CASE NoOutput \/ SaveCondition \/ Evaluate \/ Publish \/ WriteExtract \/ NoExtract
    BY <1>6 DEF NoOutput, SaveCondition, Evaluate, Publish, WriteExtract, NoExtract
  <1>7. CASE DropOutput \/ DropLog \/ DropStandard
    BY <1>7 DEF DropOutput, DropLog, DropStandard, DropsOne
  <1>8. CASE SummarizeAll
    BY <1>8 DEF SummarizeAll
  <1>9. QED
    BY <1>1, <1>2, <1>3, <1>4, <1>5, <1>6, <1>7, <1>8, StepKinds DEF PlainSteps

LEMMA SituationsStay ==
  ASSUME [Next]_vars
  PROVE  UNCHANGED situation
  BY DEF Next, vars, jobVars, identity, Start, StartHandler, Return, Killed, DropDelete,
     DropFails, DropCancel, ChooseRun, RegisterLog, RegisterOutput, RegisterStandard, Register,
     RemoveStale, StartProgram, ProgramWrites, ProgramEnds, CompressOutput, CompressLog,
     CompressStandard, Compress, NoOutput, DropOutput, DropLog, DropStandard, DropsOne,
     SaveCondition, Evaluate, Publish, WriteExtract, NoExtract, ExtractIsRefused,
     SummarizeAll, Summarize, RunIsDone, StepFails, ChildReads, ChildSeesEnd, ChildEnds, ChildDeletes

\* A run that is under way is the same after the step, with the same daemon.
LEMMA SameRun ==
  ASSUME [Next]_vars, Working'
  PROVE  \/ ChooseRun /\ pc = "idle" /\ pc' = "log" /\ run' = run + 1
         \/ Working /\ UNCHANGED <<newest, pid, run, situation>> /\ Id' = Id /\ FailsMaybe
  <1>1. ~ DaemonStep
    BY DEF DaemonStep, Start, StartHandler, Return, Killed, Working
  <1>2. CASE ChooseRun
    BY <1>2 DEF ChooseRun, Goes
  <1>3. CASE ~ ChooseRun
    <2>1. Working
      <3>1. CASE pc' = pc
        BY <3>1 DEF Working
      <3>2. CASE pc' # pc
        BY <1>3, <3>2, Moves DEF Working
      <3>3. QED
        BY <3>1, <3>2
    <2>2. QED
      BY <1>1, <1>3, <2>1, SituationsStay, SameDaemon DEF Id
  <1>4. QED
    BY <1>2, <1>3

\* Which steps write a file of the directory of a run.
LEMMA Rewrites ==
  ASSUME LogsInv, [Next]_vars, NEW r \in Runs, NEW name \in RunFiles,
         disk'[RunFile(r, name)] # disk[RunFile(r, name)]
  PROVE  /\ r = run /\ Working /\ (pc \notin AfterPublish \/ (name = "log_extract" /\ pc = "extract"))
         /\ \/ CompressOutput /\ name = "bench_output.log.zstd" /\ pc = "bench output"
            \/ CompressLog /\ name = "evobench.log.zstd.tmp" /\ pc = "tmp"
            \/ CompressStandard /\ name = "standard.log.zstd" /\ pc = "standard"
            \/ SaveCondition /\ name = "schedule_condition.ron" /\ pc = "condition"
            \/ Publish /\ name \in {"evobench.log.zstd", "evobench.log.zstd.tmp"} /\ pc = "rename"
            \/ WriteExtract /\ name = "log_extract" /\ pc = "extract"
  <1> DEFINE f == RunFile(r, name)
  <1>0. /\ disk \in [Files -> Contents] /\ f \in Files /\ ArchiveInv /\ RegistersOwn
        /\ DropsAreOrdered /\ todo \in Seq(Drops) /\ disk'[f] # disk[f]
        /\ registered \in [Processes -> SUBSET Files] /\ items \in [Processes -> SUBSET Files]
        /\ CleansWhatIsRegistered /\ Items = Files
    BY Types, FilesAreFiles, Numbers DEF LogsInv, Books, CleanupInv
  <1>1. \A i, q : f \notin NamesOf(i) /\ f # Standard(q)
    BY NamesAreOwn DEF RunFile, Standard, RunFiles
  <1>2. \A q, n : f = RunFile(q, n) => q = r /\ n = name
    BY DEF RunFile
  <1> HIDE DEF f
  <1>3. ~ UNCHANGED disk /\ \A g, c : disk' = [disk EXCEPT ![g] = c] => g = f
    BY <1>0
  <1>4. ~ UNCHANGED vars /\ ~ DaemonStep /\ ~ RegisterStep /\ ~ ChooseRun
    BY <1>3 DEF vars, jobVars, DaemonStep, Start, StartHandler, Return, Killed, RegisterStep,
       RegisterLog, RegisterOutput, RegisterStandard, Register, ChooseRun
  <1>5. ~ DropStep
    <2>1. SUFFICES ASSUME DropStep PROVE FALSE
      OBVIOUS
    <2>2. todo # <<>> /\ disk' = [disk EXCEPT ![Head(todo).file] = Absent]
      BY <1>3, <2>1 DEF DropStep, DropDelete, DropFails, DropCancel, Put
    <2>3. 1 \in 1 .. Len(todo) /\ Head(todo) = todo[1]
      BY <1>0, <2>2
    <2>4. todo[1].file \in NamesOf(Id) \cup {Standard(run)}
      BY <1>0, <2>3 DEF DropsAreOrdered
    <2>5. QED
      BY <1>1, <1>3, <2>2, <2>3, <2>4
  <1>6. ~ ChildStep
    <2>1. SUFFICES ASSUME ChildStep PROVE FALSE
      OBVIOUS
    <2>2. PICK p \in Processes : \E g \in items[p] : ChildDeletes(p, g)
      BY <1>3, <2>1 DEF ChildStep, ChildReads, ChildSeesEnd, ChildEnds, jobVars
    <2>3. PICK g \in items[p] : ChildDeletes(p, g)
      BY <2>2
    <2>4. disk' = [disk EXCEPT ![g] = Absent] /\ cleaner[p] = "cleans"
      BY <1>3, <2>3 DEF ChildDeletes, CleanItem, Put
    <2>5. f \in registered[p]
      BY <1>0, <1>3, <2>4 DEF CleansWhatIsRegistered
    <2>6. QED
      BY <1>0, <1>1, <2>5 DEF RegistersOwn
  <1>7. ~ ProgramStep
    <2>1. \A p \in programs : ~ ProgramEnds(p)
      BY <1>1, <1>3 DEF ProgramEnds, Put
    <2>2. \A p \in programs : ~ ProgramWrites(p)
      BY <1>1, <1>3 DEF ProgramWrites, NamesOf, Put
    <2>3. QED
      BY <2>1, <2>2 DEF ProgramStep
  <1>8. ~ StartProgram
    BY <1>1, <1>3 DEF StartProgram, Put
  <1>9. PlainSteps
    BY <1>4, <1>5, <1>6, <1>7, <1>8, StepKinds
  <1>10. ~ RemoveStale
    BY <1>0, <1>1 DEF RemoveStale, NamesOf
  <1>11. ASSUME NEW from, NEW to, NEW source, NEW n, Compress(from, to, source, RunFile(run, n))
         PROVE  r = run /\ name = n /\ pc = from
    BY <1>2, <1>3, <1>11 DEF Compress, Put
  <1>12. CASE CompressOutput \/ CompressLog \/ CompressStandard
    <2>1. CASE CompressOutput
      <3>1. Compress("bench output", "drop output", BenchOutput(Id), RunFile(run, "bench_output.log.zstd"))
        BY <2>1 DEF CompressOutput
      <3>2. r = run /\ name = "bench_output.log.zstd" /\ pc = "bench output"
        BY <1>11, <3>1
      <3>3. QED
        BY <2>1, <3>2 DEF Working, AfterPublish
    <2>2. CASE CompressLog
      <3>1. Compress("tmp", "standard", EvobenchLog(Id), RunFile(run, "evobench.log.zstd.tmp"))
        BY <2>2 DEF CompressLog, TmpLog
      <3>2. r = run /\ name = "evobench.log.zstd.tmp" /\ pc = "tmp"
        BY <1>11, <3>1
      <3>3. QED
        BY <2>2, <3>2 DEF Working, AfterPublish
    <2>3. CASE CompressStandard
      <3>1. Compress("standard", "keep standard", Standard(run), RunFile(run, "standard.log.zstd"))
        BY <2>3 DEF CompressStandard
      <3>2. r = run /\ name = "standard.log.zstd" /\ pc = "standard"
        BY <1>11, <3>1
      <3>3. QED
        BY <2>3, <3>2 DEF Working, AfterPublish
    <2>4. QED
      BY <1>12, <2>1, <2>2, <2>3
  <1>13. CASE SaveCondition \/ WriteExtract
    <2>1. CASE SaveCondition
      BY <1>2, <1>3, <1>13, <2>1 DEF SaveCondition, Put, Working, AfterPublish
    <2>2. CASE WriteExtract
      <3>1. pc = "extract" /\ \E c : disk' = [disk EXCEPT ![RunFile(run, "log_extract")] = c]
        BY <2>2 DEF WriteExtract, LogExtract, Put
      <3>2. r = run /\ name = "log_extract"
        BY <1>2, <1>3, <3>1
      <3>3. QED
        BY <2>2, <3>1, <3>2 DEF Working
    <2>3. QED
      BY <1>13, <2>1, <2>2
  <1>14. CASE Publish
    <2>1. pc = "rename" /\ \E c, d : disk' = [disk EXCEPT ![RunFile(run, "evobench.log.zstd")] = c,
                                                         ![RunFile(run, "evobench.log.zstd.tmp")] = d]
      BY <1>14 DEF Publish, PublishedLog, TmpLog, Goes
    <2>2. f = RunFile(run, "evobench.log.zstd") \/ f = RunFile(run, "evobench.log.zstd.tmp")
      BY <1>0, <2>1
    <2>3. QED
      BY <1>2, <1>14, <2>1, <2>2 DEF Working, AfterPublish
  <1>15. CASE \/ NoOutput \/ DropOutput \/ Evaluate \/ DropLog \/ NoExtract \/ ExtractIsRefused
              \/ DropStandard \/ SummarizeAll \/ (\E s \in Situations : Summarize(s))
              \/ RunIsDone \/ StepFails
    BY <1>3, <1>15 DEF NoOutput, DropOutput, DropsOne, Evaluate, DropLog, NoExtract,
       ExtractIsRefused, DropStandard, SummarizeAll, Summarize, RunIsDone, StepFails
  <1>16. QED
    BY <1>9, <1>10, <1>12, <1>13, <1>14, <1>15 DEF PlainSteps

\* Whose program a step is of: what a run has written and which programs there are.
LEMMA WrittenByPrograms ==
  ASSUME LogsInv, [Next]_vars, NEW r \in Runs, \A q \in programs : q.run # r,
         pc # "start" \/ r # run
  PROVE  wrote'[r] = wrote[r] /\ \A q \in programs' : q.run # r
  <1>0. wrote \in [Runs -> SUBSET Files]
    BY Types DEF LogsInv
  <1>1. CASE StartProgram
    BY <1>1 DEF StartProgram, Goes, ghosts
  <1>2. CASE ProgramStep
    <2>1. PICK p \in programs : ProgramWrites(p) \/ ProgramEnds(p)
      BY <1>2 DEF ProgramStep
    <2>2. CASE ProgramWrites(p)
      <3>1. UNCHANGED programs /\ \E f : wrote' = [wrote EXCEPT ![p.run] = @ \cup {f}]
        BY <2>2 DEF ProgramWrites
      <3>2. QED
        BY <1>0, <3>1
    <2>3. CASE ProgramEnds(p)
      BY <2>3 DEF ProgramEnds, ghosts
    <2>4. QED
      BY <2>1, <2>2, <2>3
  <1>3. CASE PlainSteps
    BY <1>3, PlainStepsArePlain DEF Plain
  <1>4. CASE UNCHANGED vars \/ DaemonStep \/ DropStep \/ RegisterStep \/ ChildStep \/ ChooseRun
    BY <1>4 DEF vars, jobVars, DaemonStep, Start, StartHandler, Return, Killed, DropStep, DropDelete,
       DropFails, DropCancel, RegisterStep, RegisterLog, RegisterOutput, RegisterStandard, Register,
       ChildStep, ChildReads, ChildSeesEnd, ChildEnds, ChildDeletes, ChooseRun, ghosts
  <1>5. QED
    BY <1>1, <1>2, <1>3, <1>4, StepKinds

-----------------------------------------------------------------------------
(* The directory of the current run.                                       *)

LEMMA Whole == \A r : Holds(r, "whole") # Absent /\ Holds(r, "whole").is = "whole"
  BY DEF Holds, Absent

\* After its program, nothing writes for the current run.
LEMMA AfterTheProgram ==
  ASSUME LogsInv, [Next]_vars, Working, pc \notin {"start", "program"}
  PROVE  /\ wrote'[run] = wrote[run] /\ \A q \in programs' : q.run # run
         /\ \A q \in programs : q.run # run /\ q.id # Id
  <1>1. \A q \in programs : q.id \in outlived /\ q.run <= run /\ q.run < run /\ q.run \in Nat
    <2>1. \A q \in programs : q.run \in Nat
      BY Types, Numbers DEF LogsInv
    <2>2. QED
      BY <2>1 DEF LogsInv, Books, ProgramsAreKnown, Own
  <1>2. run \in Runs /\ run \in Nat /\ Id \notin outlived
    BY Types DEF LogsInv, Books, IdsAreFresh, Working
  <1>3. \A q \in programs : q.run # run /\ q.id # Id
    BY <1>1, <1>2
  <1>4. QED
    BY <1>2, <1>3, WrittenByPrograms

LEMMA FailuresStay ==
  ASSUME LogsInv, [Next]_vars
  PROVE  (failures' = 0 => failures = 0) /\ (failures > 0 => failures' > 0)
  <1>1. failures \in Nat
    BY DEF LogsInv, Books
  <1>2. CASE DaemonStep
    BY <1>2 DEF DaemonStep, Start, StartHandler, Return, Killed, ghosts
  <1>3. CASE ~ DaemonStep
    BY <1>1, <1>3, SameDaemon DEF FailsMaybe
  <1>4. QED
    BY <1>2, <1>3

LEMMA OutputCompressedStep ==
  ASSUME LogsInv, PublishInv, [Next]_vars
  PROVE  OutputIsCompressed'
  <1>1. SUFFICES ASSUME pc' \in AfterOutput, failures' = 0, WroteOutput(run)'
                 PROVE  HasOutputFile(run)'
    BY DEF OutputIsCompressed
  <1>2. /\ Working /\ UNCHANGED <<newest, pid, run>> /\ Id' = Id /\ failures = 0 /\ run \in Runs
        /\ Id \in Processes /\ disk \in [Files -> Contents]
    <2>1. pc' # "log" /\ Working'
      BY <1>1 DEF AfterOutput, Working
    <2>2. Working /\ UNCHANGED <<newest, pid, run>> /\ Id' = Id /\ FailsMaybe
      BY <2>1, SameRun
    <2>3. failures = 0
      BY <1>1, <2>2 DEF LogsInv, Books, FailsMaybe
    <2>4. QED
      BY <2>2, <2>3, Types DEF LogsInv, Working
  <1>3. pc \in AfterOutput \/ (pc = "bench output" /\ (CompressOutput \/ NoOutput))
    BY <1>1, Moves DEF AfterOutput, Working
  <1>4. WroteOutput(run)
    <2>1. wrote'[run] = wrote[run]
      BY <1>2, <1>3, AfterTheProgram DEF AfterOutput
    <2>2. QED
      BY <1>1, <1>2, <2>1 DEF WroteOutput
  <1>5. CASE pc \in AfterOutput
    <2>1. HasOutputFile(run)
      BY <1>2, <1>4, <1>5 DEF PublishInv, OutputIsCompressed
    <2>2. disk'[RunFile(run, "bench_output.log.zstd")] = disk[RunFile(run, "bench_output.log.zstd")]
      BY <1>2, <1>5, Rewrites DEF AfterOutput, RunFiles
    <2>3. QED
      BY <1>2, <2>1, <2>2 DEF HasOutputFile
  <1>6. CASE pc = "bench output" /\ CompressOutput
    <2>1. disk' = [disk EXCEPT ![RunFile(run, "bench_output.log.zstd")] =
                     IF Exists(BenchOutput(Id)) THEN disk[BenchOutput(Id)] ELSE Holds(run, "whole")]
      BY <1>1, <1>6 DEF CompressOutput, Compress, Put, Ends, AfterOutput
    <2>2. Exists(BenchOutput(Id)) => disk[BenchOutput(Id)] = Holds(run, "whole")
      BY <1>2, <1>6 DEF LogsInv, LogsAreOwn, UsesOutput
    <2>3. RunFile(run, "bench_output.log.zstd") \in Files
      BY <1>2, FilesAreFiles DEF RunFiles
    <2>4. QED
      BY <1>2, <2>1, <2>2, <2>3 DEF HasOutputFile
  <1>7. CASE pc = "bench output" /\ NoOutput
    <2>1. ~ Exists(BenchOutput(Id))
      BY <1>7 DEF NoOutput
    <2>2. BenchOutput(Id) \notin wrote[run]
      BY <1>2, <1>7, <2>1 DEF LogsInv, LogsAreOwn, UsesOutput
    <2>3. \A id \in Processes : id = Id \/ BenchOutput(id) \notin wrote[run]
      BY <1>2 DEF LogsInv, Books, ProgramsAreKnown, NamesOf
    <2>4. QED
      BY <1>4, <2>2, <2>3 DEF WroteOutput
  <1>8. QED
    BY <1>3, <1>5, <1>6, <1>7

LEMMA LogCompressedStep ==
  ASSUME LogsInv, PublishInv, [Next]_vars
  PROVE  LogIsCompressed'
  <1>1. SUFFICES ASSUME pc' \in AfterLog, Exists(EvobenchLog(Id))'
                 PROVE  disk'[TmpLog(run')] = disk'[EvobenchLog(Id')]
    BY DEF LogIsCompressed
  <1>2. /\ Working /\ UNCHANGED <<newest, pid, run>> /\ Id' = Id /\ run \in Runs
        /\ Id \in Processes /\ disk \in [Files -> Contents]
    BY <1>1, SameRun, Types DEF AfterLog, Working, LogsInv
  <1>3. pc \in AfterLog \/ (pc = "tmp" /\ pc' = "standard" /\ CompressLog)
    BY <1>1, Moves DEF AfterLog, Working
  <1>4. /\ EvobenchLog(Id) \in Files /\ TmpLog(run) \in Files /\ TmpLog(run) # EvobenchLog(Id)
        /\ disk'[EvobenchLog(Id)] # Absent
    BY <1>1, <1>2, FilesAreFiles, NamesAreOwn DEF TmpLog, NamesOf, RunFiles, Exists
  <1>5. CASE pc \in AfterLog
    <2>1. disk'[TmpLog(run)] = disk[TmpLog(run)]
      BY <1>2, <1>5, Rewrites DEF AfterLog, TmpLog, RunFiles
    <2>2. disk'[EvobenchLog(Id)] = disk[EvobenchLog(Id)]
      <3>1. SUFFICES ASSUME disk'[EvobenchLog(Id)] # disk[EvobenchLog(Id)] PROVE FALSE
        OBVIOUS
      <3>2. PICK p \in programs : ProgramWrites(p) /\ p.id = Id
        BY <1>2, <1>4, <3>1, OnlyProgramsWrite DEF NamesOf
      <3>3. QED
        BY <1>2, <1>5, <3>2, AfterTheProgram DEF AfterLog
    <2>3. QED
      BY <1>2, <1>4, <1>5, <2>1, <2>2 DEF PublishInv, LogIsCompressed, Exists
  <1>6. CASE pc = "tmp" /\ pc' = "standard" /\ CompressLog
    <2>1. disk' = [disk EXCEPT ![TmpLog(run)] =
                     IF Exists(EvobenchLog(Id)) THEN disk[EvobenchLog(Id)] ELSE Holds(run, "whole")]
      BY <1>6 DEF CompressLog, Compress, Put, Ends
    <2>2. disk'[EvobenchLog(Id)] = disk[EvobenchLog(Id)]
      BY <1>2, <1>4, <2>1
    <2>3. QED
      BY <1>2, <1>4, <2>1, <2>2 DEF Exists
  <1>7. QED
    BY <1>3, <1>5, <1>6

LEMMA LogValidStep ==
  ASSUME LogsInv, PublishInv, [Next]_vars
  PROVE  LogIsValid'
  <1>1. SUFFICES ASSUME pc' \in Evaluated
                 PROVE  disk'[TmpLog(run')].is = "whole" /\ OwnLog(run, disk[TmpLog(run)])'
    BY DEF LogIsValid, IsValidLog
  <1>2. /\ Working /\ UNCHANGED <<newest, pid, run>> /\ Id' = Id /\ run \in Runs
        /\ Id \in Processes /\ disk \in [Files -> Contents]
    BY <1>1, SameRun, Types DEF Evaluated, Working, LogsInv
  <1>3. pc \in Evaluated \/ (pc = "evaluate" /\ pc' = "drop log" /\ Evaluate)
    BY <1>1, Moves DEF Evaluated, Working
  <1>4. pc \notin {"start", "program"} /\ wrote'[run] = wrote[run]
    BY <1>2, <1>3, AfterTheProgram DEF Evaluated
  <1>5. CASE pc \in Evaluated
    <2>1. ~ Publish
      BY <1>1 DEF Publish, Goes, Evaluated
    <2>2. disk'[TmpLog(run)] = disk[TmpLog(run)]
      BY <1>2, <1>5, <2>1, Rewrites DEF Evaluated, TmpLog, RunFiles
    <2>3. disk[TmpLog(run)].is = "whole" /\ OwnLog(run, disk[TmpLog(run)])
      BY <1>5 DEF PublishInv, LogIsValid, IsValidLog
    <2>4. QED
      BY <1>2, <1>4, <2>2, <2>3, FailuresStay DEF OwnLog
  <1>6. CASE pc = "evaluate" /\ pc' = "drop log" /\ Evaluate
    <2>1. disk[EvobenchLog(Id)].is = "whole" /\ UNCHANGED disk
      BY <1>6 DEF Evaluate, Ends
    <2>2. Exists(EvobenchLog(Id))
      BY <2>1 DEF Exists, Absent
    <2>3. \/ disk[EvobenchLog(Id)].of = run
          \/ failures > 0 /\ EvobenchLog(Id) \notin wrote[run]
      BY <1>6, <2>2 DEF LogsInv, LogsAreOwn, UsesLog, IsLeft
    <2>4. \A id \in Processes : id = Id \/ EvobenchLog(id) \notin wrote[run]
      BY <1>2 DEF LogsInv, Books, ProgramsAreKnown, NamesOf
    <2>5. disk[TmpLog(run)] = disk[EvobenchLog(Id)]
      BY <1>6, <2>2 DEF PublishInv, LogIsCompressed, AfterLog
    <2>6. QED
      BY <1>2, <1>4, <2>1, <2>3, <2>4, <2>5, FailuresStay DEF OwnLog
  <1>7. QED
    BY <1>3, <1>5, <1>6

LEMMA ConditionSavedStep ==
  ASSUME LogsInv, PublishInv, [Next]_vars
  PROVE  ConditionIsSaved'
  <1>1. SUFFICES ASSUME pc' \in AfterCondition PROVE Condition(run)' = Holds(run', "whole")
    BY DEF ConditionIsSaved
  <1>2. /\ Working /\ UNCHANGED run /\ run \in Runs /\ disk \in [Files -> Contents]
    BY <1>1, SameRun, Types DEF AfterCondition, Working, LogsInv
  <1>3. pc \in AfterCondition \/ (pc = "condition" /\ pc' = "evaluate" /\ SaveCondition)
    BY <1>1, Moves DEF AfterCondition, Working
  <1>4. CASE pc \in AfterCondition
    <2>1. disk'[RunFile(run, "schedule_condition.ron")] = disk[RunFile(run, "schedule_condition.ron")]
      BY <1>2, <1>4, Rewrites DEF AfterCondition, RunFiles
    <2>2. QED
      BY <1>2, <1>4, <2>1 DEF PublishInv, ConditionIsSaved, Condition
  <1>5. CASE pc = "condition" /\ pc' = "evaluate" /\ SaveCondition
    <2>1. disk' = [disk EXCEPT ![RunFile(run, "schedule_condition.ron")] = Holds(run, "whole")]
      BY <1>5 DEF SaveCondition, Put
    <2>2. RunFile(run, "schedule_condition.ron") \in Files
      BY <1>2, FilesAreFiles DEF RunFiles
    <2>3. QED
      BY <1>2, <2>1, <2>2 DEF Condition
  <1>6. QED
    BY <1>3, <1>4, <1>5

LEMMA PublishWrites ==
  ASSUME LogsInv, PublishInv, Publish
  PROVE  /\ IsValidLog(run, disk[PublishedLog(run)])' /\ Exists(PublishedLog(run))' /\ run \in Runs
         /\ pc = "rename" /\ pc' = "extract" /\ UNCHANGED <<run, failures, wrote>>
         /\ \A f \in Files : f \notin {PublishedLog(run), TmpLog(run)} => disk'[f] = disk[f]
  <1>1. /\ pc = "rename" /\ pc' = "extract" /\ UNCHANGED <<run, failures, wrote>> /\ run \in Runs
        /\ disk' = [disk EXCEPT ![PublishedLog(run)] = disk[TmpLog(run)], ![TmpLog(run)] = Absent]
        /\ disk \in [Files -> Contents]
    BY Types DEF Publish, Goes, identity, ghosts, LogsInv, Working
  <1>2. PublishedLog(run) # TmpLog(run) /\ PublishedLog(run) \in Files /\ TmpLog(run) \in Files
    BY <1>1, FilesAreFiles DEF PublishedLog, TmpLog, RunFile, RunFiles
  <1>3. disk'[PublishedLog(run)] = disk[TmpLog(run)]
    BY <1>1, <1>2
  <1>4. disk[TmpLog(run)].is = "whole" /\ OwnLog(run, disk[TmpLog(run)])
    BY <1>1 DEF PublishInv, LogIsValid, Evaluated, IsValidLog
  <1>5. disk'[PublishedLog(run)] # Absent
    BY <1>3, <1>4 DEF Absent
  <1>6. IsValidLog(run, disk[PublishedLog(run)])'
    BY <1>1, <1>3, <1>4 DEF IsValidLog, OwnLog
  <1>7. QED
    BY <1>1, <1>2, <1>5, <1>6 DEF Exists

LEMMA PublishesOnceStep ==
  ASSUME LogsInv, PublishInv, [Next]_vars
  PROVE  PublishesOnce'
  <1>0. PublishesOnce /\ Runs \subseteq Nat \ {0} /\ run \in Nat
    BY Types, Numbers DEF PublishInv, LogsInv
  <1>1. \A r \in Runs : disk'[PublishedLog(r)] # disk[PublishedLog(r)] => Publish /\ r = run
    BY Rewrites DEF PublishedLog, RunFiles
  <1>2. ASSUME pc' \in AfterPublish PROVE Exists(PublishedLog(run))'
    <2>1. Working /\ UNCHANGED run /\ run \in Runs
      BY <1>2, SameRun, Types DEF AfterPublish, Working, LogsInv
    <2>2. pc \in AfterPublish \/ Publish
      BY <1>2, Moves DEF AfterPublish, Working
    <2>3. CASE Publish
      BY <2>1, <2>3, PublishWrites
    <2>4. CASE ~ Publish
      BY <1>0, <1>1, <2>1, <2>2, <2>4 DEF PublishesOnce, Exists
    <2>5. QED
      BY <2>3, <2>4
  <1>3. ASSUME Working', pc' \notin AfterPublish PROVE ~ Exists(PublishedLog(run))'
    <2>1. ~ Publish
      BY <1>3 DEF Publish, Goes, AfterPublish
    <2>2. CASE pc = "idle" /\ run' = run + 1 /\ ChooseRun
      <3>1. run + 1 \in Runs /\ UNCHANGED disk
        BY <2>2 DEF ChooseRun
      <3>2. disk[PublishedLog(run + 1)] = Absent
        <4>1. run + 1 > run /\ "evobench.log.zstd" \in RunFiles
          BY <1>0 DEF RunFiles
        <4>2. QED
          BY <1>0, <3>1, <4>1 DEF PublishesOnce, PublishedLog, Exists
      <3>3. QED
        BY <2>2, <3>1, <3>2 DEF Exists
    <2>3. CASE Working /\ UNCHANGED run
      <3>1. run \in Runs
        BY <2>3, Types DEF LogsInv
      <3>2. pc \notin AfterPublish
        BY <1>3, Moves DEF AfterPublish
      <3>3. QED
        BY <1>0, <1>1, <2>1, <2>3, <3>1, <3>2 DEF PublishesOnce, Exists
    <2>4. QED
      BY <1>3, <2>2, <2>3, SameRun
  <1>4. ASSUME NEW r \in Runs, NEW name \in RunFiles, r > run' PROVE ~ Exists(RunFile(r, name))'
    <2>1. run' = run \/ run' = run + 1
      <3>1. CASE DaemonStep
        BY <3>1 DEF DaemonStep, Start, StartHandler, Return, Killed
      <3>2. CASE ChooseRun
        BY <3>2 DEF ChooseRun
      <3>3. QED
        BY <3>1, <3>2, SameDaemon
    <2>2. r > run /\ r # run
      BY <1>0, <1>4, <2>1
    <2>3. disk'[RunFile(r, name)] = disk[RunFile(r, name)]
      BY <2>2, Rewrites
    <2>4. QED
      BY <1>0, <2>2, <2>3 DEF PublishesOnce, Exists
  <1>5. QED
    BY <1>2, <1>3, <1>4 DEF PublishesOnce

\* What is published stays so, with all that belongs to it.
LEMMA PublishedStays ==
  ASSUME LogsInv, PublishInv, [Next]_vars, NEW r \in Runs, Exists(PublishedLog(r))
  PROVE  /\ \A name \in RunFiles \ {"log_extract"} : disk'[RunFile(r, name)] = disk[RunFile(r, name)]
         /\ IsWhole(r) /\ IsWhole(r)'
         /\ Exists(PublishedLog(r))'
  <1>1. r = run /\ Working => pc \in AfterPublish
    BY DEF PublishInv, PublishesOnce
  <1>2. \A name \in RunFiles \ {"log_extract"} : disk'[RunFile(r, name)] = disk[RunFile(r, name)]
    BY <1>1, Rewrites
  <1>3. IsWhole(r)
    BY DEF PublishInv, WholeWhenPublished
  <1>4. pc # "start" \/ r # run
    BY <1>1 DEF Working, AfterPublish
  <1>5. wrote'[r] = wrote[r] /\ \A q \in programs' : q.run # r
    BY <1>3, <1>4, WrittenByPrograms DEF IsWhole
  <1>6. (failures' = 0 => failures = 0) /\ (failures > 0 => failures' > 0)
    BY FailuresStay
  <1>7. IsWhole(r)'
    <2>1. WroteOutput(r)' => WroteOutput(r)
      BY <1>5 DEF WroteOutput
    <2>2. /\ disk'[PublishedLog(r)] = disk[PublishedLog(r)] /\ Condition(r)' = Condition(r)
          /\ disk'[RunFile(r, "standard.log.zstd")] = disk[RunFile(r, "standard.log.zstd")]
          /\ HasOutputFile(r)' <=> HasOutputFile(r)
      BY <1>2 DEF PublishedLog, Condition, HasOutputFile, RunFiles
    <2>3. IsValidLog(r, disk[PublishedLog(r)])'
      BY <1>3, <1>5, <1>6, <2>2 DEF IsWhole, IsValidLog, OwnLog
    <2>4. QED
      BY <1>3, <1>5, <1>6, <2>1, <2>2, <2>3 DEF IsWhole
  <1>8. QED
    BY <1>2, <1>3, <1>7 DEF Exists, PublishedLog, RunFiles

LEMMA WholeStep ==
  ASSUME LogsInv, PublishInv, [Next]_vars
  PROVE  WholeWhenPublished'
  <1>1. SUFFICES ASSUME NEW r \in Runs, Exists(PublishedLog(r))' PROVE IsWhole(r)'
    BY DEF WholeWhenPublished
  <1>2. CASE Exists(PublishedLog(r))
    BY <1>2, PublishedStays
  <1>3. CASE ~ Exists(PublishedLog(r))
    <2>1. Publish /\ r = run
      BY <1>1, <1>3, Rewrites DEF Exists, PublishedLog, RunFiles
    <2>2. /\ pc = "rename" /\ UNCHANGED <<run, failures>> /\ IsValidLog(run, disk[PublishedLog(run)])'
          /\ \A f \in Files : f \notin {PublishedLog(run), TmpLog(run)} => disk'[f] = disk[f]
      BY <2>1, PublishWrites
    <2>3. \A name \in RunFiles \ {"evobench.log.zstd", "evobench.log.zstd.tmp"} :
             disk'[RunFile(run, name)] = disk[RunFile(run, name)]
      <3>1. \A name \in RunFiles \ {"evobench.log.zstd", "evobench.log.zstd.tmp"} :
               RunFile(run, name) \in Files /\ RunFile(run, name) \notin {PublishedLog(run), TmpLog(run)}
        BY <2>1, FilesAreFiles DEF PublishedLog, TmpLog, RunFile
      <3>2. QED
        BY <2>2, <3>1
    <2>4. wrote'[run] = wrote[run] /\ \A q \in programs' : q.run # run
      BY <2>2, AfterTheProgram DEF Working
    <2>5. disk[RunFile(run, "standard.log.zstd")] = Holds(run, "whole")
      BY <2>2 DEF LogsInv, ArchiveInv, ArchivesOnce, HasCopy, Archived, Archive
    <2>6. Condition(run) = Holds(run, "whole")
      BY <2>2 DEF PublishInv, ConditionIsSaved, AfterCondition
    <2>7. failures = 0 /\ WroteOutput(run) => HasOutputFile(run)
      BY <2>2 DEF PublishInv, OutputIsCompressed, AfterOutput
    <2>8. WroteOutput(run)' => WroteOutput(run)
      BY <2>2, <2>4 DEF WroteOutput
    <2>9. /\ disk'[RunFile(run, "standard.log.zstd")] = Holds(run, "whole")
          /\ Condition(run)' = Holds(run, "whole")
          /\ failures' = 0 /\ WroteOutput(run)' => HasOutputFile(run)'
      BY <2>2, <2>3, <2>5, <2>6, <2>7, <2>8 DEF Condition, HasOutputFile, RunFiles
    <2>10. run' = run
      BY <2>2
    <2>11. IsWhole(run)'
      BY <2>1, <2>2, <2>4, <2>9, <2>10 DEF IsWhole
    <2>12. QED
      BY <2>1, <2>10, <2>11
  <1>4. QED
    BY <1>2, <1>3

-----------------------------------------------------------------------------
(* Summaries and outcomes.                                                 *)

SumsUpOne == \E s \in Situations : Summarize(s)

LEMMA Sums ==
  ASSUME [Next]_vars
  PROVE  /\ UNCHANGED summary \/ SummarizeAll \/ SumsUpOne
         /\ \/ UNCHANGED pending
            \/ pc' \in {"idle", "down"} /\ pending' = {}
            \/ SummarizeAll
            \/ SumsUpOne
         /\ \/ UNCHANGED outcome
            \/ outcome' = [outcome EXCEPT ![run] = "killed"] /\ Working
            \/ outcome' = [outcome EXCEPT ![run] = "error"] /\ Working
            \/ outcome' = [outcome EXCEPT ![run] = "ok"] /\ RunIsDone
  <1> USE DEF plans, Ends, Working, Live, Alive
  <1>1. CASE UNCHANGED vars \/ ChildStep
    BY <1>1 DEF vars, jobVars, ChildStep, ChildReads, ChildSeesEnd, ChildEnds, ChildDeletes
  <1>2. CASE DaemonStep
    BY <1>2 DEF DaemonStep, Start, StartHandler, Return, Killed
  <1>3. CASE DropStep \/ ChooseRun \/ StartProgram
    BY <1>3 DEF DropStep, DropDelete, DropFails, DropCancel, ChooseRun, StartProgram
  <1>4. CASE RegisterStep
    BY <1>4 DEF RegisterStep, RegisterLog, RegisterOutput, RegisterStandard, Register
  <1>5. CASE ProgramStep
    BY <1>5 DEF ProgramStep, ProgramWrites, ProgramEnds
  <1>6. CASE CompressOutput \/ CompressLog \/ CompressStandard
    BY <1>6 DEF CompressOutput, CompressLog, CompressStandard, Compress
  <1>7. CASE RemoveStale \/ NoOutput \/ SaveCondition \/ Publish \/ WriteExtract \/ NoExtract
    BY <1>7 DEF RemoveStale, NoOutput, SaveCondition, Publish, WriteExtract, NoExtract
  <1>8. CASE DropOutput \/ DropLog \/ DropStandard
    BY <1>8 DEF DropOutput, DropLog, DropStandard, DropsOne
  <1>9. CASE Evaluate
    BY <1>9 DEF Evaluate
  <1>10. CASE SummarizeAll
    BY <1>10 DEF SummarizeAll
  <1>11. CASE SumsUpOne
    BY <1>11 DEF SumsUpOne, Summarize
  <1>12. CASE RunIsDone
    BY <1>12 DEF RunIsDone
  <1>13. CASE ExtractIsRefused \/ StepFails
    BY <1>13 DEF ExtractIsRefused, StepFails
  <1>14. QED
    BY <1>1, <1>2, <1>3, <1>4, <1>5, <1>6, <1>7, <1>8, <1>9, <1>10, <1>11, <1>12, <1>13, StepKinds
       DEF PlainSteps, SumsUpOne

\* Whatever is summed up anew has all published logs that belong there, no others.
LEMMA NewSummaries ==
  ASSUME LogsInv, PublishInv, [Next]_vars, NEW s \in Situations \cup {"all"}
  PROVE  \/ summary'[s] = summary[s]
         \/ /\ summary'[s] = {r \in Runs : Exists(PublishedLog(r)) /\ (s = "all" \/ situation[r] = s)}
            /\ Working
  <1>0. /\ summary \in [Situations \cup {"all"} -> SUBSET Runs] /\ "all" \notin Situations
    BY FilesAssumption DEF LogsInv, ArchiveInv, Typed, TypeOK
  <1>1. CASE SummarizeAll
    <2>1. UNCHANGED summary \/ summary' = [summary EXCEPT !["all"] = Published(Runs)]
      BY <1>1 DEF SummarizeAll, SumUp
    <2>2. Published(Runs) = {r \in Runs : Exists(PublishedLog(r))} /\ Working
      BY <1>1 DEF SummarizeAll, Published, Working
    <2>3. QED
      BY <1>0, <2>1, <2>2
  <1>2. ASSUME NEW t \in Situations, Summarize(t)
        PROVE  \/ summary'[s] = summary[s]
               \/ /\ summary'[s] = {r \in Runs : Exists(PublishedLog(r)) /\ (s = "all" \/ situation[r] = s)}
                  /\ Working
    <2>1. UNCHANGED summary \/ summary' = [summary EXCEPT ![t] = Published(InSituation(t))]
      BY <1>2 DEF Summarize, SumUp
    <2>2. Working
      BY <1>2 DEF Summarize, Working
    <2>3. \A r \in Runs : Exists(PublishedLog(r)) => Condition(r).is = "whole"
      BY Whole DEF PublishInv, WholeWhenPublished, IsWhole
    <2>4. Published(InSituation(t)) = {r \in Runs : Exists(PublishedLog(r)) /\ situation[r] = t}
      BY <2>3 DEF Published, InSituation
    <2>5. CASE s = t
      BY <1>0, <2>1, <2>2, <2>4, <2>5
    <2>6. CASE s # t
      BY <1>0, <2>1, <2>6
    <2>7. QED
      BY <2>5, <2>6
  <1>3. QED
    BY <1>1, <1>2, Sums DEF SumsUpOne

LEMMA SummariesStep ==
  ASSUME LogsInv, PublishInv, [Next]_vars
  PROVE  SummariesAreOfPublished'
  <1>1. SUFFICES ASSUME NEW s \in Situations \cup {"all"}, NEW r \in summary'[s]
                 PROVE  Exists(PublishedLog(r))' /\ (s = "all" \/ situation'[r] = s)
    BY DEF SummariesAreOfPublished
  <1>2. r \in Runs /\ Exists(PublishedLog(r)) /\ (s = "all" \/ situation[r] = s)
    <2>1. summary[s] \subseteq Runs
      BY DEF LogsInv, ArchiveInv, Typed, TypeOK
    <2>2. \A q \in summary[s] : Exists(PublishedLog(q)) /\ (s = "all" \/ situation[q] = s)
      BY DEF PublishInv, SummariesAreOfPublished
    <2>3. QED
      BY <1>1, <2>1, <2>2, NewSummaries
  <1>3. QED
    BY <1>2, PublishedStays, SituationsStay

\* A run that is in its summaries stays there.
LEMMA InSummariesStays ==
  ASSUME LogsInv, PublishInv, [Next]_vars, NEW r \in Runs, Exists(PublishedLog(r)),
         NEW s \in Situations \cup {"all"}, r \in summary[s], s = "all" \/ s = situation[r]
  PROVE  r \in summary'[s]
  BY NewSummaries

LEMMA SummarizesItselfStep ==
  ASSUME LogsInv, PublishInv, [Next]_vars
  PROVE  SummarizesItself'
  <1>1. SUFFICES ASSUME pc' = "situations"
                 PROVE  /\ run' \in summary'["all"]
                        /\ situation'[run'] \in pending' \/ run' \in summary'[situation'[run']]
    BY DEF SummarizesItself
  <1>2. Working /\ UNCHANGED <<run, situation>> /\ run \in Runs /\ situation[run] \in Situations
    <2>1. Working /\ UNCHANGED <<run, situation>>
      BY <1>1, SameRun DEF Working
    <2>2. QED
      BY <2>1, Types DEF LogsInv, Typed, TypeOK
  <1>3. (pc = "summarize" /\ SummarizeAll) \/ pc = "situations"
    BY <1>1, Moves DEF Working
  <1>4. Exists(PublishedLog(run)) /\ IsWhole(run)
    BY <1>2, <1>3 DEF PublishInv, PublishesOnce, AfterPublish, WholeWhenPublished
  <1>5. Condition(run).is = "whole"
    BY <1>4, Whole DEF IsWhole
  <1>6. summary \in [Situations \cup {"all"} -> SUBSET Runs] /\ "all" \notin Situations
    BY FilesAssumption DEF LogsInv, ArchiveInv, Typed, TypeOK
  <1>7. CASE pc = "summarize" /\ SummarizeAll
    <2>1. /\ summary' = [summary EXCEPT !["all"] = Published(Runs)]
          /\ pending' = {s \in Situations : InSituation(s) # {}}
      BY <1>1, <1>7 DEF SummarizeAll, SumUp, Ends
    <2>2. run \in Published(Runs) /\ run \in InSituation(situation[run])
      BY <1>2, <1>4, <1>5 DEF Published, InSituation
    <2>3. QED
      BY <1>2, <1>6, <2>1, <2>2
  <1>8. CASE pc = "situations"
    <2>1. run \in summary["all"] /\ (situation[run] \in pending \/ run \in summary[situation[run]])
      BY <1>8 DEF PublishInv, SummarizesItself
    <2>2. run \in summary'["all"] /\ (run \in summary[situation[run]] => run \in summary'[situation[run]])
      BY <1>2, <1>4, <2>1, InSummariesStays
    <2>3. CASE UNCHANGED pending
      BY <1>2, <2>1, <2>2, <2>3
    <2>4. ASSUME NEW t \in Situations, Summarize(t)
          PROVE  situation[run] \in pending' \/ run \in summary'[situation[run]]
      <3>1. /\ summary' = [summary EXCEPT ![t] = Published(InSituation(t))]
            /\ pending' = pending \ {t}
        BY <1>1, <2>4 DEF Summarize, SumUp, Ends
      <3>2. CASE t = situation[run]
        <4>1. run \in Published(InSituation(t))
          BY <1>2, <1>4, <1>5, <3>2 DEF Published, InSituation
        <4>2. QED
          BY <1>6, <3>1, <3>2, <4>1
      <3>3. CASE t # situation[run]
        BY <2>1, <2>2, <3>1, <3>3
      <3>4. QED
        BY <3>2, <3>3
    <2>5. ~ SummarizeAll
      BY <1>8 DEF SummarizeAll
    <2>6. QED
      BY <1>1, <1>2, <2>2, <2>3, <2>4, <2>5, Sums DEF SumsUpOne
  <1>9. QED
    BY <1>3, <1>7, <1>8

LEMMA DoneStep ==
  ASSUME LogsInv, PublishInv, [Next]_vars
  PROVE  DoneIsPublished'
  <1>1. SUFFICES ASSUME NEW r \in Runs, outcome'[r] = "ok"
                 PROVE  Exists(PublishedLog(r))' /\ IsInSummaries(r)' /\ ~ IsCut(r)'
    BY DEF DoneIsPublished
  <1>2. Exists(PublishedLog(r)) /\ IsInSummaries(r) /\ ~ IsCut(r)
    <2>1. outcome \in [Runs -> Outcomes]
      BY DEF PublishInv
    <2>2. CASE outcome[r] = "ok"
      BY <2>2 DEF PublishInv, DoneIsPublished
    <2>3. CASE outcome[r] # "ok"
      <3>1. RunIsDone /\ r = run
        BY <1>1, <2>1, <2>3, Sums
      <3>2. pc = "situations" /\ pending = {}
        BY <3>1 DEF RunIsDone
      <3>3. QED
        BY <3>1, <3>2 DEF PublishInv, PublishesOnce, AfterPublish, SummarizesItself, IsInSummaries,
           ExtractsComeLater, AfterExtract
    <2>4. QED
      BY <2>2, <2>3
  <1>3. Exists(PublishedLog(r))'
    BY <1>2, PublishedStays
  <1>4. situation[r] \in Situations
    BY DEF LogsInv, ArchiveInv, Typed, TypeOK
  <1>5. r \in summary'["all"] /\ r \in summary'[situation[r]]
    BY <1>2, <1>4, InSummariesStays DEF IsInSummaries
  <1>6. ~ IsCut(r)'
    <2>1. SUFFICES ASSUME disk'[LogExtract(r)] # disk[LogExtract(r)] PROVE FALSE
      BY <1>2 DEF IsCut
    <2>2. r = run /\ WriteExtract /\ pc = "extract"
      BY <2>1, Rewrites DEF LogExtract, RunFiles
    <2>3. UNCHANGED outcome /\ Working
      BY <2>2 DEF WriteExtract, Working
    <2>4. QED
      BY <1>1, <2>2, <2>3 DEF PublishInv, DoneAtItsEnd
  <1>7. QED
    BY <1>3, <1>5, <1>6, SituationsStay DEF IsInSummaries

LEMMA ExtractsStep ==
  ASSUME LogsInv, PublishInv, [Next]_vars
  PROVE  ExtractsComeLater'
  <1>1. ASSUME NEW r \in Runs, Exists(LogExtract(r))' PROVE Exists(PublishedLog(r))'
    <2>1. CASE Exists(LogExtract(r))
      BY <2>1, PublishedStays DEF PublishInv, ExtractsComeLater
    <2>2. CASE ~ Exists(LogExtract(r))
      <3>1. r = run /\ WriteExtract /\ pc = "extract"
        BY <1>1, <2>2, Rewrites DEF Exists, LogExtract, RunFiles
      <3>2. QED
        BY <3>1, PublishedStays DEF PublishInv, PublishesOnce, AfterPublish
    <2>3. QED
      BY <2>1, <2>2
  <1>2. ASSUME pc' \in AfterExtract PROVE ~ IsCut(run)'
    <2>1. Working /\ UNCHANGED run /\ run \in Runs /\ disk \in [Files -> Contents]
      BY <1>2, SameRun, Types DEF AfterExtract, Working, LogsInv
    <2>2. LogExtract(run) \in Files
      BY <2>1, FilesAreFiles DEF LogExtract, RunFiles
    <2>3. pc \in AfterExtract \/ (pc = "extract" /\ pc' # pc /\ (WriteExtract \/ NoExtract))
      BY <1>2, Moves DEF AfterExtract, Working
    <2>4. CASE pc \in AfterExtract
      <3>1. disk'[LogExtract(run)] = disk[LogExtract(run)]
        BY <2>1, <2>4, Rewrites DEF AfterExtract, LogExtract, RunFiles
      <3>2. QED
        BY <2>1, <2>4, <3>1 DEF PublishInv, ExtractsComeLater, IsCut
    <2>5. CASE pc = "extract" /\ pc' # pc /\ WriteExtract
      <3>1. disk' = [disk EXCEPT ![LogExtract(run)] = Holds(run, "whole")]
        BY <2>5 DEF WriteExtract, Put
      <3>2. disk'[LogExtract(run)] = Holds(run, "whole")
        BY <2>1, <2>2, <3>1
      <3>3. QED
        BY <2>1, <3>2 DEF IsCut, Holds, LogExtract
    <2>6. CASE pc = "extract" /\ NoExtract
      <3>1. disk[LogExtract(run)] = Absent /\ UNCHANGED disk
        BY <2>6 DEF NoExtract, Exists
      <3>2. QED
        BY <2>1, <3>1 DEF IsCut, Absent, LogExtract
    <2>7. QED
      BY <2>3, <2>4, <2>5, <2>6
  <1>3. QED
    BY <1>1, <1>2 DEF ExtractsComeLater

LEMMA DoneAtItsEndStep ==
  ASSUME LogsInv, PublishInv, [Next]_vars
  PROVE  DoneAtItsEnd'
  <1>0. /\ DoneAtItsEnd /\ outcome \in [Runs -> Outcomes] /\ Runs \subseteq Nat \ {0}
        /\ run \in Nat /\ (Working => run \in Runs)
    BY Types, Numbers DEF PublishInv, LogsInv
  <1>1. run' = run \/ (run' = run + 1 /\ ChooseRun)
    <2>1. CASE DaemonStep
      BY <2>1 DEF DaemonStep, Start, StartHandler, Return, Killed
    <2>2. CASE ChooseRun
      BY <2>2 DEF ChooseRun
    <2>3. QED
      BY <2>1, <2>2, SameDaemon
  <1>2. \A r \in Runs : outcome'[r] = "ok" => outcome[r] = "ok" \/ (r = run /\ RunIsDone)
    BY <1>0, Sums
  <1>3. RunIsDone => pc' = "idle" /\ run' = run /\ run \in Runs
    BY <1>0 DEF RunIsDone, Ends, identity, Working
  <1>4. ASSUME NEW r \in Runs, r > run' PROVE outcome'[r] # "ok"
    BY <1>0, <1>1, <1>2, <1>3, <1>4 DEF DoneAtItsEnd
  <1>5. ASSUME Working' PROVE outcome'[run'] # "ok"
    <2>1. CASE ChooseRun
      <3>1. run' \in Runs /\ run' > run /\ UNCHANGED outcome
        BY <1>0, <2>1 DEF ChooseRun
      <3>2. QED
        BY <1>0, <3>1 DEF DoneAtItsEnd
    <2>2. CASE ~ ChooseRun
      <3>1. Working /\ run' = run
        BY <1>5, <2>2, SameRun
      <3>2. ~ RunIsDone
        BY <1>3, <1>5 DEF Working
      <3>3. QED
        BY <1>0, <1>2, <3>1, <3>2 DEF DoneAtItsEnd
    <2>3. QED
      BY <2>1, <2>2
  <1>6. QED
    BY <1>4, <1>5 DEF DoneAtItsEnd

LEMMA OutcomesStep ==
  ASSUME LogsInv, PublishInv, [Next]_vars
  PROVE  outcome' \in [Runs -> Outcomes] /\ pending' \subseteq Situations
  <1>1. outcome \in [Runs -> Outcomes] /\ pending \subseteq Situations
    BY DEF PublishInv
  <1>2. outcome' \in [Runs -> Outcomes]
    BY <1>1, Sums DEF Outcomes
  <1>3. CASE SummarizeAll
    BY <1>1, <1>2, <1>3 DEF SummarizeAll, Ends
  <1>4. CASE SumsUpOne
    BY <1>1, <1>2, <1>4 DEF SumsUpOne, Summarize, Ends
  <1>5. QED
    BY <1>1, <1>2, <1>3, <1>4, Sums

\* At any moment, a run is published with a valid log and all that was written before
\* it, whole, or not at all; its log extracts come after it, and a run that has ended
\* well has none that is cut and is in both of its summaries.
THEOREM RunsArePublishedWhole == Spec => []PublishedRunsAreWhole
  <1>1. Init => PublishInv
    <2> SUFFICES ASSUME Init PROVE PublishInv
      OBVIOUS
    <2>1. \A r, name : r \in Runs /\ name \in RunFiles => ~ Exists(RunFile(r, name))
      BY FilesAreFiles DEF Init, Exists
    <2>2. \A r \in Runs : ~ Exists(PublishedLog(r))
      BY <2>1 DEF PublishedLog, RunFiles
    <2>3. OutputIsCompressed /\ LogIsCompressed /\ LogIsValid /\ ConditionIsSaved /\ SummarizesItself
      BY DEF Init, OutputIsCompressed, LogIsCompressed, LogIsValid, ConditionIsSaved, SummarizesItself,
         AfterOutput, AfterLog, Evaluated, AfterCondition
    <2>4. PublishesOnce /\ WholeWhenPublished /\ SummariesAreOfPublished /\ DoneIsPublished
      BY <2>1, <2>2 DEF Init, PublishesOnce, AfterPublish, Working, WholeWhenPublished,
         SummariesAreOfPublished, DoneIsPublished
    <2>5. ExtractsComeLater /\ DoneAtItsEnd
      BY <2>1 DEF Init, ExtractsComeLater, AfterExtract, LogExtract, RunFiles, DoneAtItsEnd, Working
    <2>6. outcome \in [Runs -> Outcomes] /\ pending \subseteq Situations
      BY DEF Init, Outcomes
    <2>7. QED
      BY <2>3, <2>4, <2>5, <2>6 DEF PublishInv
  <1>2. LogsInv /\ PublishInv /\ [Next]_vars => PublishInv'
    BY OutputCompressedStep, LogCompressedStep, LogValidStep, ConditionSavedStep, PublishesOnceStep,
       SummarizesItselfStep, WholeStep, SummariesStep, DoneStep, ExtractsStep, DoneAtItsEndStep,
       OutcomesStep DEF PublishInv
  <1>3. LogsInv /\ PublishInv => PublishedRunsAreWhole
    <2> SUFFICES ASSUME LogsInv, PublishInv PROVE PublishedRunsAreWhole
      OBVIOUS
    <2>1. \A r \in Runs : Exists(PublishedLog(r)) => IsWhole(r)
      BY DEF PublishInv, WholeWhenPublished
    <2>2. DOMAIN summary = Situations \cup {"all"}
      BY DEF LogsInv, ArchiveInv, Typed, TypeOK
    <2>3. OnlyValidLogsArePublished
      BY <2>1, <2>2 DEF OnlyValidLogsArePublished, IsWhole, IsValidLog, PublishInv,
         SummariesAreOfPublished
    <2>4. RunIsCompleteWhenPublished
      BY <2>1 DEF RunIsCompleteWhenPublished, IsWhole, WroteOutput, HasOutputFile, PublishInv,
         ExtractsComeLater
    <2>5. QED
      BY <2>3, <2>4 DEF PublishedRunsAreWhole, PublishInv, DoneIsPublished, IsInSummaries, IsCut
  <1>4. QED
    BY LogsInvHolds, <1>1, <1>2, <1>3, PTL DEF Spec
=============================================================================
