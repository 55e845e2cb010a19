-------------------------- MODULE LogDataTree_proofs --------------------------
(***************************************************************************)
(* What holds of the tree that evobench-eval builds, for every log: the    *)
(* module LogDataTree says nothing of where the log comes from.            *)
(***************************************************************************)
EXTENDS LogDataTree, TLAPS

(* A function updated by With has the new value at the one place, and its  *)
(* old values elsewhere                                                    *)
LEMMA WithFacts ==
    ASSUME NEW f, NEW x, NEW y
    PROVE  /\ DOMAIN With(f, x, y) = DOMAIN f \cup {x}
           /\ With(f, x, y)[x] = y
           /\ \A z \in DOMAIN f \ {x} : With(f, x, y)[z] = f[z]
  BY DEF With

(* The stack of the message's thread holds open spans of the thread, in    *)
(* the order they were made in                                             *)
LEMMA StackFacts ==
    ASSUME TreeInv
    PROVE  /\ Stack \in Seq(Nat)
           /\ Top \in Nat
           /\ \A k \in 1 .. Len(Stack) :
                 /\ Stack[k] \in DOMAIN spans /\ TidOf(Stack[k]) = Message.tid
                 /\ spans[Stack[k]].end = NoEnd
           /\ \A k, l \in 1 .. Len(Stack) : k < l => Stack[k] < Stack[l]
           /\ Top # NoSpan => /\ Top \in DOMAIN spans /\ TidOf(Top) = Message.tid
                              /\ spans[Top].end = NoEnd
  <1>1. CASE HasStack
    <2>1. /\ Stack \in Seq(Nat)
          /\ \A k \in 1 .. Len(Stack) :
                 /\ Stack[k] \in DOMAIN spans /\ TidOf(Stack[k]) = Message.tid
                 /\ spans[Stack[k]].end = NoEnd
          /\ \A k, l \in 1 .. Len(Stack) : k < l => Stack[k] < Stack[l]
      BY <1>1 DEF TreeInv, TypeOK, StacksOK, Stack, HasStack
    <2>2. CASE Stack = <<>>
      BY <2>1, <2>2 DEF Top, NoSpan
    <2>3. CASE Stack # <<>>
      <3>1. Len(Stack) \in 1 .. Len(Stack)
        BY <2>1, <2>3
      <3> QED
        BY <2>1, <2>3, <3>1 DEF Top
    <2> QED
      BY <2>2, <2>3
  <1>2. CASE ~HasStack
    BY <1>2 DEF Stack, Top, NoSpan
  <1> QED
    BY <1>1, <1>2

(* A thread number that is given is new or the one of the message's thread *)
LEMMA NumberFacts ==
    ASSUME TreeInv
    PROVE  /\ Number \in Nat /\ Number <= nextNumber
           /\ Number # nextNumber => Message.tid \in DOMAIN threadNumbers
                                     /\ Number = threadNumbers[Message.tid]
           /\ Number = nextNumber => Message.tid \notin DOMAIN threadNumbers
  BY DEF TreeInv, TypeOK, NumbersOK, Number

(***************************************************************************)
(* The invariant holds at first, and each step preserves it                *)
(***************************************************************************)
LEMMA InitEstablishesTreeInv == TreeInit => TreeInv
  <1> SUFFICES ASSUME TreeInit PROVE TreeInv
    OBVIOUS
  <1>1. DOMAIN spans = {} /\ Scoped = {} /\ Ended = {}
    BY DEF TreeInit, Scoped, Ended
  <1>2. DOMAIN spansByPn = {} /\ DOMAIN startByThread = {} /\ DOMAIN threadNumbers = {}
    BY DEF TreeInit, Empty
  <1>3. TypeOK
    BY <1>2 DEF TypeOK, TreeInit, Statuses
  <1>4. StacksOK /\ PositionsOK /\ NumbersOK
    BY <1>1, <1>2 DEF StacksOK, PositionsOK, NumbersOK, TreeInit
  <1>5. SpansNest /\ ThreadNumbersTellThreads /\ EndedSpansAreIndexed
    BY <1>1, <1>2 DEF SpansNest, ThreadNumbersTellThreads, EndedSpansAreIndexed, IndexedAt, IsIndexed
  <1> QED
    BY <1>3, <1>4, <1>5 DEF TreeInv

(* Steps that leave the spans alone and do not go back in the log          *)
LEMMA OtherStepsPreserveTreeInv ==
    ASSUME TreeInv, log' = log,
           status' \in Statuses, position' \in Nat,
           position' >= position,
           status' = "unread" => position' = 0,
           status' \notin {"unread", "error"} => position' > 0,
           UNCHANGED <<spans, spansByPn, startByThread, threadNumbers, nextNumber>>
    PROVE  TreeInv'
  <1>1. Scoped' = Scoped /\ Ended' = Ended
    BY DEF Scoped, Ended, IsKeyValue
  <1>2. \A i : TidOf(i)' = TidOf(i) /\ PnOf(i)' = PnOf(i)
    BY DEF TidOf, PnOf
  <1>3. TypeOK'
    BY DEF TreeInv, TypeOK
  <1>4. StacksOK'
    BY <1>1, <1>2 DEF TreeInv, StacksOK
  <1>5. PositionsOK'
    <2>1. \A i \in DOMAIN spans : spans[i] \in SpanType
      BY DEF TreeInv, TypeOK
    <2>2. position \in Nat
      BY DEF TreeInv, TypeOK
    <2> QED
      BY <2>1, <2>2 DEF TreeInv, PositionsOK, SpanType
  <1>6. NumbersOK'
    BY <1>1, <1>2 DEF TreeInv, NumbersOK
  <1>7. SpansNest'
    BY <1>1, <1>2 DEF TreeInv, SpansNest
  <1>8. ThreadNumbersTellThreads'
    BY <1>1, <1>2 DEF TreeInv, ThreadNumbersTellThreads
  <1>9. EndedSpansAreIndexed'
    BY <1>1, <1>2 DEF TreeInv, EndedSpansAreIndexed, IndexedAt, IsIndexed
  <1> QED
    BY <1>3, <1>4, <1>5, <1>6, <1>7, <1>8, <1>9 DEF TreeInv

(* A new span, of a thread's start, a scope's or of a key-value, on top of *)
(* its thread's stack                                                      *)
NewSpan(id, tid) ==
    /\ spans' \in Seq(SpanType) /\ Len(spans') = id
    /\ \A i \in DOMAIN spans :
          /\ spans'[i].kind = spans[i].kind /\ spans'[i].parent = spans[i].parent
          /\ spans'[i].threadNumber = spans[i].threadNumber
          /\ spans'[i].start = spans[i].start /\ spans'[i].end = spans[i].end
    /\ spans'[id].parent = Top /\ spans'[id].start = position
    /\ spans'[id].end = NoEnd
    /\ DOMAIN startByThread' = DOMAIN startByThread \cup {tid}
    /\ startByThread'[tid] = Append(Stack, id)
    /\ \A t \in DOMAIN startByThread \ {tid} : startByThread'[t] = startByThread[t]
    /\ position' = position + 1
    /\ UNCHANGED <<log, status, spansByPn>>

(* TidOf in the next state, of an argument that is not to be primed *)
NextTidOf(i) == log'[spans'[i].start].tid

LEMMA NewSpanFacts ==
    ASSUME TreeInv, NEW id, id = Len(spans) + 1, NEW tid, tid = Message.tid,
           position \in Nat \ {0}, NewSpan(id, tid)
    PROVE  /\ id \in Nat /\ id > 0 /\ id \notin DOMAIN spans
           /\ DOMAIN spans = 1 .. Len(spans) /\ Len(spans) \in Nat
           /\ DOMAIN spans' = DOMAIN spans \cup {id}
           /\ \A i \in DOMAIN spans : i \in Nat /\ i < id
           /\ \A i \in DOMAIN spans : TidOf(i)' = TidOf(i) /\ PnOf(i)' = PnOf(i)
           /\ TidOf(id)' = tid
           /\ Scoped' \subseteq Scoped \cup {id} /\ Scoped \subseteq Scoped'
           /\ Scoped \subseteq DOMAIN spans
           /\ Ended' = Ended
           /\ Ended \subseteq DOMAIN spans
  <1>1. /\ spans \in Seq(SpanType) /\ Len(spans) \in Nat
        /\ DOMAIN spans = 1 .. Len(spans)
    BY DEF TreeInv, TypeOK
  <1>2. /\ id \in Nat /\ id > 0 /\ id \notin DOMAIN spans
        /\ \A i \in DOMAIN spans : i \in Nat /\ i < id
    BY <1>1
  <1>3. DOMAIN spans' = DOMAIN spans \cup {id}
    <2>1. DOMAIN spans' = 1 .. id
      BY DEF NewSpan
    <2> QED
      BY <1>1, <2>1
  <1>4. /\ \A i \in DOMAIN spans : TidOf(i)' = TidOf(i) /\ PnOf(i)' = PnOf(i)
        /\ TidOf(id)' = tid
    BY DEF NewSpan, TidOf, PnOf, Message
  <1>5. /\ Scoped' \subseteq Scoped \cup {id} /\ Scoped \subseteq Scoped'
        /\ Scoped \subseteq DOMAIN spans
    BY <1>3 DEF NewSpan, Scoped, IsKeyValue
  <1>6. Ended' = Ended /\ Ended \subseteq DOMAIN spans
    <2>1. \A i \in DOMAIN spans : i \in Ended' <=> i \in Ended
      BY <1>3 DEF NewSpan, Ended, Scoped, IsKeyValue
    <2>2. id \notin Ended'
      BY DEF NewSpan, Ended
    <2>3. Ended' \subseteq DOMAIN spans' /\ Ended \subseteq DOMAIN spans
      BY DEF Ended, Scoped
    <2> QED
      BY <1>3, <2>1, <2>2, <2>3
  <1> QED
    BY <1>1, <1>2, <1>3, <1>4, <1>5, <1>6

LEMMA NewSpanPreserves ==
    ASSUME TreeInv, NEW id, id = Len(spans) + 1, NEW tid, tid = Message.tid,
           position \in Nat \ {0}, NewSpan(id, tid)
    PROVE  /\ \A t \in DOMAIN startByThread' : startByThread'[t] \in Seq(Nat)
           /\ StacksOK' /\ PositionsOK' /\ SpansNest' /\ EndedSpansAreIndexed'
  <1>0. /\ id \in Nat /\ id > 0 /\ id \notin DOMAIN spans
        /\ DOMAIN spans = 1 .. Len(spans) /\ Len(spans) \in Nat
        /\ DOMAIN spans' = DOMAIN spans \cup {id}
        /\ \A i \in DOMAIN spans : i \in Nat /\ i < id
        /\ \A i \in DOMAIN spans : TidOf(i)' = TidOf(i) /\ PnOf(i)' = PnOf(i)
        /\ TidOf(id)' = tid
        /\ Scoped' \subseteq Scoped \cup {id} /\ Scoped \subseteq Scoped'
        /\ Scoped \subseteq DOMAIN spans
        /\ Ended' = Ended
        /\ Ended \subseteq DOMAIN spans
    BY NewSpanFacts
  <1> USE <1>0
  <1>a. /\ Stack \in Seq(Nat) /\ Top \in Nat
        /\ \A k \in 1 .. Len(Stack) :
              /\ Stack[k] \in DOMAIN spans /\ TidOf(Stack[k]) = tid
              /\ spans[Stack[k]].end = NoEnd
        /\ \A k, l \in 1 .. Len(Stack) : k < l => Stack[k] < Stack[l]
        /\ Top # NoSpan => /\ Top \in DOMAIN spans /\ TidOf(Top) = tid
                           /\ spans[Top].end = NoEnd
    BY StackFacts
  <1>b. \A i \in DOMAIN spans : spans[i] \in SpanType
    BY DEF TreeInv, TypeOK
  <1>c. DEFINE new == Append(Stack, id)
  <1>d. /\ new \in Seq(Nat) /\ Len(new) = Len(Stack) + 1 /\ Len(Stack) \in Nat
        /\ \A k \in 1 .. Len(Stack) : new[k] = Stack[k]
        /\ new[Len(Stack) + 1] = id
    BY <1>a
  <1> HIDE DEF new
  <1>e. /\ DOMAIN startByThread' = DOMAIN startByThread \cup {tid}
        /\ startByThread'[tid] = new
        /\ \A t \in DOMAIN startByThread \ {tid} : startByThread'[t] = startByThread[t]
    BY DEF NewSpan, new
  <1>1. \A t \in DOMAIN startByThread' : startByThread'[t] \in Seq(Nat)
    BY <1>d, <1>e DEF TreeInv, TypeOK
  <1>2. StacksOK'
    <2>1. ASSUME NEW t \in DOMAIN startByThread'
          PROVE  /\ \A k \in 1 .. Len(startByThread'[t]) :
                       /\ startByThread'[t][k] \in DOMAIN spans'
                       /\ NextTidOf(startByThread'[t][k]) = t
                       /\ spans'[startByThread'[t][k]].end = NoEnd
                 /\ \A k, l \in 1 .. Len(startByThread'[t]) :
                       k < l => startByThread'[t][k] < startByThread'[t][l]
      <3>1. CASE t = tid
        <4>1. \A k \in 1 .. Len(new) : k \in 1 .. Len(Stack) \/ k = Len(Stack) + 1
          BY <1>d
        <4>2. \A k \in 1 .. Len(Stack) :
                 /\ new[k] \in DOMAIN spans' /\ NextTidOf(new[k]) = tid
                 /\ spans'[new[k]].end = NoEnd
          <5> TAKE k \in 1 .. Len(Stack)
          <5>1. new[k] = Stack[k] /\ Stack[k] \in DOMAIN spans
                /\ TidOf(Stack[k]) = tid /\ spans[Stack[k]].end = NoEnd
            BY <1>a, <1>d
          <5>2. \A i \in DOMAIN spans : TidOf(i) = tid /\ spans[i].end = NoEnd =>
                   /\ i \in DOMAIN spans' /\ NextTidOf(i) = tid
                   /\ spans'[i].end = NoEnd
            BY DEF NewSpan, TidOf, NextTidOf
          <5> QED
            BY <5>1, <5>2
        <4>3. id \in DOMAIN spans' /\ NextTidOf(id) = tid /\ spans'[id].end = NoEnd
          BY DEF NewSpan, TidOf, NextTidOf
        <4>4. \A k, l \in 1 .. Len(new) : k < l => new[k] < new[l]
          <5> TAKE k, l \in 1 .. Len(new)
          <5> HAVE k < l
          <5>1. k \in 1 .. Len(Stack)
            BY <1>d
          <5>2. CASE l = Len(Stack) + 1
            BY <1>a, <1>d, <5>1, <5>2
          <5>3. CASE l \in 1 .. Len(Stack)
            BY <1>a, <1>d, <5>1, <5>3
          <5> QED
            BY <4>1, <5>2, <5>3
        <4> QED
          BY <1>d, <1>e, <3>1, <4>1, <4>2, <4>3, <4>4
      <3>2. CASE t # tid
        <4>1. t \in DOMAIN startByThread /\ startByThread'[t] = startByThread[t]
          BY <1>e, <3>2
        <4>2. /\ \A k \in 1 .. Len(startByThread[t]) :
                    /\ startByThread[t][k] \in DOMAIN spans
                    /\ TidOf(startByThread[t][k]) = t
                    /\ spans[startByThread[t][k]].end = NoEnd
              /\ \A k, l \in 1 .. Len(startByThread[t]) :
                    k < l => startByThread[t][k] < startByThread[t][l]
          BY <4>1 DEF TreeInv, StacksOK
        <4>3. \A i \in DOMAIN spans :
                 i \in DOMAIN spans' /\ NextTidOf(i) = TidOf(i) /\ spans'[i].end = spans[i].end
          BY DEF NewSpan, TidOf, NextTidOf
        <4> QED
          BY <4>1, <4>2, <4>3
      <3> QED
        BY <3>1, <3>2
    <2>2. ASSUME NEW i \in Scoped' \ Ended'
          PROVE  /\ TidOf(i)' \in DOMAIN startByThread'
                 /\ \E k \in 1 .. Len(startByThread'[TidOf(i)']) :
                       startByThread'[TidOf(i)'][k] = i
      <3>1. CASE i = id
        BY <1>d, <1>e, <3>1
      <3>2. CASE i \in Scoped
        <4>1. /\ TidOf(i) \in DOMAIN startByThread
              /\ \E k \in 1 .. Len(startByThread[TidOf(i)]) :
                    startByThread[TidOf(i)][k] = i
          BY <3>2 DEF TreeInv, StacksOK
        <4>2. TidOf(i)' = TidOf(i)
          BY <3>2
        <4>3. CASE TidOf(i) = tid
          <5>1. Stack = startByThread[tid]
            BY <4>1, <4>3 DEF Stack, HasStack
          <5> QED
            BY <1>d, <1>e, <4>1, <4>2, <4>3, <5>1
        <4>4. CASE TidOf(i) # tid
          BY <1>e, <4>1, <4>2, <4>4
        <4> QED
          BY <4>3, <4>4
      <3> QED
        BY <3>1, <3>2
    <2> QED
      BY <2>1, <2>2 DEF StacksOK, TidOf, NextTidOf
  <1>3. PositionsOK'
    <2>1. \A i \in DOMAIN spans' : /\ 0 < spans'[i].start /\ spans'[i].start < position'
                                   /\ spans'[i].end < position'
      <3> TAKE i \in DOMAIN spans'
      <3>1. CASE i = id
        BY <3>1 DEF NewSpan, NoEnd
      <3>2. CASE i \in DOMAIN spans
        <4>1. /\ spans[i].start \in Nat /\ spans[i].end \in Nat
              /\ 0 < spans[i].start /\ spans[i].start < position
              /\ spans[i].end < position
          BY <1>b, <3>2 DEF TreeInv, PositionsOK, SpanType
        <4> QED
          BY <3>2, <4>1 DEF NewSpan
      <3> QED
        BY <3>1, <3>2
    <2>2. \A i, j \in DOMAIN spans' : i < j => spans'[i].start < spans'[j].start
      <3> TAKE i, j \in DOMAIN spans'
      <3> HAVE i < j
      <3>1. i \in DOMAIN spans /\ spans'[i].start = spans[i].start
        BY DEF NewSpan
      <3>2. CASE j = id
        BY <3>1, <3>2 DEF TreeInv, PositionsOK, NewSpan
      <3>3. CASE j \in DOMAIN spans
        BY <3>1, <3>3 DEF TreeInv, PositionsOK, NewSpan
      <3> QED
        BY <3>2, <3>3
    <2>3. status' # "unread" /\ position' > 0
      BY DEF NewSpan, TreeInv, PositionsOK
    <2> QED
      BY <2>1, <2>2, <2>3 DEF PositionsOK
  <1>4. SpansNest'
    <2>1. \A i \in Ended' : /\ spans'[i].start < spans'[i].end
                            /\ log'[spans'[i].end].tid = TidOf(i)'
                            /\ log'[spans'[i].end].pn = PnOf(i)'
                            /\ ScopeKind(log'[spans'[i].end].kind) = spans'[i].kind
      BY DEF TreeInv, SpansNest, NewSpan
    <2>2. ASSUME NEW i \in Ended', NEW j \in Scoped', i < j, TidOf(i)' = TidOf(j)'
          PROVE  \/ spans'[i].end < spans'[j].start
                 \/ spans'[j].end # NoEnd /\ spans'[j].end < spans'[i].end
      <3>1. CASE j = id
        BY <3>1 DEF TreeInv, PositionsOK, NewSpan
      <3>2. CASE j \in Scoped
        BY <2>2, <3>2 DEF TreeInv, SpansNest, NewSpan
      <3> QED
        BY <3>1, <3>2
    <2>3. ASSUME NEW i \in DOMAIN spans', spans'[i].parent # NoSpan
          PROVE  /\ spans'[i].parent < i /\ NextTidOf(spans'[i].parent) = TidOf(i)'
                 /\ spans'[spans'[i].parent].start < spans'[i].start
                 /\ spans'[i].parent \in Ended' =>
                       spans'[i].start < spans'[spans'[i].parent].end
      <3>1. CASE i = id
        <4>1. spans'[i].parent = Top /\ Top \in DOMAIN spans /\ TidOf(Top) = tid
              /\ spans[Top].end = NoEnd
          BY <1>a, <2>3, <3>1 DEF NewSpan
        <4>2. Top \notin Ended'
          BY <4>1 DEF Ended
        <4>3. spans[Top].start < position
          BY <4>1 DEF TreeInv, PositionsOK
        <4> QED
          BY <3>1, <4>1, <4>2, <4>3 DEF NewSpan, TidOf, NextTidOf
      <3>2. CASE i \in DOMAIN spans
        <4> DEFINE p == spans[i].parent
        <4>1. p \in Nat /\ p # NoSpan /\ spans'[i].parent = p
          BY <1>b, <2>3, <3>2 DEF NewSpan, SpanType
        <4>2. /\ p < i /\ TidOf(p) = TidOf(i) /\ spans[p].start < spans[i].start
              /\ p \in Ended => spans[i].start < spans[p].end
          BY <3>2, <4>1 DEF TreeInv, SpansNest
        <4>3. p \in DOMAIN spans
          BY <3>2, <4>1, <4>2 DEF NoSpan
        <4> QED
          BY <3>2, <4>1, <4>2, <4>3 DEF NewSpan, TidOf, NextTidOf
      <3> QED
        BY <3>1, <3>2
    <2> QED
      BY <2>1, <2>2, <2>3 DEF SpansNest, TidOf, NextTidOf
  <1>5. EndedSpansAreIndexed'
    <2>1. spansByPn' = spansByPn
      BY DEF NewSpan
    <2> QED
      BY <2>1 DEF TreeInv, EndedSpansAreIndexed, IndexedAt, IsIndexed
  <1> QED
    BY <1>1, <1>2, <1>3, <1>4, <1>5

LEMMA StartSpanPreservesTreeInv ==
    ASSUME TreeInv, StartSpan, log' = log
    PROVE  TreeInv'
  <1> DEFINE id == Len(spans) + 1
             tid == Message.tid
             new == Span(ScopeKind(Message.kind), Top, Number)
  <1>1. position \in Nat \ {0} /\ status = "reading"
    BY DEF TreeInv, TypeOK, PositionsOK, StartSpan, AtMessage
  <1>2. Top \in Nat /\ Number \in Nat /\ Number <= nextNumber /\ nextNumber \in Nat
    BY StackFacts, NumberFacts DEF TreeInv, TypeOK
  <1>3. ScopeKind(Message.kind) \in {"Process", "Thread", "Scope"}
    BY DEF StartSpan, AtMessage, Starts, ScopeKind
  <1>4. /\ new \in SpanType /\ new.kind # "KeyValue" /\ new.parent = Top
        /\ new.threadNumber = Number /\ new.start = position /\ new.end = NoEnd
    BY <1>1, <1>2, <1>3 DEF Span, SpanType, NoEnd
  <1>5. /\ spans' = Append(spans, new) /\ spans \in Seq(SpanType)
    BY DEF StartSpan, TreeInv, TypeOK
  <1> HIDE DEF new
  <1>6. /\ spans' \in Seq(SpanType) /\ Len(spans') = id /\ spans'[id] = new
        /\ \A i \in DOMAIN spans : spans'[i] = spans[i]
    BY <1>4, <1>5
  <1>7. NewSpan(id, tid)
    <2>1. startByThread' = With(startByThread, tid, Append(Stack, id))
      BY DEF StartSpan
    <2>2. /\ DOMAIN startByThread' = DOMAIN startByThread \cup {tid}
          /\ startByThread'[tid] = Append(Stack, id)
          /\ \A t \in DOMAIN startByThread \ {tid} : startByThread'[t] = startByThread[t]
      BY <2>1 DEF With
    <2>3. position' = position + 1 /\ UNCHANGED <<status, spansByPn>>
      BY DEF StartSpan
    <2> QED
      BY <1>4, <1>6, <2>2, <2>3 DEF NewSpan
  <1>8. /\ \A t \in DOMAIN startByThread' : startByThread'[t] \in Seq(Nat)
        /\ StacksOK' /\ PositionsOK' /\ SpansNest' /\ EndedSpansAreIndexed'
    BY <1>1, <1>7, NewSpanPreserves
  <1>9. /\ id \in Nat /\ id > 0 /\ id \notin DOMAIN spans
        /\ DOMAIN spans' = DOMAIN spans \cup {id}
        /\ \A i \in DOMAIN spans : TidOf(i)' = TidOf(i)
        /\ NextTidOf(id) = tid
        /\ Scoped' \subseteq Scoped \cup {id} /\ Scoped \subseteq DOMAIN spans
        /\ Ended' = Ended /\ Ended \subseteq DOMAIN spans
    BY <1>1, <1>7, NewSpanFacts DEF NextTidOf, TidOf
  <1>10. /\ threadNumbers' = With(threadNumbers, tid, Number)
         /\ nextNumber' = IF Number = nextNumber THEN nextNumber + 1 ELSE nextNumber
    BY DEF StartSpan
  <1>11. /\ DOMAIN threadNumbers' = DOMAIN threadNumbers \cup {tid}
         /\ threadNumbers'[tid] = Number
         /\ \A t \in DOMAIN threadNumbers \ {tid} : threadNumbers'[t] = threadNumbers[t]
    BY <1>10 DEF With
  <1>12. nextNumber' \in Nat /\ nextNumber <= nextNumber' /\ Number < nextNumber'
    BY <1>2, <1>10
  <1>13. /\ Number # nextNumber => tid \in DOMAIN threadNumbers
                                   /\ Number = threadNumbers[tid]
         /\ Number = nextNumber => tid \notin DOMAIN threadNumbers
    BY NumberFacts
  <1>b. \A i \in DOMAIN spans : spans[i] \in SpanType
    BY <1>5
  <1> HIDE DEF id, tid
  <1>14. TypeOK'
    BY <1>1, <1>6, <1>8, <1>12 DEF TypeOK, TreeInv, StartSpan, Statuses
  (* Spans of the new span's number are the thread's, and their thread has *)
  (* not ended                                                             *)
  <1>15. ASSUME NEW i \in Scoped, spans[i].threadNumber = Number
         PROVE  TidOf(i) = tid /\ ~(i \in Ended /\ spans[i].kind = "Thread")
    <2>1. spans[i].threadNumber \in Nat /\ spans[i].threadNumber < nextNumber
      BY <1>9, <1>b DEF TreeInv, NumbersOK, SpanType
    <2>2. Number # nextNumber
      BY <1>2, <1>15, <2>1
    <2> QED
      BY <1>13, <1>15, <2>2 DEF TreeInv, NumbersOK
  <1>16. NumbersOK'
    <2>1. \A i \in Scoped' : spans'[i].threadNumber < nextNumber'
      <3> TAKE i \in Scoped'
      <3>1. CASE i = id
        BY <1>4, <1>6, <1>12, <3>1
      <3>2. CASE i \in Scoped
        <4>1. /\ spans[i].threadNumber \in Nat /\ spans[i].threadNumber < nextNumber
              /\ spans'[i] = spans[i]
          BY <1>6, <1>9, <1>b, <3>2 DEF TreeInv, NumbersOK, SpanType
        <4> QED
          BY <1>2, <1>12, <4>1
      <3> QED
        BY <1>9, <3>1, <3>2
    <2>2. ASSUME NEW t \in DOMAIN threadNumbers'
          PROVE  threadNumbers'[t] \in Nat /\ threadNumbers'[t] < nextNumber'
      <3>1. CASE t = tid
        BY <1>2, <1>11, <1>12, <3>1
      <3>2. CASE t # tid
        <4>1. /\ threadNumbers[t] \in Nat /\ threadNumbers[t] < nextNumber
              /\ threadNumbers'[t] = threadNumbers[t]
          BY <1>11, <3>2 DEF TreeInv, NumbersOK
        <4> QED
          BY <1>2, <1>12, <4>1
      <3> QED
        BY <3>1, <3>2
    <2>3. ASSUME NEW t \in DOMAIN threadNumbers \ {tid}
          PROVE  threadNumbers[t] # Number
      <3>1. threadNumbers[t] \in Nat /\ threadNumbers[t] < nextNumber
        BY DEF TreeInv, NumbersOK
      <3>2. CASE Number = nextNumber
        BY <1>2, <3>1, <3>2
      <3>3. CASE Number # nextNumber
        BY <1>13, <3>3 DEF TreeInv, NumbersOK
      <3> QED
        BY <3>2, <3>3
    <2>4. ASSUME NEW t \in DOMAIN threadNumbers', NEW i \in Scoped',
                 spans'[i].threadNumber = threadNumbers'[t]
          PROVE  TidOf(i)' = t /\ ~(i \in Ended' /\ spans'[i].kind = "Thread")
      <3>1. CASE i = id
        <4>1. threadNumbers'[t] = Number
          BY <1>4, <1>6, <2>4, <3>1
        <4>2. t = tid
          BY <1>11, <2>3, <4>1
        <4>3. id \notin Ended'
          BY <1>9
        <4> QED
          BY <1>9, <3>1, <4>2, <4>3 DEF NextTidOf, TidOf
      <3>2. CASE i \in Scoped
        <4>1. spans'[i] = spans[i] /\ TidOf(i)' = TidOf(i)
          BY <1>6, <1>9, <3>2
        <4>2. CASE t = tid
          BY <1>9, <1>11, <1>15, <2>4, <3>2, <4>1, <4>2
        <4>3. CASE t # tid
          BY <1>9, <1>11, <2>4, <3>2, <4>1, <4>3 DEF TreeInv, NumbersOK
        <4> QED
          BY <4>2, <4>3
      <3> QED
        BY <1>9, <3>1, <3>2
    <2>5. \A t, t2 \in DOMAIN threadNumbers' :
             threadNumbers'[t] = threadNumbers'[t2] => t = t2
      BY <1>11, <2>3 DEF TreeInv, NumbersOK
    <2> QED
      BY <2>1, <2>2, <2>4, <2>5 DEF NumbersOK
  <1>17. ThreadNumbersTellThreads'
    <2> SUFFICES ASSUME NEW i \in Scoped', NEW j \in Scoped',
                        spans'[i].threadNumber = spans'[j].threadNumber
                 PROVE  /\ TidOf(i)' = TidOf(j)'
                        /\ ~(/\ i \in Ended' /\ spans'[i].kind = "Thread"
                             /\ spans'[i].end < spans'[j].start)
      BY DEF ThreadNumbersTellThreads
    <2>1. CASE i \in Scoped /\ j \in Scoped
      BY <1>6, <1>9, <2>1 DEF TreeInv, ThreadNumbersTellThreads
    <2>2. CASE i = id /\ j = id
      BY <1>9, <2>2
    <2>3. CASE i \in Scoped /\ j = id
      BY <1>4, <1>6, <1>9, <1>15, <2>3 DEF NextTidOf, TidOf
    <2>4. CASE i = id /\ j \in Scoped
      BY <1>4, <1>6, <1>9, <1>15, <2>4 DEF NextTidOf, TidOf
    <2> QED
      BY <1>9, <2>1, <2>2, <2>3, <2>4
  <1> QED
    BY <1>8, <1>14, <1>16, <1>17 DEF TreeInv

LEMMA AddKeyValuePreservesTreeInv ==
    ASSUME TreeInv, AddKeyValue, log' = log
    PROVE  TreeInv'
  <1>1. position \in Nat \ {0} /\ status = "reading" /\ nextNumber \in Nat
    BY DEF TreeInv, TypeOK, PositionsOK, AddKeyValue, AtMessage
  <1>2. CASE ~HasStack
    BY <1>1, <1>2, OtherStepsPreserveTreeInv DEF AddKeyValue, Statuses
  <1>3. CASE HasStack
    <2> DEFINE id == Len(spans) + 1
               tid == Message.tid
               new == Span("KeyValue", Top, 0)
               old == [i \in DOMAIN spans |->
                         IF i = Top THEN [spans[i] EXCEPT !.children = Append(@, id)]
                                    ELSE spans[i]]
    <2>1. spans \in Seq(SpanType) /\ id \in Nat /\ Top \in Nat
      BY StackFacts DEF TreeInv, TypeOK
    <2>2. /\ new \in SpanType /\ new.kind = "KeyValue" /\ new.parent = Top
          /\ new.start = position /\ new.end = NoEnd
      BY <1>1, <2>1 DEF Span, SpanType, NoEnd
    <2>3. \A i \in DOMAIN spans :
             /\ old[i] \in SpanType
             /\ old[i].kind = spans[i].kind /\ old[i].parent = spans[i].parent
             /\ old[i].threadNumber = spans[i].threadNumber
             /\ old[i].start = spans[i].start /\ old[i].end = spans[i].end
      <3> TAKE i \in DOMAIN spans
      <3>1. spans[i] \in SpanType
        BY <2>1
      <3>2. Append(spans[i].children, id) \in Seq(Nat)
        BY <2>1, <3>1 DEF SpanType
      <3> QED
        BY <3>1, <3>2 DEF SpanType
    <2>4. old \in Seq(SpanType) /\ Len(old) = Len(spans) /\ DOMAIN old = DOMAIN spans
      <3>1. old \in [1 .. Len(spans) -> SpanType]
        BY <2>1, <2>3
      <3> QED
        BY <2>1, <3>1
    <2>5. spans' = Append(old, new)
      BY <1>3 DEF AddKeyValue
    <2> HIDE DEF new, old
    <2>6. /\ spans' \in Seq(SpanType) /\ Len(spans') = id /\ spans'[id] = new
          /\ \A i \in DOMAIN spans : spans'[i] = old[i]
      BY <2>1, <2>2, <2>4, <2>5
    <2>7. NewSpan(id, tid)
      <3>1. /\ DOMAIN startByThread' = DOMAIN startByThread \cup {tid}
            /\ startByThread'[tid] = Append(Stack, id)
            /\ \A t \in DOMAIN startByThread \ {tid} : startByThread'[t] = startByThread[t]
        BY <1>3 DEF AddKeyValue, Stack, HasStack
      <3>2. position' = position + 1 /\ UNCHANGED <<status, spansByPn>>
        BY <1>3 DEF AddKeyValue
      <3> QED
        BY <2>2, <2>3, <2>6, <3>1, <3>2 DEF NewSpan
    <2>8. /\ \A t \in DOMAIN startByThread' : startByThread'[t] \in Seq(Nat)
          /\ StacksOK' /\ PositionsOK' /\ SpansNest' /\ EndedSpansAreIndexed'
      BY <1>1, <2>7, NewSpanPreserves
    <2>9. /\ \A i \in DOMAIN spans : TidOf(i)' = TidOf(i)
          /\ Scoped \subseteq DOMAIN spans /\ Ended' = Ended
          /\ DOMAIN spans' = DOMAIN spans \cup {id}
      BY <1>1, <2>7, NewSpanFacts
    <2>10. Scoped' = Scoped
      BY <2>1, <2>2, <2>3, <2>6, <2>9 DEF Scoped, IsKeyValue
    <2>11. UNCHANGED <<threadNumbers, nextNumber>>
      BY DEF AddKeyValue
    <2>12. TypeOK'
      BY <1>1, <1>3, <2>6, <2>8, <2>11 DEF TypeOK, TreeInv, AddKeyValue, Statuses
    <2>13. NumbersOK'
      BY <2>3, <2>6, <2>9, <2>10, <2>11 DEF TreeInv, NumbersOK
    <2>14. ThreadNumbersTellThreads'
      BY <2>3, <2>6, <2>9, <2>10 DEF TreeInv, ThreadNumbersTellThreads
    <2> QED
      BY <2>8, <2>12, <2>13, <2>14 DEF TreeInv
  <1> QED
    BY <1>2, <1>3

(* The span of the thread tid at i on its stack ends at the message at the *)
(* position, and leaves the stack with all that is above it                *)
EndedSpan(i, id, tid) ==
    /\ spans' \in Seq(SpanType) /\ DOMAIN spans' = DOMAIN spans
    /\ \A j \in DOMAIN spans :
          /\ spans'[j].kind = spans[j].kind /\ spans'[j].parent = spans[j].parent
          /\ spans'[j].threadNumber = spans[j].threadNumber
          /\ spans'[j].start = spans[j].start
          /\ j # id => spans'[j].end = spans[j].end
    /\ spans'[id].end = position
    /\ DOMAIN startByThread' = DOMAIN startByThread
    /\ startByThread'[tid] = SubSeq(Stack, 1, i - 1)
    /\ \A t \in DOMAIN startByThread \ {tid} : startByThread'[t] = startByThread[t]
    /\ position' = position + 1
    /\ UNCHANGED <<log, status, nextNumber>>

LEMMA EndedSpanFacts ==
    ASSUME TreeInv, position \in Nat \ {0},
           NEW i \in Closing(Stack), NEW id, id = Stack[i],
           NEW tid, tid = Message.tid, EndedSpan(i, id, tid)
    PROVE  /\ i \in 1 .. Len(Stack) /\ Stack \in Seq(Nat)
           /\ HasStack /\ Stack = startByThread[tid] /\ tid \in DOMAIN startByThread
           /\ DOMAIN spans = 1 .. Len(spans) /\ Len(spans) \in Nat
           /\ id \in Scoped /\ id \notin Ended /\ TidOf(id) = tid
           /\ spans[id].end = NoEnd
           /\ Scoped' = Scoped /\ Ended' = Ended \cup {id}
           /\ Scoped \subseteq DOMAIN spans /\ Ended \subseteq Scoped
           /\ \A j \in DOMAIN spans :
                 /\ spans[j] \in SpanType
                 /\ NextTidOf(j) = TidOf(j) /\ TidOf(j)' = TidOf(j)
                 /\ PnOf(j)' = PnOf(j)
           /\ \A j \in Scoped : j \in Ended \/ TidOf(j) # tid
                                \/ \E k \in 1 .. i : Stack[k] = j
  <1>1. /\ i \in 1 .. Len(Stack) /\ ~IsKeyValue(spans[id])
        /\ \A k \in i + 1 .. Len(Stack) : IsKeyValue(spans[Stack[k]])
    BY DEF Closing
  <1>2. /\ Stack \in Seq(Nat) /\ id \in DOMAIN spans /\ TidOf(id) = tid
        /\ spans[id].end = NoEnd
    BY <1>1, StackFacts
  <1>3. HasStack /\ Stack = startByThread[tid] /\ tid \in DOMAIN startByThread
    <2>1. Stack # <<>>
      BY <1>1, <1>2
    <2> QED
      BY <2>1 DEF Stack, HasStack
  <1>4. /\ spans \in Seq(SpanType) /\ DOMAIN spans = 1 .. Len(spans) /\ Len(spans) \in Nat
    BY DEF TreeInv, TypeOK
  <1>5. id \in Scoped /\ id \notin Ended /\ Scoped \subseteq DOMAIN spans /\ Ended \subseteq Scoped
    BY <1>1, <1>2 DEF Scoped, Ended
  <1>6. Scoped' = Scoped
    BY DEF EndedSpan, Scoped, IsKeyValue
  <1>7. Ended' = Ended \cup {id}
    BY <1>5, <1>6 DEF EndedSpan, Ended, NoEnd
  <1>8. \A j \in DOMAIN spans : /\ spans[j] \in SpanType
                                /\ NextTidOf(j) = TidOf(j) /\ TidOf(j)' = TidOf(j)
                                /\ PnOf(j)' = PnOf(j)
    BY <1>4 DEF EndedSpan, TidOf, NextTidOf, PnOf
  <1>9. ASSUME NEW j \in Scoped, j \notin Ended, TidOf(j) = tid
        PROVE  \E k \in 1 .. i : Stack[k] = j
    <2>1. PICK k \in 1 .. Len(Stack) : Stack[k] = j
      BY <1>3, <1>9 DEF TreeInv, StacksOK
    <2>2. ~IsKeyValue(spans[Stack[k]])
      BY <1>9, <2>1 DEF Scoped
    <2>3. k \notin i + 1 .. Len(Stack)
      BY <1>1, <2>2
    <2>4. k \in 1 .. i
      BY <1>1, <1>2, <2>1, <2>3
    <2> QED
      BY <2>1, <2>4
  <1> QED
    BY <1>1, <1>2, <1>3, <1>4, <1>5, <1>6, <1>7, <1>8, <1>9

LEMMA EndedSpanPreserves ==
    ASSUME TreeInv, position \in Nat \ {0},
           NEW i \in Closing(Stack), NEW id, id = Stack[i],
           NEW tid, tid = Message.tid, EndedSpan(i, id, tid),
           PnOf(id) = Message.pn, ScopeKind(Message.kind) = spans[id].kind
    PROVE  /\ \A t \in DOMAIN startByThread' : startByThread'[t] \in Seq(Nat)
           /\ StacksOK' /\ PositionsOK' /\ SpansNest' /\ ThreadNumbersTellThreads'
  <1>0. /\ i \in Nat /\ Len(Stack) \in Nat /\ 1 <= i /\ i <= Len(Stack)
        /\ tid \in DOMAIN startByThread
        /\ id \in Scoped /\ id \notin Ended /\ TidOf(id) = tid
        /\ spans[id].end = NoEnd
        /\ Scoped' = Scoped /\ Ended' = Ended \cup {id}
        /\ Scoped \subseteq DOMAIN spans /\ Ended \subseteq Scoped
        /\ \A j \in DOMAIN spans :
              /\ j \in Nat
              /\ NextTidOf(j) = TidOf(j) /\ TidOf(j)' = TidOf(j)
              /\ PnOf(j)' = PnOf(j)
    BY EndedSpanFacts
  <1>g. /\ \A j \in DOMAIN spans : spans[j] \in SpanType
        /\ Stack \in Seq(Nat) /\ Stack = startByThread[tid]
    BY EndedSpanFacts
  <1>h. \A j \in Scoped : j \in Ended \/ TidOf(j) # tid
                           \/ \E k \in 1 .. i : Stack[k] = j
    BY EndedSpanFacts
  <1> USE <1>0
  <1>a. /\ \A k \in 1 .. Len(Stack) :
              /\ Stack[k] \in DOMAIN spans /\ TidOf(Stack[k]) = tid
              /\ spans[Stack[k]].end = NoEnd
        /\ \A k, l \in 1 .. Len(Stack) : k < l => Stack[k] < Stack[l]
    BY StackFacts
  <1> DEFINE new == SubSeq(Stack, 1, i - 1)
  <1>b. /\ new \in Seq(Nat) /\ Len(new) = i - 1
        /\ \A k \in 1 .. i - 1 : new[k] = Stack[k]
    BY <1>g
  <1>c. startByThread'[tid] = new
    BY DEF EndedSpan
  <1> HIDE DEF new
  <1>d. \A j \in DOMAIN spans : /\ spans[j].start \in Nat /\ 0 < spans[j].start
                                /\ spans[j].start < position
                                /\ spans[j].end \in Nat /\ spans[j].end < position
    BY <1>g DEF TreeInv, PositionsOK, SpanType
  <1>e. /\ DOMAIN spans' = DOMAIN spans /\ position' = position + 1
        /\ \A j \in DOMAIN spans :
              /\ spans'[j].kind = spans[j].kind /\ spans'[j].start = spans[j].start
              /\ spans'[j].threadNumber = spans[j].threadNumber
              /\ j # id => spans'[j].end = spans[j].end
        /\ spans'[id].end = position /\ id \in DOMAIN spans
        /\ DOMAIN startByThread' = DOMAIN startByThread
        /\ \A t \in DOMAIN startByThread \ {tid} : startByThread'[t] = startByThread[t]
    BY DEF EndedSpan
  <1>f. \A k \in 1 .. i : /\ Stack[k] \in Nat /\ Stack[k] <= id
                          /\ k # i => Stack[k] < id
    <2> TAKE k \in 1 .. i
    <2>1. Stack[k] \in Nat /\ k \in 1 .. Len(Stack) /\ i \in 1 .. Len(Stack)
      BY <1>g
    <2>2. k # i => Stack[k] < Stack[i]
      BY <1>a, <2>1
    <2> QED
      BY <2>1, <2>2
  <1>1. \A t \in DOMAIN startByThread' : startByThread'[t] \in Seq(Nat)
    <2>1. \A t \in DOMAIN startByThread : startByThread[t] \in Seq(Nat)
      BY DEF TreeInv, TypeOK
    <2> QED
      BY <1>b, <1>c, <1>e, <2>1
  <1>2. StacksOK'
    <2>1. ASSUME NEW t \in DOMAIN startByThread'
          PROVE  /\ \A k \in 1 .. Len(startByThread'[t]) :
                       /\ startByThread'[t][k] \in DOMAIN spans'
                       /\ NextTidOf(startByThread'[t][k]) = t
                       /\ spans'[startByThread'[t][k]].end = NoEnd
                 /\ \A k, l \in 1 .. Len(startByThread'[t]) :
                       k < l => startByThread'[t][k] < startByThread'[t][l]
      <3>1. CASE t = tid
        <4>1. \A k \in 1 .. i - 1 :
                 /\ Stack[k] \in DOMAIN spans /\ Stack[k] # id
                 /\ NextTidOf(Stack[k]) = tid /\ spans'[Stack[k]].end = NoEnd
          <5> TAKE k \in 1 .. i - 1
          <5>1. k \in 1 .. Len(Stack) /\ k \in 1 .. i /\ k # i
            OBVIOUS
          <5>2. /\ Stack[k] \in DOMAIN spans /\ TidOf(Stack[k]) = tid
                /\ spans[Stack[k]].end = NoEnd
            BY <1>a, <5>1
          <5>3. Stack[k] # id
            BY <1>f, <5>1
          <5> QED
            BY <1>e, <5>2, <5>3
        <4>2. \A k, l \in 1 .. i - 1 : k < l => Stack[k] < Stack[l]
          BY <1>a
        <4>3. /\ Len(startByThread'[t]) = i - 1
              /\ \A k \in 1 .. i - 1 : startByThread'[t][k] = Stack[k]
          BY <1>b, <1>c, <3>1
        <4>4. DOMAIN spans' = DOMAIN spans
          BY <1>e
        <4>5. \A k, l \in 1 .. Len(startByThread'[t]) :
                 k < l => startByThread'[t][k] < startByThread'[t][l]
          BY <4>2, <4>3
        <4> QED
          BY <3>1, <4>1, <4>3, <4>4, <4>5
      <3>2. CASE t # tid
        <4>1. t \in DOMAIN startByThread /\ startByThread'[t] = startByThread[t]
          BY <1>e, <3>2
        <4>2. /\ \A k \in 1 .. Len(startByThread[t]) :
                    /\ startByThread[t][k] \in DOMAIN spans
                    /\ TidOf(startByThread[t][k]) = t
                    /\ spans[startByThread[t][k]].end = NoEnd
              /\ \A k, l \in 1 .. Len(startByThread[t]) :
                    k < l => startByThread[t][k] < startByThread[t][l]
          BY <4>1 DEF TreeInv, StacksOK
        <4>3. \A k \in 1 .. Len(startByThread[t]) : startByThread[t][k] # id
          BY <3>2, <4>2
        <4> QED
          BY <1>e, <4>1, <4>2, <4>3
      <3> QED
        BY <3>1, <3>2
    <2>2. ASSUME NEW j \in Scoped' \ Ended'
          PROVE  /\ TidOf(j)' \in DOMAIN startByThread'
                 /\ \E k \in 1 .. Len(startByThread'[TidOf(j)']) :
                       startByThread'[TidOf(j)'][k] = j
      <3>1. j \in Scoped /\ j \notin Ended /\ j # id /\ TidOf(j)' = TidOf(j)
        OBVIOUS
      <3>2. CASE TidOf(j) = tid
        <4>1. PICK k \in 1 .. i : Stack[k] = j
          BY <1>h, <3>1, <3>2
        <4>2. k \in 1 .. i - 1
          BY <3>1, <4>1
        <4> QED
          BY <1>b, <1>c, <1>e, <3>1, <3>2, <4>2, <4>1
      <3>3. CASE TidOf(j) # tid
        <4>1. /\ TidOf(j) \in DOMAIN startByThread
              /\ \E k \in 1 .. Len(startByThread[TidOf(j)]) :
                    startByThread[TidOf(j)][k] = j
          BY <3>1 DEF TreeInv, StacksOK
        <4> QED
          BY <1>e, <3>1, <3>3, <4>1
      <3> QED
        BY <3>2, <3>3
    <2>3. ASSUME NEW t \in DOMAIN startByThread', NEW k \in 1 .. Len(startByThread'[t])
          PROVE  (TidOf(startByThread[t][k]) = t)'
      BY <2>1 DEF TidOf, NextTidOf
    <2> QED
      BY <2>1, <2>2, <2>3 DEF StacksOK
  <1>3. PositionsOK'
    <2>1. \A j \in DOMAIN spans' : /\ 0 < spans'[j].start /\ spans'[j].start < position'
                                   /\ spans'[j].end < position'
      <3> TAKE j \in DOMAIN spans'
      <3>1. CASE j = id
        BY <1>d, <1>e, <3>1
      <3>2. CASE j # id
        BY <1>d, <1>e, <3>2
      <3> QED
        BY <3>1, <3>2
    <2>2. \A j, l \in DOMAIN spans' : j < l => spans'[j].start < spans'[l].start
      BY DEF EndedSpan, TreeInv, PositionsOK
    <2>3. status' # "unread" /\ position' > 0
      BY DEF EndedSpan, TreeInv, PositionsOK
    <2> QED
      BY <2>1, <2>2, <2>3 DEF PositionsOK
  <1>4. SpansNest'
    <2>1. ASSUME NEW j \in Ended'
          PROVE  /\ spans'[j].start < spans'[j].end
                 /\ log'[spans'[j].end].tid = TidOf(j)'
                 /\ log'[spans'[j].end].pn = PnOf(j)'
                 /\ ScopeKind(log'[spans'[j].end].kind) = spans'[j].kind
      <3>1. CASE j = id
        BY <1>d, <3>1 DEF EndedSpan, Message
      <3>2. CASE j \in Ended /\ j # id
        BY <3>2 DEF EndedSpan, TreeInv, SpansNest
      <3> QED
        BY <3>1, <3>2
    <2>2. ASSUME NEW j \in Ended', NEW l \in Scoped', j < l, TidOf(j)' = TidOf(l)'
          PROVE  \/ spans'[j].end < spans'[l].start
                 \/ spans'[l].end # NoEnd /\ spans'[l].end < spans'[j].end
      <3>0. TidOf(j) = TidOf(l)
        BY <2>2
      <3>1. CASE j = id
        (* A later span that were still open would be above on the stack *)
        <4>2. l \in Ended
          <5>1. l \in DOMAIN spans /\ id \in DOMAIN spans
            OBVIOUS
          <5>2. ~ (l <= id)
            BY <2>2, <3>1, <5>1
          <5>3. l \in Scoped /\ TidOf(l) = tid
            BY <3>0, <3>1
          <5>4. \A k \in 1 .. i : Stack[k] # l
            BY <1>f, <5>2
          <5> QED
            BY <1>h, <5>3, <5>4
        <4>3. spans[l].end # NoEnd /\ spans[l].end < position /\ l # id
          BY <1>d, <2>2, <3>1, <4>2 DEF Ended
        <4> QED
          BY <3>1, <4>3 DEF EndedSpan
      <3>2. CASE j \in Ended /\ l = id
        BY <2>2, <3>0, <3>2 DEF EndedSpan, TreeInv, SpansNest
      <3>3. CASE j \in Ended /\ j # id /\ l # id
        BY <2>2, <3>0, <3>3 DEF EndedSpan, TreeInv, SpansNest
      <3> QED
        BY <3>1, <3>2, <3>3
    <2>3. ASSUME NEW j \in DOMAIN spans', spans'[j].parent # NoSpan
          PROVE  /\ spans'[j].parent < j /\ NextTidOf(spans'[j].parent) = TidOf(j)'
                 /\ spans'[spans'[j].parent].start < spans'[j].start
                 /\ spans'[j].parent \in Ended' =>
                       spans'[j].start < spans'[spans'[j].parent].end
      <3> DEFINE p == spans[j].parent
      <3>1. j \in DOMAIN spans /\ spans'[j].parent = p /\ p \in Nat /\ p # NoSpan
        BY <1>g, <2>3 DEF EndedSpan, SpanType
      <3>2. /\ p < j /\ TidOf(p) = TidOf(j) /\ spans[p].start < spans[j].start
            /\ p \in Ended => spans[j].start < spans[p].end
        BY <3>1 DEF TreeInv, SpansNest
      <3> HIDE DEF p
      <3>3. p \in DOMAIN spans
        <4>1. DOMAIN spans = 1 .. Len(spans) /\ Len(spans) \in Nat
          BY DEF TreeInv, TypeOK
        <4>2. j \in 1 .. Len(spans) /\ p \in Nat /\ p # 0 /\ p < j
          BY <3>1, <3>2, <4>1 DEF NoSpan
        <4> QED
          BY <4>1, <4>2
      <3>4. CASE p = id
        BY <1>d, <3>1, <3>2, <3>3, <3>4 DEF EndedSpan
      <3>5. CASE p # id
        BY <3>1, <3>2, <3>3, <3>5 DEF EndedSpan
      <3> QED
        BY <3>4, <3>5
    <2> QED
      BY <2>1, <2>2, <2>3 DEF SpansNest, TidOf, NextTidOf
  <1>5. ThreadNumbersTellThreads'
    <2> SUFFICES ASSUME NEW j \in Scoped', NEW l \in Scoped',
                        spans'[j].threadNumber = spans'[l].threadNumber
                 PROVE  /\ TidOf(j)' = TidOf(l)'
                        /\ ~(/\ j \in Ended' /\ spans'[j].kind = "Thread"
                             /\ spans'[j].end < spans'[l].start)
      BY DEF ThreadNumbersTellThreads
    <2>1. CASE j = id
      <3>1. TidOf(j)' = TidOf(l)'
        BY <1>e DEF TreeInv, ThreadNumbersTellThreads
      <3>2. ~ (spans'[j].end < spans'[l].start)
        BY <1>d, <1>e, <2>1
      <3> QED
        BY <3>1, <3>2
    <2>2. CASE j # id
      <3>1. j \in Ended' => j \in Ended
        BY <2>2
      <3>2. spans'[j].end = spans[j].end /\ spans'[j].kind = spans[j].kind
        BY <1>e, <2>2
      <3>3. spans[j].threadNumber = spans[l].threadNumber
        BY <1>e
      <3>4. spans'[l].start = spans[l].start
        BY <1>e
      <3> QED
        BY <3>1, <3>2, <3>3, <3>4 DEF TreeInv, ThreadNumbersTellThreads
    <2> QED
      BY <2>1, <2>2
  <1> QED
    BY <1>1, <1>2, <1>3, <1>4, <1>5

(* A span that ends is the last one of its point in spans_by_pn            *)
LEMMA EndedSpanIsIndexed ==
    ASSUME TreeInv, position \in Nat \ {0},
           NEW i \in Closing(Stack), NEW id, id = Stack[i],
           NEW tid, tid = Message.tid, EndedSpan(i, id, tid),
           NEW pn, pn = PnOf(id), NEW known,
           known = IF pn \in DOMAIN spansByPn THEN spansByPn[pn] ELSE <<>>,
           spansByPn' = With(spansByPn, pn, Append(known, id))
    PROVE  /\ \A p \in DOMAIN spansByPn' : spansByPn'[p] \in Seq(Nat)
           /\ EndedSpansAreIndexed'
  <1>1. /\ id \in Scoped /\ id \notin Ended /\ id \in Nat
        /\ Ended' = Ended \cup {id}
        /\ \A j \in Ended : PnOf(j)' = PnOf(j)
        /\ PnOf(id)' = pn
    BY EndedSpanFacts
  <1>2. known \in Seq(Nat)
    BY DEF TreeInv, TypeOK
  <1> DEFINE new == Append(known, id)
  <1>3. /\ new \in Seq(Nat) /\ Len(new) = Len(known) + 1 /\ Len(known) \in Nat
        /\ \A k \in 1 .. Len(known) : new[k] = known[k]
        /\ new[Len(known) + 1] = id
    BY <1>1, <1>2
  <1> HIDE DEF new
  <1>4. /\ DOMAIN spansByPn' = DOMAIN spansByPn \cup {pn}
        /\ spansByPn'[pn] = new
        /\ \A p \in DOMAIN spansByPn \ {pn} : spansByPn'[p] = spansByPn[p]
    BY DEF With, new
  <1>5. \A p \in DOMAIN spansByPn' : spansByPn'[p] \in Seq(Nat)
    BY <1>3, <1>4 DEF TreeInv, TypeOK
  <1>6. /\ \A k \in 1 .. Len(known) : known[k] \in Ended /\ PnOf(known[k]) = pn
        /\ \A k, l \in 1 .. Len(known) : known[k] = known[l] => k = l
        /\ \A j \in Ended : PnOf(j) = pn => \E k \in 1 .. Len(known) : known[k] = j
    <2>1. CASE pn \in DOMAIN spansByPn
      BY <2>1 DEF TreeInv, EndedSpansAreIndexed, IndexedAt, IsIndexed
    <2>2. CASE pn \notin DOMAIN spansByPn
      <3>1. Len(known) = 0
        BY <2>2
      <3> QED
        BY <2>2, <3>1 DEF TreeInv, EndedSpansAreIndexed, IndexedAt, IsIndexed
    <2> QED
      BY <2>1, <2>2
  <1>7. ASSUME NEW p \in DOMAIN spansByPn', NEW k \in 1 .. Len(spansByPn'[p])
        PROVE  IndexedAt(p, k)'
    <2> SUFFICES /\ spansByPn'[p][k] \in Ended'
                 /\ log'[spans'[spansByPn'[p][k]].start].pn = p
                 /\ \A l \in 1 .. Len(spansByPn'[p]) :
                       spansByPn'[p][k] = spansByPn'[p][l] => k = l
      BY DEF IndexedAt, PnOf
    <2>0. \A j \in Ended : log'[spans'[j].start].pn = PnOf(j)
      BY <1>1 DEF PnOf
    <2>1. CASE p = pn
      <3>1. log'[spans'[id].start].pn = pn
        BY <1>1 DEF PnOf
      <3>0. k \in 1 .. Len(known) + 1
        BY <1>3, <1>4, <2>1
      <3>2. CASE k = Len(known) + 1
        <4>0. \A l \in 1 .. Len(known) : known[l] \in Ended
          BY <1>6
        <4>1. \A l \in 1 .. Len(known) : new[l] # id
          BY <1>1, <1>3, <4>0
        <4>2. \A l \in 1 .. Len(known) + 1 : new[l] = id => l = Len(known) + 1
          BY <1>3, <4>1
        <4>3. spansByPn'[p] = new /\ Len(new) = Len(known) + 1 /\ new[k] = id
          BY <1>3, <1>4, <2>1, <3>2
        <4> QED
          BY <1>1, <2>1, <3>1, <3>2, <4>2, <4>3
      <3>3. CASE k # Len(known) + 1
        <4>1. k \in 1 .. Len(known)
          BY <1>3, <3>0, <3>3
        <4>2. /\ new[k] = known[k]
              /\ new[k] \in Ended /\ PnOf(new[k]) = pn /\ new[k] # id
          <5>1. new[k] = known[k]
            BY <1>3, <4>1
          <5>2. known[k] \in Ended /\ PnOf(known[k]) = pn
            BY <1>6, <4>1
          <5> QED
            BY <1>1, <5>1, <5>2
        <4>3. \A l \in 1 .. Len(known) + 1 : new[k] = new[l] => k = l
          <5> TAKE l \in 1 .. Len(known) + 1
          <5>1. CASE l = Len(known) + 1
            BY <1>3, <4>2, <5>1
          <5>2. CASE l # Len(known) + 1
            <6>1. l \in 1 .. Len(known)
              BY <1>3, <5>2
            <6>2. new[l] = known[l]
              BY <1>3, <6>1
            <6> QED
              BY <1>6, <4>1, <4>2, <6>1, <6>2
          <5> QED
            BY <5>1, <5>2
        <4> QED
          BY <1>1, <1>3, <1>4, <2>0, <2>1, <4>2, <4>3
      <3> QED
        BY <3>2, <3>3
    <2>2. CASE p # pn
      BY <1>1, <1>4, <2>0, <2>2 DEF TreeInv, EndedSpansAreIndexed, IndexedAt, IsIndexed
    <2> QED
      BY <2>1, <2>2
  <1>8. ASSUME NEW j \in Ended'
        PROVE  /\ PnOf(j)' \in DOMAIN spansByPn'
               /\ \E k \in 1 .. Len(spansByPn'[PnOf(j)']) :
                     spansByPn'[PnOf(j)'][k] = j
    <2>1. CASE j = id
      BY <1>1, <1>3, <1>4, <2>1
    <2>2. CASE j \in Ended /\ PnOf(j) = pn
      <3>1. PICK k \in 1 .. Len(known) : known[k] = j
        BY <1>6, <2>2
      <3>2. k \in 1 .. Len(new) /\ new[k] = j
        BY <1>3, <3>1
      <3> QED
        BY <1>1, <1>4, <2>2, <3>2
    <2>3. CASE j \in Ended /\ PnOf(j) # pn
      <3>1. /\ PnOf(j) \in DOMAIN spansByPn
            /\ \E k \in 1 .. Len(spansByPn[PnOf(j)]) : spansByPn[PnOf(j)][k] = j
        BY <2>3 DEF TreeInv, EndedSpansAreIndexed, IndexedAt, IsIndexed
      <3> QED
        BY <1>1, <1>4, <2>3, <3>1
    <2> QED
      BY <1>1, <2>1, <2>2, <2>3
  <1>9. \A j \in Ended' : IsIndexed(j)'
    BY <1>8 DEF IsIndexed
  <1> QED
    BY <1>5, <1>7, <1>9 DEF EndedSpansAreIndexed

LEMMA EndSpanPreservesTreeInv ==
    ASSUME TreeInv, EndSpan, log' = log
    PROVE  TreeInv'
  <1>1. position \in Nat \ {0} /\ status = "reading" /\ nextNumber \in Nat
    BY DEF TreeInv, TypeOK, PositionsOK, EndSpan, AtMessage
  <1>2. ASSUME UNCHANGED <<position, spans, spansByPn, startByThread, threadNumbers>>,
               status' \in {"error", "panic"}
        PROVE  TreeInv'
    BY <1>1, <1>2, OtherStepsPreserveTreeInv DEF EndSpan, Statuses
  <1>3. CASE Closing(Stack) = {}
    BY <1>2, <1>3 DEF EndSpan, Failed
  <1>4. ASSUME NEW i \in Closing(Stack), Close(i)
        PROVE  TreeInv'
    <2> DEFINE id == Stack[i]
               tid == Message.tid
               pn == PnOf(id)
               kind == ScopeKind(Message.kind)
               known == IF pn \in DOMAIN spansByPn THEN spansByPn[pn] ELSE <<>>
    <2>1. CASE spans[id].kind # kind
      BY <1>2, <1>4, <2>1 DEF Close, Failed
    <2>2. CASE spans[id].kind = kind /\ pn # Message.pn
      BY <1>2, <1>4, <2>2 DEF Close, Failed, PnOf
    <2>3. CASE spans[id].kind = kind /\ pn = Message.pn
      <3>1. /\ spans' = [spans EXCEPT ![id].end = position]
            /\ startByThread' = [startByThread EXCEPT ![tid] = SubSeq(@, 1, i - 1)]
            /\ spansByPn' = With(spansByPn, pn, Append(known, id))
            /\ threadNumbers' = IF kind = "Thread" THEN Without(threadNumbers, tid)
                                                   ELSE threadNumbers
            /\ position' = position + 1 /\ UNCHANGED status
        BY <1>4, <2>3 DEF Close, Below, NumbersAfter, PnOf
      <3>2. nextNumber' = nextNumber
        BY DEF EndSpan
      <3>3. /\ spans \in Seq(SpanType) /\ i \in 1 .. Len(Stack)
            /\ id \in DOMAIN spans /\ TidOf(id) = tid
        BY StackFacts DEF TreeInv, TypeOK, Closing
      <3>4. HasStack /\ Stack = startByThread[tid]
        <4>1. Stack # <<>>
          BY <3>3, StackFacts
        <4> QED
          BY <4>1 DEF Stack, HasStack
      <3>5. EndedSpan(i, id, tid)
        <4>1. spans' \in Seq(SpanType)
          <5>0. spans[id] \in SpanType
            BY <3>3
          <5>1. [spans[id] EXCEPT !.end = position] \in SpanType
            BY <1>1, <5>0 DEF SpanType
          <5>2. spans' = [spans EXCEPT ![id] = [spans[id] EXCEPT !.end = position]]
            BY <3>1
          <5> QED
            BY <3>3, <5>1, <5>2
        <4>2. /\ DOMAIN spans' = DOMAIN spans
              /\ \A j \in DOMAIN spans :
                    /\ spans'[j].kind = spans[j].kind /\ spans'[j].parent = spans[j].parent
                    /\ spans'[j].threadNumber = spans[j].threadNumber
                    /\ spans'[j].start = spans[j].start
                    /\ j # id => spans'[j].end = spans[j].end
              /\ spans'[id].end = position
          <5>1. \A j \in DOMAIN spans : spans[j] \in SpanType
            BY <3>3
          <5> QED
            BY <3>1, <3>3, <5>1 DEF SpanType
        <4>3. /\ DOMAIN startByThread' = DOMAIN startByThread
              /\ startByThread'[tid] = SubSeq(Stack, 1, i - 1)
              /\ \A t \in DOMAIN startByThread \ {tid} :
                    startByThread'[t] = startByThread[t]
          BY <3>1, <3>4 DEF HasStack
        <4> QED
          BY <3>1, <3>2, <4>1, <4>2, <4>3 DEF EndedSpan
      <3> HIDE DEF id, tid, pn, kind, known
      <3>6. /\ \A t \in DOMAIN startByThread' : startByThread'[t] \in Seq(Nat)
            /\ StacksOK' /\ PositionsOK' /\ SpansNest' /\ ThreadNumbersTellThreads'
        BY <1>1, <2>3, <3>5, EndedSpanPreserves DEF id, tid, pn, kind
      <3>7. /\ \A p \in DOMAIN spansByPn' : spansByPn'[p] \in Seq(Nat)
            /\ EndedSpansAreIndexed'
        BY <1>1, <3>1, <3>5, EndedSpanIsIndexed DEF id, tid, pn, known
      <3>8. TypeOK'
        BY <1>1, <3>1, <3>2, <3>5, <3>6, <3>7 DEF TypeOK, Statuses, EndedSpan
      <3>9. NumbersOK'
        <4>1. /\ id \in Scoped /\ TidOf(id) = tid
              /\ Scoped' = Scoped /\ Ended' = Ended \cup {id}
              /\ Scoped \subseteq DOMAIN spans
              /\ \A j \in DOMAIN spans : TidOf(j)' = TidOf(j)
          BY <1>1, <3>5, EndedSpanFacts DEF id, tid
        <4>2. \A j \in DOMAIN spans :
                 /\ spans'[j].kind = spans[j].kind
                 /\ spans'[j].threadNumber = spans[j].threadNumber
          BY <3>5 DEF EndedSpan
        <4>3. /\ DOMAIN threadNumbers' \subseteq DOMAIN threadNumbers
              /\ kind = "Thread" => tid \notin DOMAIN threadNumbers'
              /\ \A t \in DOMAIN threadNumbers' : threadNumbers'[t] = threadNumbers[t]
          BY <3>1 DEF Without
        <4>4. ASSUME NEW t \in DOMAIN threadNumbers', NEW j \in Scoped',
                     spans'[j].threadNumber = threadNumbers'[t]
              PROVE  TidOf(j)' = t /\ ~(j \in Ended' /\ spans'[j].kind = "Thread")
          <5>1. TidOf(j) = t /\ ~(j \in Ended /\ spans[j].kind = "Thread")
            BY <4>1, <4>2, <4>3, <4>4 DEF TreeInv, NumbersOK
          <5>2. CASE j = id
            BY <2>3, <4>1, <4>2, <4>3, <5>1, <5>2
          <5>3. CASE j # id
            BY <4>1, <4>2, <5>1, <5>3
          <5> QED
            BY <5>2, <5>3
        <4>5. \A j \in Scoped' : spans'[j].threadNumber < nextNumber'
          BY <3>2, <4>1, <4>2 DEF TreeInv, NumbersOK
        <4>6. \A t \in DOMAIN threadNumbers' :
                 /\ threadNumbers'[t] \in Nat /\ threadNumbers'[t] < nextNumber'
                 /\ \A t2 \in DOMAIN threadNumbers' :
                       threadNumbers'[t] = threadNumbers'[t2] => t = t2
          BY <3>2, <4>3 DEF TreeInv, NumbersOK
        <4> QED
          BY <4>4, <4>5, <4>6 DEF NumbersOK
      <3> QED
        BY <3>6, <3>7, <3>8, <3>9 DEF TreeInv
    <2> QED
      BY <2>1, <2>2, <2>3
  <1> QED
    BY <1>3, <1>4 DEF EndSpan

(***************************************************************************)
(* The theorems                                                            *)
(***************************************************************************)
(* The invariant is preserved whatever the next message is                 *)
LEMMA TreeInvIsInductive ==
    ASSUME TreeInv, [TreeNext /\ UNCHANGED log]_<<log, treeVars>>
    PROVE  TreeInv'
  <1>0. /\ position \in Nat /\ status \in Statuses
        /\ status = "unread" => position = 0
        /\ status \notin {"unread", "error"} => position > 0
    BY DEF TreeInv, TypeOK, PositionsOK
  <1>1. CASE ReadFile /\ log' = log
    <2>1. position' \in Nat /\ position' >= position /\ status' \in Statuses
          /\ status' # "unread"
          /\ (status' \notin {"unread", "error"} => position' > 0)
      BY <1>0, <1>1 DEF ReadFile, Statuses, TreeInv, TypeOK
    <2> QED
      BY <1>1, <2>1, OtherStepsPreserveTreeInv DEF ReadFile
  <1>2. CASE StartSpan /\ log' = log
    BY <1>2, StartSpanPreservesTreeInv
  <1>3. CASE AddKeyValue /\ log' = log
    BY <1>3, AddKeyValuePreservesTreeInv
  <1>4. CASE EndSpan /\ log' = log
    BY <1>4, EndSpanPreservesTreeInv
  <1>5. CASE SkipMessage /\ log' = log
    BY <1>0, <1>5, OtherStepsPreserveTreeInv DEF SkipMessage, AtMessage
  <1>6. CASE Built /\ log' = log
    BY <1>0, <1>6, OtherStepsPreserveTreeInv DEF Built, Statuses
  <1>7. CASE MakeTables /\ log' = log
    BY <1>0, <1>7, OtherStepsPreserveTreeInv DEF MakeTables, Statuses
  <1>8. CASE UNCHANGED <<log, treeVars>>
    BY <1>0, <1>8, OtherStepsPreserveTreeInv DEF treeVars
  <1> QED
    BY <1>1, <1>2, <1>3, <1>4, <1>5, <1>6, <1>7, <1>8 DEF TreeNext

(* Building the tree keeps the invariant, for every log                    *)
THEOREM TreeInvHolds == TreeSpec => []TreeInv
  <1>1. TreeInit => TreeInv
    BY InitEstablishesTreeInv
  <1>2. TreeInv /\ [TreeNext /\ UNCHANGED log]_<<log, treeVars>> => TreeInv'
    BY TreeInvIsInductive
  <1> QED
    BY <1>1, <1>2, PTL DEF TreeSpec

(* For every log: the spans of a thread nest, whatever the order in which  *)
(* the messages of the threads are in the file                             *)
THEOREM SpansNestHolds == TreeSpec => []SpansNest
  <1>1. TreeInv => SpansNest
    BY DEF TreeInv
  <1> QED
    BY <1>1, TreeInvHolds, PTL

(* For every log: a thread number is never given to two threads            *)
THEOREM ThreadNumbersTellThreadsHolds == TreeSpec => []ThreadNumbersTellThreads
  <1>1. TreeInv => ThreadNumbersTellThreads
    BY DEF TreeInv
  <1> QED
    BY <1>1, TreeInvHolds, PTL

(* For every log: spans_by_pn has the spans that ended, each once          *)
THEOREM EndedSpansAreIndexedHolds == TreeSpec => []EndedSpansAreIndexed
  <1>1. TreeInv => EndedSpansAreIndexed
    BY DEF TreeInv
  <1> QED
    BY <1>1, TreeInvHolds, PTL
================================================================================
