-------------------------- MODULE BlockQueueProofs ---------------------------
(***************************************************************************)
(* What holds of the blocking queue for every capacity, every number of    *)
(* producers and with spurious wakeups.                                    *)
(***************************************************************************)
EXTENDS BlockQueue, ModArithmetic, FiniteSetTheorems, SequenceTheorems

(***************************************************************************)
(* The type invariant is inductive.                                        *)
(***************************************************************************)
LEMMA QueueTypeStep == TypeOK /\ (cpc = "pop" => size > 0) /\ [Next]_vars => TypeOK'
<1> SUFFICES ASSUME TypeOK, cpc = "pop" => size > 0, [Next]_vars PROVE TypeOK'
  OBVIOUS
<1> USE QueueConstants DEF TypeOK, Cells
<1>1. ASSUME NEW p \in Producers, NEW b \in Blocks \cup {NoBlock}, Store(p, b)
      PROVE  TypeOK'
  <2>1. (head + 1) % QUEUE_CAPACITY \in 0 .. QUEUE_CAPACITY - 1
    BY ModRange
  <2> QED BY <1>1, <2>1 DEF Store, Advance
<1>2. ASSUME NEW p \in Producers, NEW b \in Blocks, PushNow(p, b) PROVE TypeOK'
  BY <1>1, <1>2 DEF PushNow
<1>3. ASSUME NEW p \in Producers, NEW b \in Blocks, PushWait(p, b) PROVE TypeOK'
  BY <1>3 DEF PushWait, ring
<1>4. ASSUME NEW p \in Producers, PushWoken(p) PROVE TypeOK'
  BY <1>1, <1>4 DEF PushWoken
<1>5. ASSUME NEW p \in Producers, PushSignal(p) PROVE TypeOK'
  BY <1>5 DEF PushSignal, ring
<1>6. CASE PeekNow \/ PeekWoken
  BY <1>6 DEF PeekNow, PeekWoken, Look, ring
<1>7. CASE PeekWait
  BY <1>7 DEF PeekWait, ring
<1>8. CASE PopCheck
  BY <1>8 DEF PopCheck, ring
<1>9. CASE Pop
  <2>1. (tail + 1) % QUEUE_CAPACITY \in 0 .. QUEUE_CAPACITY - 1
    BY ModRange
  <2>2. size - 1 \in Nat
    BY <1>9 DEF Pop
  <2> QED BY <1>9, <2>1, <2>2 DEF Pop, SignalProducer, Advance, Waiting
<1>10. CASE SpuriousWakeup
  BY <1>10 DEF SpuriousWakeup, Waiting, ring
<1>11. CASE UNCHANGED vars
  BY <1>11 DEF vars, ring
<1> QED BY <1>2, <1>3, <1>4, <1>5, <1>6, <1>7, <1>8, <1>9, <1>10, <1>11
        DEF Next, Produce, Consume

(***************************************************************************)
(* Head, tail and size stay aligned through every step.                    *)
(***************************************************************************)
LEMMA RingAlignedStep == TypeOK /\ RingAligned /\ [Next]_vars => RingAligned'
<1> SUFFICES ASSUME TypeOK, RingAligned, [Next]_vars PROVE RingAligned'
  OBVIOUS
<1>1. /\ tail \in Int /\ size \in Int /\ head \in Int
      /\ QUEUE_CAPACITY \in Nat \ {0}
  BY QueueConstants DEF TypeOK, Cells
<1>2. ASSUME NEW p \in Producers, NEW b, Store(p, b) PROVE RingAligned'
  <2>1. (((tail + size) % QUEUE_CAPACITY) + 1) % QUEUE_CAPACITY
          = ((tail + size) + 1) % QUEUE_CAPACITY
    <3>1. tail + size \in Int /\ 1 \in Int
      BY <1>1
    <3> QED BY <1>1, <3>1, ModAdd, Zenon
  <2>2. (tail + size) + 1 = tail + (size + 1)
    BY <1>1
  <2>3. head' = (tail' + size') % QUEUE_CAPACITY
    BY <1>2, <2>1, <2>2 DEF Store, Advance, RingAligned
  <2>4. cpc' = "pop" => size' > 0
    BY <1>1, <1>2 DEF Store, Advance, RingAligned
  <2> QED BY <2>3, <2>4 DEF RingAligned
<1>3. ASSUME UNCHANGED <<head, tail, size>>, cpc' = "pop" => size > 0
      PROVE  RingAligned'
  BY <1>3 DEF RingAligned
<1>4. CASE \E p \in Producers : Produce(p)
  <2>1. ASSUME NEW p \in Producers, NEW b, PushWait(p, b) \/ PushSignal(p)
        PROVE  UNCHANGED <<head, tail, size>> /\ (cpc' = "pop" => cpc = "pop")
    BY <2>1 DEF PushWait, PushSignal, ring
  <2>2. cpc = "pop" => size > 0
    BY DEF RingAligned
  <2> QED BY <1>2, <1>3, <1>4, <2>1, <2>2 DEF Produce, PushNow, PushWoken
<1>5. CASE Pop
  <2>1. (((tail + 1) % QUEUE_CAPACITY) + (size - 1)) % QUEUE_CAPACITY
          = ((tail + 1) + (size - 1)) % QUEUE_CAPACITY
    <3>1. tail + 1 \in Int /\ size - 1 \in Int
      BY <1>1
    <3> QED BY <1>1, <3>1, ModAdd, Zenon
  <2>2. (tail + 1) + (size - 1) = tail + size
    BY <1>1
  <2>3. head' = (tail' + size') % QUEUE_CAPACITY
    BY <1>5, <2>1, <2>2 DEF Pop, Advance, RingAligned
  <2> QED BY <1>5, <2>3 DEF Pop, Advance, RingAligned
<1>6. CASE PeekNow \/ PeekWait \/ PeekWoken
  <2>1. UNCHANGED <<head, tail, size>> /\ cpc' # "pop"
    BY <1>6 DEF PeekNow, PeekWait, PeekWoken, Look, ring
  <2> QED BY <1>3, <2>1
<1>7. CASE PopCheck
  <2>1. UNCHANGED <<head, tail, size>> /\ (cpc' = "pop" => size # 0)
    BY <1>7 DEF PopCheck, ring
  <2>2. size \in Nat
    BY DEF TypeOK
  <2> QED BY <1>3, <2>1, <2>2
<1>8. CASE SpuriousWakeup \/ UNCHANGED vars
  <2>1. UNCHANGED <<head, tail, size>> /\ (cpc' = "pop" => cpc = "pop")
    BY <1>8 DEF SpuriousWakeup, vars, ring
  <2>2. cpc = "pop" => size > 0
    BY DEF RingAligned
  <2> QED BY <1>3, <2>1, <2>2
<1> QED BY <1>4, <1>5, <1>6, <1>7, <1>8 DEF Next, Consume

(***************************************************************************)
(* No step leaves the consumer asleep on blocks with no signal coming.     *)
(***************************************************************************)
LEMMA NoLostWakeupStep == TypeOK /\ NoLostWakeup /\ [Next]_vars => NoLostWakeup'
<1> SUFFICES ASSUME TypeOK, NoLostWakeup, [Next]_vars PROVE NoLostWakeup'
  OBVIOUS
<1> USE DEF NoLostWakeup, Signaling, TypeOK
<1>1. ASSUME NEW p \in Producers, NEW b, Store(p, b) PROVE NoLostWakeup'
  BY <1>1 DEF Store, Advance
<1>2. ASSUME NEW p \in Producers, NEW b, PushWait(p, b) PROVE NoLostWakeup'
  BY <1>2 DEF PushWait, ring
<1>3. ASSUME NEW p \in Producers, PushSignal(p) PROVE NoLostWakeup'
  BY <1>3 DEF PushSignal
<1>4. CASE Consume
  BY <1>4 DEF Consume, PeekNow, PeekWait, PeekWoken, PopCheck, Pop, SignalProducer, Look, ring
<1>5. CASE SpuriousWakeup
  BY <1>5 DEF SpuriousWakeup, Waiting, ring
<1>6. CASE UNCHANGED vars
  BY <1>6 DEF vars, ring
<1> QED BY <1>1, <1>2, <1>3, <1>4, <1>5, <1>6
        DEF Next, Produce, PushNow, PushWoken

(***************************************************************************)
(* The producers are finitely many, so the woken ones can be counted.      *)
(***************************************************************************)
LEMMA WokenFinite == IsFiniteSet(Woken) /\ Cardinality(Woken) \in Nat
  BY QueueConstants, FS_Subset, FS_CardinalityType DEF Woken

(***************************************************************************)
(* Every step that frees a cell while producers wait wakes one of them,    *)
(* and a woken producer leaves only by filling a cell.                     *)
(***************************************************************************)
LEMMA NoStarvedProducerStep ==
  TypeOK /\ NoStarvedProducer /\ [Next]_vars => NoStarvedProducer'
<1> SUFFICES ASSUME TypeOK, NoStarvedProducer, [Next]_vars
             PROVE  NoStarvedProducer'
  OBVIOUS
<1> USE QueueConstants DEF TypeOK, NoStarvedProducer
<1>1. ASSUME NEW p \in Producers, NEW b, PushNow(p, b) PROVE NoStarvedProducer'
  <2>1. Waiting' = Waiting /\ Woken' = Woken
    BY <1>1 DEF PushNow, Store, Waiting, Woken
  <2> QED BY <1>1, <2>1, WokenFinite DEF PushNow, Store
<1>2. ASSUME NEW p \in Producers, NEW b, PushWait(p, b) PROVE NoStarvedProducer'
  <2>1. Woken' = Woken
    BY <1>2 DEF PushWait, Woken
  <2> QED BY <1>2, <2>1, WokenFinite DEF PushWait, ring
<1>3. ASSUME NEW p \in Producers, PushWoken(p) PROVE NoStarvedProducer'
  <2>1. Waiting' = Waiting /\ Woken' = Woken \ {p} /\ p \in Woken
    BY <1>3 DEF PushWoken, Store, Waiting, Woken
  <2>2. Cardinality(Woken') = Cardinality(Woken) - 1
    BY <2>1, WokenFinite, FS_RemoveElement
  <2> QED BY <1>3, <2>1, <2>2, WokenFinite DEF PushWoken, Store
<1>4. ASSUME NEW p \in Producers, PushSignal(p) PROVE NoStarvedProducer'
  <2>1. Waiting' = Waiting /\ Woken' = Woken
    BY <1>4 DEF PushSignal, Waiting, Woken
  <2> QED BY <1>4, <2>1 DEF PushSignal, ring
<1>5. ASSUME NEW p \in Waiting, ppc' = [ppc EXCEPT ![p] = "woken"]
      PROVE  Cardinality(Woken') = Cardinality(Woken) + 1
  <2>1. Woken' = Woken \cup {p} /\ p \notin Woken
    BY <1>5 DEF Waiting, Woken
  <2> QED BY <2>1, WokenFinite, FS_AddElement
<1>6. CASE Pop
  <2>1. CASE Waiting = {}
    <3>1. ppc' = ppc
      BY <1>6, <2>1 DEF Pop, SignalProducer
    <3> QED BY <2>1, <3>1 DEF Waiting
  <2>2. CASE Waiting # {}
    <3>1. PICK p \in Waiting : ppc' = [ppc EXCEPT ![p] = "woken"]
      BY <1>6, <2>2 DEF Pop, SignalProducer
    <3>2. Cardinality(Woken') = Cardinality(Woken) + 1
      BY <1>5, <3>1
    <3>3. size' = size - 1
      BY <1>6 DEF Pop
    <3> QED BY <2>2, <3>2, <3>3, WokenFinite
  <2> QED BY <2>1, <2>2
<1>7. CASE PeekNow \/ PeekWait \/ PeekWoken \/ PopCheck \/ UNCHANGED vars
  <2>1. ppc' = ppc /\ size' = size
    BY <1>7 DEF PeekNow, PeekWait, PeekWoken, PopCheck, Look, ring, vars
  <2> QED BY <2>1 DEF Waiting, Woken
<1>8. CASE SpuriousWakeup
  <2>1. size' = size
    BY <1>8 DEF SpuriousWakeup, ring
  <2>2. CASE ppc' = ppc
    BY <2>1, <2>2 DEF Waiting, Woken
  <2>3. CASE \E p \in Waiting : ppc' = [ppc EXCEPT ![p] = "woken"]
    <3>1. PICK p \in Waiting : ppc' = [ppc EXCEPT ![p] = "woken"]
      BY <2>3
    <3>2. Cardinality(Woken') = Cardinality(Woken) + 1
      BY <1>5, <3>1
    <3>3. Waiting # {}
      BY <3>1
    <3> QED BY <2>1, <3>2, <3>3, WokenFinite
  <2> QED BY <1>8, <2>2, <2>3 DEF SpuriousWakeup
<1> QED BY <1>1, <1>2, <1>3, <1>4, <1>6, <1>7, <1>8 DEF Next, Produce, Consume

(***************************************************************************)
(* A producer in push has a block to store when it wakes up.               *)
(***************************************************************************)
Holding == \A p \in Producers : ppc[p] \in {"wait", "woken"} => pblock[p] \in Blocks

(***************************************************************************)
(* No step takes it away.                                                  *)
(***************************************************************************)
LEMMA HoldingStep == TypeOK /\ Holding /\ [Next]_vars => Holding'
<1> SUFFICES ASSUME TypeOK, Holding, [Next]_vars PROVE Holding'
  OBVIOUS
<1> USE DEF TypeOK, Holding
<1>1. CASE \E p \in Producers : Produce(p)
  BY <1>1 DEF Produce, PushNow, PushWait, PushWoken, PushSignal, Store
<1>2. CASE Consume
  BY <1>2 DEF Consume, PeekNow, PeekWait, PeekWoken, PopCheck, Pop, SignalProducer,
       Look, Waiting
<1>3. CASE SpuriousWakeup
  BY <1>3 DEF SpuriousWakeup, Waiting
<1>4. CASE UNCHANGED vars
  BY <1>4 DEF vars
<1> QED BY <1>1, <1>2, <1>3, <1>4 DEF Next

\* The queue's invariants together.
QueueInv == TypeOK /\ RingAligned /\ NoLostWakeup /\ NoStarvedProducer /\ Holding

(***************************************************************************)
(* They hold after block_queue_init and every push, peek and pop keeps     *)
(* them.                                                                   *)
(***************************************************************************)
THEOREM QueueInvariant == Spec => []QueueInv
<1>1. block_queue_init => QueueInv
  <2> SUFFICES ASSUME block_queue_init PROVE QueueInv
    OBVIOUS
  <2> USE QueueConstants DEF block_queue_init
  <2>1. 0 % QUEUE_CAPACITY = 0
    BY ModSmall
  <2>2. TypeOK
    BY DEF TypeOK, Cells
  <2>3. Waiting = {}
    BY DEF Waiting
  <2> QED BY <2>1, <2>2, <2>3
          DEF QueueInv, RingAligned, NoLostWakeup, NoStarvedProducer, Holding
<1>2. QueueInv /\ [Next]_vars => QueueInv'
  BY QueueTypeStep, RingAlignedStep, NoLostWakeupStep, NoStarvedProducerStep, HoldingStep
  DEF QueueInv, RingAligned
<1> QED BY <1>1, <1>2, PTL DEF Spec

(***************************************************************************)
(* Head, tail and size agree in every reachable state: blockqueue.c never  *)
(* loses count, although pop looks at the size without the lock.           *)
(***************************************************************************)
THEOREM RingAlwaysAligned == Spec => []RingAligned
<1>1. QueueInv => RingAligned
  BY DEF QueueInv
<1> QED BY <1>1, QueueInvariant, PTL

(***************************************************************************)
(* The consumer's wakeup is never lost, although push signals after the    *)
(* unlock.                                                                 *)
(***************************************************************************)
THEOREM WakeupNeverLost == Spec => []NoLostWakeup
<1>1. QueueInv => NoLostWakeup
  BY DEF QueueInv
<1> QED BY <1>1, QueueInvariant, PTL

(***************************************************************************)
(* Free cells always have woken producers to fill them while others wait,  *)
(* although pop signals one producer only.                                 *)
(***************************************************************************)
THEOREM ProducerNeverStarved == Spec => []NoStarvedProducer
<1>1. QueueInv => NoStarvedProducer
  BY DEF QueueInv
<1> QED BY <1>1, QueueInvariant, PTL

(***************************************************************************)
(* Queue and threads keep their state in shape; pop never makes the size   *)
(* negative.                                                               *)
(***************************************************************************)
THEOREM QueueTypeCorrect == Spec => []TypeOK
<1>1. QueueInv => TypeOK
  BY DEF QueueInv
<1> QED BY <1>1, QueueInvariant, PTL
-----------------------------------------------------------------------------
(***************************************************************************)
(* The ring as a queue: its n blocks in the order they are popped, if d is *)
(* _m_data and t the tail.                                                 *)
(***************************************************************************)
AnyBlock == Blocks \cup {NoBlock}
Puts(d, h, b) == [d EXCEPT ![h] = b]
IsRing(d) == d \in [Cells -> AnyBlock]
Queue(d, t, n) == [i \in 1 .. n |-> d[(t + i - 1) % QUEUE_CAPACITY]]

(***************************************************************************)
(* It is a sequence of what the cells hold.                                *)
(***************************************************************************)
LEMMA QueueIsSeq ==
  ASSUME NEW d, IsRing(d), NEW t \in Cells, NEW n \in Nat
  PROVE  /\ Queue(d, t, n) \in Seq(AnyBlock) /\ Len(Queue(d, t, n)) = n
         /\ \A i \in 1 .. n : Queue(d, t, n)[i] = d[(t + i - 1) % QUEUE_CAPACITY]
<1>1. ASSUME NEW i \in 1 .. n PROVE d[(t + i - 1) % QUEUE_CAPACITY] \in AnyBlock
  <2>1. t + i - 1 \in Int
    BY DEF Cells
  <2>2. (t + i - 1) % QUEUE_CAPACITY \in Cells
    BY <2>1, QueueConstants, ModRange DEF Cells
  <2> QED BY <2>2 DEF IsRing
<1> QED BY <1>1 DEF Queue

(***************************************************************************)
(* A store below capacity appends: the cell it writes is none of those in  *)
(* use.                                                                    *)
(***************************************************************************)
LEMMA StoreAppends ==
  ASSUME NEW d, IsRing(d), NEW t \in Cells, NEW n \in Nat,
         n < QUEUE_CAPACITY, NEW b \in AnyBlock,
         NEW h, h = (t + n) % QUEUE_CAPACITY
  PROVE  Queue(Puts(d, h, b), t, n + 1) = Append(Queue(d, t, n), b)
<1> DEFINE C == QUEUE_CAPACITY
<1> DEFINE e == Puts(d, h, b)
<1>1. C \in Nat \ {0} /\ t \in Int /\ t + n \in Int /\ (t + n) % C \in Cells
  <2>1. C \in Nat \ {0} /\ t \in Int /\ t + n \in Int
    BY QueueConstants DEF Cells
  <2> QED BY <2>1, ModRange DEF Cells
<1>2. IsRing(e) /\ e[(t + n) % C] = b
  BY <1>1 DEF IsRing, Puts
<1>3. ASSUME NEW i \in 1 .. n PROVE e[(t + i - 1) % C] = d[(t + i - 1) % C]
  <2>1. t + i - 1 \in Int
    BY <1>1
  <2>2. (t + i - 1) % C # (t + n) % C
    <3> SUFFICES ASSUME (t + i - 1) % C = (t + n) % C PROVE FALSE
      OBVIOUS
    <3>1. t + i - 1 < t + n + C /\ t + n < t + i - 1 + C
      BY <1>1
    <3>2. t + i - 1 = t + n
      BY <1>1, <2>1, <3>1, ModInjective
    <3> QED BY <1>1, <3>2
  <2>3. (t + i - 1) % C \in Cells
    BY <1>1, <2>1, ModRange DEF Cells
  <2> QED BY <2>2, <2>3 DEF IsRing, Puts
<1>4. t + (n + 1) - 1 = t + n
  BY <1>1
<1> HIDE DEF e
<1>5. PICK s, u : s = Queue(d, t, n) /\ u = Queue(e, t, n + 1)
  OBVIOUS
<1>6. s \in Seq(AnyBlock) /\ Len(s) = n /\ \A i \in 1 .. n : s[i] = d[(t + i - 1) % C]
  BY <1>5, QueueIsSeq
<1>7. u \in Seq(AnyBlock) /\ Len(u) = n + 1 /\ \A i \in 1 .. n + 1 : u[i] = e[(t + i - 1) % C]
  <2>1. n + 1 \in Nat
    OBVIOUS
  <2> QED BY <1>2, <1>5, <2>1, QueueIsSeq, Zenon
<1>8. u[n + 1] = b /\ \A i \in 1 .. n : u[i] = s[i]
  <2>1. n + 1 \in 1 .. n + 1 /\ \A i \in 1 .. n : i \in 1 .. n + 1
    OBVIOUS
  <2>2. u[n + 1] = e[(t + n) % C]
    BY <1>4, <1>7, <2>1, Zenon
  <2> QED BY <1>2, <1>3, <1>6, <1>7, <2>1, <2>2, Zenon
<1>9. /\ Append(s, b) \in Seq(AnyBlock) /\ Len(Append(s, b)) = n + 1
      /\ \A i \in 1 .. n : Append(s, b)[i] = s[i]
      /\ Append(s, b)[n + 1] = b
  BY <1>6
<1>10. \A i \in 1 .. n + 1 : u[i] = Append(s, b)[i]
  BY <1>8, <1>9
<1>11. u = Append(s, b)
  BY <1>7, <1>9, <1>10, SeqEqual
<1> QED BY <1>5, <1>11 DEF e

(***************************************************************************)
(* Moving the tail on takes the first block off.                           *)
(***************************************************************************)
LEMMA PopTakesFirst ==
  ASSUME NEW d, IsRing(d), NEW t \in Cells, NEW n \in Nat \ {0}
  PROVE  Queue(d, Advance(t), n - 1) = Tail(Queue(d, t, n))
<1> DEFINE C == QUEUE_CAPACITY
<1>1. C \in Nat \ {0} /\ t \in Int /\ t + 1 \in Int /\ Advance(t) \in Cells /\ n - 1 \in Nat
  <2>1. C \in Nat \ {0} /\ t \in Int /\ t + 1 \in Int
    BY QueueConstants DEF Cells
  <2> QED BY <2>1, ModRange DEF Cells, Advance
<1>2. ASSUME NEW i \in 1 .. n - 1
      PROVE  (Advance(t) + i - 1) % C = (t + (i + 1) - 1) % C
  <2>1. (((t + 1) % C) + (i - 1)) % C = ((t + 1) + (i - 1)) % C
    <3>1. i - 1 \in Int
      OBVIOUS
    <3> QED BY <1>1, <3>1, ModAdd, Zenon
  <2>2. (t + 1) + (i - 1) = t + (i + 1) - 1
    BY <1>1
  <2>3. Advance(t) + i - 1 = ((t + 1) % C) + (i - 1)
    <3>1. Advance(t) = (t + 1) % C
      BY DEF Advance
    <3>2. Advance(t) \in Int
      BY <1>1 DEF Cells
    <3>3. Advance(t) + i - 1 = Advance(t) + (i - 1)
      BY <3>2
    <3> QED BY <3>1, <3>3
  <2> QED BY <2>1, <2>2, <2>3
<1>3. PICK s, u : s = Queue(d, t, n) /\ u = Queue(d, Advance(t), n - 1)
  OBVIOUS
<1>4. s \in Seq(AnyBlock) /\ Len(s) = n /\ \A i \in 1 .. n : s[i] = d[(t + i - 1) % C]
  <2>1. n \in Nat
    OBVIOUS
  <2> QED BY <1>3, <2>1, QueueIsSeq, Zenon
<1>5. /\ u \in Seq(AnyBlock) /\ Len(u) = n - 1
      /\ \A i \in 1 .. n - 1 : u[i] = d[(Advance(t) + i - 1) % C]
  BY <1>1, <1>3, QueueIsSeq, Zenon
<1>6. ASSUME NEW i \in 1 .. n - 1 PROVE u[i] = s[i + 1]
  <2>1. i + 1 \in 1 .. n
    OBVIOUS
  <2>2. s[i + 1] = d[(t + (i + 1) - 1) % C]
    BY <1>4, <2>1
  <2> QED BY <1>2, <1>5, <2>2
<1>7. /\ Tail(s) \in Seq(AnyBlock) /\ Len(Tail(s)) = n - 1
      /\ \A i \in 1 .. n - 1 : Tail(s)[i] = s[i + 1]
  BY <1>4
<1>8. u = Tail(s)
  <2>1. \A i \in 1 .. n - 1 : u[i] = Tail(s)[i]
    BY <1>6, <1>7
  <2> QED BY <1>5, <1>7, <2>1, SeqEqual
<1> QED BY <1>3, <1>8

(***************************************************************************)
(* Every step within capacity pushes at one end, peeks or pops at the      *)
(* other, or leaves the queue and what was seen alone, unless it is a peek *)
(* of an empty queue.                                                      *)
(***************************************************************************)
LEMMA FifoStep ==
  ASSUME QueueInv, QueueInv', Next, size <= QUEUE_CAPACITY, size' <= QUEUE_CAPACITY,
         ~EmptyPeek
  PROVE  Fifo!Next \/ UNCHANGED <<ring, seen>>
<1> DEFINE q == Queue(data, tail, size)
           r == Queue(data', tail', size')
<1>1. /\ IsRing(data) /\ data[tail] \in AnyBlock /\ tail \in Cells /\ size \in Nat /\ head \in Cells
      /\ head = (tail + size) % QUEUE_CAPACITY /\ QUEUE_CAPACITY \in Nat \ {0}
  BY QueueConstants DEF QueueInv, TypeOK, RingAligned, IsRing, AnyBlock
<1>2. Fifo!Next <=> \/ \E b \in Blocks : /\ Len(q) < QUEUE_CAPACITY
                                         /\ r = Append(q, b) /\ UNCHANGED seen
                    \/ q # <<>> /\ seen' = Head(q) /\ r = q
                    \/ q # <<>> /\ r = Tail(q) /\ UNCHANGED seen
  BY DEF Fifo!Next, Fifo!Push, Fifo!Peek, Fifo!Pop, Queue
<1>3. /\ q \in Seq(AnyBlock) /\ Len(q) = size
      /\ \A i \in 1 .. size : q[i] = data[(tail + i - 1) % QUEUE_CAPACITY]
  BY <1>1, QueueIsSeq, Zenon
<1> HIDE DEF q
<1>4. q = <<>> <=> size = 0
  BY <1>1, <1>3
<1>5. ASSUME NEW p \in Producers, NEW b \in Blocks, Store(p, b) PROVE Fifo!Next
  <2>1. size' = size + 1 /\ tail' = tail /\ UNCHANGED seen /\ size < QUEUE_CAPACITY
        /\ data' = [data EXCEPT ![head] = b]
    BY <1>1, <1>5 DEF Store
  <2>2. Queue(data', tail, size + 1) = Append(Queue(data, tail, size), b)
    <3>1. b \in AnyBlock
      BY DEF AnyBlock
    <3>2. Queue(Puts(data, head, b), tail, size + 1) = Append(Queue(data, tail, size), b)
      BY <1>1, <2>1, <3>1, StoreAppends
    <3> QED BY <2>1, <3>2 DEF Puts
  <2> QED BY <1>2, <1>3, <2>1, <2>2 DEF q
<1>6. ASSUME Look, size # 0 PROVE Fifo!Next
  <2>1. seen' = data[tail] /\ UNCHANGED ring
    BY <1>6 DEF Look
  <2>2. r = q
    BY <2>1 DEF ring, q
  <2>3. tail % QUEUE_CAPACITY = tail /\ tail + 1 - 1 = tail
    BY <1>1, ModSmall DEF Cells
  <2>4. q[1] = data[tail]
    <3>1. 1 \in 1 .. size
      BY <1>1, <1>6
    <3>2. q[1] = data[(tail + 1 - 1) % QUEUE_CAPACITY]
      BY <1>3, <3>1
    <3> QED BY <2>3, <3>2
  <2>5. Head(q) = data[tail] /\ q # <<>>
    BY <1>1, <1>3, <1>4, <1>6, <2>4
  <2> QED BY <1>2, <2>1, <2>2, <2>5
<1>7. ASSUME Pop PROVE Fifo!Next
  <2>1. size \in Nat \ {0} /\ tail' = Advance(tail) /\ size' = size - 1
        /\ UNCHANGED <<data, seen>>
    BY <1>1, <1>7 DEF Pop, QueueInv, RingAligned
  <2>2. Queue(data, Advance(tail), size - 1) = Tail(Queue(data, tail, size))
    BY <1>1, <2>1, PopTakesFirst
  <2> QED BY <1>2, <1>4, <2>1, <2>2 DEF q
<1>8. CASE \E p \in Producers : Produce(p)
  <2>1. PICK p \in Producers : Produce(p)
    BY <1>8
  <2>2. CASE \E b \in Blocks : PushNow(p, b)
    BY <1>5, <2>2 DEF PushNow
  <2>3. CASE PushWoken(p)
    BY <1>5, <2>3 DEF PushWoken, QueueInv, Holding
  <2>4. CASE PushSignal(p) \/ \E b \in Blocks : PushWait(p, b)
    BY <2>4 DEF PushSignal, PushWait
  <2> QED BY <2>1, <2>2, <2>3, <2>4 DEF Produce
<1>9. CASE Consume
  <2>1. CASE PeekNow
    BY <1>6, <2>1 DEF PeekNow
  <2>2. CASE PeekWoken
    BY <1>6, <2>2 DEF PeekWoken, EmptyPeek, Look
  <2>3. CASE PeekWait \/ PopCheck \/ Pop
    BY <1>7, <2>3 DEF PeekWait, PopCheck
  <2> QED BY <1>9, <2>1, <2>2, <2>3 DEF Consume
<1>10. CASE SpuriousWakeup
  BY <1>10 DEF SpuriousWakeup
<1> QED BY <1>8, <1>9, <1>10 DEF Next

(***************************************************************************)
(* The ring of blockqueue.c is a FIFO queue of QUEUE_CAPACITY blocks, with *)
(* nothing lost, repeated or reordered, for any number of producers and    *)
(* with spurious wakeups: no step leaves the specification but those of    *)
(* the two waits that do not look again, a push beyond the capacity and a  *)
(* peek that is woken on an empty queue.                                   *)
(***************************************************************************)
THEOREM QueueImplementsFifo == Spec => ImplementsFifo
<1>1. block_queue_init => Fifo!Init
  <2> SUFFICES ASSUME block_queue_init PROVE Fifo!Init
    OBVIOUS
  <2>1. [i \in 1 .. size |-> data[(tail + i - 1) % QUEUE_CAPACITY]] = <<>>
    BY DEF block_queue_init
  <2> QED BY <2>1 DEF block_queue_init, Fifo!Init
<1>2. QueueInv /\ QueueInv' /\ [Next]_vars =>
        [WithinCapacity /\ WithinCapacity' /\ ~EmptyPeek => Fifo!Next]_<<ring, seen>>
  <2>1. UNCHANGED vars => UNCHANGED <<ring, seen>>
    BY DEF vars
  <2> QED BY <2>1, FifoStep DEF WithinCapacity
<1> QED BY <1>1, <1>2, QueueInvariant, PTL DEF Spec, ImplementsFifo
=============================================================================
