------------------------------ MODULE GbnProofs ------------------------------
(***************************************************************************)
(* What holds of the receive window, of a transfer and of the file that it *)
(* carries, for every window, every width of the byte-wide counters, every *)
(* length of the transfer, and every loss and reordering of packets and    *)
(* acknowledgements; and what holds besides on a clean network.            *)
(***************************************************************************)
EXTENDS GbnFile, ModArithmetic, SequenceTheorems

(***************************************************************************)
(* The receive window.                                                     *)
(***************************************************************************)
Block == [seq : Nat, data : Payloads \cup {NoData}]

(***************************************************************************)
(* Storing a frame and emptying slots leave a window of frames.            *)
(***************************************************************************)
LEMMA StoredType ==
  ASSUME RTypeOK, NEW s \in SeqNums, NEW d \in Payloads
  PROVE  Stored(s, d) \in [Slots -> FrameType]
<1>1. Frame(s, d) \in FrameType
  BY GbnConstants DEF Frame, FrameType, SeqNums
<1> QED BY <1>1 DEF Stored, RTypeOK

(***************************************************************************)
(* Every index the sliding loop computes is a slot.                        *)
(***************************************************************************)
LEMMA SlideIndexType ==
  ASSUME RTypeOK, NEW k \in Nat
  PROVE  SlideIndex(k) \in Slots
<1>1. (rhead + k) % ByteMod \in 0 .. ByteMod - 1
  BY GbnConstants, ModRange DEF RTypeOK
<1>2. ((rhead + k) % ByteMod) + 0 \in Int
  BY <1>1, GbnConstants
<1> QED BY <1>2, GbnConstants, ModRange DEF SlideIndex, FrameIndex, HeadAfter, Slots

(***************************************************************************)
(* The blocks the loop hands up are n blocks of a sequence number and a    *)
(* payload each.                                                           *)
(***************************************************************************)
LEMMA BlocksType ==
  ASSUME RTypeOK, NEW n \in Nat, NEW slots \in [Slots -> FrameType]
  PROVE  Blocks(slots, n) \in Seq(Block) /\ Len(Blocks(slots, n)) = n
<1>1. ASSUME NEW k \in 1 .. n
      PROVE  [seq  |-> slots[SlideIndex(k - 1)].seq,
              data |-> slots[SlideIndex(k - 1)].data] \in Block
  <2>1. SlideIndex(k - 1) \in Slots
    BY SlideIndexType
  <2>2. slots[SlideIndex(k - 1)] \in FrameType
    BY <2>1
  <2> QED BY <2>2 DEF FrameType, Block
<1>2. Blocks(slots, n) \in [1 .. n -> Block]
  BY <1>1 DEF Blocks
<1> QED BY <1>2

(***************************************************************************)
(* The type invariant is inductive.                                        *)
(***************************************************************************)
LEMMA ReceiverTypeStep == RTypeOK /\ [RNext]_rvars => RTypeOK'
<1> SUFFICES ASSUME RTypeOK, [RNext]_rvars PROVE RTypeOK'
  OBVIOUS
<1>1. ASSUME NEW s \in SeqNums, NEW d \in Payloads, OnData(s, d)
      PROVE  RTypeOK'
  <2>1. PICK n \in 0 .. DEFAULT_QUEUE_SIZE :
          /\ delivered' = delivered \o Blocks(Stored(s, d), n)
          /\ rslot' = Emptied(Stored(s, d), n)
          /\ rcount' = rcount + n
          /\ rhead' = HeadAfter(rhead, n)
          /\ rsize' = (rsize + Growth(s, d) - n) % ByteMod
    BY <1>1 DEF OnData
  <2>2. n \in Nat
    BY GbnConstants
  <2>3. Growth(s, d) \in Nat
    <3>1. FrameIndex(rhead, rsize) \in Slots
      <4>1. rhead + rsize \in Int
        BY GbnConstants DEF RTypeOK
      <4> QED BY <4>1, GbnConstants, ModRange DEF FrameIndex, Slots
    <3>2. Stored(s, d)[FrameIndex(rhead, rsize)].seq \in Nat
      BY <3>1, StoredType DEF FrameType
    <3> QED BY <3>2, GbnConstants DEF Growth, SeqNums
  <2>4. rhead' \in 0 .. ByteMod - 1
    BY <2>1, <2>2, GbnConstants, ModRange DEF HeadAfter, RTypeOK
  <2>5. rsize' \in 0 .. ByteMod - 1
    <3>1. rsize + Growth(s, d) - n \in Int
      BY <2>2, <2>3, GbnConstants DEF RTypeOK
    <3> QED BY <2>1, <3>1, GbnConstants, ModRange
  <2>6. rtail' \in 0 .. DEFAULT_QUEUE_SIZE - 1
    <3>1. rtail + Growth(s, d) \in Int
      BY <2>3, GbnConstants DEF RTypeOK
    <3>2. (rtail + Growth(s, d)) % ByteMod \in Int
      BY <3>1, GbnConstants, ModRange
    <3>3. ((rtail + Growth(s, d)) % ByteMod) % DEFAULT_QUEUE_SIZE
             \in 0 .. DEFAULT_QUEUE_SIZE - 1
      BY <3>2, GbnConstants, ModRange
    <3> QED BY <1>1, <3>3 DEF OnData, RTypeOK
  <2>7. rslot' \in [Slots -> FrameType]
    <3>1. ASSUME NEW i \in Slots
          PROVE  [Stored(s, d)[i] EXCEPT !.init = FALSE] \in FrameType
      BY StoredType DEF FrameType
    <3> QED BY <2>1, <3>1, StoredType DEF Emptied
  <2>8. delivered' \in Seq(Block)
    <3>1. delivered \in Seq(Block)
      BY DEF RTypeOK, Block
    <3> QED BY <2>1, <2>2, <3>1, StoredType, BlocksType, ConcatProperties
  <2>9. rcount' \in Nat
    BY <2>1, <2>2 DEF RTypeOK
  <2>10. ropen' \in BOOLEAN
    BY <1>1 DEF OnData, RTypeOK
  <2> QED BY <2>4, <2>5, <2>6, <2>7, <2>8, <2>9, <2>10 DEF RTypeOK, Block
<1>2. CASE OnEOF
  BY <1>2 DEF OnEOF, RTypeOK
<1>3. CASE UNCHANGED rvars
  BY <1>3 DEF rvars, RTypeOK
<1> QED BY <1>1, <1>2, <1>3 DEF RNext

(***************************************************************************)
(* calloc and init_gbn_window leave a window of the right type.            *)
(***************************************************************************)
LEMMA ReceiverTypeInit == RInit => RTypeOK
  BY GbnConstants DEF RInit, RTypeOK, EmptyFrame, FrameType

(***************************************************************************)
(* The counters of the receive window stay bytes, its slots stay frames    *)
(* and what is handed up stays a sequence of blocks, however far the       *)
(* window is filled out of order.                                          *)
(***************************************************************************)
THEOREM ReceiverType == RSpec => []RTypeOK
  BY ReceiverTypeInit, ReceiverTypeStep, PTL DEF RSpec
-----------------------------------------------------------------------------
(***************************************************************************)
(* The inductive invariant of a transfer that the head byte can count: the *)
(* head is the receive counter, the blocks handed up are numbered from 0,  *)
(* and a stored frame lies past the expected one, inside the window and in *)
(* the slot that its sequence number names.                                *)
(***************************************************************************)
FramesIn(slots, first) ==
  \A i \in Slots : slots[i].init =>
    /\ first <= slots[i].seq
    /\ slots[i].seq < rcount + DEFAULT_QUEUE_SIZE
    /\ slots[i].seq < NumPackets
    /\ slots[i].seq % DEFAULT_QUEUE_SIZE = i

Sliding ==
  /\ rcount <= NumPackets
  /\ rhead = rcount % ByteMod
  /\ Len(delivered) = rcount
  /\ \A i \in 1 .. Len(delivered) : delivered[i].seq = i - 1
  /\ FramesIn(rslot, rcount + 1)

ReceiverInv == RTypeOK /\ (ShortTransfer => Sliding)

(***************************************************************************)
(* While the head byte does not wrap, turn k of the sliding loop looks at  *)
(* the slot of frame rcount + k; at the wrap it looks at slot 0.           *)
(***************************************************************************)
LEMMA SlideIndexIs ==
  ASSUME RTypeOK, Sliding, NEW k \in Nat, rcount + k <= ByteMod
  PROVE  SlideIndex(k) = IF rcount + k = ByteMod THEN 0
                         ELSE (rcount + k) % DEFAULT_QUEUE_SIZE
<1>1. rcount \in Int /\ k \in Int
  BY DEF RTypeOK
<1>2. HeadAfter(rhead, k) = (rcount + k) % ByteMod
  <2>1. ((rcount % ByteMod) + k) % ByteMod = (rcount + k) % ByteMod
    BY <1>1, GbnConstants, ModAdd
  <2> QED BY <2>1 DEF HeadAfter, Sliding
<1>3. CASE rcount + k = ByteMod
  <2>1. ByteMod % ByteMod = 0
    <3>1. /\ ByteMod \in Nat \ {0} /\ ByteMod \in Int /\ 1 \in Int
          /\ 0 \in 0 .. ByteMod - 1 /\ ByteMod = 1 * ByteMod + 0
      BY GbnConstants
    <3> QED BY <3>1, ModUnique
  <2>2. (0 + 0) % DEFAULT_QUEUE_SIZE = 0
    <3>1. 0 \in 0 .. DEFAULT_QUEUE_SIZE - 1
      BY GbnConstants
    <3> QED BY <3>1, GbnConstants, ModSmall
  <2> QED BY <1>2, <1>3, <2>1, <2>2 DEF SlideIndex, FrameIndex
<1>4. CASE rcount + k < ByteMod
  <2>1. (rcount + k) % ByteMod = rcount + k
    <3>1. rcount + k \in 0 .. ByteMod - 1
      BY <1>4, GbnConstants DEF RTypeOK
    <3> QED BY <3>1, GbnConstants, ModSmall
  <2>2. (rcount + k) + 0 = rcount + k
    BY <1>1
  <2> QED BY <1>1, <1>2, <1>4, <2>1, <2>2, GbnConstants DEF SlideIndex, FrameIndex
<1> QED BY <1>1, <1>3, <1>4, GbnConstants

(***************************************************************************)
(* A frame that is accepted is stored in the slot its number names.        *)
(***************************************************************************)
LEMMA StoredInPlace ==
  ASSUME RTypeOK, Sliding, ShortTransfer, NEW s \in SeqNums, NEW d \in Payloads
  PROVE  FramesIn(Stored(s, d), rcount)
<1>1. rcount \in Nat /\ s \in Nat /\ s < NumPackets
  BY GbnConstants DEF RTypeOK, SeqNums
<1>2. FramesIn(rslot, rcount)
  <2> SUFFICES ASSUME NEW i \in Slots, rslot[i].init
               PROVE  rcount <= rslot[i].seq
    BY DEF FramesIn, Sliding
  <2>1. rslot[i].seq \in Nat
    BY DEF RTypeOK, FrameType
  <2> QED BY <1>1, <2>1 DEF FramesIn, Sliding
<1>3. CASE ~Accepts(s)
  BY <1>2, <1>3 DEF Stored
<1>4. CASE Accepts(s)
  <2>1. rcount < ByteMod
    BY <1>1, <1>4, GbnConstants DEF Accepts, ShortTransfer
  <2>2. rhead = rcount
    <3>1. rcount \in 0 .. ByteMod - 1
      BY <1>1, <2>1, GbnConstants
    <3> QED BY <3>1, GbnConstants, ModSmall DEF Sliding
  <2>3. FrameIndex(rhead, s - rcount) = s % DEFAULT_QUEUE_SIZE
    <3>1. rcount + (s - rcount) = s
      BY <1>1
    <3> QED BY <2>2, <3>1 DEF FrameIndex
  <2>4. Stored(s, d) = [rslot EXCEPT ![s % DEFAULT_QUEUE_SIZE] = Frame(s, d)]
    BY <1>4, <2>3 DEF Stored
  <2>5. s < rcount + DEFAULT_QUEUE_SIZE /\ rcount <= s
    BY <1>4 DEF Accepts
  <2> SUFFICES ASSUME NEW i \in Slots, Stored(s, d)[i].init
               PROVE  /\ rcount <= Stored(s, d)[i].seq
                      /\ Stored(s, d)[i].seq < rcount + DEFAULT_QUEUE_SIZE
                      /\ Stored(s, d)[i].seq < NumPackets
                      /\ Stored(s, d)[i].seq % DEFAULT_QUEUE_SIZE = i
    BY DEF FramesIn
  <2>6. CASE i = s % DEFAULT_QUEUE_SIZE
    <3>1. Stored(s, d)[i].seq = s
      BY <2>4, <2>6 DEF RTypeOK, Frame
    <3> QED BY <1>1, <2>5, <2>6, <3>1
  <2>7. CASE i # s % DEFAULT_QUEUE_SIZE
    <3>1. Stored(s, d)[i] = rslot[i]
      BY <2>4, <2>7 DEF RTypeOK
    <3> QED BY <1>2, <3>1 DEF FramesIn
  <2> QED BY <2>6, <2>7
<1> QED BY <1>3, <1>4

(***************************************************************************)
(* The slot the loop looks at in turn k, if it holds a frame at all, holds *)
(* frame rcount + k.                                                       *)
(***************************************************************************)
LEMMA SlideFinds ==
  ASSUME RTypeOK, Sliding, NEW slots \in [Slots -> FrameType],
         FramesIn(slots, rcount), NEW k \in 0 .. DEFAULT_QUEUE_SIZE - 1,
         rcount + k < ByteMod, slots[SlideIndex(k)].init
  PROVE  slots[SlideIndex(k)].seq = rcount + k
<1> DEFINE i == SlideIndex(k)
           q == slots[i].seq
<1>1. k \in Nat /\ rcount \in Nat /\ DEFAULT_QUEUE_SIZE \in Nat \ {0}
      /\ ByteMod \in Nat
  BY GbnConstants DEF RTypeOK
<1>2. i \in Slots
  BY <1>1, SlideIndexType
<1>3. i = (rcount + k) % DEFAULT_QUEUE_SIZE
  <2>1. rcount + k <= ByteMod /\ rcount + k # ByteMod
    BY <1>1
  <2> QED BY <1>1, <2>1, SlideIndexIs
<1>4. q \in Nat
  BY <1>2 DEF FrameType
<1>5. rcount <= q /\ q < rcount + DEFAULT_QUEUE_SIZE /\ q % DEFAULT_QUEUE_SIZE = i
  BY <1>2 DEF FramesIn
<1> HIDE DEF i, q
<1>6. /\ q \in Int /\ rcount + k \in Int
      /\ q < (rcount + k) + DEFAULT_QUEUE_SIZE
      /\ rcount + k < q + DEFAULT_QUEUE_SIZE
  BY <1>1, <1>4, <1>5
<1>7. q = rcount + k
  BY <1>1, <1>3, <1>5, <1>6, ModInjective
<1> QED BY <1>7 DEF i, q

(***************************************************************************)
(* The loop ends before the head byte wraps in mid-window: at the wrap it  *)
(* would look at slot 0, whose frame it has already taken.                 *)
(***************************************************************************)
LEMMA RunEndsBeforeWrap ==
  ASSUME RTypeOK, Sliding, ShortTransfer, NEW slots \in [Slots -> FrameType],
         FramesIn(slots, rcount), NEW n \in 0 .. DEFAULT_QUEUE_SIZE,
         RunLength(slots, n)
  PROVE  rcount + n <= ByteMod
<1> DEFINE B == ByteMod - rcount
<1>1. /\ n \in Nat /\ rcount \in Nat /\ ByteMod \in Nat /\ NumPackets \in Nat
      /\ rcount <= NumPackets /\ NumPackets <= ByteMod
  BY GbnConstants DEF RTypeOK, Sliding, ShortTransfer
<1>2. B \in Nat /\ rcount + B = ByteMod
  BY <1>1
<1>3. CASE B < n
  <2>1. B \in 0 .. n - 1
    BY <1>1, <1>2, <1>3
  <2>2. Slides(slots, B)
    BY <2>1 DEF RunLength
  <2>3. SlideIndex(B) = 0
    BY <1>1, <1>2, SlideIndexIs
  <2>4. 0 \in Slots /\ slots[0].init
    BY <1>2, <2>2, <2>3, SlideIndexType DEF Slides
  <2> DEFINE q == slots[0].seq
  <2>5. q \in Nat /\ rcount <= q /\ q < NumPackets /\ q % DEFAULT_QUEUE_SIZE = 0
    BY <2>4 DEF FramesIn, FrameType
  <2> HIDE DEF q
  <2>6. /\ q - rcount \in 0 .. B - 1 /\ q - rcount \in Nat
        /\ rcount + (q - rcount) = q /\ q <= ByteMod /\ q # ByteMod
    BY <1>1, <1>2, <2>5
  <2>7. SlideIndex(q - rcount) = 0
    BY <2>5, <2>6, SlideIndexIs
  <2>8. SlideIndex(q - rcount) # SlideIndex(B)
    BY <2>2, <2>6 DEF Slides
  <2> QED BY <2>3, <2>7, <2>8
<1>4. CASE n <= B
  BY <1>1, <1>4
<1> QED BY <1>1, <1>2, <1>3, <1>4

(***************************************************************************)
(* So the loop hands up exactly the frames rcount, rcount + 1, ...         *)
(***************************************************************************)
LEMMA RunIsConsecutive ==
  ASSUME RTypeOK, Sliding, ShortTransfer, NEW slots \in [Slots -> FrameType],
         FramesIn(slots, rcount), NEW n \in 0 .. DEFAULT_QUEUE_SIZE,
         RunLength(slots, n), NEW k \in 0 .. n - 1
  PROVE  /\ slots[SlideIndex(k)].seq = rcount + k
         /\ SlideIndex(k) = (rcount + k) % DEFAULT_QUEUE_SIZE
         /\ rcount + k < NumPackets
<1>1. k \in Nat /\ n \in Nat /\ rcount \in Nat /\ ByteMod \in Nat
      /\ DEFAULT_QUEUE_SIZE \in Nat
  BY GbnConstants DEF RTypeOK
<1>2. rcount + k < ByteMod
  BY <1>1, RunEndsBeforeWrap
<1>3. slots[SlideIndex(k)].init
  BY DEF RunLength, Slides
<1>4. slots[SlideIndex(k)].seq = rcount + k
  <2>1. k \in 0 .. DEFAULT_QUEUE_SIZE - 1
    BY <1>1
  <2> QED BY <1>2, <1>3, <2>1, SlideFinds
<1>5. SlideIndex(k) = (rcount + k) % DEFAULT_QUEUE_SIZE
  <2>1. rcount + k <= ByteMod /\ rcount + k # ByteMod
    BY <1>1, <1>2
  <2> QED BY <1>1, <2>1, SlideIndexIs
<1>6. rcount + k < NumPackets
  BY <1>1, <1>3, <1>4, SlideIndexType DEF FramesIn
<1> QED BY <1>4, <1>5, <1>6

(***************************************************************************)
(* A data packet, stored or not, and the sliding loop after it keep the    *)
(* invariant.                                                              *)
(***************************************************************************)
LEMMA OnDataSlides ==
  ASSUME RTypeOK, RTypeOK', Sliding, ShortTransfer,
         NEW s \in SeqNums, NEW d \in Payloads, OnData(s, d)
  PROVE  Sliding'
<1> DEFINE slots == Stored(s, d)
<1>1. PICK n \in 0 .. DEFAULT_QUEUE_SIZE :
        /\ RunLength(slots, n)
        /\ delivered' = delivered \o Blocks(slots, n)
        /\ rslot' = Emptied(slots, n)
        /\ rcount' = rcount + n
        /\ rhead' = HeadAfter(rhead, n)
  BY DEF OnData
<1>2. slots \in [Slots -> FrameType] /\ FramesIn(slots, rcount)
  BY StoredType, StoredInPlace
<1> HIDE DEF slots
<1>3. /\ n \in Nat /\ rcount \in Nat /\ ByteMod \in Nat \ {0}
      /\ NumPackets \in Nat /\ DEFAULT_QUEUE_SIZE \in Nat \ {0}
      /\ rcount <= NumPackets
  BY GbnConstants DEF RTypeOK, Sliding
<1>4. ASSUME NEW k \in 0 .. n - 1
      PROVE  /\ slots[SlideIndex(k)].seq = rcount + k
             /\ SlideIndex(k) = (rcount + k) % DEFAULT_QUEUE_SIZE
             /\ rcount + k < NumPackets
  BY <1>1, <1>2, RunIsConsecutive
<1>5. rcount' <= NumPackets
  <2>1. CASE n = 0
    BY <1>1, <1>3, <2>1
  <2>2. CASE n # 0
    <3>1. n - 1 \in 0 .. n - 1
      BY <1>3, <2>2
    <3>2. rcount + (n - 1) < NumPackets
      BY <1>4, <3>1
    <3> QED BY <1>1, <1>3, <3>2
  <2> QED BY <2>1, <2>2
<1>6. rhead' = rcount' % ByteMod
  <2>1. rcount \in Int /\ n \in Int
    BY <1>3
  <2>2. ((rcount % ByteMod) + n) % ByteMod = (rcount + n) % ByteMod
    BY <1>3, <2>1, ModAdd, Zenon
  <2> QED BY <1>1, <2>2 DEF HeadAfter, Sliding
<1>7. /\ Len(delivered') = rcount'
      /\ \A i \in 1 .. Len(delivered') : delivered'[i].seq = i - 1
  <2>1. delivered \in Seq(Block) /\ Len(delivered) = rcount
    BY DEF RTypeOK, Block, Sliding
  <2>2. Blocks(slots, n) \in Seq(Block) /\ Len(Blocks(slots, n)) = n
    BY <1>2, <1>3, BlocksType
  <2>3. Len(delivered') = rcount'
    BY <1>1, <2>1, <2>2, ConcatProperties
  <2> SUFFICES ASSUME NEW i \in 1 .. Len(delivered')
               PROVE  delivered'[i].seq = i - 1
    BY <2>3
  <2>4. i \in Nat /\ 1 <= i /\ i <= rcount + n
    BY <1>1, <1>3, <2>3
  <2>5. CASE i <= rcount
    <3>1. delivered'[i] = delivered[i]
      BY <1>1, <2>1, <2>2, <2>4, <2>5, ConcatProperties
    <3> QED BY <1>3, <2>1, <2>4, <2>5, <3>1 DEF Sliding
  <2>6. CASE i > rcount
    <3> DEFINE k == i - rcount
    <3>1. k \in 1 .. n /\ k - 1 \in 0 .. n - 1 /\ rcount + (k - 1) = i - 1
      BY <1>3, <2>4, <2>6
    <3>2. delivered'[i] = Blocks(slots, n)[k]
      BY <1>1, <1>3, <2>1, <2>2, <2>4, <2>6, ConcatProperties
    <3> HIDE DEF k
    <3>3. Blocks(slots, n)[k].seq = slots[SlideIndex(k - 1)].seq
      BY <3>1 DEF Blocks
    <3> QED BY <1>4, <3>1, <3>2, <3>3
  <2> QED BY <1>3, <2>4, <2>5, <2>6
<1>8. FramesIn(rslot, rcount + 1)'
  <2> SUFFICES ASSUME NEW i \in Slots, rslot'[i].init
               PROVE  /\ rcount' + 1 <= rslot'[i].seq
                      /\ rslot'[i].seq < rcount' + DEFAULT_QUEUE_SIZE
                      /\ rslot'[i].seq < NumPackets
                      /\ rslot'[i].seq % DEFAULT_QUEUE_SIZE = i
    BY DEF FramesIn
  <2>1. /\ rslot'[i] = slots[i] /\ slots[i].init
        /\ \A k \in 0 .. n - 1 : i # SlideIndex(k)
    <3>1. slots[i] \in FrameType
      BY <1>2
    <3>2. CASE \E k \in 0 .. n - 1 : i = SlideIndex(k)
      <4>1. rslot'[i] = [slots[i] EXCEPT !.init = FALSE]
        BY <1>1, <3>2 DEF Emptied
      <4> QED BY <3>1, <4>1 DEF FrameType
    <3>3. CASE ~ \E k \in 0 .. n - 1 : i = SlideIndex(k)
      BY <1>1, <3>3 DEF Emptied
    <3> QED BY <3>2, <3>3
  <2> DEFINE q == slots[i].seq
  <2>2. /\ q \in Nat /\ rcount <= q /\ q < rcount + DEFAULT_QUEUE_SIZE
        /\ q < NumPackets /\ q % DEFAULT_QUEUE_SIZE = i
    BY <1>2, <2>1 DEF FramesIn, FrameType
  <2> HIDE DEF q
  <2>3. ~(q < rcount + n)
    <3> SUFFICES ASSUME q < rcount + n PROVE FALSE
      OBVIOUS
    <3>1. q - rcount \in 0 .. n - 1 /\ rcount + (q - rcount) = q
      BY <1>3, <2>2
    <3>2. SlideIndex(q - rcount) = i
      BY <1>4, <2>2, <3>1
    <3> QED BY <2>1, <3>1, <3>2
  <2>4. q # rcount + n
    <3> SUFFICES ASSUME q = rcount + n PROVE FALSE
      OBVIOUS
    <3>1. n # DEFAULT_QUEUE_SIZE
      BY <1>3, <2>2
    <3>2. ~Slides(slots, n)
      BY <1>1, <3>1 DEF RunLength
    <3>3. SlideIndex(n) = i
      <4>1. rcount + n <= ByteMod /\ rcount + n # ByteMod
        BY <1>3, <2>2 DEF ShortTransfer
      <4> QED BY <1>3, <2>2, <4>1, SlideIndexIs
    <3> QED BY <2>1, <3>2, <3>3 DEF Slides
  <2>5. q >= rcount + n + 1
    BY <1>3, <2>2, <2>3, <2>4
  <2>6. rslot'[i].seq = q
    BY <2>1 DEF q
  <2> QED BY <1>1, <1>3, <2>2, <2>5, <2>6
<1> QED BY <1>5, <1>6, <1>7, <1>8 DEF Sliding

(***************************************************************************)
(* The invariant holds in every reachable state.                           *)
(***************************************************************************)
THEOREM ReceiverInvariant == RSpec => []ReceiverInv
<1>1. RInit => ReceiverInv
  <2> SUFFICES ASSUME RInit PROVE ReceiverInv
    OBVIOUS
  <2>1. 0 % ByteMod = 0
    BY GbnConstants, ModSmall
  <2>2. Sliding
    BY <2>1, GbnConstants DEF RInit, Sliding, FramesIn, EmptyFrame
  <2> QED BY <2>2, ReceiverTypeInit DEF ReceiverInv
<1>2. ReceiverInv /\ [RNext]_rvars => ReceiverInv'
  <2> SUFFICES ASSUME ReceiverInv, [RNext]_rvars PROVE ReceiverInv'
    OBVIOUS
  <2>1. RTypeOK'
    BY ReceiverTypeStep DEF ReceiverInv
  <2> SUFFICES ASSUME ShortTransfer PROVE Sliding'
    BY <2>1 DEF ReceiverInv, ShortTransfer
  <2>2. RTypeOK /\ Sliding
    BY DEF ReceiverInv
  <2>3. CASE \E s \in SeqNums, d \in Payloads : OnData(s, d)
    BY <2>1, <2>2, <2>3, OnDataSlides
  <2>4. CASE OnEOF \/ UNCHANGED rvars
    BY <2>2, <2>4 DEF OnEOF, rvars, Sliding, FramesIn
  <2> QED BY <2>3, <2>4 DEF RNext
<1> QED BY <1>1, <1>2, PTL DEF RSpec

(***************************************************************************)
(* Whatever the network loses, repeats or reorders, the reader thread      *)
(* pushes packet 0, packet 1, packet 2, ... on the receive buffer, for     *)
(* every window size, as long as the head byte can count the transfer.     *)
(***************************************************************************)
THEOREM DeliveryInOrder == RSpec => []InOrder
<1>1. ReceiverInv => InOrder
  BY DEF ReceiverInv, Sliding, InOrder
<1> QED BY <1>1, ReceiverInvariant, PTL

(***************************************************************************)
(* The sliding loop leaves behind neither a frame that could be handed up  *)
(* nor a stale one, for every window size.                                 *)
(***************************************************************************)
THEOREM NothingStranded == RSpec => []NoStrandedFrame
<1>1. ReceiverInv => NoStrandedFrame
  <2> SUFFICES ASSUME ReceiverInv, ShortTransfer, NEW i \in Slots, rslot[i].init
               PROVE  /\ rcount < rslot[i].seq
                      /\ rslot[i].seq < rcount + DEFAULT_QUEUE_SIZE
                      /\ rslot[i].seq % DEFAULT_QUEUE_SIZE = i
    BY DEF NoStrandedFrame
  <2>1. rslot[i].seq \in Nat /\ rcount \in Nat
    BY DEF ReceiverInv, RTypeOK, FrameType
  <2> QED BY <2>1 DEF ReceiverInv, Sliding, FramesIn
<1> QED BY <1>1, ReceiverInvariant, PTL
--------------------------------------------------------
-----------------------------------------------------------------------------
(***************************************************************************)
(* The transfer.                                                           *)
(***************************************************************************)

(***************************************************************************)
(* What waits in the sending buffer: the blocks that are written and not   *)
(* yet sent, then the closing block if the application has closed; and     *)
(* once the writer has taken that one, every block has been sent.          *)
(***************************************************************************)
Writing == wpc \notin {"close_connection", "done"}

Queued ==
  /\ snext <= written
  /\ Writing =>
       /\ apc # "closed"
       /\ snext + Len(sbuf) = written + (IF apc = "open" THEN 0 ELSE 1)
       /\ \A i \in 1 .. Len(sbuf) :
            sbuf[i] = IF snext + i <= written THEN "block" ELSE "closing"
  /\ ~Writing => snext = written /\ apc # "open"

\* Nothing of the closing handshake is under way before the writer is done.
Closing ==
  wpc # "done" =>
    /\ ropen /\ ~seof /\ rpc # "gone"
    /\ \A i \in 1 .. Len(dnet) : dnet[i].type \in {"data", "uninitialized"}
    /\ \A i \in 1 .. Len(anet) : anet[i].type = "ack"

\* The ring of the sending window holds the last frames that were sent.
Ring ==
  /\ stail = snext % DEFAULT_QUEUE_SIZE
  /\ \A s \in 0 .. snext - 1 :
       s + DEFAULT_QUEUE_SIZE >= snext => sslot[s % DEFAULT_QUEUE_SIZE] = Frame(s, "freed")
  /\ \A i \in Slots :
       \/ sslot[i] = EmptyFrame
       \/ \E s \in 0 .. snext - 1 : sslot[i] = Frame(s, "freed")

\* Only what was sent arrives, and only what was handed up is acknowledged,
\* but for the ack of nothing at all, whose number is the largest.
Wire ==
  /\ \A i \in 1 .. Len(dnet) : dnet[i].type = "data" => dnet[i].seq < snext
  /\ \A i \in Slots : rslot[i].init => rslot[i].seq < snext
  /\ ShortTransfer => rcount <= snext
  /\ \A i \in 1 .. Len(anet) :
       anet[i].type = "ack" => anet[i].seq < rcount \/ anet[i].seq = SeqMod - 1

Acking == rpc \in {"ack_mod", "ack_size"}

\* Until an ack overruns it, the window is the end of what was sent, and what
\* is before it has been handed up.
Windowed ==
  /\ ssize <= DEFAULT_QUEUE_SIZE /\ WindowSize <= snext
  /\ wpc \in {"block_on_queue", "send_packet"} => ssize < DEFAULT_QUEUE_SIZE
  /\ Acking => framediff \in 1 .. ssize
  /\ rpc # "ack_mod" => shead < DEFAULT_QUEUE_SIZE
  /\ WindowHead = (snext - WindowSize) % DEFAULT_QUEUE_SIZE
  /\ snext - WindowSize <= rcount

Window == WindowSound => Windowed

\* The inductive invariant.
TransferInv ==
  /\ TypeOK /\ (ShortTransfer => Sliding)
  /\ Queued /\ Closing /\ Ring /\ Wire /\ Window
-----------------------------------------------------------------------------
(***************************************************************************)
(* The network holds what it held, and perhaps the packet that was sent.   *)
(***************************************************************************)
LEMMA SendAdds ==
  ASSUME NEW S, NEW net \in Seq(S), NEW p \in S, Len(net) <= NetCap,
         NEW n \in sendto_(net, p)
  PROVE  /\ n \in Seq(S) /\ Len(n) <= NetCap
         /\ \A i \in 1 .. Len(n) : n[i] = p \/ \E j \in 1 .. Len(net) : n[i] = net[j]
<1>1. CASE n = net
  BY <1>1
<1>2. CASE n = Append(net, p) /\ Len(net) < NetCap
  BY <1>2, NetworkConstants
<1> QED BY <1>1, <1>2 DEF sendto_

(***************************************************************************)
(* A packet that is taken leaves the others.                               *)
(***************************************************************************)
LEMMA TakeLeaves ==
  ASSUME NEW S, NEW net \in Seq(S), NEW i \in Receivable(net)
  PROVE  /\ i \in 1 .. Len(net) /\ net[i] \in S
         /\ Without(net, i) \in Seq(S) /\ Len(Without(net, i)) <= Len(net)
         /\ \A k \in 1 .. Len(Without(net, i)) :
              \E j \in 1 .. Len(net) : Without(net, i)[k] = net[j]
<1>1. i \in 1 .. Len(net)
  BY DEF Receivable
<1>2. PICK a, b : a = SubSeq(net, 1, i - 1) /\ b = SubSeq(net, i + 1, Len(net))
  OBVIOUS
<1>3. /\ a \in Seq(S) /\ Len(a) = i - 1 /\ \A k \in 1 .. i - 1 : a[k] = net[k]
      /\ b \in Seq(S) /\ Len(b) = Len(net) - i
      /\ \A k \in 1 .. Len(net) - i : b[k] = net[i + k]
  BY <1>1, <1>2
<1>4. /\ a \o b \in Seq(S) /\ Len(a \o b) = Len(a) + Len(b)
      /\ \A k \in 1 .. Len(a) : (a \o b)[k] = a[k]
      /\ \A k \in 1 .. Len(a) + Len(b) : k > Len(a) => (a \o b)[k] = b[k - Len(a)]
  <2>1. a \in Seq(S) /\ b \in Seq(S)
    BY <1>3
  <2> QED BY <2>1
<1>5. Without(net, i) = a \o b
  BY <1>2 DEF Without
<1>6. ASSUME NEW k \in 1 .. Len(a \o b)
      PROVE  \E j \in 1 .. Len(net) : (a \o b)[k] = net[j]
  <2>1. CASE k <= i - 1
    BY <1>1, <1>3, <1>4, <2>1
  <2>2. CASE k > i - 1
    <3>1. k - (i - 1) \in 1 .. Len(net) - i /\ i + (k - (i - 1)) \in 1 .. Len(net)
      BY <1>1, <1>3, <1>4, <2>2
    <3> QED BY <1>3, <1>4, <2>2, <3>1
  <2> QED BY <1>1, <2>1, <2>2
<1>7. Len(a \o b) <= Len(net) /\ net[i] \in S
  BY <1>1, <1>3, <1>4
<1> QED BY <1>1, <1>4, <1>5, <1>6, <1>7

(***************************************************************************)
(* The types of the parts of the state.                                    *)
(***************************************************************************)
LEMMA NumbersTyped ==
  ASSUME TypeOK
  PROVE  /\ snext \in Nat /\ ssize \in Nat /\ shead \in Nat /\ framediff \in Int
         /\ written \in Nat /\ rcount \in Nat /\ DEFAULT_QUEUE_SIZE \in Nat \ {0}
         /\ ByteMod \in Nat \ {0} /\ 2 * DEFAULT_QUEUE_SIZE <= ByteMod
         /\ NumPackets \in Nat /\ SeqMod \in Nat /\ SeqMod > NumPackets + DEFAULT_QUEUE_SIZE
         /\ snext <= NumPackets /\ written <= NumPackets
BY GbnConstants, NetworkConstants DEF TypeOK, RTypeOK

(***************************************************************************)
(* A step of the writer that moves it from one state to another.           *)
(***************************************************************************)
LEMMA PlaceKeeps ==
  ASSUME TransferInv,
         UNCHANGED <<apc, written, sbuf, windowvars, rpc, framediff, overrun, netvars>>,
         UNCHANGED <<rvars, raddr, seof>>,
         Writing, Writing', wpc' \in WriterStates, ri' \in 0 .. ByteMod - 1,
         wpc' \in {"block_on_queue", "send_packet"} =>
           wpc \in {"block_on_queue", "send_packet"} \/ ssize < DEFAULT_QUEUE_SIZE
  PROVE  TransferInv'
<1> USE DEF TransferInv, windowvars, netvars, rvars
<1>1. TypeOK'
  BY DEF TypeOK, RTypeOK
<1>2. (ShortTransfer => Sliding)'
  BY DEF Sliding, FramesIn, ShortTransfer
<1>3. Queued' /\ Closing'
  BY DEF Queued, Closing, Writing
<1>4. Ring' /\ Wire'
  BY DEF Ring, Wire, ShortTransfer
<1>5. Window'
  BY DEF Window, Windowed, WindowSound, WindowSize, WindowHead, Acking
<1> QED BY <1>1, <1>2, <1>3, <1>4, <1>5

(***************************************************************************)
(* The states between which the writer moves without sending.              *)
(***************************************************************************)
LEMMA MovesKeep ==
  ASSUME TransferInv, UNCHANGED <<rvars, raddr, seof>>,
         \/ window_empty_q \/ block_on_queue \/ is_win_full_q \/ wait_on_read
         \/ TimerExpires \/ SpuriousWakeup \/ AfterWait \/ retransmit
  PROVE  TransferInv'
<1>1. /\ UNCHANGED <<apc, written, sbuf, windowvars, rpc, framediff, overrun, netvars>>
      /\ Writing /\ Writing' /\ wpc' \in WriterStates
  BY DEF window_empty_q, block_on_queue, is_win_full_q, wait_on_read, TimerExpires,
         SpuriousWakeup, AfterWait, retransmit, Goto, Writing, WriterStates
<1>2. ri' \in 0 .. ByteMod - 1
  <2>1. ri \in 0 .. ByteMod - 1 /\ shead \in 0 .. ByteMod - 1
    BY DEF TransferInv, TypeOK
  <2> QED BY <2>1 DEF window_empty_q, block_on_queue, is_win_full_q, wait_on_read, TimerExpires,
                      SpuriousWakeup, AfterWait, retransmit
<1>3. wpc' \in {"block_on_queue", "send_packet"} =>
        wpc \in {"block_on_queue", "send_packet"} \/ ssize < DEFAULT_QUEUE_SIZE
  <2>1. DEFAULT_QUEUE_SIZE \in Nat \ {0}
    BY GbnConstants
  <2>2. ssize = 0 => ssize < DEFAULT_QUEUE_SIZE
    BY <2>1
  <2> QED BY <2>2 DEF window_empty_q, block_on_queue, is_win_full_q, wait_on_read, TimerExpires,
                      SpuriousWakeup, AfterWait, retransmit, Goto
<1> QED BY <1>1, <1>2, <1>3, PlaceKeeps

(***************************************************************************)
(* The application writes a block, closes, and joins the writer.           *)
(***************************************************************************)
LEMMA AppKeeps ==
  ASSUME TransferInv, UNCHANGED <<rvars, raddr, seof>>, AppStep
  PROVE  TransferInv'
<1> USE DEF TransferInv, windowvars, netvars, rvars
<1>1. UNCHANGED <<wpc, ri, windowvars, framediff, overrun, netvars>>
  BY DEF AppStep, gbn_socket_write, gbn_socket_close, JoinWriter
<1>2. sbuf \in Seq({"block", "closing"}) /\ Len(sbuf) <= SBufCap /\ SBufCap \in Nat
  BY SenderConstants DEF TypeOK
<1>3. (ShortTransfer => Sliding)' /\ Ring' /\ Wire'
  BY <1>1 DEF Sliding, FramesIn, ShortTransfer, Ring, Wire
<1>4. CASE gbn_socket_write
  <2>1. /\ apc = "open" /\ written < NumPackets /\ Len(sbuf) < SBufCap
        /\ sbuf' = Append(sbuf, "block") /\ written' = written + 1
        /\ UNCHANGED <<apc, rpc>>
    BY <1>4 DEF gbn_socket_write
  <2>2. /\ sbuf' \in Seq({"block", "closing"}) /\ Len(sbuf') = Len(sbuf) + 1
        /\ \A i \in 1 .. Len(sbuf) : sbuf'[i] = sbuf[i]
        /\ sbuf'[Len(sbuf) + 1] = "block"
    BY <1>2, <2>1
  <2>3. TypeOK'
    <3>1. Len(sbuf') <= SBufCap /\ written' \in 0 .. NumPackets
      BY <1>2, <2>1, <2>2, NumbersTyped
    <3> QED BY <1>1, <2>1, <2>2, <3>1 DEF TypeOK, RTypeOK
  <2>4. Queued'
    <3>1. Writing /\ snext + Len(sbuf) = written
      BY <1>2, <2>1, NumbersTyped DEF Queued
    <3>2. Writing' /\ apc' = "open" /\ snext' + Len(sbuf') = written' + 0
      <4>1. PICK a, b, c, d : a = snext' /\ b = Len(sbuf') /\ c = written' /\ d = Len(sbuf)
        OBVIOUS
      <4>2. /\ a = snext /\ b = d + 1 /\ c = written + 1 /\ snext + d = written
            /\ snext \in Nat /\ written \in Nat /\ d \in Nat
        BY <1>1, <1>2, <2>1, <2>2, <3>1, <4>1, NumbersTyped
      <4>3. a + b = c + 0
        BY <4>2
      <4>4. Writing' /\ apc' = "open"
        BY <1>1, <2>1, <3>1 DEF Writing
      <4> QED BY <4>1, <4>3, <4>4
    <3>3. ASSUME NEW i \in 1 .. Len(sbuf')
          PROVE  sbuf'[i] = IF snext' + i <= written' THEN "block" ELSE "closing"
      <4>1. snext + i <= written + 1
        <5>1. i \in Int /\ i <= Len(sbuf) + 1 /\ Len(sbuf) \in Nat /\ snext \in Nat
          BY <1>2, <2>2, NumbersTyped
        <5> QED BY <3>1, <5>1
      <4>2. sbuf'[i] = "block"
        <5>1. CASE i = Len(sbuf) + 1
          BY <2>2, <5>1
        <5>2. CASE i \in 1 .. Len(sbuf)
          <6>1. snext + i <= written
            BY <1>2, <3>1, <5>2, NumbersTyped
          <6> QED BY <2>2, <3>1, <5>2, <6>1 DEF Queued
        <5> QED BY <1>2, <2>2, <5>1, <5>2
      <4> QED BY <1>1, <2>1, <4>1, <4>2
    <3>4. snext' <= written'
      BY <1>1, <2>1, NumbersTyped DEF Queued
    <3> QED BY <3>2, <3>3, <3>4 DEF Queued
  <2>5. Closing' /\ Window'
    BY <1>1, <2>1 DEF Closing, Window, Windowed, WindowSound, WindowSize, WindowHead, Acking
  <2> QED BY <1>3, <2>3, <2>4, <2>5
<1>5. CASE gbn_socket_close
  <2>1. /\ apc = "open" /\ Len(sbuf) < SBufCap /\ apc' = "join"
        /\ sbuf' = Append(sbuf, "closing") /\ UNCHANGED <<written, rpc>>
    BY <1>5 DEF gbn_socket_close
  <2>2. /\ sbuf' \in Seq({"block", "closing"}) /\ Len(sbuf') = Len(sbuf) + 1
        /\ \A i \in 1 .. Len(sbuf) : sbuf'[i] = sbuf[i]
        /\ sbuf'[Len(sbuf) + 1] = "closing"
    BY <1>2, <2>1
  <2>3. TypeOK'
    <3>1. Len(sbuf') <= SBufCap
      BY <1>2, <2>1, <2>2
    <3> QED BY <1>1, <2>1, <2>2, <3>1 DEF TypeOK, RTypeOK
  <2>4. Queued'
    <3>1. Writing /\ snext + Len(sbuf) = written
      BY <1>2, <2>1, NumbersTyped DEF Queued
    <3>2. Writing' /\ apc' = "join" /\ snext' + Len(sbuf') = written' + 1
      BY <1>1, <1>2, <2>1, <2>2, <3>1, NumbersTyped DEF Writing
    <3>3. ASSUME NEW i \in 1 .. Len(sbuf')
          PROVE  sbuf'[i] = IF snext' + i <= written' THEN "block" ELSE "closing"
      <4>1. CASE i = Len(sbuf) + 1
        BY <1>1, <1>2, <2>1, <2>2, <3>1, <4>1, NumbersTyped
      <4>2. CASE i \in 1 .. Len(sbuf)
        BY <1>1, <2>1, <2>2, <3>1, <4>2 DEF Queued
      <4> QED BY <1>2, <2>2, <4>1, <4>2
    <3>4. snext' <= written'
      BY <1>1, <2>1 DEF Queued
    <3> QED BY <3>2, <3>3, <3>4 DEF Queued
  <2>5. Closing' /\ Window'
    BY <1>1, <2>1 DEF Closing, Window, Windowed, WindowSound, WindowSize, WindowHead, Acking
  <2> QED BY <1>3, <2>3, <2>4, <2>5
<1>6. CASE JoinWriter
  <2>1. /\ wpc = "done" /\ apc' = "closed" /\ rpc' = "gone" /\ UNCHANGED <<written, sbuf>>
    BY <1>6 DEF JoinWriter
  <2>2. TypeOK'
    BY <1>1, <2>1 DEF TypeOK, RTypeOK
  <2>3. Queued' /\ Closing' /\ Window'
    BY <1>1, <2>1 DEF Queued, Closing, Writing, Window, WindowSound
  <2> QED BY <1>3, <2>2, <2>3
<1> QED BY <1>4, <1>5, <1>6 DEF AppStep

(***************************************************************************)
(* The frame that is sent takes the slot of the oldest of the last ones.   *)
(***************************************************************************)
LEMMA RingTurns ==
  ASSUME TypeOK, Ring, snext' = snext + 1, stail' = NextSlot(stail),
         sslot' = [sslot EXCEPT ![stail] = Frame(snext, "freed")]
  PROVE  Ring'
<1> DEFINE Q == DEFAULT_QUEUE_SIZE
<1>1. Q \in Nat \ {0} /\ snext \in Nat /\ snext \in Int /\ 1 \in Int
  BY NumbersTyped
<1>2. stail' = (snext + 1) % Q
  <2>1. ((snext % Q) + 1) % Q = (snext + 1) % Q
    BY <1>1, ModAdd, Zenon
  <2> QED BY <2>1 DEF Ring, NextSlot
<1>3. stail \in Slots /\ stail = snext % Q /\ sslot \in [Slots -> FrameType]
  BY DEF TypeOK, Ring
<1>4. ASSUME NEW s \in 0 .. snext, s + Q >= snext + 1
      PROVE  sslot'[s % Q] = Frame(s, "freed")
  <2>1. CASE s = snext
    BY <1>3, <2>1
  <2>2. CASE s # snext
    <3>1. s \in 0 .. snext - 1 /\ s \in Int /\ s < snext + Q /\ snext < s + Q /\ s + Q >= snext
      BY <1>1, <1>4, <2>2
    <3>2. s % Q # snext % Q
      BY <1>1, <2>2, <3>1, ModInjective
    <3>3. s % Q \in Slots
      BY <1>1, <3>1, ModRange DEF Slots
    <3>4. sslot[s % Q] = Frame(s, "freed")
      BY <3>1 DEF Ring
    <3> QED BY <1>3, <3>2, <3>3, <3>4
  <2> QED BY <2>1, <2>2
<1>5. ASSUME NEW i \in Slots
      PROVE  \/ sslot'[i] = EmptyFrame
             \/ \E s \in 0 .. snext : sslot'[i] = Frame(s, "freed")
  <2>1. CASE i = stail
    BY <1>1, <1>3, <2>1
  <2>2. CASE i # stail
    <3>1. sslot'[i] = sslot[i]
      BY <1>3, <2>2
    <3>2. \A s \in 0 .. snext - 1 : s \in 0 .. snext
      BY <1>1
    <3> QED BY <3>1, <3>2 DEF Ring
  <2> QED BY <2>1, <2>2
<1>6. snext' - 1 = snext /\ (\A s : s + Q >= snext' <=> s + Q >= snext + 1)
  BY <1>1
<1> QED BY <1>2, <1>4, <1>5, <1>6 DEF Ring

(***************************************************************************)
(* Every frame in the ring is one that was sent.                           *)
(***************************************************************************)
LEMMA SlotHolds ==
  ASSUME TypeOK, Ring, NEW i \in Slots
  PROVE  /\ sslot[i].seq \in Nat /\ sslot[i].seq <= NumPackets
         /\ sslot[i].init => sslot[i].seq < snext /\ sslot[i].data \in Payloads
<1>1. CASE sslot[i] = EmptyFrame
  BY <1>1, NumbersTyped DEF EmptyFrame
<1>2. ASSUME NEW s \in 0 .. snext - 1, sslot[i] = Frame(s, "freed")
      PROVE  /\ sslot[i].seq \in Nat /\ sslot[i].seq <= NumPackets
             /\ sslot[i].seq < snext /\ sslot[i].data \in Payloads
  BY <1>2, NumbersTyped DEF Frame, Payloads
<1> QED BY <1>1, <1>2 DEF Ring

(***************************************************************************)
(* Sending: what stays true of the packets in flight.                      *)
(***************************************************************************)
LEMMA DataSent ==
  ASSUME TypeOK, Wire, NEW s, s \in 0 .. snext' - 1, NEW d \in Payloads, snext <= snext',
         snext' \in 0 .. NumPackets,
         NEW p, p = DataPacket(s, d) \/ p = UninitializedPacket, dnet' \in sendto_(dnet, p)
  PROVE  /\ dnet' \in Seq(DataNetPackets) /\ Len(dnet') <= NetCap
         /\ \A i \in 1 .. Len(dnet') : dnet'[i].type = "data" => dnet'[i].seq < snext'
         /\ (\A i \in 1 .. Len(dnet) : dnet[i].type \in {"data", "uninitialized"}) =>
              \A i \in 1 .. Len(dnet') : dnet'[i].type \in {"data", "uninitialized"}
<1>1. s \in SeqNums
  <2>1. PICK m : m = snext'
    OBVIOUS
  <2>2. m \in 0 .. NumPackets /\ s \in 0 .. m - 1 /\ NumPackets \in Nat
    BY <2>1, GbnConstants
  <2> QED BY <2>2 DEF SeqNums
<1>2. p \in DataNetPackets
  BY <1>1 DEF DataNetPackets
<1>3. dnet \in Seq(DataNetPackets) /\ Len(dnet) <= NetCap
  BY DEF TypeOK
<1>4. /\ dnet' \in Seq(DataNetPackets) /\ Len(dnet') <= NetCap
      /\ \A i \in 1 .. Len(dnet') : dnet'[i] = p \/ \E j \in 1 .. Len(dnet) : dnet'[i] = dnet[j]
  BY <1>2, <1>3, SendAdds
<1>5. p.type \in {"data", "uninitialized"} /\ (p.type = "data" => p.seq < snext')
  BY DEF DataPacket, UninitializedPacket
<1>6. ASSUME NEW j \in 1 .. Len(dnet), dnet[j].type = "data" PROVE dnet[j].seq < snext'
  <2>1. dnet[j] \in DataNetPackets /\ dnet[j].seq < snext
    BY <1>3, <1>6 DEF Wire
  <2>2. dnet[j].seq \in Nat
    BY <1>6, <2>1 DEF DataNetPackets, DataPacket, EOFPacket, AckEOFPacket,
                      UninitializedPacket, SeqNums
  <2> QED BY <2>1, <2>2, NumbersTyped
<1> QED BY <1>4, <1>5, <1>6

(***************************************************************************)
(* send_packet.                                                            *)
(***************************************************************************)
LEMMA SendKeeps ==
  ASSUME TransferInv, UNCHANGED <<rvars, raddr, seof>>, send_packet
  PROVE  TransferInv'
<1> USE DEF TransferInv, netvars, rvars
<1>1. /\ wpc = "send_packet" /\ wpc' = "is_win_full_q" /\ ~Acking
      /\ sbuf # <<>> /\ Head(sbuf) = "block" /\ sbuf' = Tail(sbuf)
      /\ sslot' = [sslot EXCEPT ![stail] = Frame(snext, "freed")]
      /\ stail' = NextSlot(stail)
      /\ ssize' = (ssize + 1) % ByteMod
      /\ snext' = (snext + 1) % SeqMod
      /\ dnet' \in sendto_(dnet, DataPacket(snext, "intact"))
      /\ UNCHANGED <<apc, written, ri, shead, rpc, framediff, overrun, anet>>
  BY DEF send_packet, Goto, WindowLocked, Acking
<1>2. /\ sbuf \in Seq({"block", "closing"}) /\ Len(sbuf) \in Nat /\ Len(sbuf) >= 1
      /\ sbuf[1] = "block" /\ sbuf' \in Seq({"block", "closing"})
      /\ Len(sbuf') = Len(sbuf) - 1 /\ \A i \in 1 .. Len(sbuf') : sbuf'[i] = sbuf[i + 1]
  <2>1. sbuf \in Seq({"block", "closing"})
    BY DEF TypeOK
  <2> QED BY <1>1, <2>1
<1>3. Writing /\ Writing' /\ snext + 1 <= written
  <2>1. Writing /\ Writing'
    BY <1>1 DEF Writing
  <2>2. 1 \in 1 .. Len(sbuf)
    BY <1>2
  <2>3. sbuf[1] = IF snext + 1 <= written THEN "block" ELSE "closing"
    BY <2>1, <2>2 DEF Queued
  <2> QED BY <1>2, <2>1, <2>3
<1>4. snext' = snext + 1 /\ snext' \in 0 .. NumPackets
  <2>1. snext + 1 \in 0 .. SeqMod - 1 /\ SeqMod \in Nat \ {0} /\ snext + 1 \in 0 .. NumPackets
    BY <1>3, NumbersTyped
  <2> QED BY <1>1, <2>1, ModSmall
<1>5. /\ dnet' \in Seq(DataNetPackets) /\ Len(dnet') <= NetCap
      /\ \A i \in 1 .. Len(dnet') : dnet'[i].type = "data" => dnet'[i].seq < snext'
      /\ (\A i \in 1 .. Len(dnet) : dnet[i].type \in {"data", "uninitialized"}) =>
           \A i \in 1 .. Len(dnet') : dnet'[i].type \in {"data", "uninitialized"}
  <2>1. snext \in 0 .. snext' - 1 /\ snext <= snext' /\ "intact" \in Payloads
    BY <1>4, NumbersTyped DEF Payloads
  <2> QED BY <1>1, <1>4, <2>1, DataSent
<1>6. TypeOK'
  <2>1. stail' \in Slots /\ ssize' \in 0 .. ByteMod - 1
    <3>1. stail + 1 \in Int /\ ssize + 1 \in Int
      BY NumbersTyped DEF TypeOK, Slots
    <3> QED BY <1>1, <3>1, ModRange, NumbersTyped DEF NextSlot, Slots
  <2>2. Frame(snext, "freed") \in FrameType
    BY NumbersTyped DEF Frame, FrameType, Payloads
  <2>3. sslot' \in [Slots -> FrameType]
    BY <1>1, <2>2 DEF TypeOK
  <2>4. Len(sbuf') <= SBufCap
    BY <1>2, SenderConstants DEF TypeOK
  <2>5. wpc' \in WriterStates
    BY <1>1 DEF WriterStates
  <2> QED BY <1>1, <1>2, <1>4, <1>5, <2>1, <2>3, <2>4, <2>5 DEF TypeOK, RTypeOK
<1>7. (ShortTransfer => Sliding)'
  BY DEF Sliding, FramesIn, ShortTransfer
<1>8. Queued'
  <2>1. snext' + Len(sbuf') = written' + (IF apc' = "open" THEN 0 ELSE 1)
    <3>1. snext + Len(sbuf) = written + (IF apc = "open" THEN 0 ELSE 1)
      BY <1>3 DEF Queued
    <3>2. snext + 1 + (Len(sbuf) - 1) = snext + Len(sbuf)
      BY <1>2, NumbersTyped
    <3> QED BY <1>1, <1>2, <1>4, <3>1, <3>2
  <2>2. ASSUME NEW i \in 1 .. Len(sbuf')
        PROVE  sbuf'[i] = IF snext' + i <= written' THEN "block" ELSE "closing"
    <3>1. i + 1 \in 1 .. Len(sbuf) /\ snext + (i + 1) = snext' + i
      BY <1>2, <1>4, NumbersTyped
    <3>2. sbuf[i + 1] = IF snext + (i + 1) <= written THEN "block" ELSE "closing"
      BY <1>3, <3>1 DEF Queued
    <3> QED BY <1>1, <1>2, <3>1, <3>2
  <2>3. snext' <= written'
    BY <1>1, <1>3, <1>4, NumbersTyped
  <2> QED BY <1>1, <1>3, <2>1, <2>2, <2>3 DEF Queued
<1>9. Closing'
  BY <1>1, <1>5 DEF Closing
<1>10. Ring'
  BY <1>1, <1>4, RingTurns
<1>11. Wire'
  <2>1. \A i \in Slots : rslot'[i].init => rslot'[i].seq < snext'
    <3>1. \A i \in Slots : rslot[i].seq \in Nat
      BY DEF TypeOK, RTypeOK, FrameType
    <3> QED BY <1>4, <3>1, NumbersTyped DEF Wire
  <2>2. ShortTransfer => rcount' <= snext'
    BY <1>4, NumbersTyped DEF Wire
  <2> QED BY <1>1, <1>5, <2>1, <2>2 DEF Wire, ShortTransfer
<1>12. Window'
  <2> SUFFICES ASSUME WindowSound' PROVE Windowed'
    BY DEF Window
  <2>1. WindowSound /\ ~Acking' /\ WindowSize = ssize /\ WindowSize' = ssize'
    BY <1>1 DEF WindowSound, Acking, WindowSize
  <2>2. ssize < DEFAULT_QUEUE_SIZE
    BY <1>1, <2>1 DEF Window, Windowed
  <2>3. ssize' = ssize + 1
    <3>1. ssize + 1 \in 0 .. ByteMod - 1
      BY <2>2, NumbersTyped
    <3> QED BY <1>1, <3>1, ModSmall, NumbersTyped
  <2>4. snext' - ssize' = snext - ssize
    BY <1>4, <2>3, NumbersTyped
  <2>5. ssize' <= DEFAULT_QUEUE_SIZE /\ ssize' <= snext'
    BY <1>4, <2>1, <2>2, <2>3, NumbersTyped DEF Window, Windowed
  <2>6. WindowHead' = WindowHead
    BY <1>1 DEF WindowHead
  <2> QED BY <1>1, <2>1, <2>4, <2>5, <2>6 DEF Window, Windowed
<1> QED BY <1>6, <1>7, <1>8, <1>9, <1>10, <1>11, <1>12

(***************************************************************************)
(* The writer meets the closing block, and sends the EOF.                  *)
(***************************************************************************)
LEMMA CloseKeeps ==
  ASSUME TransferInv, UNCHANGED <<rvars, raddr, seof>>, send_packet_closing \/ close_connection
  PROVE  TransferInv'
<1> USE DEF TransferInv, windowvars, netvars, rvars
<1>1. /\ UNCHANGED <<apc, written, ri, windowvars, rpc, framediff, overrun, anet>>
      /\ wpc \in {"send_packet", "close_connection"} /\ wpc' \in {"close_connection", "done"}
  BY DEF send_packet_closing, close_connection, Goto
<1>2. sbuf \in Seq({"block", "closing"}) /\ dnet \in Seq(DataNetPackets) /\ Len(dnet) <= NetCap
  BY DEF TypeOK
<1>3. /\ sbuf' \in Seq({"block", "closing"}) /\ Len(sbuf') <= SBufCap
      /\ Queued'
      /\ ~Writing'
  <2>1. ~Writing'
    BY <1>1 DEF Writing
  <2>2. CASE send_packet_closing
    <3>1. wpc = "send_packet" /\ sbuf # <<>> /\ Head(sbuf) = "closing" /\ sbuf' = Tail(sbuf)
      BY <2>2 DEF send_packet_closing, Goto
    <3>2. /\ Len(sbuf) \in Nat /\ Len(sbuf) >= 1 /\ sbuf[1] = "closing"
          /\ sbuf' \in Seq({"block", "closing"}) /\ Len(sbuf') = Len(sbuf) - 1
      BY <1>2, <3>1
    <3>3. Writing
      BY <3>1 DEF Writing
    <3>4. ~(snext + 1 <= written)
      <4>1. 1 \in 1 .. Len(sbuf)
        BY <3>2
      <4> QED BY <3>2, <3>3, <4>1 DEF Queued
    <3>5. apc # "open" /\ snext = written
      <4>1. snext + Len(sbuf) = written + (IF apc = "open" THEN 0 ELSE 1)
        BY <3>3 DEF Queued
      <4>2. snext \in Nat /\ written \in Nat /\ snext <= written
        BY NumbersTyped DEF Queued
      <4>3. PICK m, k : m = Len(sbuf) /\ k = (IF apc = "open" THEN 0 ELSE 1)
        OBVIOUS
      <4>4. m \in Nat /\ m >= 1 /\ snext + m = written + k
        BY <3>2, <4>1, <4>3
      <4>5. k \in {0, 1} /\ (k = 1 => apc # "open")
        BY <4>3
      <4>6. k = 1 /\ snext = written
        BY <3>4, <4>2, <4>4, <4>5
      <4> QED BY <4>5, <4>6
    <3>6. Len(sbuf') <= SBufCap
      BY <3>2, SenderConstants DEF TypeOK
    <3> QED BY <1>1, <2>1, <3>2, <3>5, <3>6 DEF Queued
  <2>3. CASE close_connection
    <3>1. wpc = "close_connection" /\ sbuf' = sbuf
      BY <2>3 DEF close_connection, Goto
    <3> QED BY <1>1, <2>1, <3>1 DEF Queued, Writing, TypeOK
  <2> QED BY <2>2, <2>3
<1>4. /\ dnet' \in Seq(DataNetPackets) /\ Len(dnet') <= NetCap
      /\ \A i \in 1 .. Len(dnet') :
           (wpc' # "done" \/ dnet'[i].type = "data") => \E j \in 1 .. Len(dnet) : dnet'[i] = dnet[j]
  <2>1. CASE send_packet_closing
    <3>1. dnet' = dnet
      BY <2>1 DEF send_packet_closing
    <3> QED BY <1>2, <3>1
  <2>2. CASE close_connection
    <3>1. dnet' \in sendto_(dnet, EOFPacket) /\ wpc' = "done"
      BY <2>2 DEF close_connection, Goto
    <3>2. EOFPacket \in DataNetPackets /\ EOFPacket.type # "data"
      BY DEF DataNetPackets, EOFPacket
    <3>3. /\ dnet' \in Seq(DataNetPackets) /\ Len(dnet') <= NetCap
          /\ \A i \in 1 .. Len(dnet') :
               dnet'[i] = EOFPacket \/ \E j \in 1 .. Len(dnet) : dnet'[i] = dnet[j]
      BY <1>2, <3>1, <3>2, SendAdds
    <3> QED BY <3>1, <3>2, <3>3
  <2> QED BY <2>1, <2>2
<1>5. TypeOK'
  <2>1. wpc' \in WriterStates
    BY <1>1 DEF WriterStates
  <2> QED BY <1>1, <1>3, <1>4, <2>1 DEF TypeOK, RTypeOK
<1>6. (ShortTransfer => Sliding)' /\ Ring'
  BY <1>1 DEF Sliding, FramesIn, ShortTransfer, Ring
<1>7. Closing'
  BY <1>1, <1>4 DEF Closing
<1>8. Wire'
  BY <1>1, <1>4 DEF Wire, ShortTransfer
<1>9. Window'
  BY <1>1 DEF Window, Windowed, WindowSound, WindowSize, WindowHead, Acking
<1> QED BY <1>3, <1>5, <1>6, <1>7, <1>8, <1>9

(***************************************************************************)
(* One turn of the loop of retransmit.                                     *)
(***************************************************************************)
LEMMA ResendKeeps ==
  ASSUME TransferInv, UNCHANGED <<rvars, raddr, seof>>, resend
  PROVE  TransferInv'
<1> USE DEF TransferInv, windowvars, netvars, rvars
<1>1. PICK p : /\ p = IF ri \in Slots /\ sslot[ri].init
                      THEN DataPacket(sslot[ri].seq, sslot[ri].data)
                      ELSE UninitializedPacket
               /\ dnet' \in sendto_(dnet, p)
  BY DEF resend
<1>2. /\ wpc = "resend" /\ wpc' \in {"wait_on_read", "resend"} /\ ri' \in {0, NextSlot(ri)}
      /\ UNCHANGED <<apc, written, sbuf, windowvars, rpc, framediff, overrun, anet>>
  BY DEF resend, Goto
<1>3. /\ dnet' \in Seq(DataNetPackets) /\ Len(dnet') <= NetCap
      /\ \A i \in 1 .. Len(dnet') : dnet'[i].type = "data" => dnet'[i].seq < snext'
      /\ (\A i \in 1 .. Len(dnet) : dnet[i].type \in {"data", "uninitialized"}) =>
           \A i \in 1 .. Len(dnet') : dnet'[i].type \in {"data", "uninitialized"}
  <2>1. CASE ri \in Slots /\ sslot[ri].init
    <3>1. /\ p = DataPacket(sslot[ri].seq, sslot[ri].data) /\ sslot[ri].data \in Payloads
          /\ sslot[ri].seq \in 0 .. snext' - 1 /\ snext <= snext' /\ snext' \in 0 .. NumPackets
      BY <1>1, <1>2, <2>1, SlotHolds, NumbersTyped
    <3> QED BY <1>1, <3>1, DataSent
  <2>2. CASE ~(ri \in Slots /\ sslot[ri].init)
    <3>1. p = UninitializedPacket /\ UninitializedPacket \in DataNetPackets
      BY <1>1, <2>2 DEF DataNetPackets
    <3>2. /\ dnet' \in Seq(DataNetPackets) /\ Len(dnet') <= NetCap
          /\ \A i \in 1 .. Len(dnet') : dnet'[i] = p \/ \E j \in 1 .. Len(dnet) : dnet'[i] = dnet[j]
      BY <1>1, <3>1, SendAdds DEF TypeOK
    <3>3. p.type = "uninitialized"
      BY <3>1 DEF UninitializedPacket
    <3> QED BY <1>2, <3>2, <3>3 DEF Wire
  <2> QED BY <2>1, <2>2
<1>4. TypeOK'
  <2>1. ri' \in 0 .. ByteMod - 1
    <3>1. ri \in Int /\ ri + 1 \in Int
      BY NumbersTyped DEF TypeOK
    <3>2. NextSlot(ri) \in 0 .. DEFAULT_QUEUE_SIZE - 1
      BY <3>1, NumbersTyped, ModRange DEF NextSlot
    <3> QED BY <1>2, <3>2, NumbersTyped
  <2>2. wpc' \in WriterStates
    BY <1>2 DEF WriterStates
  <2> QED BY <1>2, <1>3, <2>1, <2>2 DEF TypeOK, RTypeOK
<1>5. (ShortTransfer => Sliding)' /\ Ring'
  BY <1>2 DEF Sliding, FramesIn, ShortTransfer, Ring
<1>6. Queued' /\ Closing'
  BY <1>2, <1>3 DEF Queued, Closing, Writing
<1>7. Wire'
  BY <1>2, <1>3 DEF Wire, ShortTransfer
<1>8. Window'
  BY <1>2 DEF Window, Windowed, WindowSound, WindowSize, WindowHead, Acking
<1> QED BY <1>4, <1>5, <1>6, <1>7, <1>8
-----------------------------------------------------------------------------
(***************************************************************************)
(* The reader reduces the head, takes the frames off the size, and signals *)
(* the writer.                                                             *)
(***************************************************************************)
LEMMA AckingKeeps ==
  ASSUME TransferInv, UNCHANGED <<rvars, raddr, seof>>, AckHead \/ AckSize \/ AckSignal
  PROVE  TransferInv'
<1> USE DEF TransferInv, windowvars, netvars, rvars
<1>1. UNCHANGED <<apc, written, sbuf, ri, stail, sslot, snext, overrun, netvars>>
  BY DEF AckHead, AckSize, AckSignal
<1>2. (ShortTransfer => Sliding)' /\ Ring' /\ Wire'
  BY <1>1 DEF Sliding, FramesIn, ShortTransfer, Ring, Wire
<1>3. CASE AckHead
  <2>1. /\ rpc = "ack_mod" /\ rpc' = "ack_size" /\ shead' = shead % DEFAULT_QUEUE_SIZE
        /\ UNCHANGED <<wpc, ssize, framediff>>
    BY <1>3 DEF AckHead
  <2>2. shead' \in 0 .. DEFAULT_QUEUE_SIZE - 1 /\ shead' % DEFAULT_QUEUE_SIZE = shead'
    <3>1. shead \in Int
      BY NumbersTyped
    <3> QED BY <2>1, <3>1, NumbersTyped, ModRange, ModSmall
  <2>3. shead' \in 0 .. ByteMod - 1
    BY <2>2, NumbersTyped
  <2>4. TypeOK'
    BY <1>1, <2>1, <2>3 DEF TypeOK, RTypeOK
  <2>5. Queued' /\ Closing'
    BY <1>1, <2>1 DEF Queued, Closing, Writing
  <2>6. Window'
    BY <1>1, <2>1, <2>2, NumbersTyped
       DEF Window, Windowed, WindowSound, WindowSize, WindowHead, Acking
  <2> QED BY <1>2, <2>4, <2>5, <2>6
<1>4. CASE AckSize
  <2>1. /\ rpc = "ack_size" /\ rpc' = "signal" /\ ssize' = (ssize - framediff) % ByteMod
        /\ UNCHANGED <<wpc, shead, framediff>>
    BY <1>4 DEF AckSize
  <2>2. ssize' \in 0 .. ByteMod - 1
    <3>1. ssize - framediff \in Int
      BY NumbersTyped
    <3> QED BY <2>1, <3>1, NumbersTyped, ModRange
  <2>3. TypeOK'
    BY <1>1, <2>1, <2>2 DEF TypeOK, RTypeOK
  <2>4. Queued' /\ Closing'
    BY <1>1, <2>1 DEF Queued, Closing, Writing
  <2>5. Window'
    <3> SUFFICES ASSUME WindowSound' PROVE Windowed'
      BY DEF Window
    <3>1. Windowed /\ Acking
      BY <1>1, <2>1 DEF WindowSound, Window, Acking
    <3>2. framediff \in 1 .. ssize /\ ssize <= DEFAULT_QUEUE_SIZE
      BY <3>1 DEF Windowed
    <3>3. ssize - framediff \in 0 .. ByteMod - 1 /\ ssize - framediff < ssize
      BY <3>2, NumbersTyped
    <3>4. ssize' = ssize - framediff
      BY <2>1, <3>3, NumbersTyped, ModSmall
    <3>5. WindowSize = ssize - framediff /\ WindowSize' = ssize'
      BY <2>1 DEF WindowSize
    <3>6. ssize' <= DEFAULT_QUEUE_SIZE /\ (ssize < DEFAULT_QUEUE_SIZE => ssize' < DEFAULT_QUEUE_SIZE)
      BY <3>2, <3>3, <3>4, NumbersTyped
    <3>7. ~Acking' /\ WindowHead' = WindowHead
      BY <2>1 DEF Acking, WindowHead
    <3> QED BY <1>1, <2>1, <3>1, <3>4, <3>5, <3>6, <3>7 DEF Windowed
  <2> QED BY <1>2, <2>3, <2>4, <2>5
<1>5. CASE AckSignal
  <2>1. /\ rpc = "signal" /\ rpc' = "recv" /\ wpc \in {"waiting", "signaled", "timedout"}
        /\ wpc' \in {"waiting", "signaled", "timedout"} /\ framediff' = 0
        /\ UNCHANGED <<shead, ssize>>
    BY <1>5 DEF AckSignal, InCondWait
  <2>2. TypeOK'
    <3>1. wpc' \in WriterStates
      BY <2>1 DEF WriterStates
    <3>2. framediff' \in -1 .. DEFAULT_QUEUE_SIZE
      BY <2>1, NumbersTyped
    <3> QED BY <1>1, <2>1, <3>1, <3>2 DEF TypeOK, RTypeOK
  <2>3. Queued' /\ Closing'
    BY <1>1, <2>1 DEF Queued, Closing, Writing
  <2>4. Window'
    BY <1>1, <2>1 DEF Window, Windowed, WindowSound, WindowSize, WindowHead, Acking
  <2> QED BY <1>2, <2>2, <2>3, <2>4
<1> QED BY <1>3, <1>4, <1>5

(***************************************************************************)
(* An ack is of a frame that was handed up, or is ignored.                 *)
(***************************************************************************)
LEMMA AckIs ==
  ASSUME TransferInv, NEW a \in 0 .. SeqMod - 1, a < rcount \/ a = SeqMod - 1,
         AckDelta(a) # -1
  PROVE  /\ AckDelta(a) \in 1 .. DEFAULT_QUEUE_SIZE /\ a < rcount
         /\ AckDelta(a) = a - sslot[shead % DEFAULT_QUEUE_SIZE].seq + 1
<1> DEFINE Q == DEFAULT_QUEUE_SIZE
           f == sslot[shead % Q].seq
<1>0. shead \in Int /\ Q \in Nat \ {0}
  BY NumbersTyped DEF TransferInv
<1>1. shead % Q \in Slots
  BY <1>0, ModRange DEF Slots
<1>2. FrameIndex(shead, 0) = shead % Q
  BY <1>0 DEF FrameIndex
<1>3. f \in Nat /\ f <= NumPackets
  BY <1>1, SlotHolds DEF TransferInv
<1>4. (f + Q) % SeqMod = f + Q
  <2>1. f + Q \in 0 .. SeqMod - 1 /\ SeqMod \in Nat \ {0}
    BY <1>3, NumbersTyped DEF TransferInv
  <2> QED BY <2>1, ModSmall
<1>5. AckDelta(a) = IF a >= f /\ a < f + Q THEN a - f + 1 ELSE -1
  BY <1>2, <1>4 DEF AckDelta
<1> HIDE DEF f
<1>6. a >= f /\ a < f + Q
  BY <1>5
<1>7. a # SeqMod - 1
  BY <1>3, <1>6, NumbersTyped DEF TransferInv
<1>8. AckDelta(a) \in 1 .. Q
  BY <1>3, <1>5, <1>6, NumbersTyped DEF TransferInv
<1> QED BY <1>5, <1>6, <1>7, <1>8 DEF f

(***************************************************************************)
(* A packet of the network to the client, and the others.                  *)
(***************************************************************************)
LEMMA AckTaken ==
  ASSUME TransferInv, NEW i \in Receivable(anet), anet' = Without(anet, i)
  PROVE  /\ anet' \in Seq(AckNetPackets) /\ Len(anet') <= NetCap
         /\ anet[i] \in AckNetPackets /\ i \in 1 .. Len(anet)
         /\ \A k \in 1 .. Len(anet') : \E j \in 1 .. Len(anet) : anet'[k] = anet[j]
<1>1. anet \in Seq(AckNetPackets) /\ Len(anet) <= NetCap
  BY DEF TransferInv, TypeOK
<1>2. /\ anet' \in Seq(AckNetPackets) /\ Len(anet') <= Len(anet)
      /\ anet[i] \in AckNetPackets /\ i \in 1 .. Len(anet)
      /\ \A k \in 1 .. Len(anet') : \E j \in 1 .. Len(anet) : anet'[k] = anet[j]
  BY <1>1, TakeLeaves
<1>3. Len(anet') <= NetCap
  BY <1>1, <1>2, NetworkConstants
<1> QED BY <1>2, <1>3

(***************************************************************************)
(* The reader takes an acknowledgement.                                    *)
(***************************************************************************)
LEMMA OnAckKeeps ==
  ASSUME TransferInv, UNCHANGED <<rvars, raddr, seof>>, NEW i \in Receivable(anet),
         anet' = Without(anet, i), anet[i].type = "ack", OnAck(anet[i].seq), UNCHANGED dnet
  PROVE  TransferInv'
<1> USE DEF TransferInv, rvars
<1>1. /\ anet' \in Seq(AckNetPackets) /\ Len(anet') <= NetCap
      /\ anet[i] \in AckNetPackets /\ i \in 1 .. Len(anet)
      /\ \A k \in 1 .. Len(anet') : \E j \in 1 .. Len(anet) : anet'[k] = anet[j]
  BY AckTaken
<1>2. PICK a : a = anet[i].seq
  OBVIOUS
<1>3. a \in 0 .. SeqMod - 1 /\ (a < rcount \/ a = SeqMod - 1)
  <2>1. \/ \E s \in 0 .. SeqMod - 1 : anet[i] = AckPacket(s)
        \/ anet[i] = EOFPacket \/ anet[i] = AckEOFPacket
    BY <1>1 DEF AckNetPackets
  <2>2. \E s \in 0 .. SeqMod - 1 : anet[i] = AckPacket(s)
    BY <2>1 DEF EOFPacket, AckEOFPacket
  <2> QED BY <1>1, <1>2, <2>2 DEF AckPacket, Wire
<1>4. rpc = "recv" /\ UNCHANGED <<apc, written, sbuf, wpc, ri, stail, ssize, sslot, snext, dnet>>
  BY DEF OnAck
<1>5. (ShortTransfer => Sliding)' /\ Ring'
  BY <1>4 DEF Sliding, FramesIn, ShortTransfer, Ring
<1>6. Wire'
  BY <1>1, <1>4 DEF Wire, ShortTransfer
<1>7. CASE AckDelta(a) = -1
  <2>1. UNCHANGED <<rpc, framediff, shead, overrun>>
    BY <1>2, <1>7 DEF OnAck
  <2>2. TypeOK'
    BY <1>1, <1>4, <2>1 DEF TypeOK, RTypeOK
  <2>3. Queued' /\ Closing'
    BY <1>1, <1>4, <2>1 DEF Queued, Closing, Writing
  <2>4. Window'
    BY <1>4, <2>1 DEF Window, Windowed, WindowSound, WindowSize, WindowHead, Acking
  <2> QED BY <1>5, <1>6, <2>2, <2>3, <2>4
<1>8. CASE AckDelta(a) # -1
  <2>1. PICK n : n = AckDelta(a)
    OBVIOUS
  <2>2. /\ rpc' = "ack_mod" /\ framediff' = n /\ shead' = (shead + n) % ByteMod
        /\ overrun' = (overrun \/ n > ssize)
    BY <1>2, <1>8, <2>1 DEF OnAck
  <2>3. n \in 1 .. DEFAULT_QUEUE_SIZE /\ a < rcount
        /\ n = a - sslot[shead % DEFAULT_QUEUE_SIZE].seq + 1
    BY <1>3, <1>8, <2>1, AckIs
  <2>4. shead' \in 0 .. ByteMod - 1 /\ framediff' \in -1 .. DEFAULT_QUEUE_SIZE
        /\ overrun' \in BOOLEAN
    <3>1. shead + n \in Int /\ n \in -1 .. DEFAULT_QUEUE_SIZE
      BY <2>3, NumbersTyped
    <3>2. overrun' \in BOOLEAN
      BY <2>2
    <3> QED BY <2>2, <3>1, <3>2, NumbersTyped, ModRange
  <2>5. TypeOK'
    BY <1>1, <1>4, <2>2, <2>4 DEF TypeOK, RTypeOK
  <2>6. Queued' /\ Closing'
    BY <1>1, <1>4, <2>2 DEF Queued, Closing, Writing
  <2>7. Window'
    <3> SUFFICES ASSUME WindowSound' PROVE Windowed'
      BY DEF Window
    <3>1. WindowSound /\ n <= ssize
      <4>1. ~overrun /\ ~(n > ssize)
        BY <2>2, Zenon DEF WindowSound
      <4> QED BY <1>4, <2>3, <4>1, NumbersTyped DEF WindowSound
    <3>2. Windowed /\ ~Acking /\ WindowSize = ssize /\ WindowSize' = ssize - n
      BY <1>4, <2>2, <3>1 DEF Window, Acking, WindowSize
    <3>3. PICK b : b = snext - ssize
      OBVIOUS
    <3>4. /\ ssize <= DEFAULT_QUEUE_SIZE /\ b \in Nat /\ shead < DEFAULT_QUEUE_SIZE
          /\ shead % DEFAULT_QUEUE_SIZE = b % DEFAULT_QUEUE_SIZE /\ b <= rcount
      BY <1>4, <3>2, <3>3, NumbersTyped DEF Windowed, WindowHead
    <3>5. b \in 0 .. snext - 1 /\ b + DEFAULT_QUEUE_SIZE >= snext
      BY <2>3, <3>1, <3>3, <3>4, NumbersTyped
    <3>6. sslot[shead % DEFAULT_QUEUE_SIZE].seq = b
      <4>1. sslot[b % DEFAULT_QUEUE_SIZE] = Frame(b, "freed")
        BY <3>5 DEF Ring
      <4> QED BY <3>4, <4>1 DEF Frame
    <3>7. snext - (ssize - n) = b + n /\ b + n = a + 1
      BY <1>3, <2>3, <3>3, <3>4, <3>6, NumbersTyped
    <3>8. shead' % DEFAULT_QUEUE_SIZE = (b + n) % DEFAULT_QUEUE_SIZE
      <4> DEFINE Q == DEFAULT_QUEUE_SIZE
      <4>1. /\ Q \in Nat \ {0} /\ ByteMod \in Nat \ {0} /\ shead + n \in 0 .. ByteMod - 1
            /\ shead \in Int /\ b \in Int /\ n \in Int
        BY <2>3, <3>4, NumbersTyped
      <4>2. shead' = shead + n
        BY <2>2, <4>1, ModSmall
      <4>3. ((shead % Q) + n) % Q = (shead + n) % Q /\ ((b % Q) + n) % Q = (b + n) % Q
        BY <4>1, ModAdd, Zenon
      <4> QED BY <3>4, <4>2, <4>3
    <3>9. ssize - n <= snext /\ n \in 1 .. ssize /\ a + 1 <= rcount
      BY <1>3, <2>3, <3>1, <3>3, <3>4, NumbersTyped
    <3>10. Acking' /\ rpc' = "ack_mod"
      BY <2>2 DEF Acking
    <3> QED BY <1>4, <2>2, <3>2, <3>4, <3>7, <3>8, <3>9, <3>10 DEF Windowed, WindowHead
  <2> QED BY <1>5, <1>6, <2>5, <2>6, <2>7
<1> QED BY <1>7, <1>8

(***************************************************************************)
(* The end of the handshake that closes the socket.                        *)
(***************************************************************************)
LEMMA OnEndKeeps ==
  ASSUME TransferInv, UNCHANGED <<rvars, raddr, seof>>, NEW i \in Receivable(anet),
         anet' = Without(anet, i), anet[i].type \in {"ack_EOF", "EOF"},
         (OnAckEOF /\ UNCHANGED dnet) \/ OnServerEOF
  PROVE  TransferInv'
<1> USE DEF TransferInv, rvars, windowvars
<1>1. /\ anet' \in Seq(AckNetPackets) /\ Len(anet') <= NetCap
      /\ anet[i] \in AckNetPackets /\ i \in 1 .. Len(anet)
      /\ \A k \in 1 .. Len(anet') : \E j \in 1 .. Len(anet) : anet'[k] = anet[j]
  BY AckTaken
<1>2. /\ rpc = "recv" /\ rpc' = "gone"
      /\ UNCHANGED <<apc, written, wpc, ri, shead, stail, ssize, sslot, snext, framediff, overrun>>
  BY DEF OnAckEOF, OnServerEOF
<1>3. wpc = "done"
  BY <1>1 DEF Closing
<1>4. sbuf' \in Seq({"block", "closing"}) /\ Len(sbuf') <= SBufCap
  <2>1. sbuf \in Seq({"block", "closing"}) /\ Len(sbuf) <= SBufCap /\ SBufCap \in Nat
    BY SenderConstants DEF TypeOK
  <2> QED BY <2>1 DEF OnAckEOF, OnServerEOF
<1>5. /\ dnet' \in Seq(DataNetPackets) /\ Len(dnet') <= NetCap
      /\ \A k \in 1 .. Len(dnet') :
           dnet'[k].type = "data" => \E j \in 1 .. Len(dnet) : dnet'[k] = dnet[j]
  <2>1. dnet \in Seq(DataNetPackets) /\ Len(dnet) <= NetCap
    BY DEF TypeOK
  <2>2. CASE dnet' = dnet
    BY <2>1, <2>2
  <2>3. CASE dnet' \in sendto_(dnet, AckEOFPacket)
    <3>1. AckEOFPacket \in DataNetPackets /\ AckEOFPacket.type # "data"
      BY DEF DataNetPackets, AckEOFPacket
    <3>2. /\ dnet' \in Seq(DataNetPackets) /\ Len(dnet') <= NetCap
          /\ \A k \in 1 .. Len(dnet') :
               dnet'[k] = AckEOFPacket \/ \E j \in 1 .. Len(dnet) : dnet'[k] = dnet[j]
      BY <2>1, <2>3, <3>1, SendAdds
    <3> QED BY <3>1, <3>2
  <2> QED BY <2>2, <2>3 DEF OnServerEOF
<1>6. TypeOK'
  BY <1>1, <1>2, <1>4, <1>5 DEF TypeOK, RTypeOK
<1>7. (ShortTransfer => Sliding)' /\ Ring'
  BY <1>2 DEF Sliding, FramesIn, ShortTransfer, Ring
<1>8. Queued' /\ Closing'
  BY <1>2, <1>3 DEF Queued, Closing, Writing
<1>9. Wire'
  BY <1>1, <1>2, <1>5 DEF Wire, ShortTransfer
<1>10. Window'
  BY <1>2 DEF Window, Windowed, WindowSound, WindowSize, WindowHead, Acking
<1> QED BY <1>6, <1>7, <1>8, <1>9, <1>10
-----------------------------------------------------------------------------
(***************************************************************************)
(* What the server answers, if it answers.                                 *)
(***************************************************************************)
LEMMA AnswerAdds ==
  ASSUME TypeOK, NEW p \in AckNetPackets, anet' \in answer(p)
  PROVE  /\ anet' \in Seq(AckNetPackets) /\ Len(anet') <= NetCap
         /\ \A i \in 1 .. Len(anet') : anet'[i] = p \/ \E j \in 1 .. Len(anet) : anet'[i] = anet[j]
<1>1. anet \in Seq(AckNetPackets) /\ Len(anet) <= NetCap
  BY DEF TypeOK
<1>2. CASE anet' = anet
  BY <1>1, <1>2
<1>3. CASE anet' \in sendto_(anet, p)
  BY <1>1, <1>3, SendAdds
<1> QED BY <1>2, <1>3 DEF answer

(***************************************************************************)
(* A cumulative ack is of a frame that was handed up, or of none.          *)
(***************************************************************************)
LEMMA AckNumberIs ==
  ASSUME NEW c \in Nat
  PROVE  /\ AckNumber(c) \in 0 .. SeqMod - 1
         /\ AckNumber(c) < c \/ AckNumber(c) = SeqMod - 1
<1>1. SeqMod \in Nat \ {0}
  BY GbnConstants, NetworkConstants
<1>2. AckNumber(c) \in 0 .. SeqMod - 1
  BY <1>1, ModRange DEF AckNumber
<1>3. CASE c = 0
  <2>1. (c - 1) % SeqMod = SeqMod - 1
    <3>1. /\ c - 1 \in Int /\ -1 \in Int /\ SeqMod - 1 \in 0 .. SeqMod - 1
          /\ c - 1 = (-1) * SeqMod + (SeqMod - 1)
      BY <1>1, <1>3
    <3> QED BY <1>1, <3>1, ModUnique
  <2> QED BY <1>2, <2>1 DEF AckNumber
<1>4. CASE c # 0 /\ c - 1 < SeqMod
  <2>1. (c - 1) % SeqMod = c - 1
    <3>1. c - 1 \in 0 .. SeqMod - 1
      BY <1>1, <1>4
    <3> QED BY <1>1, <3>1, ModSmall
  <2> QED BY <1>2, <2>1 DEF AckNumber
<1>5. CASE c - 1 >= SeqMod
  BY <1>1, <1>2, <1>5
<1> QED BY <1>1, <1>3, <1>4, <1>5

(***************************************************************************)
(* A packet of the network to the server, and the others.                  *)
(***************************************************************************)
LEMMA DataTaken ==
  ASSUME TransferInv, NEW i \in Receivable(dnet), dnet' = Without(dnet, i)
  PROVE  /\ dnet' \in Seq(DataNetPackets) /\ Len(dnet') <= NetCap
         /\ dnet[i] \in DataNetPackets /\ i \in 1 .. Len(dnet)
         /\ \A k \in 1 .. Len(dnet') : \E j \in 1 .. Len(dnet) : dnet'[k] = dnet[j]
<1>1. dnet \in Seq(DataNetPackets) /\ Len(dnet) <= NetCap
  BY DEF TransferInv, TypeOK
<1>2. /\ dnet' \in Seq(DataNetPackets) /\ Len(dnet') <= Len(dnet)
      /\ dnet[i] \in DataNetPackets /\ i \in 1 .. Len(dnet)
      /\ \A k \in 1 .. Len(dnet') : \E j \in 1 .. Len(dnet) : dnet'[k] = dnet[j]
  BY <1>1, TakeLeaves
<1>3. Len(dnet') <= NetCap
  BY <1>1, <1>2, NetworkConstants
<1> QED BY <1>2, <1>3

(***************************************************************************)
(* The reader of the server hands up only what was sent.                   *)
(***************************************************************************)
LEMMA OnlySent ==
  ASSUME TransferInv, NEW s \in SeqNums, s < snext, NEW d \in Payloads, OnData(s, d)
  PROVE  /\ \A i \in Slots : rslot'[i].init => rslot'[i].seq < snext
         /\ ShortTransfer => rcount' <= snext
         /\ rcount' \in Nat /\ rcount <= rcount'
<1> DEFINE slots == Stored(s, d)
<1>1. PICK n \in 0 .. DEFAULT_QUEUE_SIZE :
        RunLength(slots, n) /\ rslot' = Emptied(slots, n) /\ rcount' = rcount + n
  BY DEF OnData
<1>2. RTypeOK /\ snext \in Nat /\ rcount \in Nat /\ n \in Nat
  BY NumbersTyped DEF TransferInv, TypeOK
<1>3. slots \in [Slots -> FrameType]
  BY <1>2, StoredType
<1>4. ASSUME NEW i \in Slots, slots[i].init PROVE slots[i].seq < snext
  <2>1. CASE slots[i] = Frame(s, d)
    BY <2>1 DEF Frame
  <2>2. CASE slots[i] = rslot[i]
    BY <1>4, <2>2 DEF TransferInv, Wire
  <2>3. slots[i] = Frame(s, d) \/ slots[i] = rslot[i]
    BY <1>2 DEF Stored, RTypeOK
  <2> QED BY <2>1, <2>2, <2>3
<1> HIDE DEF slots
<1>5. ASSUME NEW i \in Slots, rslot'[i].init PROVE rslot'[i].seq < snext
  <2>1. slots[i] \in FrameType
    BY <1>3
  <2>2. CASE rslot'[i] = slots[i]
    BY <1>4, <1>5, <2>2
  <2>3. CASE rslot'[i] = [slots[i] EXCEPT !.init = FALSE]
    BY <1>5, <2>1, <2>3 DEF FrameType
  <2> QED BY <1>1, <2>2, <2>3 DEF Emptied
<1>6. ASSUME ShortTransfer PROVE rcount' <= snext
  <2>1. CASE n = 0
    BY <1>1, <1>2, <1>6, <2>1 DEF TransferInv, Wire
  <2>2. CASE n # 0
    <3>1. PICK k : k = n - 1
      OBVIOUS
    <3>2. k \in 0 .. n - 1 /\ k \in Nat
      BY <1>2, <2>2, <3>1
    <3>3. FramesIn(slots, rcount) /\ Sliding
      BY <1>2, <1>6, StoredInPlace DEF TransferInv, slots
    <3>4. slots[SlideIndex(k)].seq = rcount + k
      BY <1>1, <1>2, <1>3, <1>6, <3>2, <3>3, RunIsConsecutive
    <3>5. SlideIndex(k) \in Slots /\ slots[SlideIndex(k)].init
      BY <1>1, <1>2, <3>2, SlideIndexType DEF RunLength, Slides
    <3>6. rcount + k < snext
      BY <1>4, <3>4, <3>5
    <3> QED BY <1>1, <1>2, <3>1, <3>2, <3>6
  <2> QED BY <2>1, <2>2
<1> QED BY <1>1, <1>2, <1>5, <1>6

(***************************************************************************)
(* The server takes a data packet and acknowledges what it has.            *)
(***************************************************************************)
LEMMA ServerDataKeeps ==
  ASSUME TransferInv, UNCHANGED <<svars, seof>>, NEW i \in Receivable(dnet),
         dnet' = Without(dnet, i), raddr' \in 0 .. 2, dnet[i].type = "data",
         OnData(dnet[i].seq, dnet[i].data), anet' \in answer(AckPacket(AckNumber(rcount')))
  PROVE  TransferInv' /\ [RNext]_rvars
<1> USE DEF TransferInv, svars, windowvars
<1>1. /\ dnet' \in Seq(DataNetPackets) /\ Len(dnet') <= NetCap
      /\ dnet[i] \in DataNetPackets /\ i \in 1 .. Len(dnet)
      /\ \A k \in 1 .. Len(dnet') : \E j \in 1 .. Len(dnet) : dnet'[k] = dnet[j]
  BY DataTaken
<1>2. PICK s \in SeqNums, d \in Payloads : s = dnet[i].seq /\ d = dnet[i].data
  BY <1>1 DEF DataNetPackets, DataPacket, EOFPacket, AckEOFPacket, UninitializedPacket
<1>3. s < snext /\ OnData(s, d)
  BY <1>1, <1>2 DEF Wire
<1>4. [RNext]_rvars
  BY <1>3 DEF RNext
<1>5. RTypeOK /\ RTypeOK'
  BY <1>4, ReceiverTypeStep DEF TypeOK
<1>6. /\ \A k \in Slots : rslot'[k].init => rslot'[k].seq < snext
      /\ ShortTransfer => rcount' <= snext
      /\ rcount' \in Nat /\ rcount <= rcount'
  BY <1>3, OnlySent
<1>7. PICK a : a = AckNumber(rcount')
  OBVIOUS
<1>8. /\ a \in 0 .. SeqMod - 1 /\ (a < rcount' \/ a = SeqMod - 1)
      /\ anet' \in answer(AckPacket(a)) /\ AckPacket(a) \in AckNetPackets
  BY <1>6, <1>7, AckNumberIs DEF AckNetPackets
<1>9. /\ anet' \in Seq(AckNetPackets) /\ Len(anet') <= NetCap
      /\ \A k \in 1 .. Len(anet') :
           anet'[k] = AckPacket(a) \/ \E j \in 1 .. Len(anet) : anet'[k] = anet[j]
  BY <1>8, AnswerAdds
<1>10. TypeOK'
  BY <1>1, <1>5, <1>9 DEF TypeOK
<1>11. (ShortTransfer => Sliding)'
  BY <1>3, <1>5, OnDataSlides DEF ShortTransfer
<1>12. Queued' /\ Ring'
  BY DEF Queued, Ring, Writing
<1>13. Closing'
  <2>1. ropen' = ropen
    BY <1>3 DEF OnData
  <2>2. AckPacket(a).type = "ack"
    BY DEF AckPacket
  <2> QED BY <1>1, <1>9, <2>1, <2>2 DEF Closing
<1>14. Wire'
  <2>1. AckPacket(a).seq = a
    BY DEF AckPacket
  <2>2. ASSUME NEW k \in 1 .. Len(anet'), anet'[k].type = "ack"
        PROVE  anet'[k].seq < rcount' \/ anet'[k].seq = SeqMod - 1
    <3>1. CASE anet'[k] = AckPacket(a)
      BY <1>8, <2>1, <3>1
    <3>2. ASSUME NEW j \in 1 .. Len(anet), anet'[k] = anet[j]
          PROVE  anet'[k].seq < rcount' \/ anet'[k].seq = SeqMod - 1
      <4>1. anet[j] \in AckNetPackets /\ (anet[j].seq < rcount \/ anet[j].seq = SeqMod - 1)
        BY <2>2, <3>2 DEF TypeOK, Wire
      <4>2. anet[j].seq \in Int
        BY <2>2, <3>2, <4>1, NetworkConstants DEF AckNetPackets, AckPacket, EOFPacket, AckEOFPacket
      <4>3. rcount \in Nat
        BY NumbersTyped
      <4> QED BY <1>6, <3>2, <4>1, <4>2, <4>3
    <3> QED BY <1>9, <3>1, <3>2
  <2> QED BY <1>1, <1>6, <2>2 DEF Wire, ShortTransfer
<1>15. Window'
  <2> SUFFICES ASSUME WindowSound' PROVE Windowed'
    BY DEF Window
  <2>1. Windowed /\ WindowSize' = WindowSize /\ WindowHead' = WindowHead /\ (Acking' = Acking)
    BY DEF WindowSound, Window, WindowSize, WindowHead, Acking
  <2>2. WindowSize \in Int
    BY NumbersTyped DEF WindowSize
  <2>3. snext - WindowSize <= rcount'
    BY <1>6, <2>1, <2>2, NumbersTyped DEF Windowed
  <2> QED BY <2>1, <2>3 DEF Windowed
<1> QED BY <1>4, <1>10, <1>11, <1>12, <1>13, <1>14, <1>15

(***************************************************************************)
(* The other steps of the server: the EOF and its own EOF, and a packet    *)
(* that means nothing.                                                     *)
(***************************************************************************)
LEMMA ServerEndKeeps ==
  ASSUME TransferInv, UNCHANGED svars, raddr' \in 0 .. 2, seof' \in BOOLEAN,
         NEW p \in {AckEOFPacket, EOFPacket}, anet' \in answer(p) \/ UNCHANGED anet,
         dnet' \in Seq(DataNetPackets), Len(dnet') <= NetCap,
         \A k \in 1 .. Len(dnet') : \E j \in 1 .. Len(dnet) : dnet'[k] = dnet[j],
         OnEOF \/ UNCHANGED rvars,
         wpc # "done" => UNCHANGED <<anet, seof, rvars>>
  PROVE  TransferInv' /\ [RNext]_rvars
<1> USE DEF TransferInv, svars, windowvars
<1>1. p \in AckNetPackets /\ p.type # "ack"
  BY DEF AckNetPackets, EOFPacket, AckEOFPacket
<1>2. /\ anet' \in Seq(AckNetPackets) /\ Len(anet') <= NetCap
      /\ \A k \in 1 .. Len(anet') : anet'[k] = p \/ \E j \in 1 .. Len(anet) : anet'[k] = anet[j]
  <2>1. CASE anet' \in answer(p)
    BY <1>1, <2>1, AnswerAdds
  <2>2. CASE anet' = anet
    BY <2>2 DEF TypeOK
  <2> QED BY <2>1, <2>2
<1>3. [RNext]_rvars
  BY DEF RNext
<1>4. RTypeOK' /\ UNCHANGED <<rhead, rtail, rsize, rcount, rslot, delivered>>
  BY <1>3, ReceiverTypeStep DEF TypeOK, OnEOF, rvars
<1>5. TypeOK'
  BY <1>2, <1>4 DEF TypeOK
<1>6. (ShortTransfer => Sliding)' /\ Queued' /\ Ring'
  BY <1>4 DEF Sliding, FramesIn, ShortTransfer, Queued, Ring, Writing
<1>7. Closing'
  BY <1>2 DEF Closing, rvars
<1>8. Wire'
  BY <1>1, <1>2, <1>4 DEF Wire, ShortTransfer
<1>9. Window'
  BY <1>4 DEF Window, Windowed, WindowSound, WindowSize, WindowHead, Acking
<1> QED BY <1>3, <1>5, <1>6, <1>7, <1>8, <1>9

(***************************************************************************)
(* The server's reader and writer.                                         *)
(***************************************************************************)
LEMMA ServerKeeps ==
  ASSUME TransferInv, UNCHANGED svars, (ServerReceive /\ UNCHANGED seof) \/ ServerEOF
  PROVE  TransferInv' /\ [RNext]_rvars
<1>1. raddr \in 0 .. 2 /\ seof \in BOOLEAN /\ dnet \in Seq(DataNetPackets) /\ Len(dnet) <= NetCap
  BY DEF TransferInv, TypeOK
<1>2. CASE ServerReceive /\ UNCHANGED seof
  <2>1. PICK i \in Receivable(dnet) :
          /\ dnet' = Without(dnet, i)
          /\ raddr' = IF raddr < 2 THEN raddr + 1 ELSE 2
          /\ \/ /\ dnet[i].type = "data"
                /\ OnData(dnet[i].seq, dnet[i].data)
                /\ anet' \in answer(AckPacket(AckNumber(rcount')))
             \/ /\ dnet[i].type = "EOF"
                /\ OnEOF
                /\ anet' \in answer(AckEOFPacket)
             \/ /\ dnet[i].type = "uninitialized"
                /\ ropen
                /\ UNCHANGED <<rvars, anet>>
    BY <1>2 DEF ServerReceive
  <2>2. raddr' \in 0 .. 2
    BY <1>1, <2>1
  <2>3. /\ dnet' \in Seq(DataNetPackets) /\ Len(dnet') <= NetCap /\ i \in 1 .. Len(dnet)
        /\ \A k \in 1 .. Len(dnet') : \E j \in 1 .. Len(dnet) : dnet'[k] = dnet[j]
    BY <2>1, DataTaken
  <2>4. CASE /\ dnet[i].type = "data" /\ OnData(dnet[i].seq, dnet[i].data)
             /\ anet' \in answer(AckPacket(AckNumber(rcount')))
    BY <1>2, <2>1, <2>2, <2>4, ServerDataKeeps
  <2>5. CASE dnet[i].type = "EOF" /\ OnEOF /\ anet' \in answer(AckEOFPacket)
    <3>1. wpc = "done"
      BY <2>3, <2>5 DEF TransferInv, Closing
    <3> QED BY <1>1, <1>2, <2>2, <2>3, <2>5, <3>1, ServerEndKeeps
  <2>6. CASE dnet[i].type = "uninitialized" /\ UNCHANGED <<rvars, anet>>
    BY <1>1, <1>2, <2>2, <2>3, <2>6, ServerEndKeeps
  <2> QED BY <2>1, <2>4, <2>5, <2>6
<1>3. CASE ServerEOF
  <2>1. /\ ~ropen /\ seof' = TRUE /\ raddr' = raddr /\ anet' \in answer(EOFPacket)
        /\ UNCHANGED rvars /\ dnet' = dnet
    BY <1>3 DEF ServerEOF
  <2>2. wpc = "done"
    BY <2>1 DEF TransferInv, Closing
  <2> QED BY <1>1, <2>1, <2>2, ServerEndKeeps
<1> QED BY <1>2, <1>3
-----------------------------------------------------------------------------
(***************************************************************************)
(* The invariant holds before anything is written.                         *)
(***************************************************************************)
LEMMA TransferInit == Init => TransferInv
<1> SUFFICES ASSUME Init PROVE TransferInv
  OBVIOUS
<1> USE DEF Init, SInit, NetInit
<1>1. RInit /\ RTypeOK
  BY ReceiverTypeInit
<1>2. 0 % DEFAULT_QUEUE_SIZE = 0 /\ 0 % ByteMod = 0
  BY GbnConstants, ModSmall
<1>3. EmptyFrame \in FrameType /\ 0 \in Slots
  BY GbnConstants DEF EmptyFrame, FrameType, Slots
<1>4. TypeOK
  <2>1. <<>> \in Seq({"block", "closing"}) /\ <<>> \in Seq(DataNetPackets)
        /\ <<>> \in Seq(AckNetPackets) /\ Len(<<>>) = 0
    OBVIOUS
  <2>2. /\ 0 \in 0 .. ByteMod - 1 /\ 0 \in 0 .. NumPackets /\ 0 \in -1 .. DEFAULT_QUEUE_SIZE
        /\ 0 <= SBufCap /\ 0 <= NetCap
    BY GbnConstants, NetworkConstants, SenderConstants
  <2>3. sslot \in [Slots -> FrameType]
    BY <1>3
  <2>4. wpc \in WriterStates
    BY DEF WriterStates
  <2> QED BY <1>1, <1>3, <2>1, <2>2, <2>3, <2>4 DEF TypeOK
<1>5. Sliding
  BY <1>1, <1>2, GbnConstants DEF RInit, Sliding, FramesIn, EmptyFrame
<1>6. Queued /\ Closing
  BY <1>1 DEF Queued, Closing, Writing, RInit
<1>7. Ring /\ Wire
  BY <1>1, <1>2 DEF Ring, Wire, RInit, EmptyFrame
<1>8. Window
  <2>1. WindowSize = 0 /\ WindowHead = 0 /\ ~Acking
    BY <1>2 DEF WindowSize, WindowHead, Acking
  <2> QED BY <1>1, <1>2, <2>1, GbnConstants DEF Window, Windowed, RInit
<1> QED BY <1>4, <1>5, <1>6, <1>7, <1>8 DEF TransferInv

(***************************************************************************)
(* Every step of either side keeps it, and is one of the receiver or       *)
(* leaves the receiver alone.                                              *)
(***************************************************************************)
LEMMA TransferStep == TransferInv /\ [Next]_vars => TransferInv' /\ [RNext]_rvars
<1> SUFFICES ASSUME TransferInv, [Next]_vars PROVE TransferInv' /\ [RNext]_rvars
  OBVIOUS
<1>1. CASE (AppStep \/ WriterStep \/ ReaderStep) /\ UNCHANGED <<rvars, raddr, seof>>
  <2>1. CASE AppStep
    BY <1>1, <2>1, AppKeeps
  <2>2. CASE WriterStep
    BY <1>1, <2>2, MovesKeep, SendKeeps, CloseKeeps, ResendKeeps DEF WriterStep
  <2>3. CASE AckHead \/ AckSize \/ AckSignal
    BY <1>1, <2>3, AckingKeeps
  <2>4. CASE ClientReceive
    <3>1. PICK i \in Receivable(anet) :
            /\ anet' = Without(anet, i)
            /\ \/ anet[i].type = "ack" /\ OnAck(anet[i].seq) /\ UNCHANGED dnet
               \/ anet[i].type = "ack_EOF" /\ OnAckEOF /\ UNCHANGED dnet
               \/ anet[i].type = "EOF" /\ OnServerEOF
      BY <2>4 DEF ClientReceive
    <3>2. CASE anet[i].type = "ack" /\ OnAck(anet[i].seq) /\ UNCHANGED dnet
      BY <1>1, <3>1, <3>2, OnAckKeeps
    <3>3. CASE \/ anet[i].type = "ack_EOF" /\ OnAckEOF /\ UNCHANGED dnet
               \/ anet[i].type = "EOF" /\ OnServerEOF
      BY <1>1, <3>1, <3>3, OnEndKeeps
    <3> QED BY <3>1, <3>2, <3>3, <1>1
  <2> QED BY <1>1, <2>1, <2>2, <2>3, <2>4 DEF ReaderStep
<1>2. CASE ServerReceive /\ UNCHANGED <<svars, seof>>
  BY <1>2, ServerKeeps
<1>3. CASE ServerEOF /\ UNCHANGED svars
  BY <1>3, ServerKeeps
<1>4. CASE UNCHANGED vars
  <2> USE <1>4 DEF vars, svars, rvars, netvars, windowvars, TransferInv
  <2>1. TypeOK'
    BY DEF TypeOK, RTypeOK
  <2>2. (ShortTransfer => Sliding)' /\ Queued' /\ Closing'
    BY DEF Sliding, FramesIn, ShortTransfer, Queued, Closing, Writing
  <2>3. Ring' /\ Wire'
    BY DEF Ring, Wire, ShortTransfer
  <2>4. Window'
    BY DEF Window, Windowed, WindowSound, WindowSize, WindowHead, Acking
  <2> QED BY <2>1, <2>2, <2>3, <2>4
<1> QED BY <1>1, <1>2, <1>3, <1>4 DEF Next

(***************************************************************************)
(* The invariant gives what is said of the window.                         *)
(***************************************************************************)
LEMMA WindowIs == TransferInv => WindowExact /\ AckedIsDelivered
<1> SUFFICES ASSUME TransferInv, WindowSound
             PROVE  /\ WindowSize \in 0 .. DEFAULT_QUEUE_SIZE
                    /\ stail = (WindowHead + WindowSize) % DEFAULT_QUEUE_SIZE
                    /\ \A k \in 0 .. WindowSize - 1 :
                         sslot[FrameIndex(WindowHead, k)].seq = snext - WindowSize + k
                    /\ snext - WindowSize <= rcount
  BY DEF WindowExact, AckedIsDelivered
<1> DEFINE Q == DEFAULT_QUEUE_SIZE
<1>1. Windowed /\ TypeOK /\ Ring
  BY DEF TransferInv, Window
<1>2. PICK b, n : n = WindowSize /\ b = snext - WindowSize
  OBVIOUS
<1>3. n \in 0 .. Q /\ b \in Nat /\ b + n = snext /\ n \in Int /\ b \in Int /\ Q \in Nat \ {0}
  <2>1. n \in 0 .. Q /\ n <= snext
    BY <1>1, <1>2, NumbersTyped DEF Windowed, WindowSize, Acking
  <2> QED BY <1>1, <1>2, <2>1, NumbersTyped
<1>4. WindowHead = b % Q /\ b <= rcount
  BY <1>1, <1>2 DEF Windowed
<1>5. ASSUME NEW k \in Int PROVE (WindowHead + k) % Q = (b + k) % Q
  BY <1>3, <1>4, <1>5, ModAdd, Zenon
<1>6. stail = (WindowHead + n) % Q
  BY <1>1, <1>3, <1>5 DEF Ring
<1>7. ASSUME NEW k \in 0 .. n - 1 PROVE sslot[FrameIndex(WindowHead, k)].seq = b + k
  <2>1. b + k \in 0 .. snext - 1 /\ (b + k) + Q >= snext /\ k \in Int
    BY <1>3
  <2>2. sslot[(b + k) % Q] = Frame(b + k, "freed")
    BY <1>1, <2>1 DEF Ring
  <2>3. FrameIndex(WindowHead, k) = (b + k) % Q
    BY <1>5, <2>1 DEF FrameIndex
  <2> QED BY <2>2, <2>3 DEF Frame
<1> QED BY <1>2, <1>3, <1>4, <1>6, <1>7

(***************************************************************************)
(* The invariant holds throughout a transfer.                              *)
(***************************************************************************)
THEOREM TransferConsistent == Spec => []TransferInv
BY TransferInit, TransferStep, PTL DEF Spec

(***************************************************************************)
(* Both sockets keep their state in shape, over any network: bytes stay    *)
(* bytes, no buffer overflows and only packets of the protocol travel.     *)
(***************************************************************************)
THEOREM TransferTypeCorrect == Spec => []TypeOK
<1>1. TransferInv => TypeOK
  BY DEF TransferInv
<1> QED BY <1>1, TransferConsistent, PTL

(***************************************************************************)
(* Over any network the sending window is, until an ack overruns it,       *)
(* exactly the frames last sent, in their slots from the head to the tail. *)
(***************************************************************************)
THEOREM WindowStaysExact == Spec => []WindowExact
BY TransferConsistent, WindowIs, PTL

(***************************************************************************)
(* And no frame slides out of it that the receiver has not handed up.      *)
(***************************************************************************)
THEOREM ForgottenIsDelivered == Spec => []AckedIsDelivered
BY TransferConsistent, WindowIs, PTL

(***************************************************************************)
(* To the receiver a transfer is a network that hands it packets in some   *)
(* order: GbnTransfer implements GbnReceiver.                              *)
(***************************************************************************)
THEOREM TransferImplementsReceiver == Spec => RSpec
<1>1. Init => RInit
  BY DEF Init
<1> QED BY <1>1, TransferConsistent, TransferStep, PTL DEF Spec, RSpec

(***************************************************************************)
(* So a transfer that the head byte can count delivers every block once    *)
(* and in order, however its packets are lost, repeated or reordered.      *)
(***************************************************************************)
THEOREM TransferInOrder == Spec => []InOrder
BY TransferImplementsReceiver, DeliveryInOrder, PTL

(***************************************************************************)
(* And leaves no frame behind in the receive window.                       *)
(***************************************************************************)
THEOREM TransferStrandsNothing == Spec => []NoStrandedFrame
BY TransferImplementsReceiver, NothingStranded, PTL
-----------------------------------------------------------------------------
(***************************************************************************)
(* The clean network: it loses nothing, keeps the order, answers within    *)
(* the 50 ms of the writer's wait, and holds what the protocol can have in *)
(* flight.                                                                 *)
(***************************************************************************)
CleanNetwork == ~Unreliable /\ ~EarlyWakeups /\ NetCap > DEFAULT_QUEUE_SIZE

\* The frames the sender has forgotten, and the data packets in flight.
Forgotten == snext - WindowSize
InFlight == IF wpc = "done" THEN Len(dnet) - 1 ELSE Len(dnet)

\* The one frame that is ever sent twice: the first, whose ack had nowhere to
\* go, when no other followed it.
Repeated ==
  /\ wpc \in {"wait_on_read", "waiting"} /\ rpc = "recv"
  /\ snext = 1 /\ ssize = 1 /\ rcount = 1 /\ raddr = 1
  /\ Len(dnet) = 1 /\ anet = <<>>

\* What is in flight to the server: data in order, then the EOF.
Arriving ==
  /\ InFlight >= 0
  /\ \A i \in 1 .. InFlight :
       dnet[i].type = "data" /\ dnet[i].seq = (snext - InFlight) + (i - 1)
  /\ wpc = "done" => dnet[Len(dnet)].type = "EOF"
  /\ rcount + InFlight = snext \/ Repeated

\* It takes every frame as it comes, and the EOF after all of them.
InSequence ==
  /\ \A i \in Slots : ~rslot[i].init
  /\ ropen => Arriving
  /\ ~ropen => rcount = snext /\ wpc = "done"

\* Acks rise: each is of a frame that its predecessor did not acknowledge.
AcksRise ==
  /\ \A i \in 1 .. Len(anet) : anet[i].type = "ack" =>
       Forgotten + (i - 1) <= anet[i].seq /\ anet[i].seq < rcount
  /\ \A i, j \in 1 .. Len(anet) : i < j /\ anet[i].type = "ack" /\ anet[j].type = "ack" =>
       anet[i].seq + (j - i) <= anet[j].seq
  /\ ropen => \A i \in 1 .. Len(anet) : anet[i].type = "ack"

\* The last ack is of all that was handed up, once the server has an address.
LastAck ==
  ropen =>
    /\ raddr = 2 => IF anet = <<>> THEN Forgotten = rcount
                    ELSE anet[Len(anet)].seq = rcount - 1
    /\ raddr # 2 => anet = <<>> /\ Forgotten = 0 /\ rcount = raddr

\* The writer sleeps for a frame, or for a reader that is about to wake it; it
\* retransmits only the first frame.
Awake ==
  /\ wpc \in {"is_win_full_q", "wait_on_read", "waiting"} /\ ssize = 0 => rpc = "signal"
  /\ wpc \in {"timedout", "retransmit", "resend"} =>
       /\ dnet = <<>> /\ anet = <<>> /\ rpc = "recv"
       /\ snext = 1 /\ ssize = 1 /\ rcount = 1 /\ raddr = 1
       /\ wpc = "resend" => ri = 0

\* What is inductive besides TransferInv.
CleanInv ==
  /\ ~overrun /\ InSequence /\ Awake
  /\ apc # "closed" => AcksRise /\ LastAck
  /\ apc = "closed" => rpc = "gone"

(***************************************************************************)
(* Without loss and overtaking recvfrom takes the first packet, and the    *)
(* others move up.                                                         *)
(***************************************************************************)
LEMMA FirstTaken ==
  ASSUME CleanNetwork, NEW S, NEW net \in Seq(S), NEW i \in Receivable(net)
  PROVE  /\ i = 1 /\ Len(net) \in Nat \ {0}
         /\ Without(net, i) \in Seq(S) /\ Len(Without(net, i)) = Len(net) - 1
         /\ \A k \in 1 .. Len(net) - 1 : Without(net, i)[k] = net[k + 1]
<1>1. i = 1 /\ i \in 1 .. Len(net) /\ Len(net) \in Nat
  BY DEF Receivable, CleanNetwork
<1>2. PICK a, b : a = SubSeq(net, 1, 1 - 1) /\ b = SubSeq(net, 1 + 1, Len(net))
  OBVIOUS
<1>3. /\ a \in Seq(S) /\ Len(a) = 0
      /\ b \in Seq(S) /\ Len(b) = Len(net) - 1
      /\ \A k \in 1 .. Len(net) - 1 : b[k] = net[k + 1]
  <2>1. a = SubSeq(net, 1, 0) /\ b = SubSeq(net, 2, Len(net)) /\ net # <<>>
    BY <1>1, <1>2
  <2>2. b = Tail(net)
    BY <2>1, TailIsSubSeq
  <2>3. a \in Seq(S) /\ Len(a) = 0
    BY <2>1
  <2>4. b \in Seq(S) /\ Len(b) = Len(net) - 1 /\ \A k \in 1 .. Len(b) : b[k] = net[k + 1]
    BY <2>1, <2>2, HeadTailProperties, Zenon
  <2> QED BY <2>3, <2>4
<1>4. /\ a \o b \in Seq(S) /\ Len(a \o b) = Len(b)
      /\ \A k \in 1 .. Len(b) : (a \o b)[k] = b[k]
  BY <1>3
<1>5. Without(net, i) = a \o b
  BY <1>1, <1>2 DEF Without
<1> QED BY <1>1, <1>3, <1>4, <1>5

(***************************************************************************)
(* What is sent is in flight, behind what was sent before, as long as the  *)
(* network has room for it.                                                *)
(***************************************************************************)
LEMMA SendAppends ==
  ASSUME CleanNetwork, NEW S, NEW net \in Seq(S), NEW p \in S, NEW n \in sendto_(net, p),
         Len(net) < NetCap
  PROVE  /\ n \in Seq(S) /\ Len(n) = Len(net) + 1 /\ n[Len(net) + 1] = p
         /\ \A k \in 1 .. Len(net) : n[k] = net[k]
<1>1. n = Append(net, p)
  <2>1. Len(net) # NetCap /\ ~Unreliable
    BY NetworkConstants DEF CleanNetwork
  <2> QED BY <2>1 DEF sendto_
<1> QED BY <1>1

(***************************************************************************)
(* The frame the receiver waits for goes straight through an empty window, *)
(* and one that it had before goes nowhere.                                *)
(***************************************************************************)
LEMMA StraightThrough ==
  ASSUME RTypeOK, \A i \in Slots : ~rslot[i].init,
         NEW s \in SeqNums, NEW d \in Payloads, s <= rcount, OnData(s, d)
  PROVE  /\ rcount' = IF s = rcount THEN rcount + 1 ELSE rcount
         /\ \A i \in Slots : ~rslot'[i].init
         /\ \E blocks \in Seq(Block) :
              /\ delivered' = delivered \o blocks
              /\ Len(blocks) = rcount' - rcount
              /\ \A i \in 1 .. Len(blocks) : blocks[i].seq = rcount /\ blocks[i].data = d
<1> DEFINE slots == Stored(s, d)
<1>1. PICK n \in 0 .. DEFAULT_QUEUE_SIZE :
        /\ RunLength(slots, n) /\ rslot' = Emptied(slots, n) /\ rcount' = rcount + n
        /\ delivered' = delivered \o Blocks(slots, n)
  BY DEF OnData
<1>2. rcount \in Nat /\ n \in Nat /\ DEFAULT_QUEUE_SIZE \in Nat \ {0} /\ s \in Nat
  BY GbnConstants DEF RTypeOK, SeqNums
<1>3. slots \in [Slots -> FrameType]
  BY StoredType
<1>4. SlideIndex(0) \in Slots /\ SlideIndex(1) \in Slots
  BY SlideIndexType
<1>5. ASSUME NEW i \in Slots, rslot'[i].init
      PROVE  slots[i].init /\ \A k \in 0 .. n - 1 : i # SlideIndex(k)
  <2>1. slots[i] \in FrameType
    BY <1>3
  <2> HIDE DEF slots
  <2>2. rslot'[i] = IF \E k \in 0 .. n - 1 : i = SlideIndex(k)
                    THEN [slots[i] EXCEPT !.init = FALSE] ELSE slots[i]
    BY <1>1 DEF Emptied
  <2> QED BY <1>5, <2>1, <2>2 DEF FrameType
<1>6. /\ Blocks(slots, n) \in Seq(Block) /\ Len(Blocks(slots, n)) = n
      /\ delivered' = delivered \o Blocks(slots, n) /\ rcount' - rcount = n
  BY <1>1, <1>2, <1>3, BlocksType
<1>7. n > 0 => Slides(slots, 0)
  BY <1>1, <1>2 DEF RunLength
<1>8. CASE s = rcount
  <2>1. s - rcount = 0 /\ Accepts(s)
    BY <1>2, <1>8 DEF Accepts
  <2>2. SlideIndex(0) = FrameIndex(rhead, 0)
    <3>1. rhead \in 0 .. ByteMod - 1 /\ ByteMod \in Nat \ {0} /\ rhead + 0 = rhead
      BY GbnConstants DEF RTypeOK
    <3>2. rhead % ByteMod = rhead
      BY <3>1, ModSmall
    <3> QED BY <3>1, <3>2 DEF SlideIndex, HeadAfter
  <2>3. slots = [rslot EXCEPT ![SlideIndex(0)] = Frame(s, d)]
    BY <2>1, <2>2 DEF Stored
  <2>4. slots[SlideIndex(0)].init /\ \A i \in Slots : slots[i].init => i = SlideIndex(0)
    BY <1>4, <2>3 DEF Frame, RTypeOK
  <2> HIDE DEF slots
  <2>5. Slides(slots, 0)
    BY <2>4 DEF Slides
  <2>6. n # 0
    BY <1>1, <1>2, <2>5 DEF RunLength
  <2>7. ~(n > 1)
    <3> SUFFICES ASSUME n > 1 PROVE FALSE
      OBVIOUS
    <3>1. 1 \in 0 .. n - 1 /\ 0 \in 0 .. 1 - 1
      BY <1>2
    <3>2. slots[SlideIndex(1)].init /\ SlideIndex(0) # SlideIndex(1)
      BY <1>1, <3>1 DEF RunLength, Slides
    <3> QED BY <1>4, <2>4, <3>2
  <2>8. n = 1 /\ 0 \in 0 .. n - 1
    BY <1>2, <2>6, <2>7
  <2>9. slots[SlideIndex(0)].seq = rcount /\ slots[SlideIndex(0)].data = d
    BY <1>4, <1>8, <2>3 DEF Frame, RTypeOK
  <2>10. \A i \in 1 .. n : Blocks(slots, n)[i].seq = rcount /\ Blocks(slots, n)[i].data = d
    BY <2>8, <2>9 DEF Blocks
  <2> QED BY <1>1, <1>5, <1>6, <1>8, <2>4, <2>8, <2>10
<1>9. CASE s # rcount
  <2>1. ~Accepts(s)
    BY <1>2, <1>9 DEF Accepts
  <2>2. slots = rslot
    BY <2>1 DEF Stored
  <2>3. n = 0
    BY <1>2, <1>4, <1>7, <2>2 DEF Slides
  <2>4. \A i \in 1 .. n : Blocks(slots, n)[i].seq = rcount /\ Blocks(slots, n)[i].data = d
    <3>1. \A i \in 1 .. n : FALSE
      BY <2>3
    <3> QED BY <3>1
  <2>5. rcount' = rcount /\ \A i \in Slots : ~rslot'[i].init
    BY <1>1, <1>2, <1>5, <2>2, <2>3
  <2> HIDE DEF slots
  <2> QED BY <1>6, <1>9, <2>4, <2>5
<1> QED BY <1>8, <1>9

(***************************************************************************)
(* What the invariants say in numbers: the sender has forgotten no more    *)
(* than the server has handed up, which is no more than was sent, and all  *)
(* of it fits the window.                                                  *)
(***************************************************************************)
LEMMA CleanNumbers ==
  ASSUME TransferInv, CleanInv
  PROVE  /\ Len(dnet) \in Nat /\ Len(anet) \in Nat /\ rcount <= snext
         /\ ropen => InFlight \in Nat /\ InFlight <= snext
         /\ wpc # "done" => ropen /\ apc # "closed"
         /\ rpc # "gone" => apc # "closed"
         /\ apc # "closed" =>
              /\ Windowed /\ WindowSize \in 0 .. DEFAULT_QUEUE_SIZE
              /\ Forgotten \in Nat /\ Forgotten <= rcount
              /\ snext - Forgotten = WindowSize /\ snext - Forgotten <= DEFAULT_QUEUE_SIZE
<1>1. /\ dnet \in Seq(DataNetPackets) /\ anet \in Seq(AckNetPackets)
      /\ snext \in Nat /\ rcount \in Nat
  BY NumbersTyped DEF TransferInv, TypeOK
<1>2. Len(dnet) \in Nat /\ Len(anet) \in Nat
  BY <1>1
<1>3. /\ ropen => InFlight \in Nat /\ InFlight <= snext
      /\ rcount <= snext
  <2>1. CASE ropen
    <3>1. InFlight \in Int /\ InFlight >= 0
      BY <1>2, <2>1 DEF CleanInv, InSequence, Arriving, InFlight
    <3>2. CASE rcount + InFlight = snext
      BY <1>1, <3>1, <3>2
    <3>3. CASE Repeated
      BY <3>1, <3>3 DEF Repeated, InFlight
    <3> QED BY <2>1, <3>1, <3>2, <3>3 DEF CleanInv, InSequence, Arriving
  <2>2. CASE ~ropen
    BY <1>1, <2>2 DEF CleanInv, InSequence
  <2> QED BY <2>1, <2>2
<1>4. /\ wpc # "done" => ropen /\ apc # "closed"
      /\ rpc # "gone" => apc # "closed"
  BY DEF CleanInv, TransferInv, Closing
<1>5. ASSUME apc # "closed"
      PROVE  /\ Windowed /\ WindowSize \in 0 .. DEFAULT_QUEUE_SIZE
             /\ Forgotten \in Nat /\ Forgotten <= rcount
             /\ snext - Forgotten = WindowSize /\ snext - Forgotten <= DEFAULT_QUEUE_SIZE
  <2>1. WindowSound
    BY <1>5 DEF WindowSound, CleanInv
  <2>2. PICK n : n = WindowSize
    OBVIOUS
  <2>3. n \in 0 .. DEFAULT_QUEUE_SIZE /\ snext - n <= rcount /\ Windowed /\ n <= snext
    BY <2>1, <2>2, WindowIs DEF WindowExact, AckedIsDelivered, TransferInv, Window, Windowed
  <2> QED BY <1>1, <2>2, <2>3, GbnConstants DEF Forgotten
<1> QED BY <1>2, <1>3, <1>4, <1>5

(***************************************************************************)
(* A step of the client that neither sends nor touches the window.         *)
(***************************************************************************)
LEMMA QuietClean ==
  ASSUME TransferInv, CleanInv, Awake', Repeated => Repeated',
         UNCHANGED <<windowvars, framediff, overrun, netvars, rvars, raddr>>,
         wpc' = "done" <=> wpc = "done",
         UNCHANGED rpc \/ (apc' = "closed" /\ rpc' = "gone"),
         apc' # "closed" => apc # "closed",
         apc' = "closed" => rpc' = "gone"
  PROVE  CleanInv'
<1> USE DEF CleanInv, windowvars, netvars, rvars
<1>1. InFlight' = InFlight
  BY DEF InFlight
<1>2. ropen => Arriving'
  BY <1>1 DEF InSequence, Arriving
<1>3. InSequence'
  BY <1>2 DEF InSequence
<1>4. ASSUME apc' # "closed" PROVE AcksRise' /\ LastAck'
  <2>1. Forgotten' = Forgotten /\ AcksRise /\ LastAck
    BY <1>4 DEF Forgotten, WindowSize
  <2> QED BY <2>1 DEF AcksRise, LastAck
<1> QED BY <1>3, <1>4

(***************************************************************************)
(* The application's steps are of that kind.                               *)
(***************************************************************************)
LEMMA AppClean ==
  ASSUME TransferInv, CleanInv, UNCHANGED <<rvars, raddr, seof>>, AppStep
  PROVE  CleanInv'
<1>1. /\ UNCHANGED <<windowvars, wpc, ri, framediff, overrun, netvars>>
      /\ \/ UNCHANGED rpc /\ apc' # "closed" /\ apc = "open"
         \/ apc' = "closed" /\ rpc' = "gone" /\ wpc = "done"
  BY DEF AppStep, gbn_socket_write, gbn_socket_close, JoinWriter
<1>2. Awake'
  BY <1>1 DEF Awake, CleanInv, windowvars, netvars, rvars
<1>3. Repeated => Repeated'
  BY <1>1 DEF Repeated, windowvars, netvars, rvars
<1>4. /\ wpc' = "done" <=> wpc = "done"
      /\ UNCHANGED rpc \/ (apc' = "closed" /\ rpc' = "gone")
      /\ apc' # "closed" => apc # "closed"
      /\ apc' = "closed" => rpc' = "gone"
  BY <1>1
<1> QED BY <1>1, <1>2, <1>3, <1>4, QuietClean

(***************************************************************************)
(* The timer expires with nothing in flight: then the first frame is the   *)
(* only one, and its ack had nowhere to go.                                *)
(***************************************************************************)
LEMMA OnlyTheFirst ==
  ASSUME TransferInv, CleanInv, wpc = "waiting", NothingInFlight
  PROVE  snext = 1 /\ ssize = 1 /\ rcount = 1 /\ raddr = 1
<1>1. dnet = <<>> /\ anet = <<>> /\ rpc = "recv" /\ Len(dnet) = 0
  BY DEF NothingInFlight
<1>2. /\ ropen /\ apc # "closed" /\ Forgotten = snext - ssize /\ WindowSize = ssize
      /\ snext \in Nat /\ ssize \in Nat /\ rcount \in Nat
  BY <1>1, CleanNumbers, NumbersTyped DEF Forgotten, WindowSize, TransferInv
<1>3. rcount = snext
  <2>1. InFlight = 0 /\ ~Repeated
    BY <1>1 DEF InFlight, Repeated
  <2> QED BY <1>2, <2>1 DEF CleanInv, InSequence, Arriving
<1>4. ssize # 0
  BY <1>1 DEF CleanInv, Awake
<1>5. raddr \in 0 .. 2 /\ LastAck
  BY <1>2 DEF CleanInv, TransferInv, TypeOK
<1>6. raddr # 2
  BY <1>1, <1>2, <1>3, <1>4, <1>5 DEF LastAck
<1>7. snext - ssize = 0 /\ rcount = raddr
  BY <1>2, <1>5, <1>6 DEF LastAck
<1> QED BY <1>2, <1>3, <1>4, <1>5, <1>6, <1>7

(***************************************************************************)
(* The writer moves without sending.                                       *)
(***************************************************************************)
LEMMA MovesClean ==
  ASSUME CleanNetwork, TransferInv, CleanInv, UNCHANGED <<rvars, raddr, seof>>,
         \/ window_empty_q \/ block_on_queue \/ is_win_full_q \/ wait_on_read
         \/ TimerExpires \/ SpuriousWakeup \/ AfterWait \/ retransmit
         \/ send_packet_closing
  PROVE  CleanInv'
<1>1. /\ UNCHANGED <<apc, windowvars, rpc, framediff, overrun, netvars>>
      /\ wpc' # "done" /\ wpc # "done"
  BY DEF window_empty_q, block_on_queue, is_win_full_q, wait_on_read, TimerExpires,
         SpuriousWakeup, AfterWait, retransmit, send_packet_closing, Goto
<1>2. ~SpuriousWakeup /\ (TimerExpires => NothingInFlight)
  BY DEF CleanNetwork, SpuriousWakeup, TimerExpires
<1>3. CASE TimerExpires
  <2>1. /\ wpc = "waiting" /\ wpc' = "timedout" /\ NothingInFlight
        /\ snext = 1 /\ ssize = 1 /\ rcount = 1 /\ raddr = 1
    BY <1>2, <1>3, OnlyTheFirst DEF TimerExpires, Goto
  <2>2. Awake'
    BY <1>1, <2>1 DEF Awake, NothingInFlight, windowvars, netvars, rvars
  <2>3. ~Repeated
    <3>1. Len(<<>>) = 0
      OBVIOUS
    <3> QED BY <2>1, <3>1 DEF Repeated, NothingInFlight
  <2> QED BY <1>1, <2>2, <2>3, QuietClean DEF CleanInv
<1>4. CASE retransmit
  <2>1. /\ wpc = "retransmit" /\ ssize = 1 /\ snext = 1 /\ rpc = "recv"
    BY <1>4 DEF retransmit, Goto, CleanInv, Awake
  <2>2. wpc' = "resend" /\ ri' = shead
    BY <1>4, <2>1 DEF retransmit, Goto
  <2>3. shead = 0
    <3>1. Windowed /\ shead \in Nat /\ DEFAULT_QUEUE_SIZE \in Nat \ {0}
      BY <2>1, CleanNumbers, NumbersTyped DEF TransferInv
    <3>2. shead < DEFAULT_QUEUE_SIZE /\ shead % DEFAULT_QUEUE_SIZE = (1 - 1) % DEFAULT_QUEUE_SIZE
      BY <2>1, <3>1 DEF Windowed, WindowHead, WindowSize
    <3>3. shead \in 0 .. DEFAULT_QUEUE_SIZE - 1 /\ 0 \in 0 .. DEFAULT_QUEUE_SIZE - 1 /\ 1 - 1 = 0
      BY <3>1, <3>2
    <3> QED BY <3>1, <3>2, <3>3, ModSmall
  <2>4. Awake'
    BY <1>1, <2>1, <2>2, <2>3 DEF CleanInv, Awake, windowvars, netvars, rvars
  <2>5. ~Repeated
    BY <2>1 DEF Repeated
  <2> QED BY <1>1, <2>4, <2>5, QuietClean DEF CleanInv
<1>5. CASE \/ window_empty_q \/ block_on_queue \/ is_win_full_q \/ wait_on_read
           \/ AfterWait \/ send_packet_closing
  <2>1. \/ wpc = "window_empty_q" /\ wpc' = "is_win_full_q" /\ ssize # 0
        \/ wpc' \in {"block_on_queue", "send_packet", "window_empty_q", "close_connection"}
           /\ wpc \notin {"wait_on_read", "waiting"}
        \/ wpc = "is_win_full_q" /\ wpc' = "wait_on_read"
        \/ wpc = "wait_on_read" /\ wpc' = "waiting"
        \/ wpc = "timedout" /\ wpc' = "retransmit"
    BY <1>5 DEF window_empty_q, block_on_queue, is_win_full_q, wait_on_read, AfterWait,
                send_packet_closing, Goto
  <2>2. Awake'
    BY <1>1, <2>1 DEF CleanInv, Awake, windowvars, netvars, rvars
  <2>3. Repeated => Repeated'
    BY <1>1, <2>1 DEF Repeated, windowvars, netvars, rvars
  <2> QED BY <1>1, <2>2, <2>3, QuietClean DEF CleanInv
<1> QED BY <1>2, <1>3, <1>4, <1>5

-----------------------------------------------------------------------------
(***************************************************************************)
(* send_packet: the packet is in flight behind the others, and the window  *)
(* forgets nothing.                                                        *)
(***************************************************************************)
LEMMA SendClean ==
  ASSUME CleanNetwork, TransferInv, TransferInv', CleanInv,
         UNCHANGED <<rvars, raddr, seof>>, send_packet
  PROVE  CleanInv'
<1>1. /\ wpc = "send_packet" /\ wpc' = "is_win_full_q" /\ ~Acking
      /\ ssize' = (ssize + 1) % ByteMod /\ snext' = (snext + 1) % SeqMod
      /\ dnet' \in sendto_(dnet, DataPacket(snext, "intact"))
      /\ UNCHANGED <<apc, rpc, framediff, overrun, anet>>
      /\ UNCHANGED <<rcount, rslot, ropen, raddr>>
  BY DEF send_packet, Goto, WindowLocked, Acking, rvars
<1>2. /\ ropen /\ apc # "closed" /\ Windowed /\ InFlight = Len(dnet) /\ WindowSize = ssize
      /\ InFlight \in Nat /\ ~Repeated
  BY <1>1, CleanNumbers DEF InFlight, WindowSize, Acking, Repeated
<1>3. /\ snext \in Nat /\ ssize \in Nat /\ ByteMod \in Nat \ {0} /\ SeqMod \in Nat \ {0}
      /\ rcount \in Nat /\ DEFAULT_QUEUE_SIZE \in Nat /\ NetCap \in Nat
      /\ snext + 1 \in 0 .. SeqMod - 1 /\ ssize < DEFAULT_QUEUE_SIZE
      /\ ssize + 1 \in 0 .. ByteMod - 1
  <2>1. ssize < DEFAULT_QUEUE_SIZE
    BY <1>1, <1>2 DEF Windowed
  <2> QED BY <2>1, NumbersTyped, NetworkConstants DEF TransferInv
<1>4. snext' = snext + 1 /\ ssize' = ssize + 1
  BY <1>1, <1>3, ModSmall
<1>5. rcount + InFlight = snext /\ snext - ssize <= rcount
  BY <1>2 DEF CleanInv, InSequence, Arriving, Windowed
<1>6. Len(dnet) < NetCap
  BY <1>2, <1>3, <1>5 DEF CleanNetwork
<1>7. DataPacket(snext, "intact") \in DataNetPackets /\ dnet \in Seq(DataNetPackets)
  <2>1. snext \in SeqNums
    <3>1. snext' \in 0 .. NumPackets
      BY DEF TransferInv, TypeOK
    <3> QED BY <1>3, <1>4, <3>1, GbnConstants DEF SeqNums
  <2> QED BY <2>1 DEF DataNetPackets, Payloads, TransferInv, TypeOK
<1>8. /\ Len(dnet') = Len(dnet) + 1 /\ dnet'[Len(dnet) + 1] = DataPacket(snext, "intact")
      /\ \A k \in 1 .. Len(dnet) : dnet'[k] = dnet[k]
  BY <1>1, <1>6, <1>7, SendAppends
<1>9. InFlight' = InFlight + 1 /\ Forgotten' = Forgotten
  BY <1>1, <1>2, <1>3, <1>4, <1>8 DEF InFlight, Forgotten, WindowSize, Acking
<1>10. Arriving'
  <2>1. ASSUME NEW i \in 1 .. InFlight + 1
        PROVE  dnet'[i].type = "data" /\ dnet'[i].seq = (snext' - InFlight') + (i - 1)
    <3>1. CASE i = Len(dnet) + 1
      <4>1. dnet'[i].type = "data" /\ dnet'[i].seq = snext
        BY <1>8, <3>1 DEF DataPacket
      <4> QED BY <1>2, <1>3, <1>4, <1>9, <3>1, <4>1
    <3>2. CASE i \in 1 .. Len(dnet)
      <4>1. dnet[i].type = "data" /\ dnet[i].seq = (snext - InFlight) + (i - 1)
        BY <1>2, <3>2 DEF CleanInv, InSequence, Arriving
      <4>2. snext' - InFlight' = snext - InFlight
        BY <1>2, <1>3, <1>4, <1>9
      <4> QED BY <1>8, <3>2, <4>1, <4>2
    <3> QED BY <1>2, <3>1, <3>2
  <2>2. rcount + (InFlight + 1) = snext + 1 /\ InFlight + 1 >= 0
    BY <1>2, <1>3, <1>5
  <2> QED BY <1>1, <1>4, <1>9, <2>1, <2>2 DEF Arriving
<1>11. InSequence'
  BY <1>1, <1>2, <1>10 DEF CleanInv, InSequence
<1>12. AcksRise' /\ LastAck'
  BY <1>1, <1>2, <1>9 DEF CleanInv, AcksRise, LastAck
<1>13. Awake'
  BY <1>1, <1>3, <1>4 DEF Awake
<1> QED BY <1>1, <1>2, <1>11, <1>12, <1>13 DEF CleanInv

(***************************************************************************)
(* close_connection: the EOF is behind all data.                           *)
(***************************************************************************)
LEMMA CloseClean ==
  ASSUME CleanNetwork, TransferInv, CleanInv, UNCHANGED <<rvars, raddr, seof>>, close_connection
  PROVE  CleanInv'
<1>1. /\ wpc = "close_connection" /\ wpc' = "done" /\ dnet' \in sendto_(dnet, EOFPacket)
      /\ UNCHANGED <<apc, windowvars, rpc, framediff, overrun, anet>>
      /\ UNCHANGED <<rcount, rslot, ropen, raddr>>
  BY DEF close_connection, Goto, rvars
<1>2. /\ ropen /\ apc # "closed" /\ InFlight = Len(dnet) /\ InFlight \in Nat /\ ~Repeated
      /\ Forgotten <= rcount /\ snext - Forgotten <= DEFAULT_QUEUE_SIZE /\ Forgotten \in Nat
      /\ snext \in Nat /\ rcount \in Nat /\ DEFAULT_QUEUE_SIZE \in Nat /\ NetCap \in Nat
  BY <1>1, CleanNumbers, NumbersTyped, NetworkConstants DEF InFlight, Repeated, TransferInv
<1>3. rcount + InFlight = snext
  BY <1>2 DEF CleanInv, InSequence, Arriving
<1>4. Len(dnet) < NetCap
  BY <1>2, <1>3 DEF CleanNetwork
<1>5. EOFPacket \in DataNetPackets /\ dnet \in Seq(DataNetPackets)
  BY DEF DataNetPackets, TransferInv, TypeOK
<1>6. /\ Len(dnet') = Len(dnet) + 1 /\ dnet'[Len(dnet) + 1] = EOFPacket
      /\ \A k \in 1 .. Len(dnet) : dnet'[k] = dnet[k]
  BY <1>1, <1>4, <1>5, SendAppends
<1>7. InFlight' = InFlight
  BY <1>1, <1>2, <1>6 DEF InFlight
<1>8. dnet'[Len(dnet')].type = "EOF"
  BY <1>6 DEF EOFPacket
<1>9. Arriving'
  <2>1. \A i \in 1 .. InFlight :
          dnet'[i].type = "data" /\ dnet'[i].seq = (snext' - InFlight') + (i - 1)
    BY <1>1, <1>2, <1>6, <1>7 DEF CleanInv, InSequence, Arriving, windowvars
  <2> QED BY <1>1, <1>2, <1>3, <1>7, <1>8, <2>1 DEF Arriving, windowvars
<1>10. InSequence'
  BY <1>1, <1>2, <1>9 DEF CleanInv, InSequence
<1>11. Forgotten' = Forgotten
  BY <1>1 DEF Forgotten, WindowSize, windowvars
<1>12. AcksRise' /\ LastAck'
  BY <1>1, <1>2, <1>11 DEF CleanInv, AcksRise, LastAck
<1>13. Awake'
  BY <1>1 DEF Awake
<1> QED BY <1>1, <1>2, <1>10, <1>12, <1>13 DEF CleanInv

(***************************************************************************)
(* The loop of retransmit sends the first frame once.                      *)
(***************************************************************************)
LEMMA ResendClean ==
  ASSUME CleanNetwork, TransferInv, CleanInv, UNCHANGED <<rvars, raddr, seof>>, resend
  PROVE  CleanInv'
<1>1. /\ wpc = "resend" /\ ri = 0 /\ dnet = <<>> /\ anet = <<>> /\ rpc = "recv"
      /\ snext = 1 /\ ssize = 1 /\ rcount = 1 /\ raddr = 1
  BY DEF resend, Goto, CleanInv, Awake
<1>2. /\ DEFAULT_QUEUE_SIZE \in Nat \ {0} /\ 0 \in Slots /\ 0 % DEFAULT_QUEUE_SIZE = 0
      /\ 0 < NetCap
  BY GbnConstants, NetworkConstants, ModSmall DEF Slots
<1>3. sslot[0] = Frame(0, "freed") /\ stail = NextSlot(0)
  <2>1. 0 \in 0 .. snext - 1 /\ 0 + DEFAULT_QUEUE_SIZE >= snext /\ 0 + 1 = snext
    BY <1>1, <1>2
  <2> QED BY <1>2, <2>1 DEF TransferInv, Ring, NextSlot
<1>4. /\ wpc' = "wait_on_read" /\ dnet' \in sendto_(dnet, DataPacket(0, "freed"))
      /\ UNCHANGED <<apc, windowvars, rpc, framediff, overrun, anet>>
      /\ UNCHANGED <<rcount, rslot, ropen, raddr>>
  BY <1>1, <1>2, <1>3 DEF resend, Goto, Frame, rvars
<1>5. DataPacket(0, "freed") \in DataNetPackets /\ dnet \in Seq(DataNetPackets) /\ Len(dnet) = 0
  <2>1. 0 \in SeqNums
    <3>1. snext \in 0 .. NumPackets
      BY DEF TransferInv, TypeOK
    <3> QED BY <1>1, <3>1, GbnConstants DEF SeqNums
  <2> QED BY <1>1, <2>1 DEF DataNetPackets, Payloads, TransferInv, TypeOK
<1>6. Len(dnet') = 1 /\ dnet'[1] = DataPacket(0, "freed")
  <2>1. Len(dnet) < NetCap
    BY <1>2, <1>5
  <2>2. PICK p : p = DataPacket(0, "freed")
    OBVIOUS
  <2>3. p \in DataNetPackets /\ dnet \in Seq(DataNetPackets) /\ dnet' \in sendto_(dnet, p)
    BY <1>4, <1>5, <2>2
  <2>4. Len(dnet') = Len(dnet) + 1 /\ dnet'[Len(dnet) + 1] = p
    BY <2>1, <2>3, SendAppends
  <2> QED BY <1>5, <2>2, <2>4
<1>7. InFlight' = 1 /\ dnet'[1].type = "data" /\ dnet'[1].seq = 0
  BY <1>4, <1>6 DEF InFlight, DataPacket
<1>8. Repeated'
  BY <1>1, <1>4, <1>6 DEF Repeated, windowvars
<1>9. Arriving'
  <2>1. \A i \in 1 .. 1 : i = 1
    OBVIOUS
  <2> QED BY <1>1, <1>4, <1>7, <1>8, <2>1 DEF Arriving, windowvars
<1>10. ropen /\ apc # "closed"
  BY <1>1, CleanNumbers
<1>11. InSequence'
  BY <1>4, <1>9, <1>10 DEF CleanInv, InSequence
<1>12. Forgotten' = Forgotten
  BY <1>4 DEF Forgotten, WindowSize, windowvars
<1>13. AcksRise' /\ LastAck'
  BY <1>4, <1>10, <1>12 DEF CleanInv, AcksRise, LastAck
<1>14. Awake'
  BY <1>1, <1>4 DEF Awake, windowvars
<1> QED BY <1>4, <1>10, <1>11, <1>13, <1>14 DEF CleanInv
-----------------------------------------------------------------------------
(***************************************************************************)
(* The reader applies an ack and wakes the writer.                         *)
(***************************************************************************)
LEMMA AckingClean ==
  ASSUME TransferInv, CleanInv, UNCHANGED <<rvars, raddr, seof>>,
         AckHead \/ AckSize \/ AckSignal
  PROVE  CleanInv'
<1>1. /\ UNCHANGED <<apc, snext, overrun, dnet, anet, rcount, rslot, ropen, raddr>>
      /\ rpc \in {"ack_mod", "ack_size", "signal"} /\ rpc' # "gone"
      /\ wpc' = "done" <=> wpc = "done"
  BY DEF AckHead, AckSize, AckSignal, InCondWait, rvars, netvars, windowvars
<1>2. apc # "closed" /\ ~Repeated /\ Windowed
  BY <1>1, CleanNumbers DEF Repeated
<1>3. Forgotten' = Forgotten /\ Awake'
  <2>1. wpc \notin {"timedout", "retransmit", "resend"}
    BY <1>1 DEF CleanInv, Awake
  <2>2. CASE AckHead
    <3>1. UNCHANGED <<wpc, ssize, framediff>> /\ rpc = "ack_mod" /\ rpc' = "ack_size"
      BY <2>2 DEF AckHead
    <3>2. framediff \in 1 .. ssize /\ ssize \in Nat
      BY <1>2, <3>1, NumbersTyped DEF Windowed, Acking, TransferInv
    <3>3. ssize # 0
      BY <3>2
    <3> QED BY <1>1, <2>1, <3>1, <3>3 DEF Forgotten, WindowSize, Awake
  <2>3. CASE AckSize
    <3>1. /\ UNCHANGED <<wpc, framediff>> /\ rpc = "ack_size" /\ rpc' = "signal"
          /\ ssize' = (ssize - framediff) % ByteMod
      BY <2>3 DEF AckSize
    <3>2. framediff \in 1 .. ssize /\ ssize \in Nat /\ ByteMod \in Nat \ {0}
          /\ ssize <= ByteMod - 1
      BY <1>2, <3>1, NumbersTyped DEF Windowed, Acking, TransferInv, TypeOK
    <3>3. ssize - framediff \in 0 .. ByteMod - 1
      BY <3>2
    <3>4. ssize' = ssize - framediff
      BY <3>1, <3>2, <3>3, ModSmall
    <3> QED BY <1>1, <2>1, <3>1, <3>4 DEF Forgotten, WindowSize, Awake
  <2>4. CASE AckSignal
    <3>1. /\ rpc = "signal" /\ rpc' = "recv" /\ ssize' = ssize
          /\ wpc' = "signaled"
      BY <2>1, <2>4 DEF AckSignal, InCondWait, windowvars
    <3> QED BY <1>1, <3>1 DEF Forgotten, WindowSize, Awake
  <2> QED BY <2>2, <2>3, <2>4
<1>4. InFlight' = InFlight
  BY <1>1 DEF InFlight
<1>5. ropen => Arriving'
  BY <1>1, <1>2, <1>4 DEF CleanInv, InSequence, Arriving
<1>6. InSequence'
  BY <1>1, <1>5 DEF CleanInv, InSequence
<1>7. AcksRise' /\ LastAck'
  BY <1>1, <1>2, <1>3 DEF CleanInv, AcksRise, LastAck
<1> QED BY <1>1, <1>2, <1>3, <1>6, <1>7 DEF CleanInv

(***************************************************************************)
(* What the reader takes is the first packet of those on their way to it.  *)
(***************************************************************************)
LEMMA AckMovesUp ==
  ASSUME CleanNetwork, TransferInv, NEW i \in Receivable(anet), anet' = Without(anet, i)
  PROVE  /\ i = 1 /\ Len(anet) \in Nat \ {0} /\ Len(anet') = Len(anet) - 1
         /\ \A k \in 1 .. Len(anet) - 1 : anet'[k] = anet[k + 1]
         /\ anet # <<>> /\ (anet' = <<>> <=> Len(anet) = 1)
         /\ \A k \in 1 .. Len(anet) : anet[k].type = "ack" => anet[k].seq \in Nat
<1>1. anet \in Seq(AckNetPackets)
  BY DEF TransferInv, TypeOK
<1>2. /\ i = 1 /\ Len(anet) \in Nat \ {0} /\ Len(anet') = Len(anet) - 1
      /\ anet' \in Seq(AckNetPackets)
      /\ \A k \in 1 .. Len(anet) - 1 : anet'[k] = anet[k + 1]
  BY <1>1, FirstTaken
<1>3. ASSUME NEW k \in 1 .. Len(anet), anet[k].type = "ack" PROVE anet[k].seq \in Nat
  <2>1. anet[k] \in AckNetPackets
    BY <1>1
  <2> QED BY <1>3, <2>1, NetworkConstants DEF AckNetPackets, AckPacket, EOFPacket, AckEOFPacket
<1>4. anet # <<>> /\ (anet' = <<>> <=> Len(anet) = 1)
  BY <1>1, <1>2
<1> QED BY <1>2, <1>3, <1>4

(***************************************************************************)
(* An ack that comes in turn finds its frames in the window and takes them *)
(* off it.                                                                 *)
(***************************************************************************)
LEMMA AckFindsFrames ==
  ASSUME TransferInv, CleanInv, rpc = "recv", NEW a \in Nat, Forgotten <= a, a < rcount
  PROVE  /\ AckDelta(a) = a - Forgotten + 1 /\ AckDelta(a) # -1
         /\ AckDelta(a) \in 1 .. ssize
<1> DEFINE Q == DEFAULT_QUEUE_SIZE
<1>1. /\ snext \in Nat /\ ssize \in Nat /\ rcount \in Nat /\ Q \in Nat \ {0} /\ shead \in Nat
      /\ SeqMod \in Nat \ {0} /\ SeqMod > NumPackets + Q /\ snext <= NumPackets
      /\ NumPackets \in Nat
  BY NumbersTyped DEF TransferInv
<1>2. /\ WindowSize = ssize /\ WindowSound /\ rcount <= snext /\ Forgotten = snext - ssize
      /\ Forgotten \in Nat /\ ssize <= Q
  BY CleanNumbers DEF WindowSize, WindowSound, CleanInv, Forgotten
<1>3. a - Forgotten + 1 \in 1 .. ssize /\ 0 \in 0 .. ssize - 1
  BY <1>1, <1>2
<1>4. sslot[FrameIndex(WindowHead, 0)].seq = snext - ssize + 0
  BY <1>2, <1>3, WindowIs DEF WindowExact
<1>5. FrameIndex(WindowHead, 0) = FrameIndex(shead, 0)
  <2>1. shead \in Int /\ 0 \in Int
    BY <1>1
  <2>2. ((shead % Q) + 0) % Q = (shead + 0) % Q
    BY <1>1, <2>1, ModAdd, Zenon
  <2> QED BY <2>2 DEF FrameIndex, WindowHead
<1>6. sslot[FrameIndex(shead, 0)].seq = Forgotten
  BY <1>1, <1>2, <1>4, <1>5
<1>7. (Forgotten + Q) % SeqMod = Forgotten + Q
  <2>1. Forgotten + Q \in 0 .. SeqMod - 1
    BY <1>1, <1>2
  <2> QED BY <1>1, <2>1, ModSmall
<1>8. a >= Forgotten /\ a < Forgotten + Q
  BY <1>1, <1>2, <1>3
<1>9. AckDelta(a) = a - Forgotten + 1
  BY <1>6, <1>7, <1>8 DEF AckDelta
<1> QED BY <1>1, <1>2, <1>3, <1>9

(***************************************************************************)
(* The reader takes an ack.                                                *)
(***************************************************************************)
LEMMA OnAckClean ==
  ASSUME CleanNetwork, TransferInv, CleanInv, UNCHANGED <<rvars, raddr, seof>>,
         NEW i \in Receivable(anet), anet' = Without(anet, i), anet[i].type = "ack",
         OnAck(anet[i].seq), UNCHANGED dnet
  PROVE  CleanInv'
<1>1. /\ i = 1 /\ Len(anet) \in Nat \ {0} /\ Len(anet') = Len(anet) - 1
      /\ \A k \in 1 .. Len(anet) - 1 : anet'[k] = anet[k + 1]
      /\ anet # <<>> /\ (anet' = <<>> <=> Len(anet) = 1)
      /\ \A k \in 1 .. Len(anet) : anet[k].type = "ack" => anet[k].seq \in Nat
  BY AckMovesUp
<1>2. PICK a : a = anet[1].seq
  OBVIOUS
<1>3. rpc = "recv" /\ UNCHANGED <<apc, wpc, ri, ssize, snext, rcount, rslot, ropen, raddr>>
  BY DEF OnAck, rvars
<1>4. /\ apc # "closed" /\ Forgotten \in Nat /\ WindowSize = ssize /\ Forgotten = snext - ssize
      /\ snext \in Nat /\ ssize \in Nat /\ rcount \in Nat /\ AcksRise /\ LastAck
  BY <1>3, CleanNumbers, NumbersTyped DEF TransferInv, WindowSize, Forgotten, CleanInv
<1>5. a \in Nat /\ Forgotten <= a /\ a < rcount
  <2>1. 1 \in 1 .. Len(anet) /\ Forgotten + (1 - 1) = Forgotten /\ anet[1].type = "ack"
    BY <1>1, <1>4
  <2> QED BY <1>1, <1>2, <1>4, <2>1 DEF AcksRise
<1>6. AckDelta(a) = a - Forgotten + 1 /\ AckDelta(a) # -1 /\ AckDelta(a) \in 1 .. ssize
  BY <1>3, <1>5, AckFindsFrames
<1>7. rpc' = "ack_mod" /\ framediff' = a - Forgotten + 1 /\ overrun' = FALSE
  <2>1. ~(AckDelta(a) > ssize) /\ ~overrun
    BY <1>4, <1>6 DEF CleanInv
  <2> QED BY <1>1, <1>2, <1>6, <2>1 DEF OnAck
<1>8. Forgotten' = a + 1
  BY <1>3, <1>4, <1>5, <1>7 DEF Forgotten, WindowSize
<1>9. InSequence'
  <2>1. InFlight' = InFlight /\ ~Repeated
    BY <1>1, <1>3 DEF InFlight, Repeated
  <2>2. ropen => Arriving'
    BY <1>3, <2>1 DEF CleanInv, InSequence, Arriving
  <2> QED BY <1>3, <2>2 DEF CleanInv, InSequence
<1>10. AcksRise'
  <2>1. ASSUME NEW k \in 1 .. Len(anet'), anet'[k].type = "ack"
        PROVE  Forgotten' + (k - 1) <= anet'[k].seq /\ anet'[k].seq < rcount'
    <3>1. /\ k + 1 \in 1 .. Len(anet) /\ anet'[k] = anet[k + 1] /\ 1 \in 1 .. Len(anet)
          /\ 1 < k + 1 /\ k \in Nat /\ (k + 1) - 1 = k
      BY <1>1
    <3>2. a + k <= anet[k + 1].seq /\ anet[k + 1].seq < rcount
      BY <1>1, <1>2, <1>4, <2>1, <3>1 DEF AcksRise
    <3>3. anet[k + 1].seq \in Nat
      BY <1>1, <2>1, <3>1
    <3> QED BY <1>2, <1>3, <1>5, <1>8, <3>1, <3>2, <3>3
  <2>2. ASSUME NEW j \in 1 .. Len(anet'), NEW k \in 1 .. Len(anet'), j < k,
               anet'[j].type = "ack", anet'[k].type = "ack"
        PROVE  anet'[j].seq + (k - j) <= anet'[k].seq
    <3>1. /\ k + 1 \in 1 .. Len(anet) /\ anet'[k] = anet[k + 1]
          /\ j + 1 \in 1 .. Len(anet) /\ anet'[j] = anet[j + 1]
          /\ j + 1 < k + 1 /\ (k + 1) - (j + 1) = k - j
      BY <1>1, <2>2
    <3> QED BY <1>4, <2>2, <3>1 DEF AcksRise
  <2>3. ropen' => \A k \in 1 .. Len(anet') : anet'[k].type = "ack"
    <3>1. \A k \in 1 .. Len(anet') : k + 1 \in 1 .. Len(anet) /\ anet'[k] = anet[k + 1]
      BY <1>1
    <3> QED BY <1>3, <1>4, <3>1 DEF AcksRise
  <2> QED BY <2>1, <2>2, <2>3 DEF AcksRise
<1>11. LastAck'
  <2> SUFFICES ASSUME ropen
               PROVE  raddr = 2 /\ IF anet' = <<>> THEN Forgotten' = rcount
                                   ELSE anet'[Len(anet')].seq = rcount - 1
    BY <1>3 DEF LastAck
  <2>1. raddr = 2 /\ anet[Len(anet)].seq = rcount - 1
    BY <1>1, <1>4 DEF LastAck
  <2>2. CASE anet' = <<>>
    <3>1. a = rcount - 1
      BY <1>1, <1>2, <2>1, <2>2
    <3> QED BY <1>4, <1>8, <2>1, <2>2, <3>1
  <2>3. CASE anet' # <<>>
    <3>1. Len(anet) - 1 \in 1 .. Len(anet) - 1 /\ (Len(anet) - 1) + 1 = Len(anet)
      BY <1>1, <2>3
    <3> QED BY <1>1, <2>1, <2>3, <3>1
  <2> QED BY <2>2, <2>3
<1>12. Awake'
  <2>1. ssize # 0 /\ wpc \notin {"timedout", "retransmit", "resend"}
    BY <1>1, <1>4, <1>6 DEF CleanInv, Awake
  <2> QED BY <1>3, <2>1 DEF Awake
<1> QED BY <1>3, <1>4, <1>7, <1>9, <1>10, <1>11, <1>12 DEF CleanInv

(***************************************************************************)
(* The end of the handshake: it starts when the server has taken the EOF.  *)
(***************************************************************************)
LEMMA OnEndClean ==
  ASSUME CleanNetwork, TransferInv, CleanInv, UNCHANGED <<rvars, raddr, seof>>,
         NEW i \in Receivable(anet), anet' = Without(anet, i), anet[i].type # "ack",
         (OnAckEOF /\ UNCHANGED dnet) \/ OnServerEOF
  PROVE  CleanInv'
<1>1. /\ i = 1 /\ Len(anet) \in Nat \ {0} /\ Len(anet') = Len(anet) - 1
      /\ \A k \in 1 .. Len(anet) - 1 : anet'[k] = anet[k + 1]
      /\ \A k \in 1 .. Len(anet) : anet[k].type = "ack" => anet[k].seq \in Nat
  BY AckMovesUp
<1>2. /\ rpc = "recv" /\ rpc' = "gone"
      /\ UNCHANGED <<apc, wpc, windowvars, framediff, overrun, rcount, rslot, ropen, raddr>>
  BY DEF OnAckEOF, OnServerEOF, rvars
<1>3. apc # "closed" /\ AcksRise /\ Forgotten \in Nat
  BY <1>2, CleanNumbers DEF CleanInv
<1>4. ~ropen /\ rcount = snext /\ wpc = "done"
  <2>1. 1 \in 1 .. Len(anet)
    BY <1>1
  <2> QED BY <1>1, <1>3, <2>1 DEF AcksRise, CleanInv, InSequence
<1>5. InSequence' /\ Awake' /\ LastAck'
  BY <1>2, <1>4 DEF CleanInv, InSequence, Awake, LastAck, windowvars
<1>6. Forgotten' = Forgotten
  BY <1>2 DEF Forgotten, WindowSize, windowvars
<1>7. AcksRise'
  <2>1. ASSUME NEW k \in 1 .. Len(anet'), anet'[k].type = "ack"
        PROVE  Forgotten' + (k - 1) <= anet'[k].seq /\ anet'[k].seq < rcount'
    <3>1. k + 1 \in 1 .. Len(anet) /\ anet'[k] = anet[k + 1] /\ k \in Nat
      BY <1>1
    <3>2. Forgotten + ((k + 1) - 1) <= anet[k + 1].seq /\ anet[k + 1].seq < rcount
      BY <1>3, <2>1, <3>1 DEF AcksRise
    <3>3. anet[k + 1].seq \in Nat
      BY <1>1, <2>1, <3>1
    <3> QED BY <1>2, <1>3, <1>6, <3>1, <3>2, <3>3
  <2>2. ASSUME NEW j \in 1 .. Len(anet'), NEW k \in 1 .. Len(anet'), j < k,
               anet'[j].type = "ack", anet'[k].type = "ack"
        PROVE  anet'[j].seq + (k - j) <= anet'[k].seq
    <3>1. /\ k + 1 \in 1 .. Len(anet) /\ anet'[k] = anet[k + 1]
          /\ j + 1 \in 1 .. Len(anet) /\ anet'[j] = anet[j + 1]
          /\ j + 1 < k + 1 /\ (k + 1) - (j + 1) = k - j
      BY <1>1, <2>2
    <3> QED BY <1>3, <2>2, <3>1 DEF AcksRise
  <2> QED BY <1>2, <1>4, <2>1, <2>2 DEF AcksRise
<1> QED BY <1>2, <1>3, <1>5, <1>7 DEF CleanInv
-----------------------------------------------------------------------------
(***************************************************************************)
(* The server takes the packets as they were sent: data while some is in   *)
(* flight, then the EOF, and nothing else.                                 *)
(***************************************************************************)
LEMMA TakenInTurn ==
  ASSUME CleanNetwork, TransferInv, CleanInv, ropen,
         NEW i \in Receivable(dnet), dnet' = Without(dnet, i)
  PROVE  /\ i = 1 /\ Len(dnet) \in Nat \ {0} /\ Len(dnet') = Len(dnet) - 1
         /\ \A k \in 1 .. Len(dnet) - 1 : dnet'[k] = dnet[k + 1]
         /\ dnet # <<>> /\ dnet[1] \in DataNetPackets /\ InFlight \in Nat
         /\ InFlight # 0 => dnet[1].type = "data" /\ dnet[1].seq = snext - InFlight
         /\ InFlight = 0 => dnet[1].type = "EOF" /\ rcount = snext
<1>1. dnet \in Seq(DataNetPackets)
  BY DEF TransferInv, TypeOK
<1>2. /\ i = 1 /\ Len(dnet) \in Nat \ {0} /\ Len(dnet') = Len(dnet) - 1
      /\ \A k \in 1 .. Len(dnet) - 1 : dnet'[k] = dnet[k + 1]
  BY <1>1, FirstTaken
<1>3. dnet # <<>> /\ dnet[1] \in DataNetPackets
  BY <1>1, <1>2
<1>4. InFlight \in Nat /\ Arriving /\ snext \in Nat /\ rcount \in Nat
  BY CleanNumbers, NumbersTyped DEF CleanInv, InSequence, TransferInv
<1>5. ASSUME InFlight # 0 PROVE dnet[1].type = "data" /\ dnet[1].seq = snext - InFlight
  <2>1. 1 \in 1 .. InFlight /\ (snext - InFlight) + (1 - 1) = snext - InFlight
    BY <1>4, <1>5
  <2> QED BY <1>4, <2>1 DEF Arriving
<1>6. ASSUME InFlight = 0 PROVE dnet[1].type = "EOF" /\ rcount = snext
  <2>1. wpc = "done" /\ Len(dnet) = 1
    BY <1>2, <1>6 DEF InFlight
  <2> QED BY <1>4, <1>6, <2>1 DEF Arriving, Repeated
<1> QED BY <1>2, <1>3, <1>4, <1>5, <1>6

(***************************************************************************)
(* What the acks in flight say: they fit the network.                      *)
(***************************************************************************)
LEMMA AcksFit ==
  ASSUME CleanNetwork, TransferInv, CleanInv, ropen, apc # "closed"
  PROVE  /\ Len(anet) \in Nat /\ Forgotten + Len(anet) <= rcount /\ Len(anet) < NetCap
         /\ anet \in Seq(AckNetPackets)
         /\ \A k \in 1 .. Len(anet) : anet[k].type = "ack" /\ anet[k].seq \in Nat
                                      /\ anet[k].seq + (Len(anet) - k) < rcount
<1>1. /\ Len(anet) \in Nat /\ rcount <= snext /\ Forgotten \in Nat /\ Forgotten <= rcount
      /\ snext - Forgotten <= DEFAULT_QUEUE_SIZE /\ snext \in Nat /\ rcount \in Nat
      /\ DEFAULT_QUEUE_SIZE \in Nat /\ NetCap \in Nat /\ AcksRise
      /\ anet \in Seq(AckNetPackets)
  BY CleanNumbers, NumbersTyped, NetworkConstants DEF TransferInv, TypeOK, CleanInv
<1>2. ASSUME NEW k \in 1 .. Len(anet) PROVE anet[k].type = "ack" /\ anet[k].seq \in Nat
  <2>1. anet[k] \in AckNetPackets /\ anet[k].type = "ack"
    BY <1>1 DEF AcksRise
  <2> QED BY <2>1, NetworkConstants DEF AckNetPackets, AckPacket, EOFPacket, AckEOFPacket
<1>3. Len(anet) # 0 => Forgotten + Len(anet) <= rcount
  <2> SUFFICES ASSUME Len(anet) # 0 PROVE Forgotten + Len(anet) <= rcount
    OBVIOUS
  <2>1. Len(anet) \in 1 .. Len(anet)
    BY <1>1
  <2>2. Forgotten + (Len(anet) - 1) <= anet[Len(anet)].seq /\ anet[Len(anet)].seq < rcount
        /\ anet[Len(anet)].seq \in Nat
    BY <1>1, <1>2, <2>1 DEF AcksRise
  <2> QED BY <1>1, <2>2
<1>4. ASSUME NEW k \in 1 .. Len(anet) PROVE anet[k].seq + (Len(anet) - k) < rcount
  <2>1. Len(anet) \in 1 .. Len(anet) /\ anet[Len(anet)].seq \in Nat /\ anet[k].seq \in Nat
    BY <1>1, <1>2
  <2>2. anet[Len(anet)].seq < rcount
    BY <1>1, <1>2, <2>1 DEF AcksRise
  <2>3. CASE k = Len(anet)
    BY <1>1, <2>1, <2>2, <2>3
  <2>4. CASE k < Len(anet)
    <3>1. anet[k].seq + (Len(anet) - k) <= anet[Len(anet)].seq
      BY <1>1, <1>2, <2>1, <2>4 DEF AcksRise
    <3> QED BY <1>1, <2>1, <2>2, <3>1
  <2> QED BY <1>1, <2>3, <2>4
<1>5. Forgotten + Len(anet) <= rcount
  BY <1>1, <1>3
<1>6. Len(anet) < NetCap
  BY <1>1, <1>5 DEF CleanNetwork
<1> QED BY <1>1, <1>2, <1>4, <1>5, <1>6

(***************************************************************************)
(* The server takes a frame and acknowledges it, once it has an address.   *)
(***************************************************************************)
LEMMA AnsweredInTurn ==
  ASSUME CleanNetwork, TransferInv, CleanInv, ropen, apc # "closed", UNCHANGED svars,
         ropen' = ropen, raddr' = IF raddr < 2 THEN raddr + 1 ELSE 2,
         rcount' \in {rcount, rcount + 1}, rcount' <= NumPackets, rcount' \in Nat \ {0},
         rcount' = rcount => raddr = 1 /\ rcount = 1,
         anet' \in answer(AckPacket(AckNumber(rcount')))
  PROVE  AcksRise' /\ LastAck'
<1>1. Forgotten' = Forgotten
  BY DEF svars, windowvars, Forgotten, WindowSize
<1>2. /\ Len(anet) \in Nat /\ Forgotten + Len(anet) <= rcount /\ Len(anet) < NetCap
      /\ anet \in Seq(AckNetPackets)
      /\ \A k \in 1 .. Len(anet) : anet[k].type = "ack" /\ anet[k].seq \in Nat
                                   /\ anet[k].seq + (Len(anet) - k) < rcount
      /\ Forgotten \in Nat /\ rcount \in Nat /\ raddr \in 0 .. 2 /\ AcksRise /\ LastAck
  BY AcksFit, CleanNumbers, NumbersTyped DEF TransferInv, CleanInv, TypeOK
<1>3. PICK c : c = rcount'
  OBVIOUS
<1>4. AckNumber(c) = c - 1 /\ c - 1 \in Nat /\ AckPacket(c - 1) \in AckNetPackets
  <2>1. c - 1 \in 0 .. SeqMod - 1 /\ SeqMod \in Nat \ {0} /\ c - 1 \in Nat
    <3>1. c \in Nat \ {0} /\ c <= NumPackets
      BY <1>3
    <3> QED BY <3>1, NetworkConstants, GbnConstants
  <2>2. (c - 1) % SeqMod = c - 1
    BY <2>1, ModSmall
  <2> QED BY <2>1, <2>2 DEF AckNumber, AckNetPackets
<1>5. CASE raddr = 0
  <2>1. raddr' = 1 /\ anet' = anet /\ anet = <<>> /\ Forgotten = 0 /\ rcount = 0
    BY <1>2, <1>5 DEF answer, LastAck
  <2>2. rcount' = 1 /\ Len(anet') = 0
    BY <2>1
  <2> QED BY <1>1, <2>1, <2>2 DEF AcksRise, LastAck
<1>6. CASE raddr # 0
  <2>1. raddr' = 2 /\ anet' \in sendto_(anet, AckPacket(c - 1))
    BY <1>2, <1>3, <1>4, <1>6 DEF answer
  <2>2. /\ Len(anet') = Len(anet) + 1 /\ anet'[Len(anet) + 1] = AckPacket(c - 1)
        /\ \A k \in 1 .. Len(anet) : anet'[k] = anet[k]
    <3>1. PICK p : p = AckPacket(c - 1)
      OBVIOUS
    <3>2. p \in AckNetPackets /\ anet' \in sendto_(anet, p) /\ anet \in Seq(AckNetPackets)
      BY <1>2, <1>4, <2>1, <3>1
    <3> QED BY <1>2, <3>1, <3>2, SendAppends
  <2>3. AckPacket(c - 1).type = "ack" /\ AckPacket(c - 1).seq = c - 1
    BY DEF AckPacket
  <2>4. rcount <= c /\ (Len(anet) # 0 => c = rcount + 1) /\ Forgotten + Len(anet) <= c - 1
    <3>1. CASE c = rcount + 1
      BY <1>2, <3>1
    <3>2. CASE c = rcount
      <4>1. raddr = 1 /\ rcount = 1
        BY <1>3, <3>2
      <4>2. anet = <<>> /\ Forgotten = 0
        BY <1>2, <4>1 DEF LastAck
      <4>3. Len(anet) = 0
        BY <4>2
      <4> QED BY <1>2, <3>2, <4>1, <4>2, <4>3
    <3> QED BY <1>3, <3>1, <3>2
  <2>5. ASSUME NEW k \in 1 .. Len(anet')
        PROVE  /\ anet'[k].type = "ack"
               /\ Forgotten + (k - 1) <= anet'[k].seq /\ anet'[k].seq < c
    <3>1. CASE k = Len(anet) + 1
      BY <1>2, <1>3, <2>2, <2>3, <2>4, <3>1
    <3>2. CASE k \in 1 .. Len(anet)
      <4>1. /\ Forgotten + (k - 1) <= anet[k].seq /\ anet[k].seq < rcount
            /\ anet[k].type = "ack" /\ anet[k].seq \in Nat
        BY <1>2, <3>2 DEF AcksRise
      <4> QED BY <1>2, <1>3, <2>2, <2>4, <3>2, <4>1
    <3> QED BY <1>2, <2>2, <3>1, <3>2
  <2>6. ASSUME NEW j \in 1 .. Len(anet'), NEW k \in 1 .. Len(anet'), j < k
        PROVE  anet'[j].seq + (k - j) <= anet'[k].seq
    <3>1. j \in 1 .. Len(anet) /\ anet'[j] = anet[j]
      BY <1>2, <2>2, <2>6
    <3>2. CASE k = Len(anet) + 1
      <4>1. anet[j].seq + (Len(anet) - j) < rcount /\ anet[j].seq \in Nat /\ c = rcount + 1
        BY <1>2, <2>4, <3>1
      <4> QED BY <1>2, <2>2, <2>3, <3>1, <3>2, <4>1
    <3>3. CASE k \in 1 .. Len(anet)
      BY <1>2, <2>2, <2>6, <3>1, <3>3 DEF AcksRise
    <3> QED BY <1>2, <2>2, <3>2, <3>3
  <2>7. AcksRise'
    BY <1>1, <1>3, <2>5, <2>6 DEF AcksRise
  <2>8. anet' # <<>> /\ anet'[Len(anet')].seq = c - 1
    BY <1>2, <2>2, <2>3
  <2>9. LastAck'
    BY <1>3, <2>1, <2>8 DEF LastAck
  <2> QED BY <2>7, <2>9
<1> QED BY <1>5, <1>6

(***************************************************************************)
(* The server takes a data packet.                                         *)
(***************************************************************************)
LEMMA ServerDataClean ==
  ASSUME CleanNetwork, TransferInv, CleanInv, UNCHANGED <<svars, seof>>,
         NEW i \in Receivable(dnet), dnet' = Without(dnet, i),
         raddr' = IF raddr < 2 THEN raddr + 1 ELSE 2, dnet[i].type = "data",
         OnData(dnet[i].seq, dnet[i].data), anet' \in answer(AckPacket(AckNumber(rcount')))
  PROVE  CleanInv'
<1>1. ropen /\ ropen'
  BY DEF OnData
<1>2. /\ i = 1 /\ Len(dnet) \in Nat \ {0} /\ Len(dnet') = Len(dnet) - 1
      /\ \A k \in 1 .. Len(dnet) - 1 : dnet'[k] = dnet[k + 1]
      /\ dnet # <<>> /\ dnet[1] \in DataNetPackets /\ InFlight \in Nat
      /\ InFlight # 0 => dnet[1].type = "data" /\ dnet[1].seq = snext - InFlight
      /\ InFlight = 0 => dnet[1].type = "EOF" /\ rcount = snext
  BY <1>1, TakenInTurn
<1>3. InFlight # 0 /\ Arriving /\ \A k \in Slots : ~rslot[k].init
  BY <1>1, <1>2 DEF CleanInv, InSequence
<1>4. PICK s \in SeqNums, d \in Payloads : s = dnet[1].seq /\ d = dnet[1].data
  BY <1>2 DEF DataNetPackets, DataPacket, EOFPacket, AckEOFPacket, UninitializedPacket
<1>5. /\ snext \in Nat /\ rcount \in Nat /\ NumPackets \in Nat /\ snext <= NumPackets
      /\ RTypeOK /\ OnData(s, d) /\ s = snext - InFlight
  BY <1>2, <1>3, <1>4, NumbersTyped DEF TransferInv, TypeOK
<1>6. /\ s <= rcount
      /\ \/ s = rcount /\ rcount + InFlight = snext
         \/ s # rcount /\ Repeated /\ InFlight = 1
  <2>1. CASE rcount + InFlight = snext
    BY <1>2, <1>5, <2>1
  <2>2. CASE Repeated
    <3>1. InFlight = 1 /\ snext = 1 /\ rcount = 1
      BY <2>2 DEF Repeated, InFlight
    <3> QED BY <1>5, <2>2, <3>1
  <2> QED BY <1>3, <2>1, <2>2 DEF Arriving
<1>7. /\ rcount' = IF s = rcount THEN rcount + 1 ELSE rcount
      /\ \A k \in Slots : ~rslot'[k].init
  BY <1>3, <1>5, <1>6, StraightThrough
<1>8. UNCHANGED <<apc, wpc, ri, snext, ssize, rpc, overrun>>
  BY DEF svars, windowvars
<1>9. InFlight' = InFlight - 1
  BY <1>2, <1>8 DEF InFlight
<1>10. Arriving'
  <2>1. InFlight' \in Nat /\ snext' - InFlight' = (snext - InFlight) + 1
    BY <1>2, <1>3, <1>5, <1>8, <1>9
  <2>2. ASSUME NEW k \in 1 .. InFlight'
        PROVE  dnet'[k].type = "data" /\ dnet'[k].seq = (snext' - InFlight') + (k - 1)
    <3>1. k + 1 \in 1 .. InFlight /\ k \in 1 .. Len(dnet) - 1
      BY <1>2, <1>9 DEF InFlight
    <3>2. dnet[k + 1].type = "data" /\ dnet[k + 1].seq = (snext - InFlight) + ((k + 1) - 1)
      BY <1>3, <3>1 DEF Arriving
    <3>3. (snext' - InFlight') + (k - 1) = (snext - InFlight) + ((k + 1) - 1)
      BY <1>2, <1>5, <2>1
    <3> QED BY <1>2, <3>1, <3>2, <3>3
  <2>3. ASSUME wpc' = "done" PROVE dnet'[Len(dnet')].type = "EOF"
    <3>1. wpc = "done" /\ Len(dnet) > 1
      BY <1>2, <1>3, <1>8, <2>3 DEF InFlight
    <3>2. Len(dnet) - 1 \in 1 .. Len(dnet) - 1 /\ (Len(dnet) - 1) + 1 = Len(dnet)
      BY <1>2, <3>1
    <3> QED BY <1>2, <1>3, <3>1, <3>2 DEF Arriving
  <2>4. rcount' + InFlight' = snext'
    <3>1. CASE s = rcount /\ rcount + InFlight = snext
      BY <1>2, <1>5, <1>7, <1>8, <1>9, <3>1
    <3>2. CASE s # rcount /\ Repeated /\ InFlight = 1
      BY <1>7, <1>8, <1>9, <3>2 DEF Repeated
    <3> QED BY <1>6, <3>1, <3>2
  <2> QED BY <2>1, <2>2, <2>3, <2>4 DEF Arriving
<1>11. InSequence'
  BY <1>1, <1>7, <1>10 DEF InSequence
<1>12. ASSUME apc' # "closed" PROVE AcksRise' /\ LastAck'
  <2>1. apc # "closed" /\ ropen' = ropen
    BY <1>1, <1>8, <1>12, <1>5 DEF OnData
  <2>2. /\ rcount' \in {rcount, rcount + 1} /\ rcount' <= NumPackets /\ rcount' \in Nat \ {0}
        /\ rcount' = rcount => raddr = 1 /\ rcount = 1
    <3>1. CASE s = rcount /\ rcount + InFlight = snext
      BY <1>2, <1>3, <1>5, <1>7, <3>1
    <3>2. CASE s # rcount /\ Repeated
      BY <1>5, <1>7, <3>2 DEF Repeated
    <3> QED BY <1>6, <3>1, <3>2
  <2> QED BY <1>1, <2>1, <2>2, AnsweredInTurn
<1>13. Awake'
  <2>1. wpc \notin {"timedout", "retransmit", "resend"}
    BY <1>2 DEF CleanInv, Awake
  <2> QED BY <1>8, <2>1 DEF CleanInv, Awake
<1> QED BY <1>8, <1>11, <1>12, <1>13 DEF CleanInv

(***************************************************************************)
(* The server takes the EOF, or sends its own: all data has been taken.    *)
(***************************************************************************)
LEMMA ServerEndClean ==
  ASSUME CleanNetwork, TransferInv, CleanInv, UNCHANGED svars,
         NEW p, p.type # "ack", anet' = anet \/ anet' = Append(anet, p),
         UNCHANGED <<rcount, rslot>>, ~ropen', rcount = snext, wpc = "done"
  PROVE  CleanInv'
<1>1. /\ UNCHANGED <<apc, wpc, ri, snext, ssize, rpc, overrun, rcount, rslot>>
      /\ Forgotten' = Forgotten
  BY DEF svars, windowvars, Forgotten, WindowSize
<1>2. InSequence' /\ Awake' /\ LastAck'
  BY <1>1 DEF CleanInv, InSequence, Awake, LastAck
<1>3. ASSUME apc' # "closed" PROVE AcksRise'
  <2>1. AcksRise /\ anet \in Seq(AckNetPackets)
    BY <1>1, <1>3 DEF CleanInv, TransferInv, TypeOK
  <2>2. \A k \in 1 .. Len(anet') : anet'[k].type = "ack" =>
          k \in 1 .. Len(anet) /\ anet'[k] = anet[k]
    <3>1. CASE anet' = anet
      BY <3>1
    <3>2. CASE anet' = Append(anet, p)
      BY <2>1, <3>2
    <3> QED BY <3>1, <3>2
  <2> QED BY <1>1, <2>1, <2>2 DEF AcksRise
<1> QED BY <1>1, <1>2, <1>3 DEF CleanInv

(***************************************************************************)
(* The server's reader and writer.                                         *)
(***************************************************************************)
LEMMA ServerClean ==
  ASSUME CleanNetwork, TransferInv, CleanInv, UNCHANGED svars,
         (ServerReceive /\ UNCHANGED seof) \/ ServerEOF
  PROVE  CleanInv'
<1>1. AckEOFPacket.type # "ack" /\ EOFPacket.type # "ack"
  BY DEF AckEOFPacket, EOFPacket
<1>2. ASSUME NEW p, anet' \in answer(p) PROVE anet' = anet \/ anet' = Append(anet, p)
  BY <1>2 DEF answer, sendto_
<1>3. CASE ServerReceive /\ UNCHANGED seof
  <2>1. PICK i \in Receivable(dnet) :
          /\ dnet' = Without(dnet, i)
          /\ raddr' = IF raddr < 2 THEN raddr + 1 ELSE 2
          /\ \/ /\ dnet[i].type = "data"
                /\ OnData(dnet[i].seq, dnet[i].data)
                /\ anet' \in answer(AckPacket(AckNumber(rcount')))
             \/ /\ dnet[i].type = "EOF"
                /\ OnEOF
                /\ anet' \in answer(AckEOFPacket)
             \/ /\ dnet[i].type = "uninitialized"
                /\ ropen
                /\ UNCHANGED <<rvars, anet>>
    BY <1>3 DEF ServerReceive
  <2>2. ropen
    BY <2>1 DEF OnData, OnEOF
  <2>3. /\ i = 1
        /\ InFlight # 0 => dnet[1].type = "data"
        /\ InFlight = 0 => dnet[1].type = "EOF" /\ rcount = snext
    BY <2>1, <2>2, TakenInTurn
  <2>4. CASE /\ dnet[i].type = "data" /\ OnData(dnet[i].seq, dnet[i].data)
             /\ anet' \in answer(AckPacket(AckNumber(rcount')))
    BY <1>3, <2>1, <2>4, ServerDataClean
  <2>5. CASE dnet[i].type = "EOF" /\ OnEOF /\ anet' \in answer(AckEOFPacket)
    <3>1. rcount = snext /\ wpc = "done"
      <4>1. i \in 1 .. Len(dnet)
        BY <2>1 DEF Receivable
      <4> QED BY <2>1, <2>2, <2>3, <2>5, <4>1, TakenInTurn DEF TransferInv, Closing
    <3>2. UNCHANGED <<rcount, rslot>> /\ ~ropen'
      BY <2>5 DEF OnEOF
    <3>3. anet' = anet \/ anet' = Append(anet, AckEOFPacket)
      BY <1>2, <2>5
    <3> QED BY <1>1, <3>1, <3>2, <3>3, ServerEndClean
  <2> QED BY <2>1, <2>2, <2>3, <2>4, <2>5, TakenInTurn
<1>4. CASE ServerEOF
  <2>1. ~ropen /\ ~ropen' /\ UNCHANGED <<rcount, rslot>> /\ anet' \in answer(EOFPacket)
    BY <1>4 DEF ServerEOF, rvars
  <2>2. rcount = snext /\ wpc = "done"
    BY <2>1 DEF CleanInv, InSequence
  <2>3. anet' = anet \/ anet' = Append(anet, EOFPacket)
    BY <1>2, <2>1
  <2> QED BY <1>1, <2>1, <2>2, <2>3, ServerEndClean
<1> QED BY <1>3, <1>4
-----------------------------------------------------------------------------
(***************************************************************************)
(* Nothing is in flight and nothing forgotten before anything is written.  *)
(***************************************************************************)
LEMMA CleanInit == Init => CleanInv
<1> SUFFICES ASSUME Init PROVE CleanInv
  OBVIOUS
<1> USE DEF Init, SInit, RInit, NetInit
<1>1. Len(dnet) = 0 /\ Len(anet) = 0
  OBVIOUS
<1>2. InFlight = 0 /\ Forgotten = 0
  BY <1>1 DEF InFlight, Forgotten, WindowSize
<1>3. Arriving
  BY <1>2 DEF Arriving
<1>4. InSequence
  BY <1>3 DEF InSequence, EmptyFrame
<1>5. AcksRise /\ LastAck
  BY <1>1, <1>2 DEF AcksRise, LastAck
<1>6. Awake
  BY DEF Awake
<1> QED BY <1>4, <1>5, <1>6 DEF CleanInv

(***************************************************************************)
(* On a clean network no step of either side breaks it.                    *)
(***************************************************************************)
LEMMA CleanStep == CleanNetwork /\ TransferInv /\ CleanInv /\ [Next]_vars => CleanInv'
<1> SUFFICES ASSUME CleanNetwork, TransferInv, CleanInv, [Next]_vars PROVE CleanInv'
  OBVIOUS
<1>1. TransferInv'
  BY TransferStep
<1>2. CASE (AppStep \/ WriterStep \/ ReaderStep) /\ UNCHANGED <<rvars, raddr, seof>>
  <2>1. CASE AppStep
    BY <1>2, <2>1, AppClean
  <2>2. CASE WriterStep
    BY <1>1, <1>2, <2>2, MovesClean, SendClean, CloseClean, ResendClean DEF WriterStep
  <2>3. CASE AckHead \/ AckSize \/ AckSignal
    BY <1>2, <2>3, AckingClean
  <2>4. CASE ClientReceive
    <3>1. PICK i \in Receivable(anet) :
            /\ anet' = Without(anet, i)
            /\ \/ anet[i].type = "ack" /\ OnAck(anet[i].seq) /\ UNCHANGED dnet
               \/ anet[i].type = "ack_EOF" /\ OnAckEOF /\ UNCHANGED dnet
               \/ anet[i].type = "EOF" /\ OnServerEOF
      BY <2>4 DEF ClientReceive
    <3>2. CASE anet[i].type = "ack" /\ OnAck(anet[i].seq) /\ UNCHANGED dnet
      BY <1>2, <3>1, <3>2, OnAckClean
    <3>3. CASE anet[i].type # "ack" /\ ((OnAckEOF /\ UNCHANGED dnet) \/ OnServerEOF)
      BY <1>2, <3>1, <3>3, OnEndClean
    <3> QED BY <3>1, <3>2, <3>3
  <2> QED BY <1>2, <2>1, <2>2, <2>3, <2>4 DEF ReaderStep
<1>3. CASE ServerReceive /\ UNCHANGED <<svars, seof>>
  BY <1>3, ServerClean
<1>4. CASE ServerEOF /\ UNCHANGED svars
  BY <1>4, ServerClean
<1>5. CASE UNCHANGED vars
  <2>1. /\ UNCHANGED <<windowvars, framediff, overrun, netvars, rvars, raddr>>
        /\ UNCHANGED <<apc, wpc, ri, rpc>>
    BY <1>5 DEF vars, svars
  <2>2. Awake' /\ (Repeated => Repeated')
    BY <2>1 DEF CleanInv, Awake, Repeated, windowvars, netvars, rvars
  <2> QED BY <2>1, <2>2, QuietClean DEF CleanInv
<1> QED BY <1>2, <1>3, <1>4, <1>5 DEF Next

(***************************************************************************)
(* On a clean network it holds throughout a transfer, however long.        *)
(***************************************************************************)
THEOREM CleanConsistent == CleanNetwork => (Spec => []CleanInv)
<1> SUFFICES ASSUME CleanNetwork PROVE Spec => []CleanInv
  OBVIOUS
<1>1. TransferInv /\ CleanInv /\ [Next]_vars => CleanInv'
  BY CleanStep
<1> QED BY <1>1, CleanInit, TransferConsistent, PTL DEF Spec

(***************************************************************************)
(* So no ack ever takes frames off the sending window that it does not     *)
(* hold: the overrun of the lossy network needs a lost or overtaken        *)
(* packet.                                                                 *)
(***************************************************************************)
THEOREM CleanNeverOverruns == CleanNetwork => (Spec => []NoOverrun)
<1>1. CleanInv => NoOverrun
  BY DEF CleanInv, NoOverrun
<1> QED BY <1>1, CleanConsistent, PTL

(***************************************************************************)
(* The server closes the stream only after every block the client wrote.   *)
(***************************************************************************)
THEOREM CleanEOFIsLast == CleanNetwork => (Spec => []EOFIsLast)
<1>1. TransferInv /\ CleanInv => EOFIsLast
  BY DEF CleanInv, InSequence, TransferInv, Queued, Writing, EOFIsLast
<1> QED BY <1>1, CleanConsistent, TransferConsistent, PTL

(***************************************************************************)
(* And the writer never sleeps on an empty window unless the reader is on  *)
(* its way to wake it.                                                     *)
(***************************************************************************)
THEOREM CleanWriterWakes == CleanNetwork => (Spec => []NoSleepOnEmptyWindow)
<1>1. CleanInv => NoSleepOnEmptyWindow
  BY DEF CleanInv, Awake, NoSleepOnEmptyWindow
<1> QED BY <1>1, CleanConsistent, PTL

(***************************************************************************)
(* What was handed up are the frames 0, 1, 2, ... up to the receive        *)
(* counter, with no bound on it.                                           *)
(***************************************************************************)
Counted == Len(delivered) = rcount /\ AlwaysInOrder

(***************************************************************************)
(* A data packet adds the frame that is expected, or nothing.              *)
(***************************************************************************)
LEMMA DataCounted ==
  ASSUME CleanNetwork, TransferInv, CleanInv, Counted,
         NEW i \in Receivable(dnet), dnet' = Without(dnet, i), dnet[i].type = "data",
         OnData(dnet[i].seq, dnet[i].data)
  PROVE  Counted'
<1>1. PICK s \in SeqNums, d \in Payloads : s = dnet[i].seq /\ d = dnet[i].data
  <2>1. dnet[i] \in DataNetPackets
    BY DataTaken
  <2> QED BY <2>1 DEF DataNetPackets, DataPacket, EOFPacket, AckEOFPacket, UninitializedPacket
<1>2. /\ snext \in Nat /\ rcount \in Nat /\ RTypeOK /\ OnData(s, d) /\ ropen
      /\ delivered \in Seq(Block)
  BY <1>1, NumbersTyped DEF TransferInv, TypeOK, RTypeOK, OnData, Block
<1>3. /\ i = 1 /\ InFlight \in Nat /\ Arriving
      /\ InFlight # 0 => dnet[1].seq = snext - InFlight
      /\ InFlight = 0 => dnet[1].type = "EOF"
  BY <1>2, TakenInTurn DEF CleanInv, InSequence
<1>4. s = snext - InFlight
  BY <1>1, <1>3
<1>5. s <= rcount
  <2>1. CASE rcount + InFlight = snext
    BY <1>2, <1>3, <1>4, <2>1
  <2>2. CASE Repeated
    BY <1>3, <1>4, <2>2 DEF Repeated
  <2> QED BY <1>3, <2>1, <2>2 DEF Arriving
<1>6. PICK blocks \in Seq(Block) :
        /\ delivered' = delivered \o blocks /\ Len(blocks) = rcount' - rcount
        /\ \A k \in 1 .. Len(blocks) : blocks[k].seq = rcount /\ blocks[k].data = d
  BY <1>2, <1>5, StraightThrough DEF CleanInv, InSequence
<1>7. rcount' \in {rcount, rcount + 1}
  BY <1>2, <1>5, StraightThrough DEF CleanInv, InSequence
<1>8. /\ Len(delivered) \in Nat /\ Len(blocks) \in {0, 1}
      /\ Len(delivered') = Len(delivered) + Len(blocks)
      /\ \A k \in 1 .. Len(delivered) : delivered'[k] = delivered[k]
      /\ \A k \in 1 .. Len(blocks) : delivered'[Len(delivered) + k] = blocks[k]
  <2>1. PICK c, n : c = rcount' /\ n = Len(blocks)
    OBVIOUS
  <2>2. n \in {0, 1}
    <3>1. c \in {rcount, rcount + 1} /\ n = c - rcount
      BY <1>6, <1>7, <2>1
    <3> QED BY <1>2, <3>1
  <2>3. /\ Len(delivered) \in Nat /\ Len(delivered \o blocks) = Len(delivered) + Len(blocks)
        /\ \A k \in 1 .. Len(delivered) : (delivered \o blocks)[k] = delivered[k]
        /\ \A k \in 1 .. Len(blocks) : (delivered \o blocks)[Len(delivered) + k] = blocks[k]
    BY <1>2
  <2> QED BY <1>6, <2>1, <2>2, <2>3
<1>9. Len(delivered') = rcount'
  <2>1. PICK c, n : c = rcount' /\ n = Len(blocks)
    OBVIOUS
  <2>2. c \in {rcount, rcount + 1} /\ n = c - rcount
    BY <1>6, <1>7, <2>1
  <2>3. rcount + n = c
    BY <1>2, <2>2
  <2>4. Len(delivered') = rcount + n
    BY <1>8, <2>1 DEF Counted
  <2> QED BY <2>1, <2>3, <2>4
<1>10. ASSUME NEW k \in 1 .. Len(delivered') PROVE delivered'[k].seq = k - 1
  <2>1. CASE k \in 1 .. Len(delivered)
    BY <1>8, <2>1 DEF Counted, AlwaysInOrder
  <2>2. CASE k \notin 1 .. Len(delivered)
    <3>1. Len(blocks) = 1 /\ k = Len(delivered) + 1 /\ 1 \in 1 .. Len(blocks)
      BY <1>8, <2>2
    <3>2. delivered'[k].seq = rcount
      BY <1>6, <1>8, <3>1
    <3> QED BY <1>2, <3>1, <3>2 DEF Counted
  <2> QED BY <2>1, <2>2
<1> QED BY <1>9, <1>10 DEF Counted, AlwaysInOrder

(***************************************************************************)
(* The blocks handed up are counted by _m_recv_counter and in order.       *)
(***************************************************************************)
THEOREM CleanCounted == CleanNetwork => (Spec => []Counted)
<1> SUFFICES ASSUME CleanNetwork PROVE Spec => []Counted
  OBVIOUS
<1>1. Init => Counted
  BY DEF Init, RInit, Counted, AlwaysInOrder
<1>2. TransferInv /\ CleanInv /\ Counted /\ [Next]_vars => Counted'
  <2> SUFFICES ASSUME TransferInv, CleanInv, Counted, [Next]_vars PROVE Counted'
    OBVIOUS
  <2>1. CASE ServerReceive
    <3>1. CASE UNCHANGED <<rcount, delivered>>
      BY <3>1 DEF Counted, AlwaysInOrder
    <3>2. CASE \E i \in Receivable(dnet) :
                 /\ dnet' = Without(dnet, i) /\ dnet[i].type = "data"
                 /\ OnData(dnet[i].seq, dnet[i].data)
      BY <3>2, DataCounted
    <3> QED BY <2>1, <3>1, <3>2 DEF ServerReceive, OnEOF, rvars
  <2>2. CASE UNCHANGED rvars
    BY <2>2 DEF Counted, AlwaysInOrder, rvars
  <2> QED BY <2>1, <2>2 DEF Next, ServerEOF, vars
<1> QED BY <1>1, <1>2, CleanConsistent, TransferConsistent, PTL DEF Spec

(***************************************************************************)
(* The promise of the sliding code's comments, frames in order with no     *)
(* bound on the transfer, is kept on a clean network: the wrap of the head *)
(* byte breaks it only where frames wait in the receive window.            *)
(***************************************************************************)
THEOREM CleanAlwaysInOrder == CleanNetwork => (Spec => []AlwaysInOrder)
<1>1. Counted => AlwaysInOrder
  BY DEF Counted
<1> QED BY <1>1, CleanCounted, PTL

(***************************************************************************)
(* Freed payloads do go out, but only in frames the server has handed up.  *)
(***************************************************************************)
FreshWire ==
  \A i \in 1 .. Len(dnet) :
    dnet[i].type = "data" /\ rcount <= dnet[i].seq => dnet[i].data = "intact"

(***************************************************************************)
(* What is sent and is no freed payload of a frame still wanted leaves the *)
(* wire fresh.                                                             *)
(***************************************************************************)
LEMMA SentFresh ==
  ASSUME TransferInv, FreshWire, UNCHANGED rcount,
         NEW p \in DataNetPackets, dnet' \in sendto_(dnet, p),
         p.type = "data" /\ rcount <= p.seq => p.data = "intact"
  PROVE  FreshWire'
<1>1. dnet \in Seq(DataNetPackets) /\ Len(dnet) <= NetCap
  BY DEF TransferInv, TypeOK
<1>2. \A i \in 1 .. Len(dnet') : dnet'[i] = p \/ \E j \in 1 .. Len(dnet) : dnet'[i] = dnet[j]
  BY <1>1, SendAdds
<1> QED BY <1>2 DEF FreshWire

(***************************************************************************)
(* retransmit sends the first frame, with its freed payload, when it has   *)
(* been handed up.                                                         *)
(***************************************************************************)
LEMMA ResendsFirst ==
  ASSUME TransferInv, CleanInv, resend
  PROVE  /\ rcount = 1 /\ dnet' \in sendto_(dnet, DataPacket(0, "freed"))
         /\ DataPacket(0, "freed") \in DataNetPackets
<1>1. wpc = "resend" /\ ri = 0 /\ snext = 1 /\ rcount = 1
  BY DEF resend, Goto, CleanInv, Awake
<1>2. DEFAULT_QUEUE_SIZE \in Nat \ {0} /\ 0 \in Slots /\ 0 % DEFAULT_QUEUE_SIZE = 0
  BY GbnConstants, ModSmall DEF Slots
<1>3. sslot[0] = Frame(0, "freed")
  <2>1. 0 \in 0 .. snext - 1 /\ 0 + DEFAULT_QUEUE_SIZE >= snext /\ 0 + 1 = snext
    BY <1>1, <1>2
  <2> QED BY <1>2, <2>1 DEF TransferInv, Ring
<1>4. dnet' \in sendto_(dnet, DataPacket(0, "freed"))
  BY <1>1, <1>2, <1>3 DEF resend, Frame
<1>5. 0 \in SeqNums
  <2>1. snext \in 0 .. NumPackets
    BY DEF TransferInv, TypeOK
  <2> QED BY <1>1, <2>1, GbnConstants DEF SeqNums
<1> QED BY <1>1, <1>4, <1>5 DEF DataNetPackets, Payloads

(***************************************************************************)
(* The packet of the frame that is expected is intact, and so is what is   *)
(* handed up of it.                                                        *)
(***************************************************************************)
LEMMA DataIntact ==
  ASSUME CleanNetwork, TransferInv, CleanInv, Counted, FreshWire, DeliveredIntact,
         NEW i \in Receivable(dnet), dnet' = Without(dnet, i), dnet[i].type = "data",
         OnData(dnet[i].seq, dnet[i].data)
  PROVE  FreshWire' /\ DeliveredIntact'
<1>1. PICK s \in SeqNums, d \in Payloads : s = dnet[i].seq /\ d = dnet[i].data
  <2>1. dnet[i] \in DataNetPackets
    BY DataTaken
  <2> QED BY <2>1 DEF DataNetPackets, DataPacket, EOFPacket, AckEOFPacket, UninitializedPacket
<1>2. /\ snext \in Nat /\ rcount \in Nat /\ RTypeOK /\ OnData(s, d) /\ ropen
      /\ delivered \in Seq(Block) /\ dnet \in Seq(DataNetPackets)
  BY <1>1, NumbersTyped DEF TransferInv, TypeOK, RTypeOK, OnData, Block
<1>3. /\ i = 1 /\ InFlight \in Nat /\ Arriving
      /\ InFlight # 0 => dnet[1].seq = snext - InFlight
      /\ InFlight = 0 => dnet[1].type = "EOF"
  BY <1>2, TakenInTurn DEF CleanInv, InSequence
<1>4. s = snext - InFlight
  BY <1>1, <1>3
<1>5. s <= rcount
  <2>1. CASE rcount + InFlight = snext
    BY <1>2, <1>3, <1>4, <2>1
  <2>2. CASE Repeated
    BY <1>3, <1>4, <2>2 DEF Repeated
  <2> QED BY <1>3, <2>1, <2>2 DEF Arriving
<1>6. PICK blocks \in Seq(Block) :
        /\ delivered' = delivered \o blocks /\ Len(blocks) = rcount' - rcount
        /\ \A k \in 1 .. Len(blocks) : blocks[k].seq = rcount /\ blocks[k].data = d
  BY <1>2, <1>5, StraightThrough DEF CleanInv, InSequence
<1>7. rcount' = IF s = rcount THEN rcount + 1 ELSE rcount
  BY <1>2, <1>5, StraightThrough DEF CleanInv, InSequence
<1>8. FreshWire'
  <2>1. \A k \in 1 .. Len(dnet') : \E j \in 1 .. Len(dnet) : dnet'[k] = dnet[j]
    <3>1. \A k \in 1 .. Len(Without(dnet, i)) :
            \E j \in 1 .. Len(dnet) : Without(dnet, i)[k] = dnet[j]
      BY <1>2, TakeLeaves
    <3> QED BY <3>1
  <2>2. ASSUME NEW k \in 1 .. Len(dnet'), dnet'[k].type = "data", rcount' <= dnet'[k].seq
        PROVE  dnet'[k].data = "intact"
    <3>1. PICK j \in 1 .. Len(dnet) : dnet'[k] = dnet[j]
      BY <2>1
    <3>2. dnet[j] \in DataNetPackets
      BY <1>2, <3>1
    <3>3. dnet[j].seq \in Nat
      BY <2>2, <3>1, <3>2, GbnConstants
      DEF DataNetPackets, DataPacket, EOFPacket, AckEOFPacket, UninitializedPacket, SeqNums
    <3>4. PICK c : c = rcount'
      OBVIOUS
    <3>5. c \in {rcount, rcount + 1} /\ c <= dnet[j].seq
      BY <1>7, <2>2, <3>1, <3>4
    <3>6. rcount <= dnet[j].seq
      BY <1>2, <3>3, <3>5
    <3> QED BY <2>2, <3>1, <3>6 DEF FreshWire
  <2> QED BY <2>2 DEF FreshWire
<1>9. DeliveredIntact'
  <2>1. CASE s = rcount
    <3>1. d = "intact"
      <4>1. 1 \in 1 .. Len(dnet) /\ dnet[1].type = "data" /\ rcount <= dnet[1].seq
        BY <1>1, <1>2, <1>3, <2>1 DEF Receivable, CleanNetwork
      <4> QED BY <1>1, <1>3, <4>1 DEF FreshWire
    <3>2. \A k \in 1 .. Len(delivered \o blocks) : (delivered \o blocks)[k].data = "intact"
      <4>1. \A k \in 1 .. Len(delivered) : delivered[k].data = "intact"
        BY DEF DeliveredIntact
      <4>2. \A k \in 1 .. Len(blocks) : blocks[k].data = "intact"
        BY <1>6, <3>1
      <4>3. /\ Len(delivered \o blocks) = Len(delivered) + Len(blocks)
            /\ \A k \in 1 .. Len(delivered \o blocks) : (delivered \o blocks)[k] =
                 IF k <= Len(delivered) THEN delivered[k] ELSE blocks[k - Len(delivered)]
            /\ Len(delivered) \in Nat /\ Len(blocks) \in Nat
        BY <1>2
      <4>4. ASSUME NEW k \in 1 .. Len(delivered \o blocks)
            PROVE  (delivered \o blocks)[k].data = "intact"
        <5>1. CASE k <= Len(delivered)
          BY <4>1, <4>3, <5>1
        <5>2. CASE ~(k <= Len(delivered))
          <6>1. k - Len(delivered) \in 1 .. Len(blocks)
            BY <4>3, <5>2
          <6> QED BY <4>2, <4>3, <5>2, <6>1
        <5> QED BY <5>1, <5>2
      <4> QED BY <4>4
    <3> QED BY <1>6, <3>2 DEF DeliveredIntact
  <2>2. CASE s # rcount
    <3>1. Len(blocks) = 0
      <4>1. PICK c : c = rcount'
        OBVIOUS
      <4>2. c = rcount /\ Len(blocks) = c - rcount
        BY <1>6, <1>7, <2>2, <4>1
      <4> QED BY <1>2, <4>2
    <3>2. delivered \o blocks = delivered
      BY <1>2, <3>1
    <3> QED BY <1>6, <3>2 DEF DeliveredIntact
  <2> QED BY <2>1, <2>2
<1> QED BY <1>8, <1>9

(***************************************************************************)
(* No step puts a freed payload on the wire that the server still wants.   *)
(***************************************************************************)
LEMMA IntactStep ==
  ASSUME CleanNetwork, TransferInv, CleanInv, Counted, FreshWire, DeliveredIntact,
         [Next]_vars
  PROVE  FreshWire' /\ DeliveredIntact'
<1>0. TransferInv'
  BY TransferStep
<1>1. CASE UNCHANGED <<dnet, rcount, delivered>>
  BY <1>1 DEF FreshWire, DeliveredIntact
<1>2. ASSUME UNCHANGED <<rcount, delivered>>, NEW p \in DataNetPackets,
             dnet' \in sendto_(dnet, p),
             p.type = "data" /\ rcount <= p.seq => p.data = "intact"
      PROVE  FreshWire' /\ DeliveredIntact'
  BY <1>2, SentFresh DEF DeliveredIntact
<1>3. EOFPacket \in DataNetPackets /\ AckEOFPacket \in DataNetPackets
  BY DEF DataNetPackets
<1>4. CASE send_packet /\ UNCHANGED rvars
  <2>1. PICK p : p = DataPacket(snext, "intact")
    OBVIOUS
  <2>2. p \in DataNetPackets
    <3>1. snext' \in 0 .. NumPackets /\ snext' = (snext + 1) % SeqMod
      BY <1>0, <1>4 DEF TransferInv, TypeOK, send_packet
    <3>2. snext \in Nat /\ SeqMod \in Nat \ {0} /\ snext + 1 \in 0 .. SeqMod - 1
      BY NumbersTyped, NetworkConstants DEF TransferInv
    <3>3. snext' = snext + 1
      BY <3>1, <3>2, ModSmall
    <3>4. snext \in SeqNums
      BY <3>1, <3>2, <3>3, GbnConstants DEF SeqNums
    <3> QED BY <2>1, <3>4 DEF DataNetPackets, Payloads
  <2>3. dnet' \in sendto_(dnet, p) /\ p.data = "intact" /\ UNCHANGED <<rcount, delivered>>
    BY <1>4, <2>1 DEF send_packet, DataPacket, rvars
  <2> QED BY <1>2, <2>2, <2>3
<1>5. CASE resend /\ UNCHANGED rvars
  <2>1. PICK p : p = DataPacket(0, "freed")
    OBVIOUS
  <2>2. p \in DataNetPackets /\ dnet' \in sendto_(dnet, p) /\ rcount = 1
    BY <1>5, <2>1, ResendsFirst
  <2>3. p.seq = 0 /\ UNCHANGED <<rcount, delivered>>
    BY <1>5, <2>1 DEF DataPacket, rvars
  <2> QED BY <1>2, <2>2, <2>3
<1>6. CASE close_connection /\ UNCHANGED rvars
  <2>1. dnet' \in sendto_(dnet, EOFPacket) /\ UNCHANGED <<rcount, delivered>>
        /\ EOFPacket.type # "data"
    BY <1>6 DEF close_connection, EOFPacket, rvars
  <2> QED BY <1>2, <1>3, <2>1
<1>7. CASE ClientReceive /\ UNCHANGED rvars
  <2>1. CASE UNCHANGED dnet
    BY <1>1, <1>7, <2>1 DEF rvars
  <2>2. CASE dnet' \in sendto_(dnet, AckEOFPacket)
    <3>1. AckEOFPacket.type # "data" /\ UNCHANGED <<rcount, delivered>>
      BY <1>7 DEF AckEOFPacket, rvars
    <3> QED BY <1>2, <1>3, <2>2, <3>1
  <2> QED BY <1>7, <2>1, <2>2 DEF ClientReceive, OnServerEOF
<1>8. CASE ServerReceive
  <2>1. CASE \E i \in Receivable(dnet) :
               /\ dnet' = Without(dnet, i) /\ dnet[i].type = "data"
               /\ OnData(dnet[i].seq, dnet[i].data)
    BY <2>1, DataIntact
  <2>2. CASE /\ \E i \in Receivable(dnet) : dnet' = Without(dnet, i)
             /\ UNCHANGED <<rcount, delivered>>
    <3>1. dnet \in Seq(DataNetPackets)
      BY DEF TransferInv, TypeOK
    <3>2. \A k \in 1 .. Len(dnet') : \E j \in 1 .. Len(dnet) : dnet'[k] = dnet[j]
      BY <2>2, <3>1, TakeLeaves
    <3> QED BY <2>2, <3>2 DEF FreshWire, DeliveredIntact
  <2> QED BY <1>8, <2>1, <2>2 DEF ServerReceive, OnEOF, rvars
<1>9. CASE ServerEOF
  BY <1>1, <1>9 DEF ServerEOF, rvars
<1>10. CASE UNCHANGED vars
  BY <1>1, <1>10 DEF vars, netvars, rvars
<1>11. CASE /\ AppStep \/ WriterStep \/ ReaderStep
            /\ ~(send_packet \/ resend \/ close_connection \/ ClientReceive)
            /\ UNCHANGED rvars
  <2>1. UNCHANGED dnet
    BY <1>11 DEF AppStep, gbn_socket_write, gbn_socket_close, JoinWriter, WriterStep,
         window_empty_q, block_on_queue, send_packet_closing, is_win_full_q, wait_on_read,
         TimerExpires, SpuriousWakeup, AfterWait, retransmit, ReaderStep, AckHead, AckSize,
         AckSignal, netvars
  <2> QED BY <1>1, <1>11, <2>1 DEF rvars
<1> QED BY <1>4, <1>5, <1>6, <1>7, <1>8, <1>9, <1>10, <1>11 DEF Next

(***************************************************************************)
(* What run freed refutes on a network that loses packets holds on a clean *)
(* one: every block comes up with the payload it was written with, though  *)
(* the first frame may be sent again out of freed memory.                  *)
(***************************************************************************)
THEOREM CleanDeliveredIntact == CleanNetwork => (Spec => []DeliveredIntact)
<1> SUFFICES ASSUME CleanNetwork PROVE Spec => []DeliveredIntact
  OBVIOUS
<1>1. Init => FreshWire /\ DeliveredIntact
  BY DEF Init, NetInit, RInit, FreshWire, DeliveredIntact
<1>2. TransferInv /\ CleanInv /\ Counted /\ FreshWire /\ DeliveredIntact /\ [Next]_vars
        => FreshWire' /\ DeliveredIntact'
  BY IntactStep
<1> QED BY <1>1, <1>2, CleanConsistent, CleanCounted, TransferConsistent, PTL DEF Spec
-----------------------------------------------------------------------------
(***************************************************************************)
(* The file.  gbn_server reads as many bytes at a time as a block has: a   *)
(* read that fills its buffer leaves the block it took them from in the    *)
(* queue, with the pointer at its end.                                     *)
(***************************************************************************)
SameSizes == DEFAULT_BUF_SIZE = DEFAULT_PACKET_SIZE

\* The bytes of the first i blocks, if the file has as many.
UpTo(i) == i * DEFAULT_PACKET_SIZE

\* What the server's reader thread has handed up, it has handed up in turn.
InTurn == Counted /\ rcount <= snext

\* The blocks of the file that gbn_server is done with.
Done == Least(popped, Len(delivered))

Byte == Nat \cup {Garbage}

FileTyped ==
  /\ filelen \in 0 .. NumPackets * DEFAULT_PACKET_SIZE
  /\ rsignal \in BOOLEAN /\ peek \in {"call", "wait", "woken"}
  /\ spc \in {"first", "next", "closing", "closed", "undefined"}
  /\ blockptr \in {0, DEFAULT_PACKET_SIZE}
  /\ bytes_read \in 0 .. DEFAULT_BUF_SIZE
  /\ popped \in 0 .. Len(delivered) + 1
  /\ output \in Seq(Byte)

Reading ==
  /\ written <= FileBlocks
  /\ popped > Len(delivered) => ~ropen /\ spc \in {"next", "undefined"}
  /\ spc = "next" /\ bytes_read # 0 => popped >= FileBlocks \/ popped > Len(delivered)
  /\ blockptr # 0 => /\ spc = "first" /\ popped < Len(delivered)
                     /\ UpTo(popped) + blockptr <= filelen
  /\ Len(output) = Least(UpTo(Done) + blockptr, filelen)
  /\ DeliveredIntact => \A i \in 1 .. Len(output) : output[i] = i - 1

FileInv == FileTyped /\ Reading

(***************************************************************************)
(* A larger number of blocks has at least as many bytes.                   *)
(***************************************************************************)
LEMMA TimesMonotone ==
  ASSUME NEW C \in Nat \ {0}, NEW a \in Int, NEW b \in Int, a <= b
  PROVE  a * C <= b * C
  BY SMT

(***************************************************************************)
(* Blocks and bytes: the blocks of a file cover it, and none of them is    *)
(* beyond its end.                                                         *)
(***************************************************************************)
LEMMA BlocksCover ==
  ASSUME filelen \in Nat
  PROVE  /\ FileBlocks \in Nat /\ UpTo(0) = 0
         /\ \A i \in Nat : /\ UpTo(i) \in Nat
                           /\ UpTo(i + 1) = UpTo(i) + DEFAULT_PACKET_SIZE
                           /\ IF i < FileBlocks THEN UpTo(i) < filelen
                                                ELSE filelen <= UpTo(i)
<1> DEFINE P == DEFAULT_PACKET_SIZE
           a == filelen + P - 1
           q == a \div P
           r == a % P
<1>1. P \in Nat \ {0} /\ P \in Int /\ a \in Int
  BY FileConstants
<1>2. q \in Int /\ a = q * P + r /\ r \in 0 .. P - 1
  BY <1>1, ModDef, ModRange
<1>3. q * P \in Int /\ filelen <= q * P /\ q * P < filelen + P
  <2>1. q * P \in Int
    BY <1>1, <1>2
  <2> HIDE DEF q, r
  <2> QED BY <1>1, <1>2, <2>1
<1>4. ASSUME NEW i \in Int
      PROVE  i * P \in Int /\ (i + 1) * P = i * P + P
  BY <1>1
<1>5. q = FileBlocks
  BY DEF FileBlocks
<1> HIDE DEF P, q, r, a
<1>6. 0 * P = 0
  BY <1>1
<1>7. ASSUME NEW i \in Int, i < q PROVE i * P < filelen
  <2>1. (i + 1) * P <= q * P
    BY <1>1, <1>2, <1>7, TimesMonotone
  <2> QED BY <1>1, <1>3, <1>4, <2>1
<1>8. ASSUME NEW i \in Int, q <= i PROVE filelen <= i * P
  <2>1. q * P <= i * P
    BY <1>1, <1>2, <1>8, TimesMonotone
  <2> QED BY <1>1, <1>3, <1>4, <2>1
<1>9. ASSUME NEW i \in Nat PROVE i * P \in Nat
  <2>1. 0 * P <= i * P
    BY <1>1, TimesMonotone
  <2> QED BY <1>4, <1>6, <2>1
<1>10. q \in Nat
  <2> SUFFICES ASSUME q < 0 PROVE FALSE
    BY <1>2
  <2>1. (q + 1) * P <= 0 * P
    BY <1>1, <1>2, TimesMonotone
  <2> QED BY <1>1, <1>2, <1>3, <1>4, <1>6, <2>1
<1>11. ASSUME NEW i PROVE UpTo(i) = i * P
  BY DEF UpTo, P
<1>12. ASSUME NEW i \in Nat
       PROVE  /\ UpTo(i) \in Nat /\ UpTo(i + 1) = UpTo(i) + P
              /\ IF i < q THEN UpTo(i) < filelen ELSE filelen <= UpTo(i)
  BY <1>2, <1>4, <1>7, <1>8, <1>9, <1>11
<1> QED BY <1>5, <1>6, <1>10, <1>11, <1>12 DEF P

(***************************************************************************)
(* The blocks handed up are the first blocks of the file, in order.        *)
(***************************************************************************)
LEMMA HandedUp ==
  ASSUME InTurn, TransferInv
  PROVE  /\ Len(delivered) \in Nat /\ Len(delivered) <= written /\ written \in Nat
         /\ \A i \in 1 .. Len(delivered) : delivered[i].seq = i - 1
<1>1. rcount <= snext /\ Len(delivered) = rcount
      /\ \A i \in 1 .. Len(delivered) : delivered[i].seq = i - 1
  BY DEF InTurn, Counted, AlwaysInOrder
<1>2. TypeOK /\ Queued
  BY DEF TransferInv
<1> QED BY <1>1, <1>2, NumbersTyped DEF Queued

(***************************************************************************)
(* A copy that starts where the output ends continues the file, as far as  *)
(* the payloads are intact.                                                *)
(***************************************************************************)
LEMMA CopyContinues ==
  ASSUME output \in Seq(Byte), NEW n \in Nat, NEW s \in Nat, peeked.seq = s,
         n = 0 \/ Len(output) = UpTo(s),
         DeliveredIntact => \A i \in 1 .. Len(output) : output[i] = i - 1,
         DeliveredIntact => n = 0 \/ peeked.data = "intact"
  PROVE  /\ output \o Copied(n) \in Seq(Byte)
         /\ Len(output \o Copied(n)) = Len(output) + n
         /\ DeliveredIntact =>
              \A i \in 1 .. Len(output) + n : (output \o Copied(n))[i] = i - 1
<1>1. UpTo(s) \in Nat
  <2>1. DEFAULT_PACKET_SIZE \in Nat
    BY FileConstants
  <2> QED BY <2>1 DEF UpTo
<1>2. PICK c : c = [j \in 1 .. n |-> IF peeked.data = "intact" THEN UpTo(s) + j - 1 ELSE Garbage]
  OBVIOUS
<1>3. Copied(n) = c
  BY <1>2 DEF Copied, FileByte, UpTo
<1>4. /\ c \in Seq(Byte) /\ Len(c) = n
      /\ peeked.data = "intact" => \A j \in 1 .. n : c[j] = UpTo(s) + j - 1
  <2>1. \A j \in 1 .. n : (IF peeked.data = "intact" THEN UpTo(s) + j - 1 ELSE Garbage) \in Byte
    BY <1>1 DEF Byte
  <2> HIDE DEF Byte
  <2> QED BY <1>2, <2>1
<1>5. /\ output \o c \in Seq(Byte) /\ Len(output \o c) = Len(output) + n
      /\ \A i \in 1 .. Len(output) + n :
           (output \o c)[i] = IF i <= Len(output) THEN output[i] ELSE c[i - Len(output)]
  BY <1>4
<1>6. ASSUME DeliveredIntact, NEW i \in 1 .. Len(output) + n PROVE (output \o c)[i] = i - 1
  <2>1. CASE i <= Len(output)
    BY <1>5, <1>6, <2>1
  <2>2. CASE i > Len(output)
    <3>1. Len(output) \in Nat /\ i - Len(output) \in 1 .. n /\ n # 0
      BY <2>2
    <3>2. Len(output) = UpTo(s) /\ peeked.data = "intact"
      BY <1>6, <3>1
    <3> QED BY <1>4, <1>5, <2>2, <3>1, <3>2
  <2>3. i <= Len(output) \/ i > Len(output)
    <3>1. Len(output) \in Nat
      OBVIOUS
    <3> QED BY <3>1
  <2> QED BY <2>1, <2>2, <2>3
<1> QED BY <1>3, <1>5, <1>6

(***************************************************************************)
(* The block at the front of the receive buffer, while it is a block of    *)
(* the file.                                                               *)
(***************************************************************************)
LEMMA BlockIs ==
  ASSUME InTurn, TransferInv, FileInv, popped < Len(delivered)
  PROVE  /\ popped \in Nat /\ popped < FileBlocks /\ ~AtClosingBlock
         /\ peeked.seq = popped /\ Done = popped
         /\ DeliveredIntact => peeked.data = "intact"
         /\ peeked.len = Least(DEFAULT_PACKET_SIZE, filelen - UpTo(popped))
         /\ UpTo(popped) \in Nat /\ UpTo(popped) < filelen
         /\ UpTo(popped + 1) = UpTo(popped) + DEFAULT_PACKET_SIZE
         /\ popped + 1 < FileBlocks => UpTo(popped + 1) < filelen
         /\ FileBlocks \in Nat /\ filelen \in Nat
<1>1. /\ Len(delivered) \in Nat /\ Len(delivered) <= written /\ written \in Nat
      /\ \A i \in 1 .. Len(delivered) : delivered[i].seq = i - 1
  BY HandedUp
<1>2. popped \in Nat /\ filelen \in Nat /\ written <= FileBlocks
  BY <1>1, FileConstants, NetworkConstants DEF FileInv, FileTyped, Reading
<1>3. /\ FileBlocks \in Nat
      /\ \A i \in Nat : /\ UpTo(i) \in Nat
                        /\ UpTo(i + 1) = UpTo(i) + DEFAULT_PACKET_SIZE
                        /\ IF i < FileBlocks THEN UpTo(i) < filelen
                                             ELSE filelen <= UpTo(i)
  BY <1>2, BlocksCover
<1>4. popped < FileBlocks /\ popped + 1 \in 1 .. Len(delivered)
  BY <1>1, <1>2, <1>3
<1>5. /\ delivered[popped + 1].seq = popped
      /\ DeliveredIntact => delivered[popped + 1].data = "intact"
  BY <1>1, <1>2, <1>4 DEF DeliveredIntact
<1>6. ~AtClosingBlock /\ Done = popped
  BY <1>1, <1>2 DEF AtClosingBlock, Done, Least
<1>7. peeked = [seq |-> popped, len |-> BlockLen(popped), data |-> delivered[popped + 1].data]
  BY <1>5, <1>6 DEF peeked
<1>8. BlockLen(popped) = Least(DEFAULT_PACKET_SIZE, filelen - UpTo(popped))
  BY DEF BlockLen, UpTo
<1>9. /\ peeked.seq = popped /\ peeked.len = BlockLen(popped)
      /\ DeliveredIntact => peeked.data = "intact"
  BY <1>5, <1>7
<1>10. popped + 1 \in Nat
  BY <1>2
<1> QED BY <1>2, <1>3, <1>4, <1>6, <1>8, <1>9, <1>10

(***************************************************************************)
(* gbn_socket_read, the first block: it is left in the queue if it fills   *)
(* the buffer, and the next read pops it without copying from it again.    *)
(***************************************************************************)
LEMMA FirstKeeps ==
  ASSUME InTurn, SameSizes, TransferInv, FileInv, read_first, UNCHANGED vars
  PROVE  FileInv'
<1> DEFINE P == DEFAULT_PACKET_SIZE
           D == Len(delivered)
           n == Least(P, peeked.len - blockptr)
<1>1. /\ D \in Nat /\ P \in Nat \ {0} /\ UNCHANGED <<written, ropen, delivered>>
      /\ UNCHANGED <<FileBlocks, filelen, rsignal>> /\ SameSizes /\ peek' = "call"
      /\ DeliveredIntact' <=> DeliveredIntact
  BY HandedUp, FileConstants DEF vars, svars, rvars, read_first, Peeks, FileBlocks, DeliveredIntact
<1>2. /\ spc = "first" /\ BufferNonempty /\ output' = output \o Copied(n)
      /\ \/ n = P /\ blockptr' = blockptr + n /\ UNCHANGED <<spc, popped, bytes_read>>
         \/ /\ n # P /\ popped' = popped + 1 /\ blockptr' = 0 /\ bytes_read' = n
            /\ spc' = "next"
  BY DEF read_first, Peeks, SameSizes
<1>3. /\ blockptr \in {0, P} /\ bytes_read \in 0 .. P /\ popped \in 0 .. D + 1
      /\ filelen \in Nat /\ output \in Seq(Byte)
      /\ DeliveredIntact => \A i \in 1 .. Len(output) : output[i] = i - 1
      /\ Len(output) = Least(UpTo(Done) + blockptr, filelen)
      /\ blockptr # 0 => popped < D /\ UpTo(popped) + blockptr <= filelen
      /\ popped > D => spc \in {"next", "undefined"}
  BY <1>1, NetworkConstants DEF FileInv, FileTyped, Reading, SameSizes
<1>4. CASE AtClosingBlock
  <2>1. popped = D /\ blockptr = 0 /\ peeked.len = 0 /\ peeked.seq = 0 /\ ~ropen
    BY <1>1, <1>3, <1>4 DEF AtClosingBlock, peeked
  <2>2. n = 0 /\ n # P
    BY <1>1, <2>1 DEF Least
  <2>3. /\ output' \in Seq(Byte) /\ Len(output') = Len(output)
        /\ DeliveredIntact => \A i \in 1 .. Len(output') : output'[i] = i - 1
    <3>1. /\ output' \in Seq(Byte) /\ Len(output') = Len(output) + 0
          /\ DeliveredIntact => \A i \in 1 .. Len(output) + 0 : output'[i] = i - 1
      BY <1>2, <1>3, <2>1, <2>2, CopyContinues
    <3> QED BY <1>3, <3>1
  <2>4. popped' = D + 1 /\ blockptr' = 0 /\ bytes_read' = 0 /\ spc' = "next"
    BY <1>2, <2>1, <2>2
  <2>5. Done = D /\ Done' = D
    BY <1>1, <2>1, <2>4 DEF Done, Least
  <2>6. FileTyped'
    BY <1>1, <2>3, <2>4 DEF FileInv, FileTyped, SameSizes
  <2>7. Len(output') = Least(UpTo(Done') + blockptr', filelen')
    BY <1>1, <1>3, <2>1, <2>3, <2>4, <2>5
  <2>8. written' <= FileBlocks'
    BY <1>1 DEF FileInv, Reading
  <2>9. Reading'
    BY <1>1, <2>1, <2>3, <2>4, <2>7, <2>8 DEF Reading
  <2> QED BY <2>6, <2>9 DEF FileInv
<1>5. CASE ~AtClosingBlock
  <2>1. popped < D
    BY <1>2, <1>5 DEF BufferNonempty
  <2> DEFINE u == UpTo(popped)
  <2>2. /\ popped \in Nat /\ popped < FileBlocks /\ peeked.seq = popped /\ Done = popped
        /\ DeliveredIntact => peeked.data = "intact"
        /\ peeked.len = Least(P, filelen - u) /\ u \in Nat /\ u < filelen
        /\ UpTo(popped + 1) = u + P
        /\ popped + 1 < FileBlocks => UpTo(popped + 1) < filelen
        /\ FileBlocks \in Nat
    BY <2>1, BlockIs
  <2>3. n \in 0 .. P
    <3> HIDE DEF u
    <3>1. peeked.len \in 1 .. P
      BY <1>1, <1>3, <2>2 DEF Least
    <3>2. blockptr = P => peeked.len = P
      <4>1. blockptr = P => u + P <= filelen
        BY <1>1, <1>3 DEF u
      <4> QED BY <1>1, <1>3, <2>2, <4>1 DEF Least
    <3> QED BY <1>1, <1>3, <3>1, <3>2 DEF Least
  <2>4. n = 0 \/ (blockptr = 0 /\ Len(output) = u)
    <3>1. Len(output) = Least(u + blockptr, filelen)
      BY <1>3, <2>2
    <3>2. blockptr # 0 => u + P <= filelen
      BY <1>3
    <3> HIDE DEF u
    <3>3. CASE blockptr = 0
      BY <1>3, <2>2, <3>1, <3>3 DEF Least
    <3>4. CASE blockptr # 0
      <4>1. blockptr = P /\ peeked.len = P
        BY <1>1, <1>3, <2>2, <3>2, <3>4 DEF Least
      <4> QED BY <1>1, <4>1 DEF Least
    <3> QED BY <3>3, <3>4
  <2>5. /\ output' \in Seq(Byte) /\ Len(output') = Len(output) + n
        /\ DeliveredIntact => \A i \in 1 .. Len(output') : output'[i] = i - 1
    <3>1. /\ output' \in Seq(Byte) /\ Len(output') = Len(output) + n
          /\ DeliveredIntact => \A i \in 1 .. Len(output) + n : output'[i] = i - 1
      <4>1. n \in Nat
        BY <1>1, <2>3
      <4> HIDE DEF n
      <4> QED BY <1>2, <1>3, <2>2, <2>4, <4>1, CopyContinues
    <3> QED BY <3>1
  <2>6. CASE n = P
    <3>1. blockptr = 0 /\ peeked.len = P /\ u + P <= filelen
      <4> HIDE DEF u
      <4> QED BY <1>1, <1>3, <2>2, <2>6 DEF Least
    <3>2. blockptr' = P /\ UNCHANGED <<spc, popped, bytes_read>>
      BY <1>1, <1>2, <2>6, <3>1
    <3>3. Done' = popped /\ UpTo(popped') = u
      BY <1>1, <2>2, <3>2 DEF Done
    <3>4. Len(output') = Least(UpTo(Done') + blockptr', filelen')
      <4> HIDE DEF u
      <4> QED BY <1>1, <1>3, <2>2, <2>4, <2>5, <2>6, <3>1, <3>2, <3>3 DEF Least, u
    <3>5. FileTyped'
      BY <1>1, <1>3, <2>5, <3>2 DEF FileInv, FileTyped, SameSizes
    <3>6. written' <= FileBlocks'
      BY <1>1 DEF FileInv, Reading
    <3>7. UpTo(popped') + blockptr' <= filelen'
      BY <1>1, <3>1, <3>2, <3>3
    <3>8. Reading'
      BY <1>1, <1>2, <2>1, <2>2, <2>5, <3>2, <3>4, <3>6, <3>7 DEF Reading
    <3> QED BY <3>5, <3>8 DEF FileInv
  <2>7. CASE n # P
    <3>1. popped' = popped + 1 /\ blockptr' = 0 /\ bytes_read' = n /\ spc' = "next"
      BY <1>2, <2>7
    <3>2. Done' = popped + 1
      BY <1>1, <2>1, <2>2, <3>1 DEF Done, Least
    <3>3. /\ Len(output) + n = Least(u + P, filelen)
          /\ n # 0 => filelen < u + P
      <4> HIDE DEF u
      <4>1. CASE blockptr = 0
        <5>1. Len(output) = u
          BY <1>3, <2>2, <4>1 DEF Least, u
        <5>2. n = peeked.len
          BY <1>1, <1>3, <2>2, <4>1 DEF Least
        <5> QED BY <1>1, <1>3, <2>2, <2>7, <5>1, <5>2 DEF Least
      <4>2. CASE blockptr = P
        BY <1>1, <1>3, <2>2, <2>7, <4>2 DEF Least, u
      <4> QED BY <1>3, <4>1, <4>2
    <3>4. n # 0 => popped' >= FileBlocks'
      <4> HIDE DEF u
      <4> QED BY <1>1, <1>3, <2>2, <3>1, <3>3
    <3>5. FileTyped'
      <4>1. popped + 1 \in 0 .. D + 1 /\ n \in 0 .. P
        BY <1>1, <2>1, <2>2, <2>3
      <4> QED BY <1>1, <1>3, <2>5, <3>1, <4>1 DEF FileInv, FileTyped, SameSizes
    <3>6. written' <= FileBlocks'
      BY <1>1 DEF FileInv, Reading
    <3>7. Len(output') = Least(UpTo(Done') + blockptr', filelen')
      BY <1>1, <2>2, <2>5, <3>1, <3>2, <3>3
    <3>8. ~(popped' > Len(delivered'))
      BY <1>1, <2>1, <2>2, <3>1
    <3>9. Reading'
      BY <1>1, <2>5, <3>1, <3>4, <3>6, <3>7, <3>8 DEF Reading
    <3> QED BY <3>5, <3>9 DEF FileInv
  <2> QED BY <2>6, <2>7
<1> QED BY <1>4, <1>5

(***************************************************************************)
(* gbn_socket_read, a following block: as blocks and buffers have the same *)
(* size it is copied whole, and only into an empty buffer.                 *)
(***************************************************************************)
LEMMA NextKeeps ==
  ASSUME InTurn, SameSizes, TransferInv, FileInv, read_next, UNCHANGED vars
  PROVE  FileInv'
<1> DEFINE P == DEFAULT_PACKET_SIZE
           D == Len(delivered)
           u == UpTo(popped)
           n == Least(P - bytes_read, peeked.len)
<1>1. /\ D \in Nat /\ P \in Nat \ {0} /\ UNCHANGED <<written, ropen, delivered>>
      /\ UNCHANGED <<FileBlocks, filelen, rsignal>> /\ peek' = "call"
      /\ DeliveredIntact' <=> DeliveredIntact
      /\ D <= written /\ written \in Nat /\ written <= FileBlocks
  BY HandedUp, FileConstants DEF vars, svars, rvars, read_next, Peeks, FileBlocks,
       FileInv, Reading, DeliveredIntact
<1>2. /\ spc = "next" /\ popped < D /\ output' = output \o Copied(n)
      /\ IF n = peeked.len
         THEN popped' = popped + 1 /\ UNCHANGED blockptr
         ELSE blockptr' = n /\ UNCHANGED popped
      /\ spc' = IF bytes_read + n = P THEN "first" ELSE "next"
      /\ bytes_read' = IF bytes_read + n = P THEN 0 ELSE bytes_read + n
  BY DEF read_next, Peeks, SameSizes, BufferNonempty
<1>3. /\ popped \in Nat /\ popped < FileBlocks /\ peeked.seq = popped /\ Done = popped
      /\ DeliveredIntact => peeked.data = "intact"
      /\ peeked.len = Least(P, filelen - u) /\ u \in Nat /\ u < filelen
      /\ UpTo(popped + 1) = u + P
      /\ popped + 1 < FileBlocks => UpTo(popped + 1) < filelen
      /\ FileBlocks \in Nat /\ filelen \in Nat
  BY <1>2, BlockIs
<1>4. /\ blockptr = 0 /\ output \in Seq(Byte)
      /\ DeliveredIntact => \A i \in 1 .. Len(output) : output[i] = i - 1
      /\ Len(output) = Least(UpTo(Done) + blockptr, filelen)
      /\ bytes_read = 0
  BY <1>1, <1>2, <1>3 DEF FileInv, FileTyped, Reading
<1>5. Len(output) = u
  BY <1>3, <1>4 DEF Least
<1> HIDE DEF u
<1>6. n = peeked.len /\ n \in 1 .. P /\ u + n = Least(u + P, filelen)
      /\ (n # P => filelen < u + P)
  BY <1>1, <1>3, <1>4 DEF Least
<1>7. /\ output' \in Seq(Byte) /\ Len(output') = Len(output) + n
      /\ DeliveredIntact => \A i \in 1 .. Len(output') : output'[i] = i - 1
  <2>1. /\ output' \in Seq(Byte) /\ Len(output') = Len(output) + n
        /\ DeliveredIntact => \A i \in 1 .. Len(output) + n : output'[i] = i - 1
    <3>1. n \in Nat
      BY <1>1, <1>6
    <3> HIDE DEF n
    <3> QED BY <1>2, <1>3, <1>4, <1>5, <3>1, CopyContinues DEF u
  <2> QED BY <2>1
<1>8. popped' = popped + 1 /\ blockptr' = 0
  BY <1>2, <1>4, <1>6
<1>9. \/ spc' = "first" /\ bytes_read' = 0
      \/ spc' = "next" /\ bytes_read' = n /\ popped' >= FileBlocks'
  BY <1>1, <1>2, <1>3, <1>4, <1>6, <1>8
<1> HIDE DEF n
<1>10. Done' = popped + 1
  BY <1>1, <1>2, <1>3, <1>8 DEF Done, Least
<1>11. Len(output') = Least(UpTo(Done') + blockptr', filelen')
  BY <1>1, <1>3, <1>5, <1>6, <1>7, <1>8, <1>10
<1>12. popped' \in 0 .. Len(delivered') /\ written' <= FileBlocks'
  BY <1>1, <1>2, <1>3, <1>8
<1>13. FileTyped'
  <2>1. bytes_read' \in 0 .. DEFAULT_BUF_SIZE /\ popped' \in 0 .. Len(delivered') + 1
    BY <1>1, <1>6, <1>9, <1>12 DEF SameSizes
  <2> QED BY <1>1, <1>7, <1>8, <1>9, <2>1 DEF FileInv, FileTyped
<1>14. Reading'
  BY <1>1, <1>7, <1>8, <1>9, <1>11, <1>12 DEF Reading
<1> QED BY <1>13, <1>14 DEF FileInv

(***************************************************************************)
(* The end of the stream and of the program copy nothing.                  *)
(***************************************************************************)
LEMMA EndKeeps ==
  ASSUME InTurn, TransferInv, FileInv, read_closing \/ server_close, UNCHANGED vars
  PROVE  FileInv'
<1>1. /\ UNCHANGED <<filelen, blockptr, bytes_read, popped, output, FileBlocks, Done>>
      /\ UNCHANGED <<written, ropen, delivered, rsignal>> /\ spc # "first"
      /\ peek' \in {peek, "call"} /\ (DeliveredIntact' <=> DeliveredIntact)
      /\ spc' \in {"closing", "closed"} /\ spc' # "next"
      /\ ~(popped > Len(delivered))
  BY HandedUp DEF read_closing, server_close, Peeks, readvars, vars, svars, rvars, FileBlocks,
       Done, AtClosingBlock, FileInv, Reading, DeliveredIntact
<1>2. FileTyped'
  BY <1>1 DEF FileInv, FileTyped
<1>3. Reading'
  BY <1>1 DEF FileInv, Reading, UpTo
<1> QED BY <1>2, <1>3 DEF FileInv

(***************************************************************************)
(* Neither does waiting for a block, nor being woken with or without one.  *)
(***************************************************************************)
LEMMA WaitKeeps ==
  ASSUME FileInv, peek_wait \/ peek_empty \/ push_signal \/ spurious_wakeup, UNCHANGED vars
  PROVE  FileInv'
<1>1. /\ UNCHANGED <<filelen, blockptr, bytes_read, popped, output, FileBlocks, Done>>
      /\ UNCHANGED <<written, ropen, delivered>> /\ (DeliveredIntact' <=> DeliveredIntact)
      /\ rsignal' \in {rsignal, FALSE} /\ peek' \in {peek, "wait", "woken"}
  BY DEF peek_wait, peek_empty, push_signal, spurious_wakeup, readvars, vars, svars, rvars,
       FileBlocks, Done, DeliveredIntact
<1>2. spc' = spc \/ (spc' = "undefined" /\ ~(popped < Len(delivered)))
  BY DEF peek_wait, peek_empty, push_signal, spurious_wakeup, BufferNonempty
<1>3. FileTyped'
  BY <1>1, <1>2 DEF FileInv, FileTyped
<1>4. Reading'
  BY <1>1, <1>2 DEF FileInv, Reading, UpTo
<1> QED BY <1>3, <1>4 DEF FileInv

(***************************************************************************)
(* What was handed up stays as it is.                                      *)
(***************************************************************************)
LEMMA OnlyAppended ==
  ASSUME TransferInv, [RNext]_rvars
  PROVE  \A k \in 1 .. Len(delivered) : k \in 1 .. Len(delivered') /\ delivered'[k] = delivered[k]
<1>1. RTypeOK /\ delivered \in Seq(Block)
  BY DEF TransferInv, TypeOK, RTypeOK, Block
<1>2. CASE \E s \in SeqNums, d \in Payloads : OnData(s, d)
  <2>1. PICK s \in SeqNums, d \in Payloads, n \in 0 .. DEFAULT_QUEUE_SIZE :
          delivered' = delivered \o Blocks(Stored(s, d), n)
    BY <1>2 DEF OnData
  <2>2. PICK blocks : blocks = Blocks(Stored(s, d), n)
    OBVIOUS
  <2>3. blocks \in Seq(Block)
    <3>1. Stored(s, d) \in [Slots -> FrameType]
      BY <1>1, StoredType
    <3> QED BY <1>1, <2>2, <3>1, BlocksType
  <2>4. \A k \in 1 .. Len(delivered) :
          k \in 1 .. Len(delivered \o blocks) /\ (delivered \o blocks)[k] = delivered[k]
    BY <1>1, <2>3
  <2> QED BY <2>1, <2>2, <2>4
<1>3. CASE UNCHANGED delivered
  BY <1>3
<1> QED BY <1>2, <1>3 DEF RNext, OnEOF, rvars

(***************************************************************************)
(* While packets and acks travel the file that is read stays what it is:   *)
(* blocks are only added behind the ones that were read, and none any more *)
(* when the closing block has been taken for one.                          *)
(***************************************************************************)
LEMMA TransferLeavesFile ==
  ASSUME InTurn, InTurn', TransferInv, FileInv, [RNext]_rvars,
         UNCHANGED <<filelen, peek, spc, readvars>>, rsignal' \in BOOLEAN,
         written' <= FileBlocks
  PROVE  FileInv'
<1>1. /\ UNCHANGED <<filelen, spc, blockptr, bytes_read, popped, output, FileBlocks>>
      /\ UNCHANGED peek /\ rsignal' \in BOOLEAN
  BY DEF readvars, FileBlocks
<1>2. /\ Len(delivered) \in Nat /\ Len(delivered') \in Nat
      /\ Len(delivered) <= Len(delivered')
      /\ ropen' => ropen
      /\ ~ropen => UNCHANGED delivered
  <2>1. Len(delivered) = rcount /\ Len(delivered') = rcount' /\ rcount \in Nat
    BY DEF TransferInv, InTurn, Counted, TypeOK, RTypeOK
  <2>2. CASE RNext
    <3>1. CASE \E s \in SeqNums, d \in Payloads : OnData(s, d)
      <4>1. ropen /\ \E n \in 0 .. DEFAULT_QUEUE_SIZE : rcount' = rcount + n
        BY <3>1 DEF OnData
      <4> QED BY <2>1, <4>1, GbnConstants
    <3>2. CASE OnEOF
      BY <2>1, <3>2 DEF OnEOF
    <3> QED BY <2>2, <3>1, <3>2 DEF RNext
  <2>3. CASE UNCHANGED rvars
    BY <2>1, <2>3 DEF rvars
  <2> QED BY <2>2, <2>3
<1>3. popped > Len(delivered) => ~ropen /\ spc \in {"next", "undefined"}
  BY DEF FileInv, Reading
<1>4. popped \in 0 .. Len(delivered) + 1
  BY DEF FileInv, FileTyped
<1>5. Done' = Done
  <2>1. CASE ropen
    <3>1. ~(popped > Len(delivered)) /\ ~(popped > Len(delivered'))
      BY <1>2, <1>3, <1>4, <2>1
    <3> QED BY <1>1, <1>2, <1>4, <3>1 DEF Done, Least
  <2>2. CASE ~ropen
    BY <1>1, <1>2, <2>2 DEF Done
  <2> QED BY <2>1, <2>2
<1>6. FileTyped'
  <2>1. popped' \in 0 .. Len(delivered') + 1
    BY <1>1, <1>2, <1>4
  <2> QED BY <1>1, <2>1 DEF FileInv, FileTyped
<1>7. /\ popped' > Len(delivered') => popped > Len(delivered)
      /\ popped > Len(delivered) => popped' > Len(delivered') /\ ~ropen'
      /\ popped < Len(delivered) => popped' < Len(delivered')
  BY <1>1, <1>2, <1>3, <1>4
<1>8. DeliveredIntact' => DeliveredIntact
  BY <1>2, OnlyAppended DEF DeliveredIntact
<1>9. Reading'
  BY <1>1, <1>3, <1>5, <1>7, <1>8 DEF FileInv, Reading, UpTo
<1> QED BY <1>6, <1>9 DEF FileInv

(***************************************************************************)
(* A step of the two programs is a step of the transfer or none.           *)
(***************************************************************************)
LEMMA FileStepIsTransfer == [FNext]_fvars => [Next]_vars
BY DEF FNext, fvars, Next, ClientLoop, reader_receives

(***************************************************************************)
(* The client writes no more blocks than the file has.                     *)
(***************************************************************************)
LEMMA WritesTheFile ==
  ASSUME TypeOK, filelen \in Nat, written <= FileBlocks, [FNext]_fvars
  PROVE  written' <= FileBlocks
<1>1. written \in Nat /\ FileBlocks \in Nat
  BY NumbersTyped, BlocksCover
<1>2. CASE ClientLoop
  <2>1. CASE gbn_socket_write
    BY <1>1, <1>2, <2>1 DEF ClientLoop, gbn_socket_write
  <2>2. CASE gbn_socket_close \/ JoinWriter
    BY <2>2 DEF gbn_socket_close, JoinWriter
  <2> QED BY <1>2, <2>1, <2>2 DEF ClientLoop, AppStep
<1>3. CASE WriterStep
  BY <1>3 DEF WriterStep, window_empty_q, block_on_queue, send_packet,
       send_packet_closing, is_win_full_q, wait_on_read, TimerExpires, SpuriousWakeup,
       AfterWait, retransmit, resend, close_connection
<1>4. CASE ReaderStep
  BY <1>4 DEF ReaderStep, AckHead, AckSize, AckSignal, ClientReceive, OnAck, OnAckEOF,
       OnServerEOF
<1>5. CASE UNCHANGED svars
  BY <1>5 DEF svars
<1> QED BY <1>2, <1>3, <1>4, <1>5 DEF FNext, fvars, vars

(***************************************************************************)
(* No step of either program, of the sockets or of the network breaks the  *)
(* invariant of the file.                                                  *)
(***************************************************************************)
LEMMA FileStep ==
  ASSUME InTurn, InTurn', SameSizes, TransferInv, FileInv, [FNext]_fvars
  PROVE  FileInv'
<1>1. TransferInv' /\ [RNext]_rvars
  BY FileStepIsTransfer, TransferStep
<1>2. CASE (gbn_server \/ push_signal \/ spurious_wakeup) /\ UNCHANGED vars
  BY <1>2, FirstKeeps, NextKeeps, EndKeeps, WaitKeeps DEF gbn_server
<1>3. CASE UNCHANGED <<filelen, peek, spc, readvars>> /\ rsignal' \in BOOLEAN
  <2>1. written' <= FileBlocks
    <3>1. TypeOK /\ filelen \in Nat /\ written <= FileBlocks
      BY FileConstants, NetworkConstants DEF TransferInv, FileInv, FileTyped, Reading
    <3> QED BY <3>1, WritesTheFile
  <2> QED BY <1>1, <1>3, <2>1, TransferLeavesFile
<1>4. rsignal \in BOOLEAN
  BY DEF FileInv, FileTyped
<1> QED BY <1>2, <1>3, <1>4 DEF FNext, fvars, filevars, reader_receives, Pushes

(***************************************************************************)
(* It holds of the empty output.                                           *)
(***************************************************************************)
LEMMA FileInit ==
  ASSUME FInit
  PROVE  FileInv
<1>1. /\ written = 0 /\ delivered = <<>> /\ ropen = TRUE /\ popped = 0 /\ output = <<>>
      /\ spc = "first" /\ blockptr = 0 /\ bytes_read = 0
      /\ filelen \in 0 .. NumPackets * DEFAULT_PACKET_SIZE
      /\ rsignal = FALSE /\ peek = "call"
  BY DEF FInit, Init, SInit, RInit
<1>2. filelen \in Nat /\ DEFAULT_BUF_SIZE \in Nat
  BY <1>1, FileConstants, NetworkConstants
<1>3. FileBlocks \in Nat /\ UpTo(0) = 0
  BY <1>2, BlocksCover
<1>4. Done = 0 /\ Len(output) = 0 /\ Len(delivered) = 0
  BY <1>1 DEF Done, Least
<1>5. FileTyped
  <2>1. output \in Seq(Byte)
    BY <1>1
  <2>2. /\ spc \in {"first", "next", "closing", "closed", "undefined"}
        /\ peek \in {"call", "wait", "woken"}
        /\ blockptr \in {0, DEFAULT_PACKET_SIZE} /\ bytes_read \in 0 .. DEFAULT_BUF_SIZE
    BY <1>1, <1>2
  <2>3. popped \in 0 .. Len(delivered) + 1
    BY <1>1, <1>4
  <2>4. rsignal \in BOOLEAN
    BY <1>1, Zenon
  <2> QED BY <1>1, <2>1, <2>2, <2>3, <2>4 DEF FileTyped
<1>6. Len(output) = Least(UpTo(Done) + blockptr, filelen)
  BY <1>1, <1>2, <1>3, <1>4 DEF Least
<1>7. Reading
  BY <1>1, <1>3, <1>4, <1>6 DEF Reading
<1> QED BY <1>5, <1>7 DEF FileInv

(***************************************************************************)
(* The two programs only use the sockets: their runs are transfers.        *)
(***************************************************************************)
THEOREM FileImplementsTransfer == FSpec => Spec
<1>1. FInit => Init
  BY DEF FInit
<1> QED BY <1>1, FileStepIsTransfer, PTL DEF FSpec, Spec

(***************************************************************************)
(* Blocks come up counted and in order on a network of any kind while the  *)
(* head byte does not wrap, and on a clean one for ever.                   *)
(***************************************************************************)
CountsRight == ShortTransfer \/ CleanNetwork

LEMMA FileInTurn == CountsRight => (FSpec => []InTurn)
<1>1. ASSUME ShortTransfer PROVE FSpec => []InTurn
  <2>1. TransferInv => InTurn
    BY <1>1 DEF TransferInv, Sliding, Wire, InTurn, Counted, AlwaysInOrder
  <2> QED BY <2>1, FileImplementsTransfer, TransferConsistent, PTL
<1>2. ASSUME CleanNetwork PROVE FSpec => []InTurn
  <2>1. TransferInv /\ CleanInv => rcount <= snext
    BY CleanNumbers
  <2>2. Counted /\ rcount <= snext => InTurn
    BY DEF InTurn
  <2> QED
    BY <1>2, <2>1, <2>2, CleanCounted, CleanConsistent, FileImplementsTransfer,
       TransferConsistent, PTL
<1> QED BY <1>1, <1>2 DEF CountsRight

(***************************************************************************)
(* The invariant of the file holds throughout the two programs' runs.      *)
(***************************************************************************)
THEOREM FileConsistent == CountsRight /\ SameSizes => (FSpec => []FileInv)
<1> SUFFICES ASSUME CountsRight, SameSizes PROVE FSpec => []FileInv
  OBVIOUS
<1>1. FInit => FileInv
  BY FileInit
<1>2. TransferInv /\ InTurn /\ InTurn' /\ FileInv /\ [FNext]_fvars => FileInv'
  BY FileStep
<1> QED BY <1>1, <1>2, FileImplementsTransfer, FileInTurn, TransferConsistent, PTL DEF FSpec

(***************************************************************************)
(* On a clean network gbn_server writes down a beginning of the file that  *)
(* gbn_client reads, byte for byte and however long the file is, when a    *)
(* read has the size of a block, and also up to the moment, if it comes,   *)
(* when a late signal makes it use a block that is not there.              *)
(***************************************************************************)
THEOREM OutputIsFile == CleanNetwork /\ SameSizes => (FSpec => []StreamIsFile)
<1> SUFFICES ASSUME CleanNetwork, SameSizes PROVE FSpec => []StreamIsFile
  OBVIOUS
<1>1. FileInv /\ DeliveredIntact => StreamIsFile
  BY DEF FileInv, Reading, StreamIsFile
<1>2. CountsRight
  BY DEF CountsRight
<1> QED BY <1>1, <1>2, FileConsistent, FileImplementsTransfer, CleanDeliveredIntact, PTL

(***************************************************************************)
(* Whatever the network does to its packets, the output is the beginning   *)
(* of the file as long as no freed payload has been handed up, when the    *)
(* head byte can count the blocks and a read has the size of a block:      *)
(* gbn_socket_read itself misplaces nothing.                               *)
(***************************************************************************)
THEOREM IntactOutputIsFile ==
  ShortTransfer /\ SameSizes => (FSpec => [](DeliveredIntact => StreamIsFile))
<1>1. FileInv => (DeliveredIntact => StreamIsFile)
  BY DEF FileInv, Reading, StreamIsFile
<1>2. ShortTransfer => CountsRight
  BY DEF CountsRight
<1> QED BY <1>1, <1>2, FileConsistent, PTL

(***************************************************************************)
(* Under the conditions of FileConsistent both programs keep their state   *)
(* in shape; the server's pointer into a block stays inside it and its     *)
(* output inside the length of the file.                                   *)
(***************************************************************************)
THEOREM FileTypeCorrect == CountsRight /\ SameSizes => (FSpec => []FTypeOK)
<1>1. TransferInv /\ FileInv => FTypeOK
  <2> SUFFICES ASSUME TransferInv, FileInv PROVE FTypeOK
    OBVIOUS
  <2>1. blockptr \in 0 .. DEFAULT_PACKET_SIZE
    BY FileConstants DEF FileInv, FileTyped
  <2>2. Len(output) <= filelen
    <3>1. filelen \in Nat /\ Len(output) = Least(UpTo(Done) + blockptr, filelen)
          /\ popped \in Nat /\ Len(delivered) \in Nat
      BY FileConstants, NetworkConstants DEF FileInv, FileTyped, Reading, TransferInv, TypeOK, RTypeOK
    <3>2. Done \in Nat /\ blockptr \in Nat
      BY <2>1, <3>1, FileConstants DEF Done, Least
    <3>3. UpTo(Done) \in Nat
      BY <3>1, <3>2, BlocksCover
    <3> QED BY <3>1, <3>2, <3>3 DEF Least
  <2> QED BY <2>1, <2>2 DEF FTypeOK, FileInv, FileTyped, TransferInv
<1> QED BY <1>1, FileConsistent, FileImplementsTransfer, TransferConsistent, PTL
=============================================================================
