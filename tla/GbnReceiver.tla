----------------------------- MODULE GbnReceiver -----------------------------
(***************************************************************************)
(* The receiving half of a Go-Back-N socket: what the reader thread does   *)
(* with the data and EOF packets it takes from the network.                *)
(*                                                                         *)
(* The network is the environment: it may hand over any packet a sender    *)
(* can have made, in any order, any number of times, or never.  The reader *)
(* thread alone touches the receive window, so one packet is one step; a   *)
(* push that blocks on a full receive buffer is the business of BlockQueue.*)
(***************************************************************************)
EXTENDS GbnPacket

(***************************************************************************)
(* A transfer short enough for the head byte never to wrap in mid-window.  *)
(***************************************************************************)
ShortTransfer == NumPackets <= ByteMod

VARIABLES
  rhead, rtail, rsize,  \* the bytes _m_head, _m_tail, _m_size
  rcount,               \* _m_recv_counter: the next sequence number expected
  rslot,                \* _m_packet_buffer
  delivered,            \* every block ever pushed on the receive buffer
  ropen                 \* the reader thread is still in its loop

rvars == <<rhead, rtail, rsize, rcount, rslot, delivered, ropen>>

(***************************************************************************)
(* calloc and init_gbn_window.                                             *)
(***************************************************************************)
RInit ==
  /\ rhead = 0 /\ rtail = 0 /\ rsize = 0
  /\ rcount = 0
  /\ rslot = [i \in Slots |-> EmptyFrame]
  /\ delivered = <<>>
  /\ ropen = TRUE

\* _m_head++ applied k times to a byte.
HeadAfter(h, k) == (h + k) % ByteMod

(***************************************************************************)
(* The window after frame (s, d) is stored: the frame goes to the slot its *)
(* distance from the receive counter names; then the tail and the size are *)
(* extended by the distance from s to the sequence number that happens to  *)
(* stand in the slot just past the window, a stale one included.           *)
(***************************************************************************)
\* (Mutant of Accepts: a frame that was handed up before is taken again.)
AcceptsOld(s) == s < rcount + DEFAULT_QUEUE_SIZE
Accepts(s) == rcount <= s /\ s < rcount + DEFAULT_QUEUE_SIZE

Stored(s, d) ==
  IF Accepts(s)
  THEN [rslot EXCEPT ![FrameIndex(rhead, s - rcount)] = Frame(s, d)]
  ELSE rslot

Growth(s, d) ==
  LET framediff == s - Stored(s, d)[FrameIndex(rhead, rsize)].seq + 1
  IN IF Accepts(s) /\ framediff > 0 THEN framediff ELSE 0

(***************************************************************************)
(* The loop that slides the window: it stops at the first slot that is     *)
(* uninitialized, either because nothing was stored there or because the   *)
(* loop itself has just taken the frame out of it.                         *)
(***************************************************************************)
SlideIndex(k) == FrameIndex(HeadAfter(rhead, k), 0)

Slides(slots, k) ==
  /\ slots[SlideIndex(k)].init
  /\ \A j \in 0 .. k - 1 : SlideIndex(j) # SlideIndex(k)

RunLength(slots, n) ==
  /\ \A k \in 0 .. n - 1 : Slides(slots, k)
  /\ n = DEFAULT_QUEUE_SIZE \/ ~Slides(slots, n)

\* Mutant of Emptied: _m_type is not set back to uninitialized.
NotEmptied(slots, n) == slots

Emptied(slots, n) ==
  [i \in Slots |-> IF \E k \in 0 .. n - 1 : i = SlideIndex(k)
                   THEN [slots[i] EXCEPT !.init = FALSE]
                   ELSE slots[i]]

Blocks(slots, n) ==
  [k \in 1 .. n |-> [seq  |-> slots[SlideIndex(k - 1)].seq,
                     data |-> slots[SlideIndex(k - 1)].data]]

(***************************************************************************)
(* A data packet.  The cumulative acknowledgement that the thread sends    *)
(* next carries the new receive counter minus one (see GbnTransfer).       *)
(***************************************************************************)
OnData(s, d) ==
  /\ ropen
  /\ \E n \in 0 .. DEFAULT_QUEUE_SIZE :
       /\ RunLength(Stored(s, d), n)
       /\ delivered' = delivered \o Blocks(Stored(s, d), n)
       /\ rslot' = Emptied(Stored(s, d), n)
       /\ rcount' = rcount + n
       /\ rhead' = HeadAfter(rhead, n)
       /\ rsize' = (rsize + Growth(s, d) - n) % ByteMod
  /\ rtail' = IF Growth(s, d) > 0
              THEN ((rtail + Growth(s, d)) % ByteMod) % DEFAULT_QUEUE_SIZE
              ELSE rtail
  /\ UNCHANGED ropen

(***************************************************************************)
(* The EOF packet: the thread marks the read side closed and returns.      *)
(***************************************************************************)
OnEOF ==
  /\ ropen
  /\ ropen' = FALSE
  /\ UNCHANGED <<rhead, rtail, rsize, rcount, rslot, delivered>>

RNext ==
  \/ \E s \in SeqNums, d \in Payloads : OnData(s, d)
  \/ OnEOF

RSpec == RInit /\ [][RNext]_rvars
-----------------------------------------------------------------------------
(***************************************************************************)
(* Type invariant of the receive window and of the blocks handed up by     *)
(* gbn_socket_read_thread_main.                                            *)
(***************************************************************************)
RTypeOK ==
  /\ rhead \in 0 .. ByteMod - 1
  /\ rtail \in 0 .. DEFAULT_QUEUE_SIZE - 1
  /\ rsize \in 0 .. ByteMod - 1
  /\ rcount \in Nat
  /\ rslot \in [Slots -> FrameType]
  /\ delivered \in Seq([seq : Nat, data : Payloads \cup {NoData}])
  /\ ropen \in BOOLEAN

(***************************************************************************)
(* Whatever the network loses, repeats or reorders, the blocks the reader  *)
(* thread pushes on the receive buffer are packet 0, packet 1, packet 2... *)
(* with none missing, none twice and none out of place.                    *)
(***************************************************************************)
InOrder ==
  ShortTransfer =>
    /\ Len(delivered) = rcount
    /\ \A i \in 1 .. Len(delivered) : delivered[i].seq = i - 1

(***************************************************************************)
(* Between two packets the window holds only frames that are still wanted, *)
(* each in the slot its sequence number names, and never the frame that is *)
(* expected next: the sliding loop leaves no deliverable frame behind and  *)
(* no stale one that a later lap of the ring would mistake for data.       *)
(***************************************************************************)
NoStrandedFrame ==
  ShortTransfer =>
    \A i \in Slots : rslot[i].init =>
      /\ rcount < rslot[i].seq /\ rslot[i].seq < rcount + DEFAULT_QUEUE_SIZE
      /\ rslot[i].seq % DEFAULT_QUEUE_SIZE = i

(***************************************************************************)
(* What the comments of the sliding code promise with no bound on the      *)
(* transfer: frames come up in order however often the head byte wraps.    *)
(***************************************************************************)
AlwaysInOrder ==
  \A i \in 1 .. Len(delivered) : delivered[i].seq = i - 1
=============================================================================
