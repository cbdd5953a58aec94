------------------------------ MODULE GbnPacket ------------------------------
(***************************************************************************)
(* What both halves of a Go-Back-N socket share: the constants, frames and *)
(* packets of gbn_socket.h.                                                *)
(***************************************************************************)
EXTENDS Integers, Sequences

CONSTANTS
  DEFAULT_QUEUE_SIZE,  \* slots of a window, 6 in the code
  ByteMod,             \* a window's head, tail and size are bytes: 256
  NumPackets           \* bound: sequence numbers in use are 0..NumPackets-1

ASSUME GbnConstants ==
  /\ DEFAULT_QUEUE_SIZE \in Nat \ {0}
  /\ ByteMod \in Nat \ {0} /\ 2 * DEFAULT_QUEUE_SIZE <= ByteMod
  /\ NumPackets \in Nat

Slots == 0 .. DEFAULT_QUEUE_SIZE - 1
SeqNums == 0 .. NumPackets - 1

(***************************************************************************)
(* What a payload pointer leads to: the block that was written, a block    *)
(* that has been freed (its contents are indeterminate), or nothing.       *)
(***************************************************************************)
Payloads == {"intact", "freed"}
NoData == "null"

(***************************************************************************)
(* A slot of a window: init is _m_type # gbn_packet_type_uninitialized.    *)
(* A socket is calloc'ed, so every slot starts out uninitialized.          *)
(***************************************************************************)
Frame(s, d) == [init |-> TRUE, seq |-> s, data |-> d]
EmptyFrame == [init |-> FALSE, seq |-> 0, data |-> NoData]
FrameType == [init : BOOLEAN, seq : Nat, data : Payloads \cup {NoData}]

(***************************************************************************)
(* The slot k places after the head of a window: GET_SEND_FRAME and        *)
(* GET_RECEIVE_FRAME.                                                      *)
(***************************************************************************)
FrameIndex(head, k) == (head + k) % DEFAULT_QUEUE_SIZE
=============================================================================
