------------------------------ MODULE GbnNetwork ------------------------------
(***************************************************************************)
(* The two directions of the UDP path between a GBN client and a GBN       *)
(* server, with the simulated loss of sendto_ (sendto.c) in front of it.   *)
(*                                                                         *)
(* dnet holds what the client has sent and the server has not yet taken,   *)
(* anet what the server has sent back.                                     *)
(***************************************************************************)
EXTENDS GbnPacket

CONSTANTS
  NetCap,      \* bound: packets in flight per direction; beyond it they drop
  Unreliable,  \* packets may be lost and overtaken by later ones
  SeqMod       \* sequence numbers are counted modulo this, 2^32 in the code

ASSUME NetworkConstants ==
  /\ NetCap \in Nat \ {0}
  /\ Unreliable \in BOOLEAN
  /\ SeqMod \in Nat /\ SeqMod > NumPackets + DEFAULT_QUEUE_SIZE

VARIABLES dnet, anet

netvars == <<dnet, anet>>

(***************************************************************************)
(* The packets a socket puts on the wire.  A retransmission that reads a   *)
(* slot that holds no packet serializes a packet of the type               *)
(* gbn_packet_type_uninitialized, which every reader ignores.              *)
(***************************************************************************)
DataPacket(s, d) == [type |-> "data", seq |-> s, data |-> d]
AckPacket(s) == [type |-> "ack", seq |-> s]
EOFPacket == [type |-> "EOF"]
AckEOFPacket == [type |-> "ack_EOF"]
UninitializedPacket == [type |-> "uninitialized"]

DataNetPackets ==
  {DataPacket(s, d) : s \in SeqNums, d \in Payloads}
    \cup {EOFPacket, AckEOFPacket, UninitializedPacket}
AckNetPackets ==
  {AckPacket(s) : s \in 0 .. SeqMod - 1} \cup {EOFPacket, AckEOFPacket}

(***************************************************************************)
(* The contents a direction may have after packet p is sent into it.       *)
(* sendto_ drops a packet with the configured probability before sendto    *)
(* is called, and UDP may drop it after; the sender cannot tell which.     *)
(***************************************************************************)
sendto_(net, p) ==
  {n \in {net, Append(net, p)} :
     IF n = net THEN Unreliable \/ Len(net) = NetCap ELSE Len(net) < NetCap}

(***************************************************************************)
(* The positions recvfrom may take the next packet from.                   *)
(***************************************************************************)
Receivable(net) ==
  IF Unreliable THEN 1 .. Len(net) ELSE 1 .. Len(net) \cap {1}

Without(net, i) == SubSeq(net, 1, i - 1) \o SubSeq(net, i + 1, Len(net))

NetInit == dnet = <<>> /\ anet = <<>>
=============================================================================
