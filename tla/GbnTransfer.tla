----------------------------- MODULE GbnTransfer -----------------------------
(***************************************************************************)
(* A transfer: gbn_client's socket sends, gbn_server's socket receives and *)
(* acknowledges, over the network between them.                            *)
(*                                                                         *)
(* The server learns whom to answer late.  Its reader starts out with      *)
(* sockaddr_size = 0, so the first recvfrom stores no address but sets     *)
(* sockaddr_size; only from the second packet on is _m_to_addr filled in,  *)
(* and what is sent before goes to the null address.                       *)
(***************************************************************************)
EXTENDS GbnSender, GbnReceiver

VARIABLES
  raddr,   \* packets the server has received, counted up to 2
  seof     \* the server's writer thread has sent its own EOF

vars == <<svars, rvars, netvars, raddr, seof>>

Init ==
  /\ SInit /\ RInit /\ NetInit
  /\ raddr = 0 /\ seof = FALSE
-----------------------------------------------------------------------------
(***************************************************************************)
(* The client's reader thread takes a packet.                              *)
(***************************************************************************)
ClientReceive ==
  \E i \in Receivable(anet) :
    /\ anet' = Without(anet, i)
    /\ \/ /\ anet[i].type = "ack"
          /\ OnAck(anet[i].seq)
          /\ UNCHANGED dnet
       \/ /\ anet[i].type = "ack_EOF"
          /\ OnAckEOF
          /\ UNCHANGED dnet
       \/ /\ anet[i].type = "EOF"
          /\ OnServerEOF

ReaderStep == AckHead \/ AckSize \/ AckSignal \/ ClientReceive

(***************************************************************************)
(* The server's reader thread takes a packet and answers it, and its       *)
(* writer thread follows with an EOF when the reader pushes the closing    *)
(* block on the sending buffer.                                            *)
(***************************************************************************)
\* The number a cumulative ack carries; mutant: the next one expected.
AckOfNext(count) == count % SeqMod
AckNumber(count) == (count - 1) % SeqMod

answer(p) == IF raddr' = 2 THEN sendto_(anet, p) ELSE {anet}

ServerReceive ==
  \E i \in Receivable(dnet) :
    /\ dnet' = Without(dnet, i)
    /\ raddr' = IF raddr < 2 THEN raddr + 1 ELSE 2
    /\ \/ /\ dnet[i].type = "data"
          /\ OnData(dnet[i].seq, dnet[i].data)
          /\ anet' \in answer(AckPacket(AckNumber(rcount')))
       \/ /\ dnet[i].type = "EOF"
          /\ OnEOF
          /\ anet' \in answer(AckEOFPacket)
       \/ /\ dnet[i].type = "uninitialized"
          /\ ropen
          /\ UNCHANGED <<rvars, anet>>

ServerEOF ==
  /\ ~ropen /\ ~seof
  /\ seof' = TRUE
  /\ UNCHANGED raddr
  /\ anet' \in answer(EOFPacket)
  /\ UNCHANGED <<rvars, dnet>>

Next ==
  \/ (AppStep \/ WriterStep \/ ReaderStep) /\ UNCHANGED <<rvars, raddr, seof>>
  \/ ServerReceive /\ UNCHANGED <<svars, seof>>
  \/ ServerEOF /\ UNCHANGED svars

Spec == Init /\ [][Next]_vars

(***************************************************************************)
(* Every thread that can run eventually runs, the 50 ms of the writer's    *)
(* wait pass, and the application goes on to close the socket.  The reader *)
(* gets strong fairness: the socket's mutex is free for up to 50 ms at a   *)
(* time, so a reader that wants it is not overtaken for ever.              *)
(***************************************************************************)
Fairness ==
  /\ WF_vars(AppStep /\ UNCHANGED <<rvars, raddr, seof>>)
  /\ WF_vars(WriterStep /\ UNCHANGED <<rvars, raddr, seof>>)
  /\ SF_vars(ReaderStep /\ UNCHANGED <<rvars, raddr, seof>>)
  /\ WF_vars(ServerReceive /\ UNCHANGED <<svars, seof>>)

FairSpec == Spec /\ Fairness
-----------------------------------------------------------------------------
(***************************************************************************)
(* Type invariant of both sockets and of the network between them.         *)
(***************************************************************************)
TypeOK ==
  /\ RTypeOK
  /\ apc \in {"open", "join", "closed"}
  /\ written \in 0 .. NumPackets
  /\ sbuf \in Seq({"block", "closing"}) /\ Len(sbuf) <= SBufCap
  /\ wpc \in WriterStates /\ ri \in 0 .. ByteMod - 1
  /\ shead \in 0 .. ByteMod - 1 /\ stail \in Slots /\ ssize \in 0 .. ByteMod - 1
  /\ sslot \in [Slots -> FrameType]
  /\ snext \in 0 .. NumPackets
  /\ rpc \in {"recv", "ack_mod", "ack_size", "signal", "gone"}
  /\ framediff \in -1 .. DEFAULT_QUEUE_SIZE
  /\ overrun \in BOOLEAN
  /\ dnet \in Seq(DataNetPackets) /\ Len(dnet) <= NetCap
  /\ anet \in Seq(AckNetPackets) /\ Len(anet) <= NetCap
  /\ raddr \in 0 .. 2 /\ seof \in BOOLEAN

(***************************************************************************)
(* The sending window as it is once the acknowledgement being applied has  *)
(* been applied in full.  It lives until gbn_socket_close frees the socket *)
(* and is sound until an ack takes frames that it does not hold.           *)
(***************************************************************************)
WindowSound == apc # "closed" /\ ~overrun
WindowHead == shead % DEFAULT_QUEUE_SIZE
WindowSize ==
  IF rpc \in {"ack_mod", "ack_size"} THEN ssize - framediff ELSE ssize

(***************************************************************************)
(* As long as every ack has found the frames it acknowledges in the window *)
(* the window is exact: at most DEFAULT_QUEUE_SIZE frames, the last ones   *)
(* sent, in the slots from the head to the tail.                           *)
(***************************************************************************)
WindowExact ==
  WindowSound =>
    /\ WindowSize \in 0 .. DEFAULT_QUEUE_SIZE
    /\ stail = (WindowHead + WindowSize) % DEFAULT_QUEUE_SIZE
    /\ \A k \in 0 .. WindowSize - 1 :
         sslot[FrameIndex(WindowHead, k)].seq = snext - WindowSize + k

(***************************************************************************)
(* The sender forgets a frame only once the receiver has handed it up:     *)
(* however acks are delayed, repeated or overtaken, a frame that slides    *)
(* out of the sending window has been pushed on the receive buffer.        *)
(***************************************************************************)
AckedIsDelivered == WindowSound => snext - WindowSize <= rcount

\* Bound: once an ack has overrun the window no more steps are explored.
BeforeOverrun == ~overrun

(***************************************************************************)
(* On a network that neither loses nor delays, no ack takes frames that    *)
(* the window does not hold.                                               *)
(***************************************************************************)
NoOverrun == ~overrun

(***************************************************************************)
(* The server ends the stream only after every block the client wrote.     *)
(***************************************************************************)
EOFIsLast == ~ropen => rcount = written

(***************************************************************************)
(* The writer never sleeps on an empty window unless the reader is on its  *)
(* way to wake it.                                                         *)
(***************************************************************************)
NoSleepOnEmptyWindow ==
  wpc = "waiting" /\ ssize = 0 => rpc = "signal"

(***************************************************************************)
(* retransmit "sends all packets in the window again": what reaches the    *)
(* receive buffer is what was written, retransmitted or not.               *)
(***************************************************************************)
DeliveredIntact ==
  \A i \in 1 .. Len(delivered) : delivered[i].data = "intact"

(***************************************************************************)
(* No race on the condition variable: a block that waits in the sending    *)
(* buffer while the window is empty is eventually sent.                    *)
(***************************************************************************)
WaitingBlockIsSent == (sbuf # <<>> /\ ssize = 0) ~> (sbuf = <<>> \/ ssize # 0)
=============================================================================
