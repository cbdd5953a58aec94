------------------------------ MODULE GbnSender ------------------------------
(***************************************************************************)
(* The sending half of a Go-Back-N socket, as gbn_client uses it: the      *)
(* application, the writer thread (the state machine of gbn_write.c), and  *)
(* the part of the reader thread that takes acknowledgements.              *)
(*                                                                         *)
(* Two mutexes are involved.  The window's mutex covers send_packet's      *)
(* update of the window and the reader's; the three assignments of the     *)
(* reader are separate steps because window_empty_q, is_win_full_q and     *)
(* retransmit read the window without the mutex.  The socket's mutex is    *)
(* locked when the socket is made and belongs to the writer whenever it is *)
(* not inside pthread_cond_timedwait, so the reader can only signal then.  *)
(***************************************************************************)
EXTENDS GbnNetwork

CONSTANTS
  SBufCap,      \* capacity of the sending buffer, 128 in the code
  EarlyWakeups  \* the wait for an ack may end while packets are in flight

ASSUME SenderConstants == SBufCap \in Nat \ {0} /\ EarlyWakeups \in BOOLEAN

VARIABLES
  apc, written,         \* the application: its place, and the blocks written
  sbuf,                 \* _m_sending_buffer
  wpc, ri,              \* the writer: its state, and i of retransmit
  shead, stail, ssize,  \* the bytes of _m_sending_window
  sslot,                \* its _m_packet_buffer
  snext,                \* _m_seq_number
  rpc, framediff,       \* the reader: its place in the ack branch
  overrun               \* history: an ack took more frames than the window had

windowvars == <<shead, stail, ssize, sslot, snext>>
svars == <<apc, written, sbuf, wpc, ri, windowvars, rpc, framediff, overrun>>

WriterStates ==
  {"window_empty_q", "block_on_queue", "send_packet", "is_win_full_q",
   "wait_on_read", "waiting", "signaled", "timedout", "retransmit", "resend",
   "close_connection", "done"}

InCondWait == wpc \in {"waiting", "signaled", "timedout"}
WindowLocked == rpc \in {"ack_mod", "ack_size"}

SInit ==
  /\ apc = "open" /\ written = 0 /\ sbuf = <<>>
  /\ wpc = "window_empty_q" /\ ri = 0
  /\ shead = 0 /\ stail = 0 /\ ssize = 0
  /\ sslot = [i \in Slots |-> EmptyFrame]
  /\ snext = 0
  /\ rpc = "recv" /\ framediff = 0 /\ overrun = FALSE
-----------------------------------------------------------------------------
(***************************************************************************)
(* The application: it writes blocks, pushes the closing block, joins the  *)
(* writer thread, then closes the descriptor and cancels the reader.       *)
(***************************************************************************)
gbn_socket_write ==
  /\ apc = "open" /\ written < NumPackets /\ Len(sbuf) < SBufCap
  /\ sbuf' = Append(sbuf, "block")
  /\ written' = written + 1
  /\ UNCHANGED <<apc, wpc, ri, windowvars, rpc, framediff, overrun, netvars>>

\* Mutant of gbn_socket_close: the closing block overtakes the data.
CloseAtOnce ==
  /\ apc = "open" /\ Len(sbuf) < SBufCap
  /\ sbuf' = <<"closing">> \o sbuf
  /\ apc' = "join"
  /\ UNCHANGED <<written, wpc, ri, windowvars, rpc, framediff, overrun, netvars>>

gbn_socket_close ==
  /\ apc = "open" /\ Len(sbuf) < SBufCap
  /\ sbuf' = Append(sbuf, "closing")
  /\ apc' = "join"
  /\ UNCHANGED <<written, wpc, ri, windowvars, rpc, framediff, overrun, netvars>>

JoinWriter ==
  /\ apc = "join" /\ wpc = "done"
  /\ apc' = "closed"
  /\ rpc' = "gone"
  /\ UNCHANGED <<written, sbuf, wpc, ri, windowvars, framediff, overrun, netvars>>

AppStep == gbn_socket_write \/ gbn_socket_close \/ JoinWriter
-----------------------------------------------------------------------------
(***************************************************************************)
(* The writer thread.                                                      *)
(***************************************************************************)
\* The next slot of the ring; mutant: no wrap.
NextSlotUnwrapped(i) == i + 1
NextSlot(i) == (i + 1) % DEFAULT_QUEUE_SIZE

Goto(from, to) == wpc = from /\ wpc' = to

\* Mutant of window_empty_q: the window is not looked at.
WindowNotLookedAt ==
  /\ Goto("window_empty_q", "is_win_full_q")
  /\ UNCHANGED <<apc, written, sbuf, ri, windowvars, rpc, framediff, overrun, netvars>>

window_empty_q ==
  /\ Goto("window_empty_q", IF ssize = 0 THEN "block_on_queue" ELSE "is_win_full_q")
  /\ UNCHANGED <<apc, written, sbuf, ri, windowvars, rpc, framediff, overrun, netvars>>

block_on_queue ==
  /\ sbuf # <<>>
  /\ Goto("block_on_queue", "send_packet")
  /\ UNCHANGED <<apc, written, sbuf, ri, windowvars, rpc, framediff, overrun, netvars>>

(***************************************************************************)
(* The packet goes into the window and onto the wire; then its block is    *)
(* freed, payload included, while the window still points to it.           *)
(***************************************************************************)
send_packet ==
  /\ Goto("send_packet", "is_win_full_q")
  /\ ~WindowLocked
  /\ sbuf # <<>> /\ Head(sbuf) = "block"
  /\ sbuf' = Tail(sbuf)
  /\ sslot' = [sslot EXCEPT ![stail] = Frame(snext, "freed")]
  /\ stail' = NextSlot(stail)
  /\ ssize' = (ssize + 1) % ByteMod
  /\ snext' = (snext + 1) % SeqMod
  /\ dnet' \in sendto_(dnet, DataPacket(snext, "intact"))
  /\ UNCHANGED <<apc, written, ri, shead, rpc, framediff, overrun, anet>>

send_packet_closing ==
  /\ Goto("send_packet", "close_connection")
  /\ sbuf # <<>> /\ Head(sbuf) = "closing"
  /\ sbuf' = Tail(sbuf)
  /\ UNCHANGED <<apc, written, ri, windowvars, rpc, framediff, overrun, netvars>>

\* Mutant of is_win_full_q: one frame more than the window has slots.
OneMoreFrame ==
  /\ Goto("is_win_full_q",
          IF ssize <= DEFAULT_QUEUE_SIZE /\ sbuf # <<>>
          THEN "send_packet" ELSE "wait_on_read")
  /\ UNCHANGED <<apc, written, sbuf, ri, windowvars, rpc, framediff, overrun, netvars>>

is_win_full_q ==
  /\ Goto("is_win_full_q",
          IF ssize < DEFAULT_QUEUE_SIZE /\ sbuf # <<>>
          THEN "send_packet" ELSE "wait_on_read")
  /\ UNCHANGED <<apc, written, sbuf, ri, windowvars, rpc, framediff, overrun, netvars>>

wait_on_read ==
  /\ Goto("wait_on_read", "waiting")
  /\ UNCHANGED <<apc, written, sbuf, ri, windowvars, rpc, framediff, overrun, netvars>>

(***************************************************************************)
(* pthread_cond_timedwait ends: the 50 ms are over, or it wakes up for no  *)
(* reason.  A network that answers within 50 ms leaves the timer only the  *)
(* case where nothing is in flight.                                        *)
(***************************************************************************)
NothingInFlight == dnet = <<>> /\ anet = <<>> /\ rpc = "recv"

TimerExpires ==
  /\ EarlyWakeups \/ NothingInFlight
  /\ Goto("waiting", "timedout")
  /\ UNCHANGED <<apc, written, sbuf, ri, windowvars, rpc, framediff, overrun, netvars>>

SpuriousWakeup ==
  /\ EarlyWakeups
  /\ Goto("waiting", "signaled")
  /\ UNCHANGED <<apc, written, sbuf, ri, windowvars, rpc, framediff, overrun, netvars>>

AfterWait ==
  /\ \/ Goto("signaled", "window_empty_q")
     \/ Goto("timedout", "retransmit")
  /\ UNCHANGED <<apc, written, sbuf, ri, windowvars, rpc, framediff, overrun, netvars>>

retransmit ==
  /\ Goto("retransmit", IF ssize = 0 THEN "wait_on_read" ELSE "resend")
  /\ ri' = IF ssize = 0 THEN ri ELSE shead
  /\ UNCHANGED <<apc, written, sbuf, windowvars, rpc, framediff, overrun, netvars>>

(***************************************************************************)
(* One turn of the do-while loop.  An index at or past the end of the      *)
(* buffer reads the zeroed receive window that follows it in gbn_socket_t. *)
(* A local variable that is dead (i, and framediff below) is set to 0.     *)
(***************************************************************************)
resend ==
  LET next == NextSlot(ri)
      packet == IF ri \in Slots /\ sslot[ri].init
                THEN DataPacket(sslot[ri].seq, sslot[ri].data)
                ELSE UninitializedPacket
  IN /\ Goto("resend", IF next = stail THEN "wait_on_read" ELSE "resend")
     /\ dnet' \in sendto_(dnet, packet)
     /\ ri' = IF next = stail THEN 0 ELSE next
     /\ UNCHANGED <<apc, written, sbuf, windowvars, rpc, framediff, overrun, anet>>

close_connection ==
  /\ Goto("close_connection", "done")
  /\ dnet' \in sendto_(dnet, EOFPacket)
  /\ UNCHANGED <<apc, written, sbuf, ri, windowvars, rpc, framediff, overrun, anet>>

WriterStep ==
  \/ window_empty_q \/ block_on_queue \/ send_packet \/ send_packet_closing
  \/ is_win_full_q \/ wait_on_read \/ TimerExpires \/ SpuriousWakeup
  \/ AfterWait \/ retransmit \/ resend \/ close_connection
-----------------------------------------------------------------------------
(***************************************************************************)
(* The reader thread, from the moment it holds packet p of anet.           *)
(***************************************************************************)
\* An ack of frame a takes this many frames off the window, or -1: ignore it.
AckDelta(a) ==
  LET first == sslot[FrameIndex(shead, 0)].seq
  IN IF a >= first /\ a < (first + DEFAULT_QUEUE_SIZE) % SeqMod
     THEN a - first + 1 ELSE -1

OnAck(a) ==
  /\ rpc = "recv"
  /\ IF AckDelta(a) = -1
     THEN UNCHANGED <<rpc, framediff, shead, overrun>>
     ELSE /\ rpc' = "ack_mod"
          /\ framediff' = AckDelta(a)
          /\ shead' = (shead + AckDelta(a)) % ByteMod
          /\ overrun' = (overrun \/ AckDelta(a) > ssize)
  /\ UNCHANGED <<apc, written, sbuf, wpc, ri, stail, ssize, sslot, snext>>

AckHead ==
  /\ rpc = "ack_mod" /\ rpc' = "ack_size"
  /\ shead' = shead % DEFAULT_QUEUE_SIZE
  /\ UNCHANGED <<apc, written, sbuf, wpc, ri, stail, ssize, sslot, snext,
                 framediff, overrun, netvars>>

AckSize ==
  /\ rpc = "ack_size" /\ rpc' = "signal"
  /\ ssize' = (ssize - framediff) % ByteMod
  /\ UNCHANGED <<apc, written, sbuf, wpc, ri, shead, stail, sslot, snext,
                 framediff, overrun, netvars>>

\* Mutant of AckSignal: the writer is not signaled.
AckSilent ==
  /\ rpc = "signal" /\ rpc' = "recv"
  /\ InCondWait
  /\ framediff' = 0
  /\ UNCHANGED <<apc, written, sbuf, wpc, ri, windowvars, overrun, netvars>>

AckSignal ==
  /\ rpc = "signal" /\ rpc' = "recv"
  /\ InCondWait
  /\ wpc' = IF wpc = "waiting" THEN "signaled" ELSE wpc
  /\ framediff' = 0
  /\ UNCHANGED <<apc, written, sbuf, ri, windowvars, overrun, netvars>>

(***************************************************************************)
(* The server's reader acknowledged our EOF: the reader thread returns.    *)
(***************************************************************************)
OnAckEOF ==
  /\ rpc = "recv" /\ rpc' = "gone"
  /\ UNCHANGED <<apc, written, sbuf, wpc, ri, windowvars, framediff, overrun>>

(***************************************************************************)
(* The server's own EOF: it is acknowledged, the closing block is pushed   *)
(* on both buffers, and the reader thread returns.                         *)
(***************************************************************************)
OnServerEOF ==
  /\ rpc = "recv" /\ rpc' = "gone"
  /\ Len(sbuf) < SBufCap
  /\ sbuf' = Append(sbuf, "closing")
  /\ dnet' \in sendto_(dnet, AckEOFPacket)
  /\ UNCHANGED <<apc, written, wpc, ri, windowvars, framediff, overrun>>
=============================================================================
