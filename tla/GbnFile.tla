------------------------------- MODULE GbnFile -------------------------------
(***************************************************************************)
(* gbn_client sends a file and gbn_server writes it down again: the loop   *)
(* of the client over GbnTransfer, and the bytes that gbn_socket_read      *)
(* makes of the blocks in the receive buffer.                              *)
(*                                                                         *)
(* A byte is its position in the file, or Garbage if it was copied out of  *)
(* freed memory.  What the reader thread has pushed on the receive buffer  *)
(* is delivered, and after its end the closing block.  The buffer's push   *)
(* signals after the unlock and its peek does not look again after a wait  *)
(* (see BlockQueue): a late signal wakes the server on an empty buffer.    *)
(***************************************************************************)
EXTENDS GbnTransfer

CONSTANTS
  DEFAULT_PACKET_SIZE,  \* bytes in a block, 4096 in the code
  DEFAULT_BUF_SIZE      \* bytes gbn_server reads at a time, 4096 too

ASSUME FileConstants == {DEFAULT_PACKET_SIZE, DEFAULT_BUF_SIZE} \subseteq Nat \ {0}

VARIABLES
  filelen,     \* the length of the file
  rsignal,     \* the reader thread has pushed a block and has yet to signal
  peek,        \* gbn_server in peek: at its call, in its wait, or woken
  spc,         \* gbn_server: first or next block of a read, closing, closed,
               \* or undefined, once it has used a cell of an empty buffer
  blockptr,    \* _m_current_block_ptr
  bytes_read,  \* what the current read has copied
  popped,      \* blocks taken off the receive buffer
  output       \* the bytes written to the output file

readvars == <<blockptr, bytes_read, popped, output>>
filevars == <<filelen, rsignal, peek, spc, readvars>>
fvars == <<vars, filevars>>

Garbage == -1

FInit ==
  /\ Init
  /\ filelen \in 0 .. NumPackets * DEFAULT_PACKET_SIZE
  /\ rsignal = FALSE /\ peek = "call"
  /\ spc = "first" /\ blockptr = 0 /\ bytes_read = 0 /\ popped = 0
  /\ output = <<>>
-----------------------------------------------------------------------------
(***************************************************************************)
(* The client cuts the file into whole blocks and a shorter last one, and  *)
(* closes the socket after the last.                                       *)
(***************************************************************************)
Least(a, b) == IF a < b THEN a ELSE b
BlockLen(i) == Least(DEFAULT_PACKET_SIZE, filelen - i * DEFAULT_PACKET_SIZE)
FileBlocks == (filelen + DEFAULT_PACKET_SIZE - 1) \div DEFAULT_PACKET_SIZE

ClientLoop ==
  /\ AppStep
  /\ apc = "open" => (apc' = "open" <=> written < FileBlocks)
-----------------------------------------------------------------------------
(***************************************************************************)
(* The reader thread of the server's socket: a packet that brings blocks,  *)
(* or the closing block, up to the receive buffer is followed by a signal. *)
(***************************************************************************)
Pushes == delivered' # delivered \/ ropen' # ropen

reader_receives ==
  /\ ~rsignal /\ ServerReceive
  /\ rsignal' = Pushes
  /\ UNCHANGED <<filelen, peek, spc, readvars>>

push_signal ==
  /\ rsignal /\ rsignal' = FALSE
  /\ peek' = IF peek = "wait" THEN "woken" ELSE peek
  /\ UNCHANGED <<filelen, spc, readvars>>
-----------------------------------------------------------------------------
(***************************************************************************)
(* block_queue_peek_chunk on the receive buffer.  It returns the first     *)
(* block of a buffer that has one; on an empty buffer it waits, and when   *)
(* the wait ends with the buffer still empty, because the signal was that  *)
(* of a block popped long since or there was none, it returns a cell that  *)
(* holds NULL or a freed block.  The server dereferences it: from there on *)
(* nothing is promised of its process.                                     *)
(***************************************************************************)
AtClosingBlock == ~ropen /\ popped = Len(delivered)
BufferNonempty == popped < Len(delivered) \/ AtClosingBlock

InRead == spc \in {"first", "next"}
Peeks == InRead /\ peek # "wait" /\ BufferNonempty /\ peek' = "call"

peek_wait ==
  /\ InRead /\ peek = "call" /\ ~BufferNonempty
  /\ peek' = "wait"
  /\ UNCHANGED <<filelen, rsignal, spc, readvars>>

spurious_wakeup ==
  /\ peek = "wait" /\ peek' = "woken"
  /\ UNCHANGED <<filelen, rsignal, spc, readvars>>

peek_empty ==
  /\ InRead /\ peek = "woken" /\ ~BufferNonempty
  /\ spc' = "undefined"
  /\ UNCHANGED <<filelen, rsignal, peek, readvars>>

(***************************************************************************)
(* gbn_socket_read.  The first block of the buffer may have been read in   *)
(* part; it is not asked whether it is the closing one, and the copy       *)
(* starts at its beginning.                                                *)
(***************************************************************************)
peeked == IF AtClosingBlock THEN [seq |-> 0, len |-> 0, data |-> NoData]
          ELSE [seq  |-> delivered[popped + 1].seq,
                len  |-> BlockLen(delivered[popped + 1].seq),
                data |-> delivered[popped + 1].data]

FileByte(j) == peeked.seq * DEFAULT_PACKET_SIZE + j - 1
Copied(n) == [j \in 1 .. n |-> IF peeked.data = "intact" THEN FileByte(j) ELSE Garbage]

\* Mutant of read_first: the pointer into the popped block is kept.
ReadFirstKeepsPtr ==
  LET n == Least(DEFAULT_BUF_SIZE, peeked.len - blockptr)
  IN /\ spc = "first" /\ Peeks
     /\ output' = output \o Copied(n)
     /\ IF n = DEFAULT_BUF_SIZE
        THEN blockptr' = blockptr + n /\ UNCHANGED <<spc, popped, bytes_read>>
        ELSE /\ popped' = popped + 1 /\ bytes_read' = n
             /\ spc' = "next"
             /\ UNCHANGED blockptr
     /\ UNCHANGED <<filelen, rsignal>>

read_first ==
  LET n == Least(DEFAULT_BUF_SIZE, peeked.len - blockptr)
  IN /\ spc = "first" /\ Peeks
     /\ output' = output \o Copied(n)
     /\ \/ /\ n = DEFAULT_BUF_SIZE
           /\ blockptr' = blockptr + n
           /\ UNCHANGED <<spc, popped, bytes_read>>
        \/ /\ n # DEFAULT_BUF_SIZE
           /\ popped' = popped + 1 /\ blockptr' = 0
           /\ bytes_read' = n
           /\ spc' = "next"
     /\ UNCHANGED <<filelen, rsignal>>

\* Mutant of read_next: the closing block is popped like any other.
ReadNextToTheEnd ==
  LET n == Least(DEFAULT_BUF_SIZE - bytes_read, peeked.len)
  IN /\ spc = "next" /\ Peeks
     /\ output' = output \o Copied(n)
     /\ popped' = popped + 1
     /\ spc' = IF bytes_read + n = DEFAULT_BUF_SIZE THEN "first" ELSE "next"
     /\ bytes_read' = bytes_read + n
     /\ UNCHANGED <<filelen, rsignal, blockptr>>

read_next ==
  LET n == Least(DEFAULT_BUF_SIZE - bytes_read, peeked.len)
  IN /\ spc = "next" /\ Peeks /\ ~AtClosingBlock
     /\ output' = output \o Copied(n)
     /\ IF n = peeked.len
        THEN popped' = popped + 1 /\ UNCHANGED blockptr
        ELSE blockptr' = n /\ UNCHANGED popped
     /\ spc' = IF bytes_read + n = DEFAULT_BUF_SIZE THEN "first" ELSE "next"
     /\ bytes_read' = IF bytes_read + n = DEFAULT_BUF_SIZE THEN 0 ELSE bytes_read + n
     /\ UNCHANGED <<filelen, rsignal>>

\* _m_status is closed: this read returns what it has, the next nothing.
read_closing ==
  /\ spc = "next" /\ Peeks /\ AtClosingBlock
  /\ spc' = "closing"
  /\ UNCHANGED <<filelen, rsignal, readvars>>

\* gbn_socket_close on a closed socket waits for the reader thread to return.
server_close ==
  /\ spc = "closing" /\ ~ropen /\ ~rsignal
  /\ spc' = "closed"
  /\ UNCHANGED <<filelen, rsignal, peek, readvars>>

gbn_server ==
  peek_wait \/ peek_empty \/ read_first \/ read_next \/ read_closing \/ server_close
-----------------------------------------------------------------------------
FNext ==
  \/ (ClientLoop \/ WriterStep \/ ReaderStep) /\ UNCHANGED <<rvars, raddr, seof, filevars>>
  \/ reader_receives /\ UNCHANGED <<svars, seof>>
  \/ ServerEOF /\ spc # "closed" /\ UNCHANGED <<svars, filevars>>
  \/ (gbn_server \/ push_signal \/ spurious_wakeup) /\ UNCHANGED vars

FSpec == FInit /\ [][FNext]_fvars

\* As in GbnTransfer; the server's loop runs too, and its reader thread as long
\* as the process is defined.
FFairSpec ==
  /\ FSpec
  /\ WF_fvars(ClientLoop /\ UNCHANGED <<rvars, raddr, seof, filevars>>)
  /\ WF_fvars(WriterStep /\ UNCHANGED <<rvars, raddr, seof, filevars>>)
  /\ SF_fvars(ReaderStep /\ UNCHANGED <<rvars, raddr, seof, filevars>>)
  /\ WF_fvars(reader_receives /\ spc # "undefined" /\ UNCHANGED <<svars, seof>>)
  /\ WF_fvars(push_signal /\ UNCHANGED vars)
  /\ WF_fvars(gbn_server /\ UNCHANGED vars)
-----------------------------------------------------------------------------
(***************************************************************************)
(* Type invariant of the transfer and of both programs around it; the      *)
(* output file is never longer than the file.                              *)
(***************************************************************************)
FTypeOK ==
  /\ TypeOK
  /\ filelen \in 0 .. NumPackets * DEFAULT_PACKET_SIZE
  /\ rsignal \in BOOLEAN /\ peek \in {"call", "wait", "woken"}
  /\ spc \in {"first", "next", "closing", "closed", "undefined"}
  /\ blockptr \in 0 .. DEFAULT_PACKET_SIZE
  /\ bytes_read \in 0 .. DEFAULT_BUF_SIZE
  /\ popped \in 0 .. Len(delivered) + 1
  /\ Len(output) <= filelen

(***************************************************************************)
(* The output file is at every moment the beginning of the file: though a  *)
(* block that fills the buffer stays in the queue until the next read, no  *)
(* byte is written twice, left out or out of place, and none comes out of  *)
(* the payloads that send_packet has freed and retransmit sends again.     *)
(***************************************************************************)
StreamIsFile == \A i \in 1 .. Len(output) : output[i] = i - 1

(***************************************************************************)
(* The transfer completes, both ends close with every block handed up,     *)
(* unless the server is woken on an empty buffer.                          *)
(***************************************************************************)
TransferCompletes ==
  <>(spc = "undefined" \/ (apc = "closed" /\ ~ropen /\ rcount = written))

(***************************************************************************)
(* The server gets to the end of the file and exits, unless it is woken on *)
(* an empty buffer, or the file fills an even number of blocks (or none):  *)
(* then a read begins with the closing block, takes it for data, and waits *)
(* for a block that never comes.                                           *)
(***************************************************************************)
FileArrives ==
  filelen % (2 * DEFAULT_PACKET_SIZE) # 0 =>
    <>(spc = "undefined" \/ (spc = "closed" /\ Len(output) = filelen))
=============================================================================
