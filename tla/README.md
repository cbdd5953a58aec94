# Formal models of NetworkSystems

TLA+ models, TLC runs and TLAPS proofs for the three programs of the
repository: a Go-Back-N transfer over UDP (`src/PA2`), link-state routers
(`src/PA3`) and a peer-to-peer file index (`src/PA4`).

## 1. The system

### PA2: the Go-Back-N socket

`gbn_client` reads a file and writes it to a `gbn_socket_t`; `gbn_server` reads
blocks from another one.  A socket is two threads around two windows and two
queues:

| part | state | operations | shared with |
|---|---|---|---|
| application | position in its loop | `gbn_socket_write`, `gbn_socket_read`, `gbn_socket_close` | the two queues |
| blocking queue (`blockqueue.c`) | ring of 128 blocks, head, tail, size, mutex, two conditions | push, peek, pop | application, writer, reader |
| writer thread (`gbn_write.c`) | state of its state machine, the sending window | `window_empty_q`, `block_on_queue`, `send_packet`, `is_win_full_q`, `wait_on_read`, `retransmit`, `close_connection` | the sending window, with the reader |
| reader thread (`gbn_read.c`) | the receive window, the peer's address | a branch for each type of packet: data, ack, EOF, ack of EOF | the sending window (acks), both queues (EOF) |
| network (`sendto.c`, UDP) | packets in flight | simulated loss, loss, reordering | |

Hard about it: the writer reads the sending window without the mutex that the
reader holds to change it; the socket's mutex is held by the writer for life,
except inside `pthread_cond_timedwait`; a 50 ms timeout races the ack; windows
are addressed by bytes that wrap; payloads are freed while the window points to
them; the end of the stream is a packet that is sent once; the queue waits in an
`if` and signals after it has unlocked.  It is correct when blocks come up in
order, once and intact; the window holds the unacknowledged frames and no
frame leaves it before it is delivered; EOF follows the last block; and a
transfer ends.

### PA3: the link-state router

`routed_LS` parses an initialization file, connects to every neighbor over TCP,
and then serves one `select` loop: every five seconds it broadcasts a packet
with the costs of its own links; a packet that tells it something new is
recorded, Dijkstra's algorithm recomputes the table, and the packet is forwarded
to the other neighbors.  State: the neighbor table, the destination table (cost,
gateway, last packet), the sequence number, the connections.  SIGINT, or a
neighbor that is gone, ends the process.  Hard about it: the order in which
floods arrive (a packet may come before any path to its origin), the loop
bounded by a number it changes, forwarding only on news, and the connection
startup.  It is correct when tables are optimal over what was heard, every
router hears of every other, and the tables converge.

### PA4: the file index

| part | state | operations | shared with |
|---|---|---|---|
| index server (`server.c`) | a set of names and a map from file names to owner and host, each in a trie under a mutex of its own; one thread per connection | `REGISTER`, `NEWFILE`, `LIST`, `DEREGISTER`, end of stream | all connection threads |
| trie (`trie.c`) | nodes of 16 pointers and 16 values, one level per half character | put, get, iterate with a callback | |
| client (`client_state_machine.c`, `client.c`) | state of its state machine, the files of the last listings | register, post the directory, `ls`, `get`, `exit`, Ctrl-C | its files, with its listener |
| listener of a client (`client.c`) | the connection it serves | accept, read a name, send the length and the file | the files on disk, with the main thread |

Hard about it: the server tests a name and inserts it under two locks; it writes
a listing to its client while it holds the map's mutex; it goes back to a stream
it has closed; a client may die during a listing and take the server with it
(SIGPIPE); Ctrl-C may fall between the two halves of a `NEWFILE`; a deregistration
removes and frees entries of the trie it iterates over; a listing is stale when
`get` uses it; `get` empties the local file first, which its own listener may be
sending at that moment, counts the rest in an unsigned variable it may not have
set, and never closes the connection.  It is correct when the index behaves as if
its operations were atomic, lists what registered clients offer and forgets those
who leave, `ls` and `get` come back, and a download that reports no error is a
complete copy.

## 2. Modules

| module | models | extends |
|---|---|---|
| `GbnPacket` | frames, slots and the constants of `gbn_socket.h` | |
| `GbnReceiver` | the receive window and the reader's data and EOF branches | `GbnPacket` |
| `GbnNetwork` | packets, `sendto_`, the two directions of the path | `GbnPacket` |
| `GbnSender` | application, writer thread, the reader's ack branch | `GbnNetwork` |
| `GbnTransfer` | client and server sockets composed | `GbnSender`, `GbnReceiver` |
| `BlockQueue` | push, peek and pop with condition variables | |
| `BoundedFifo` | abstract: what the queue promises until it is overfilled | |
| `GbnFile` | `gbn_client` and `gbn_server` around a transfer, in bytes | `GbnTransfer` |
| `LinkState` | broadcast, flooding, table update, shutdown | |
| `NeighborStartup` | how routers connect, stop and start again | |
| `FileIndex` | abstract: an index with atomic operations | |
| `P2PConnection` | the connections between clients and index server | |
| `P2PServer`, `P2PClient` | the two ends of them | `P2PConnection` |
| `P2PSystem` | server and clients composed, shown to implement `FileIndex` | both |
| `P2PGet` | `get` against the listeners of other clients | |
| `Maps` | maps that grow, as the tries of PA4 are used | |
| `KeyMap` | abstract: a map with iteration | |
| `Trie` | the trie with the server's callbacks | |
| `MC_LinkState`, `MC_NeighborStartup`, `MC_P2P`, `MC_P2PGet`, `MC_Trie` | instances for TLC | the module they are named after |
| `ModArithmetic` | lemmas on `%` | |
| `BlockQueueProofs`, `LinkStateProofs`, `NeighborStartupProofs`, `P2PSystemProofs`, `P2PGetProofs`, `TrieProofs` | theorems | the module they are about |
| `GbnProofs` | theorems about the receiver, a transfer and the file it carries | `GbnFile`, `ModArithmetic` |

### Correspondence with the code

*Receiver.*  `rhead`, `rtail`, `rsize` are the bytes of `_m_receive_window`,
`rcount` is `_m_recv_counter`, `rslot` the packet buffer.  One packet is one step
(`OnData`, `OnEOF`), because only the reader thread touches the receive window.
The sliding loop is given by its result: `RunLength(slots, n)` says that the loop
stops after `n` frames, taking into account that it empties the slots it leaves.
`Growth` keeps the code's arithmetic on stale sequence numbers.  `delivered` is a
history variable, the blocks pushed on the receive buffer.

*Sender.*  One action per state of the writer's state machine; the wait is
split into falling asleep, being woken, and running again.  The reader's three
assignments to the window (`+=` on the head, `%=` on the head, `-=` on the size)
are three steps, since the writer looks at those fields without the mutex.
`InCondWait` is when the socket's mutex is free for the reader to signal.  A
payload is `"intact"` or `"freed"`: what a freed one contains is indeterminate.
`overrun` is a history variable.  `send_packet` goes through `sendto_` with its
simulated loss and `resend` through plain `sendto`; as UDP may lose either,
both use the same operator.

*Transfer.*  The server's answers to its first packet are lost: `recvfrom` is
first called with an address length of 0 and stores no address (`raddr`).  After
the client's EOF the server's writer sends its own (`ServerEOF`), which pushes a
closing block at the client (`OnServerEOF`).

*Queue.*  A region under the mutex is a step; the signal of push, which comes
after the unlock, is a step of its own, and so is pop's look at the size, which
comes before the lock.  A woken thread does not test the size again, as in the
code; so a peek may end with an empty ring (`EmptyPeek`).

*Router.*  A router is single-threaded, so that reading a packet, updating the
table and forwarding is one step (`read_packet`).  `Recomputed` runs the loop of
`update_routing_table`, one `Reach` per turn, with the code's order of
preference (`set_shortest`) and its loop bound.  `close_router` is the exit on a
closed connection.

*Byte stream.*  A byte is its position in the file, or `Garbage` when the block it is
copied from carries a freed payload.  `read_first` and `read_next` are the two halves
of `gbn_socket_read`, up to and after the first block; `blockptr` is
`_m_current_block_ptr`.  The receive buffer is what the receiver has delivered
minus what was popped, with the closing block at its end.  Its push and peek are
those of `BlockQueue` with one producer and one consumer: the reader thread's signal
is a step after the push (`rsignal`, `push_signal`), and the server's peek of an empty
buffer waits once (`peek_wait`) and does not look again.  Woken with the buffer still
empty, by a late signal or spuriously, it dereferences NULL or a freed block
(`peek_empty`); `spc = "undefined"` from there on.  A packet that releases several
blocks has one signal in the model; as the wait may also end spuriously, this hides
no wakeup.  On the sending side (`block_on_queue`) the queue is taken to block: the
writer peeks twice, in `block_on_queue` and again in `send_packet`, so that a late
signal only moves it from one wait to the next.  Two in a row, or spurious wakeups
there, are left to `BlockQueue`.

*Startup.*  `place[r][m]` is the thread of router `r` for neighbor `m`, one action per
system call; a connection is known by the process that opened it, so that one to
a listener whose owner has accepted another is told apart.  `close_router` is the
end of the process, whatever the reason; `Router_Main` is left of the main loop:
it notices a connection whose far end is closed.

*Index.*  A line is a record; the file names, owners and hosts in it are model
values.  An operation under a mutex is a step, except a listing, which is one step
per record since it may block on its client.  `state[c]` is the client's state
function, with `NEWFILE` and its record apart; `"left"`, `"cut"` and `"gone"` tell how a
client ended.  A write to a connection whose other end is gone is lost or ends
the process, and `feof` of a closed stream ends the thread or the server.

*Download.*  All clients know one file name.  `get[p]` is the main thread,
`serve[q]` the listener, `disk[p]` the file, which both threads of a process
use.  The length sent first counts as one item on the connection.  When nothing
was sent, `len` is any number; when the client died before its request, the
listener goes by the name of an earlier request or none.  Where `accept` may
fail (`MayFail`: no descriptor is left, for instance, as `get` gives none back)
the listener's thread returns (`accept_fails`) while its socket stays open and
goes on to take connections.  `told` and `want` are history variables: the
length announced, and the source's bytes at the request, unless the source
writes to its file afterwards.  Files are readable and are never removed.

*Trie.*  A node is its path of half characters.  `todo` lists the trees, values and
children an iteration has still to look at, in the order of the recursion; each
pointer is read when it is reached, after the callbacks before it.  The first
character's upper half is masked, later ones are shifted with their sign, as in
the code, and `TrieConstants` asks that they be ASCII.

## 3. What the runs check

| run | properties | shows |
|---|---|---|
| `clean` | `FTypeOK`, `NoOverrun`, `EOFIsLast`, `NoSleepOnEmptyWindow`, `StreamIsFile`, `TransferCompletes`, `FileArrives` | a file sent over a network that answers within 50 ms arrives byte by byte, with the EOF last, and both programs finish, unless the server is woken on an empty buffer or the file fills an even number of blocks |
| `hostile` | `WindowExact`, `AckedIsDelivered`, `InOrder`, `NoStrandedFrame` | loss, reordering, early timeouts, spurious wakeups: the window is exactly the unacknowledged frames, what leaves it was delivered, the receiver delivers in order and keeps neither a deliverable nor a stale frame |
| `queue` | `TypeOK`, `RingAligned`, `NoLostWakeup`, `NoStarvedProducer`, `ImplementsFifo`, `SleeperWoken`, `PushedIsSeen` | two producers and spurious wakeups: the ring implements `BoundedFifo` until it is overfilled and except for peeks woken on an empty ring, its indices agree even then, no wakeup is lost and nobody sleeps for ever |
| `router` | `TypeOK`, `BestOverHeardLinks`, `FloodReaches`, `RoutesOnlyImprove`, `Converges`, `StopsTogether` | tables are the best over what was heard, checked against an enumeration of all simple paths; floods reach everybody; tables converge; one exit ends all |
| `startup` | `TypeOK`, `NeverCrossed`, `MismatchEnds`, `StartsUp` | three routers in any order of starts and stops, one started twice: a link is never opened from both sides, routers that disagree about a connection do not both go on, and all reach `Router_Main` unless two neighbors both listen |
| `index` | `TypeOK`, `ListedIsRegistered`, `OthersUntouched`, `ImplementsIndex`, `LeaversForgotten`, `LsReturns` | clients that share a name and a file name, list while others list, leave, are interrupted or crash: the server implements `FileIndex`, and the rest of section 1 holds |
| `get` | `TypeOK`, `OkIsComplete`, `OkIsCopy`, `GetEnds` | a `get` without a message has as many bytes as announced, and the right ones if the source kept still; it ends, unless the listener is held up or has returned |
| `trie` | `NoDangling`, `ImplementsMap` | the trie implements `KeyMap` while its callback removes and frees entries |

Some properties name what they do not cover, because the code does not do it:

- `FileArrives`: a file whose length is a multiple of two blocks (8192 bytes), the
  empty file included, leaves `gbn_server` waiting.  A block as long as the
  buffer stays queued until the next read, which pops it and asks for more; with
  an even number of blocks the closing block becomes the first of a read, where
  it is not looked for.
- `TransferCompletes`, `FileArrives`: nothing is claimed of a server that a late signal or
  a spurious wakeup has woken on an empty receive buffer (`spc = "undefined"`).  That
  takes no spurious wakeup: the reader thread pushes a block and unlocks, the
  server peeks, copies and pops it and waits for the next, and then the signal of
  the first arrives.  `StreamIsFile` covers what was written until then.
- `ImplementsFifo`: the application and the reader thread both push on the sending
  buffer, and a producer that is woken does not look at the size again; the block
  it stores in a full queue replaces the oldest.  And `EmptyPeek`: a consumer that is
  woken does not look again either, and its peek of an empty ring returns an old
  cell, where `blockqueue.h` ("Blocks peek and pop", "Return the first data block")
  and `gbn_write.c` ("blocks while there is no data on the queue") have it block.
  `BoundedFifo` promises what they say; the property excepts exactly these steps.
- `StartsUp`: two neighbors that start together may both be refused and both listen.
- `ListedIsRegistered`, `LeaversForgotten`: names given to two clients are excepted,
  since both may pass the test before either is inserted; and so is a client
  interrupted in the middle of a `NEWFILE`, whose `DEREGISTER` is read as a record.
- `GetEnds`: a client that could not open its output file, or stopped reading at the
  announced length of a file that grew, keeps its connection, and the listener
  that serves it serves nobody else; and a listener that has returned from a failed
  `accept` serves nobody until its process ends.
- `OkIsComplete`, `OkIsCopy`: where no length was received, because the peer had no such
  file or died, `len` was never set and nothing is claimed.

Four runs end in a violation, each of something a comment of the code promises:

| run | property | what happens |
|---|---|---|
| `wrap` | `AlwaysInOrder` | the receive head is a byte reduced modulo the window size only when used; 256 is no multiple of 6, so after 256 frames stored frames are looked for in other slots |
| `overrun` | `NoOverrun` | a retransmission is acknowledged twice, and the second ack finds an empty window, is taken for valid ("corresponds to some number of packets in our window") and drives the size below zero |
| `freed` | `DeliveredIntact` | a retransmission is serialized from a payload freed after the first send |
| `stall` | `WaitingBlockIsSent` | the ack lands after the wait has ended: nobody is signaled, the window is empty, and the writer returns to waiting instead of to the queue |

Each property of a passing run is shown able to fail: a small mutation of the
modelled code (kept beside the definition it mutates) violates it.

## 4. Bounds

- *Byte width.*  The code's 256 and 6 become 8 and 3, or 5 and 2: as in the code,
  the byte range is no multiple of the window, so that a wrap lands in
  mid-window.  `clean` sends two laps of the ring; `wrap` sends more
  frames than the byte counts.
- *Sequence numbers.*  `SeqMod` stands for 2^32 and exceeds what a run sends plus
  a window, as it does for any transfer of less than 2^32 packets.
- *Network.*  At most `NetCap` packets per direction; beyond it they are dropped,
  which the protocol has to cope with anyway.  In `clean` (no loss) the bound is
  twice the window and no packet is dropped for it.
- *After an overrun.*  In `hostile`, `BeforeOverrun` stops the exploration at the
  first ack that takes frames the window does not hold: the size is then no
  longer meaningful, and `overrun` is the run about that.  `WindowExact` and
  `AckedIsDelivered` are therefore statements about executions up to that point.
- *Byte stream.*  A block and the server's buffer are two bytes, equal as in the
  code, and files have every length from none to six blocks.
- *Queue.*  A ring of two cells against two producers; `MaxSize` bounds a queue that
  outgrew its capacity.
- *Routers.*  Three routers on a cycle with a costly direct link, a cycle with a
  tie, and a chain.  `MaxSeq` is the number of broadcasts per router: two in the
  chain, so that a repeated broadcast is seen to be ignored, one in the cycles.
- *Startup.*  A cycle of three, the smallest network in which routers could wait for
  each other in a circle; the first may be started twice, which is what it takes
  to meet a listener of the time before.
- *Index.*  A client with one file and `"."`, one with a file of the same name and
  another, which may crash, and one that takes the second's name.  The first two
  list once each.  There are up to two records and `SockBuf` is 1, so a listing
  blocks with the map's mutex held until its client reads, while the other client
  waits to list, post or leave; and a client that dies during its listing may take
  the server down while the other is in the middle of its own.
- *Download.*  Files of three and two bytes and none, read two at a time: a file is
  sent in several blocks, may shrink and grow while it is sent, and the
  length wraps; `LenMod` stands for 2^32, to which the length of the file is reduced
  before it is sent, and exceeds every file.  The listener of one peer may return
  from a failed `accept`.  The length of
  the queue of connections is not bounded (it is two in the code, beyond which
  connecting takes longer).
- *Trie.*  Radix 4 for 16; five keys, three elements, two owners.  Elements are
  interchangeable, so they are a symmetry set.
- Deadlock is checked for the queue and the trie.  The other systems stop by design: a
  transfer closes, routers exit, and counters reach their bounds.

## 5. Fairness

- *Transfer.*  The scheduler runs every thread that can run, the 50 ms pass, and
  the application's loop ends in a close (weak fairness).  The reader gets strong
  fairness: it contends for the socket's mutex with a writer that releases it for
  up to 50 ms at each turn of its loop, so it is not overtaken for ever.  No
  fairness is asked of the network beyond delivery of what it does not lose;
  `clean` has no loss, and with loss `TransferCompletes` does not hold, because
  EOF is never retransmitted.
- *Queue.*  A thread inside push or pop goes on; the consumer keeps consuming, as
  the writer thread and the server's loop do.  No producer is obliged to push.
- *Router.*  The timer fires, and `select` serves connections that have
  something to read, an end of file included.  Interrupts are never obliged.
- *Startup.*  Every thread runs, and a router in its main loop notices a closed
  connection.  Nobody is obliged to start or stop a router.
- *Index and download.*  Every thread of the server, every client and every listener
  runs; users are obliged to nothing and processes need not crash.  A thread that
  waits for a mutex contends with a bounded number of requests.

## 6. What is proved

For every value of the constants, subject to the assumptions named in the
modules.  Those ask for little more than that sizes are positive and sets are of
the right kind; the ones with some content are

- `GbnConstants`: a byte counts at least two windows (256 and 6 in the code);
- `QueueConstants`: there are finitely many producers;
- `GetConstants`: a file at its start is shorter than the unsigned length counts;
- `TrieConstants`: characters after the first are ASCII, as section 2 says;
- `LinkStateConstants`: finitely many routers, links both ways and none to itself,
  link costs of a byte (as `uint8_t` in `router.h`).

Every invariant below is inductive, and was checked by TLC on the run of its
component before it was proved.

*Receiver* (`GbnProofs`).  `ReceiverType`, `DeliveryInOrder` (`InOrder`) and
`NothingStranded` (`NoStrandedFrame`), for any window size, byte width, number of
frames and arrival order.  `InOrder` is not inductive: what is handed up depends on
what stands in the slots.  The invariant `ReceiverInv` adds that the head is the
receive counter modulo the byte range, that counter and frames stay within what
the byte counts, and that a stored frame lies past the expected one, inside the
window, in the slot its number names.  The step of interest is `OnDataSlides`.
`StoredInPlace` puts the new frame where it belongs; `SlideFinds` shows that the
loop's k-th slot holds frame `rcount + k` or nothing; `RunEndsBeforeWrap` shows that
the loop cannot run past the end of the byte range, since it would have to find
a frame no sender numbers, or a slot it has emptied; `RunIsConsecutive` concludes
that what is taken out is consecutive.  Both properties assume
`NumPackets <= ByteMod`; run `wrap` shows why.

*Transfer* (same module).  `WindowStaysExact` (`WindowExact`) and
`ForgottenIsDelivered` (`AckedIsDelivered`), for any loss, reordering, timeout and
wakeup, and any moment between the reader's three assignments to the window.  The
invariant `TransferInv` says what is in the sending buffer (`Queued`), that the ring
holds the last frames sent (`Ring`), that packets in flight were sent and acks in
flight are of frames handed up (`Wire`), and that, while `WindowSound`, head and
size, corrected for the assignments still to come, are those of the frames not
yet forgotten (`Windowed`).  The step that matters is an ack: the distance the code
computes from the head slot is the number of frames up to the acknowledged one,
because the slot holds the oldest frame of the window and two windows fit in a
byte.  What follows an overrun is not claimed, as in run `hostile`.
`TransferImplementsReceiver` shows that the composed system implements `RSpec`, so that
`InOrder` and `NoStrandedFrame` carry over (`TransferInOrder`, `TransferStrandsNothing`).

*Clean network* (same module).  Under `CleanNetwork` (nothing is lost or overtaken,
the writer's wait ends early only when nothing is in flight, and the network holds
more packets than the window has slots) `CleanNeverOverruns` (`NoOverrun`),
`CleanEOFIsLast` (`EOFIsLast`) and `CleanWriterWakes` (`NoSleepOnEmptyWindow`), for transfers of
any length.  The invariant `CleanInv` accounts for the packets: what was sent and not
handed up is in flight, in order, with the EOF behind it (`Arriving`); acks rise from
the oldest frame of the window on (`AcksRise`), and the last one is of all that was
handed up (`LastAck`).  The exception is the first frame, whose ack has no address:
if no other follows, the timer expires on it (`OnlyTheFirst`) and it is the one frame
that is ever sent twice (`Repeated`).  The counts bound both directions by the window,
so nothing is dropped for want of room, and an ack finds its frames
(`AckFindsFrames`).  As each frame goes straight through the receive window
(`StraightThrough`), `CleanAlwaysInOrder` has `AlwaysInOrder` with no bound on the transfer:
what run `wrap` shows needs a frame that waits in that window.  `CleanDeliveredIntact`
(`DeliveredIntact`): packets on their way carry what was written (`FreshWire`), except a
repeated first frame, which is a duplicate when it arrives; what run `freed` shows
needs a lost packet.

*File* (same module).  For files, blocks and windows of any size, and signals that
come at any time.  `OutputIsFile` (`StreamIsFile`) is stated for `CleanNetwork` and
`SameSizes`, buffer and block are equally long, as in the program; there is no bound
on the transfer.  With loss it is not true, since a freed payload may be handed up
(run `freed`); `IntactOutputIsFile` says that nothing else spoils it: for any network, as
long as `DeliveredIntact`, and for transfers that the head byte counts
(`ShortTransfer`, without which `wrap` is a counterexample).  `FileTypeCorrect` (`FTypeOK`)
needs `SameSizes` and one of the two, `CountsRight`.  `FileImplementsTransfer` and
`FileInTurn` give the blocks, in order; `FileInv` then says that the output is as long as
the blocks popped plus the part of a block that was read and left in the queue, is
the file so far if all blocks were intact, and that only a last, short block is
ever followed by a second turn of `gbn_socket_read`'s loop.

*Queue* (`BlockQueueProofs`).  `QueueInvariant`, and from it `RingAlwaysAligned`,
`WakeupNeverLost`, `ProducerNeverStarved` and `QueueTypeCorrect`, for any capacity, any
finite set of producers, and spurious wakeups.  `RingAligned` needs that a consumer
past its look at the size is the only one to lower it; `NoStarvedProducer` needs a
count of the woken producers against the free cells, along every change of both.
`QueueImplementsFifo`: the ring implements `BoundedFifo`, in which a peek returns the first
block or does not happen, until it is overfilled and except for the steps
`EmptyPeek`, action by action; the abstract sequence is read off the ring from the
head on.

*Router* (`LinkStateProofs`).  For every network and every order in which packets
arrive:

- `RouterTypeCorrect` (`TypeOK`) and `FloodLeavesNobodyOut` (`FloodReaches`), from
  `RouterInv`: it adds that only what was heard of is sent on (`SentIsHeard`), which
  is why a packet need not go back where it came from.  The loop of
  `update_routing_table` enters through `RunOK`: it keeps the packets it was given.
- `DijkstraCorrect` (`BestOverHeardLinks`).  `Dijkstra` is the invariant of the loop: to
  every router reached a path leads within what is reached, by its gateway and at
  its cost, and no path over the links heard of costs less.  `NoCheaper` finds, on
  any path to a router not yet reached, the link by which it first leaves what is
  reached, so the cheapest candidate ends a best path (`ReachBest`); `RunEnds` shows
  that the loop ends within as many turns as there are routers, and
  `UnreachedHasNoPath` that either exit of the loop has left out only what has no
  path.  The second half, on the gateway, needs that a path from the gateway that
  comes back through the router is no better (`GatewayBest`).
- `RoutesImprove` (`RoutesOnlyImprove`), since packets are kept and a best path over
  more links is no worse (`BestFalls`).
- `CostsNeverOverflow`: a cost plus a link is at most 255 per router, 8160 with the
  code's 32, so the `int16_t` of the code is a natural number in the model.
- `ProperWhenQuiet`: in a connected network in which nothing is left to read the
  tables are those of the whole network.  It is the part of `Converges` that needs
  no fairness; that the flood comes to an end stays with TLC.

The library's induction theorems cannot be used here, as section 7 says.  What a
recursive function computes is proved with `LeastNumber` instead: a set of natural
numbers has a least element (`WFMin` of the library), so there is a least number of
turns after which the claim fails, and that turn is looked at.

*Startup* (`NeighborStartupProofs`).  `StartupTypeCorrect` and `LinksNeverCross`, for any
network and number of restarts.  `NeverCrossed` needs that what waits at a listener
was made by the neighbor the listener is for (`FromNeighbor`).

*Index* (`P2PSystemProofs`).  For any number of clients, names and files:

- `IndexTypeCorrect`, whose invariant contains that records still to be written are in
  the map (`Listing`): the thread that writes them has the mutex.
- `ListedStaysRegistered`: `Registration` follows a client's thread and its lines, and
  says that a name is out of the set only before the REGISTER is handled or after
  the files are withdrawn.
- `OthersStayUntouched`: `Standing` says that a client of a name of its own is neither
  refused nor forgotten while it runs, `Posted` that lines speak of files no
  longer unposted.
- `ServerIsIndex`: the server implements `FileIndex`.  `Dialogue` says that one listing
  is under way per client, and that what is on its way is a part of it; the mutex
  keeps the map as it was when the listing took effect, so that the answer, made
  of what arrived, what is on its way and what is still to be sent, never changes
  while it travels.

*Download* (`P2PGetProofs`).  `GetTypeCorrect`, `OkDownloadsComplete` (`OkIsComplete`) and
`OkDownloadsCopy` (`OkIsCopy`), for any peers, files, block and buffer sizes.  `GetInv`
keeps the account of a download (`Measures`): bytes written, on their way and in the
listener's buffer add up to the listener's position, and the unsigned rest is the
length announced less the bytes written, modulo its width.  A rest of 0 means the
length announced because no file reaches that width.  `Copies` adds that each of
those bytes is the source's, in its place, for as long as the source's file is as
it was at the request.  `Connected` and `Fresh` tell apart the connections that
earlier gets have left behind.  A listener that returns changes nothing of a download
under way, so its thread (`ListeningStep`) has an invariant of its own.

*Trie* (`TrieProofs`).  `NeverDangling` (`NoDangling`) and `TrieIsMap` (`ImplementsMap`), for any
radix and keys.  Distinct keys have distinct paths (`PathInjective`), so a put
changes one value (`PutKeeps`).  `Iterating` says that every key still to be visited is
reached from exactly one item of the list of work, and that nothing else with a
value is; `BelowLeads` shows that replacing an item by what is below it loses and
doubles nothing, `CallKeeps` that a callback which removes the entry it is called
with leaves the rest as it was.

Three definitions were changed by these proofs.  `Below` of the trie had two cases
whose guards overlapped, so that its value was not determined; a block in `fread`
of `P2PGet` is now written without a nested `@`; and `BestCost`, the reference for
the routers, looks at the paths of one pair of routers instead of building a table
for all.

`ModArithmetic` holds the facts about `%` the solver does not find by itself.

## 7. What is only model-checked

- Liveness (`TransferCompletes`, `FileArrives`, `SleeperWoken`, `PushedIsSeen`,
  `Converges`, `StopsTogether`, `MismatchEnds`, `StartsUp`, `LeaversForgotten`,
  `LsReturns`, `GetEnds`): temporal reasoning under fairness is beyond the
  prover.  So are theorems that take an operator as a parameter, such as the
  library's induction theorems.

Every invariant, and every action property and refinement that a passing run
checks, is stated by a theorem.

## 8. Not modelled, and the plan

Not modelled because there is no state to check: `logging.c`, `debugprint.h`,
`routertest.c`, and the sample programs `GBNserver.c` and `GBNclient.c`, which do not
use the socket.  In the router, packets are whole: the short reads of the
non-blocking connections are left out, and the links of a router are fixed, as
they are in the code.

The line of a record is taken whole: its separators, its digits, and fields
longer than the buffer of `read_file_stat_end` are left out.  `trie_set.c` is three
calls of the trie, and the name set is a set in `P2PServer`.  Command lines, port
numbers and the log files are not modelled.  After an overrun of the sending
window, a negative index into the trie, or an `FD_SET` of a descriptor that could
not be opened, the models do not say what the program does.  Nor do they after a
peek of an empty receive buffer, except that the process may go on or not.

Next is the part of `TransferCompletes` that needs no fairness, as `ProperWhenQuiet` is
for the routers: on a clean network a transfer in which no thread can take a step
is complete, or its server is undefined.
