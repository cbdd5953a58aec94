------------------------------- MODULE P2PGet --------------------------------
(***************************************************************************)
(* How a client of PA4 fetches a file from another: the get branch of      *)
(* wait_for_input on one side, the thread peer_listener on the other.      *)
(*                                                                         *)
(* All peers know the file under one name, and each may hold other bytes   *)
(* under it, or none.  The listing that get goes by may be old: the peer   *)
(* may be gone, or have no such file.  It may also be the client itself.   *)
(* A listener serves one connection after the other, from the file as it   *)
(* is on disk, where the main thread may be writing a download of its own. *)
(* No client closes the connection of a get before its process ends.       *)
(***************************************************************************)
EXTENDS Integers, Sequences

CONSTANTS
  Peers,
  Byte,
  Original,  \* the bytes each has under the name, or NoFile
  NoFile,
  Sources,   \* whom each may fetch the file from
  ReadOnly,  \* peers that cannot open the file for writing
  BufSize,   \* bytes read, or sent, at a time; 4096 in the code
  SockBuf,   \* bound: bytes a connection holds before writing to it blocks
  LenMod,    \* lengths are unsigned, modulo 2^32 in the code
  MaxGets,   \* bound: how often each fetches
  MayCrash,  \* peers that may be killed
  MayFail    \* peers where accept may fail, no descriptor being left

ASSUME GetConstants ==
  /\ Original \in [Peers -> Seq(Byte) \cup {NoFile}] /\ NoFile \notin Seq(Byte)
  /\ \A p \in Peers : Original[p] # NoFile => Len(Original[p]) < LenMod
  /\ Sources \in [Peers -> SUBSET Peers]
  /\ ReadOnly \subseteq Peers /\ MayCrash \subseteq Peers /\ MayFail \subseteq Peers
  /\ BufSize \in Nat \ {0} /\ SockBuf \in Nat \ {0} /\ LenMod \in Nat \ {0}
  /\ MaxGets \in [Peers -> Nat]

\* The k-th get of p has a connection of its own.
Conns == UNION {{<<p, k>> : k \in 1 .. MaxGets[p]} : p \in Peers}
NoConn == <<>>

VARIABLES
  alive,  \* the processes that run
  disk,   \* the file at each peer
  get,    \* get[p]: the main thread; its place, number, source and len
  want,   \* history: what the source held when p asked, until it changes
  conn,   \* the connections: request, bytes to the client, closed by listener
  queue,  \* queue[q]: connections not yet accepted
  listening,  \* the peers whose thread peer_listener has not returned
  serve   \* serve[q]: the listener; its place, connection, position, inbuf

vars == <<alive, disk, get, want, conn, queue, listening, serve>>

Idle == [at |-> "accept", conn |-> NoConn, pos |-> 0, inbuf |-> <<>>, eof |-> FALSE]
Spoiled == <<"spoiled">>

Init ==
  /\ alive = Peers
  /\ disk = Original
  /\ get = [p \in Peers |-> [at |-> "input", k |-> 0, src |-> p, len |-> 0, told |-> -1]]
  /\ want = [p \in Peers |-> Spoiled]
  /\ conn = [c \in Conns |-> [asked |-> FALSE, buf |-> <<>>, closed |-> FALSE]]
  /\ queue = [q \in Peers |-> <<>>]
  /\ listening = Peers
  /\ serve = [q \in Peers |-> Idle]

Fetching == {"connected", "len", "data"}
Current(p) == <<p, get[p].k>>
Mine(c) == c[1]
Least(m, n) == IF m < n THEN m ELSE n

\* The bytes under the name change at p: copies being made of it are spoiled.
Writes(p, bytes) ==
  /\ disk' = [disk EXCEPT ![p] = bytes]
  /\ want' = [r \in Peers |-> IF r # p /\ get[r].src = p THEN Spoiled ELSE want[r]]
-----------------------------------------------------------------------------
(***************************************************************************)
(* get: connect, then open the file for writing, which empties it; only    *)
(* then is the peer asked.                                                 *)
(***************************************************************************)
connect_client(p, q) ==
  /\ p \in alive /\ get[p].at \notin Fetching /\ get[p].k < MaxGets[p]
  /\ \/ /\ q \in alive
        /\ get' = [get EXCEPT ![p] = [at |-> "connected", k |-> @.k + 1, src |-> q,
                                      len |-> 0, told |-> -1]]
        /\ queue' = [queue EXCEPT ![q] = Append(@, <<p, get[p].k + 1>>)]
     \/ /\ q \notin alive
        /\ get' = [get EXCEPT ![p].at = "failed"]
        /\ UNCHANGED queue
  /\ UNCHANGED <<alive, disk, want, conn, listening, serve>>

fopen_fails(p) ==
  /\ p \in alive \cap ReadOnly /\ get[p].at = "connected"
  /\ get' = [get EXCEPT ![p].at = "failed"]
  /\ UNCHANGED <<alive, disk, want, conn, queue, listening, serve>>

request(p) ==
  /\ p \in alive \ ReadOnly /\ get[p].at = "connected"
  /\ get' = [get EXCEPT ![p].at = "len"]
  /\ conn' = [conn EXCEPT ![Current(p)].asked = TRUE]
  /\ disk' = [disk EXCEPT ![p] = <<>>]
  /\ want' = [r \in Peers |->
                IF r = p THEN (IF get[p].src = p THEN Spoiled ELSE disk[get[p].src])
                ELSE IF get[r].src = p THEN Spoiled ELSE want[r]]
  /\ UNCHANGED <<alive, queue, listening, serve>>

(***************************************************************************)
(* The connection yields nothing more: it was closed, by the listener or   *)
(* by the death of its process.  len is then what was on the stack.        *)
(***************************************************************************)
AtEnd(c, q) == conn[c].buf = <<>> /\ (conn[c].closed \/ q \notin alive)

read_len(p) ==
  LET c == Current(p)
  IN /\ p \in alive /\ get[p].at = "len"
     /\ \/ /\ conn[c].buf # <<>>
           /\ get' = [get EXCEPT ![p].at = "data", ![p].len = Head(conn[c].buf),
                                 ![p].told = Head(conn[c].buf)]
           /\ conn' = [conn EXCEPT ![c].buf = Tail(@)]
        \/ /\ AtEnd(c, get[p].src)
           /\ \E garbage \in 0 .. LenMod - 1 :
                get' = [get EXCEPT ![p].at = "data", ![p].len = garbage]
           /\ UNCHANGED conn
     /\ UNCHANGED <<alive, disk, want, queue, listening, serve>>

\* Mutant of Remaining: the length is signed.
RemainingSigned(len, n) == len - n
\* Mutant of Remaining: the length does not go below zero.
RemainingAtLeastZero(len, n) == IF n > len THEN 0 ELSE len - n
Remaining(len, n) == (len - n) % LenMod

read_data(p) ==
  LET c == Current(p)
  IN /\ p \in alive /\ get[p].at = "data" /\ get[p].len > 0
     /\ \E n \in 1 .. BufSize :
          /\ n <= Len(conn[c].buf)
          /\ Writes(p, disk[p] \o SubSeq(conn[c].buf, 1, n))
          /\ conn' = [conn EXCEPT ![c].buf = SubSeq(@, n + 1, Len(@))]
          /\ get' = [get EXCEPT ![p].len = Remaining(@, n)]
     /\ UNCHANGED <<alive, queue, listening, serve>>

get_ends(p) ==
  /\ p \in alive /\ get[p].at = "data"
  /\ \/ get[p].len = 0 /\ get' = [get EXCEPT ![p].at = "ok"]
     \/ /\ get[p].len > 0 /\ AtEnd(Current(p), get[p].src)
        /\ get' = [get EXCEPT ![p].at = "failed"]
  /\ UNCHANGED <<alive, disk, want, conn, queue, listening, serve>>

ClientStep(p) ==
  fopen_fails(p) \/ request(p) \/ read_len(p) \/ read_data(p) \/ get_ends(p)
-----------------------------------------------------------------------------
(***************************************************************************)
(* peer_listener.  A write blocks while the connection is full; one to a   *)
(* process that has ended is lost, or raises SIGPIPE.                      *)
(***************************************************************************)
HangUp(q) ==
  /\ conn' = [conn EXCEPT ![serve[q].conn].closed = TRUE]
  /\ serve' = [serve EXCEPT ![q] = Idle]

PeerWrite(c, bytes) ==
  \/ /\ Mine(c) \in alive /\ Len(conn[c].buf) + Len(bytes) <= SockBuf
     /\ conn' = [conn EXCEPT ![c].buf = @ \o bytes]
  \/ Mine(c) \notin alive /\ UNCHANGED conn

accept(q) ==
  /\ q \in alive \cap listening /\ serve[q].at = "accept" /\ queue[q] # <<>>
  /\ serve' = [serve EXCEPT ![q] = [Idle EXCEPT !.at = "name", !.conn = Head(queue[q])]]
  /\ queue' = [queue EXCEPT ![q] = Tail(@)]
  /\ UNCHANGED <<alive, disk, get, want, conn, listening>>

(***************************************************************************)
(* accept fails, and the thread returns.  The listening socket stays open: *)
(* whoever connects from now on is queued, and not served.                 *)
(***************************************************************************)
accept_fails(q) ==
  /\ q \in alive \cap listening \cap MayFail /\ serve[q].at = "accept"
  /\ listening' = listening \ {q}
  /\ UNCHANGED <<alive, disk, get, want, conn, queue, serve>>

(***************************************************************************)
(* The name has come; or the end of the stream, and fname is what an       *)
(* earlier request, or nothing at all, left in it.                         *)
(***************************************************************************)
read_name(q) ==
  LET c == serve[q].conn
  IN /\ q \in alive /\ serve[q].at = "name"
     /\ conn[c].asked \/ Mine(c) \notin alive
     /\ \/ /\ disk[q] # NoFile
           /\ PeerWrite(c, <<Len(disk[q]) % LenMod>>)
           /\ serve' = [serve EXCEPT ![q].at = "fread"]
        \/ /\ ~conn[c].asked \/ disk[q] = NoFile
           /\ HangUp(q)
     /\ UNCHANGED <<alive, disk, get, want, queue, listening>>

\* Mutant of Block: the file is opened anew for every block.
FirstBlock(q) == SubSeq(disk[q], 1, Least(BufSize, Len(disk[q])))

\* What fread finds from where it stands to the end of the file.
Block(q) == SubSeq(disk[q], serve[q].pos + 1, Least(serve[q].pos + BufSize, Len(disk[q])))

fread(q) ==
  /\ q \in alive /\ serve[q].at = "fread" /\ serve[q].pos < Len(disk[q])
  /\ serve' = [serve EXCEPT ![q].at = "write", ![q].inbuf = Block(q),
                             ![q].pos = @ + Len(Block(q)),
                             ![q].eof = Len(Block(q)) < BufSize]
  /\ UNCHANGED <<alive, disk, get, want, conn, queue, listening>>

write(q) ==
  /\ q \in alive /\ serve[q].at = "write"
  /\ PeerWrite(serve[q].conn, serve[q].inbuf)
  /\ serve' = [serve EXCEPT ![q].at = "fread", ![q].inbuf = <<>>]
  /\ UNCHANGED <<alive, disk, get, want, queue, listening>>

\* fread may stop at an end of file it has met before.
AtEndOfFile(q) == serve[q].pos >= Len(disk[q]) \/ serve[q].eof

\* Mutant of served: the connection is left open.
ServedStaysOpen(q) ==
  /\ q \in alive /\ serve[q].at = "fread" /\ AtEndOfFile(q)
  /\ serve' = [serve EXCEPT ![q] = Idle]
  /\ UNCHANGED <<alive, disk, get, want, conn, queue, listening>>

served(q) ==
  /\ q \in alive /\ serve[q].at = "fread" /\ AtEndOfFile(q)
  /\ HangUp(q)
  /\ UNCHANGED <<alive, disk, get, want, queue, listening>>

peer_listener(q) == accept(q) \/ read_name(q) \/ fread(q) \/ write(q) \/ served(q)
-----------------------------------------------------------------------------
\* The process ends, both threads of it.
Dies(p) ==
  /\ alive' = alive \ {p}
  /\ get' = [get EXCEPT ![p].at = "failed"]
  /\ serve' = [serve EXCEPT ![p] = Idle]
  /\ queue' = [queue EXCEPT ![p] = <<>>]
  /\ UNCHANGED <<disk, want, conn, listening>>

Crash(p) == p \in alive \cap MayCrash /\ Dies(p)

SigPipe(q) ==
  /\ q \in alive
  /\ serve[q].at = "write" \/ (serve[q].at = "name" /\ disk[q] # NoFile)
  /\ Mine(serve[q].conn) \notin alive
  /\ Dies(q)

Next ==
  \E p \in Peers :
    \/ \E q \in Sources[p] : connect_client(p, q)
    \/ ClientStep(p)
    \/ peer_listener(p)
    \/ accept_fails(p) \/ Crash(p) \/ SigPipe(p)

Spec == Init /\ [][Next]_vars

\* Both threads of every process run.
FairSpec ==
  /\ Spec
  /\ \A p \in Peers : WF_vars(ClientStep(p)) /\ WF_vars(peer_listener(p))
-----------------------------------------------------------------------------
(***************************************************************************)
(* Type invariant; in particular the remaining length is unsigned, and no  *)
(* connection holds more than its buffer.                                  *)
(***************************************************************************)
TypeOK ==
  /\ alive \subseteq Peers /\ listening \subseteq Peers
  /\ \A p \in Peers :
       /\ get[p].at \in Fetching \cup {"input", "ok", "failed"}
       /\ get[p].k \in 0 .. MaxGets[p] /\ get[p].src \in Peers
       /\ get[p].len \in 0 .. LenMod - 1
       /\ serve[p].at \in {"accept", "name", "fread", "write"}
       /\ serve[p].at # "accept" => serve[p].conn \in Conns
  /\ \A c \in Conns : Len(conn[c].buf) <= SockBuf

(***************************************************************************)
(* A download that ends without a message has as many bytes as the peer    *)
(* announced, even if the file grew while it was sent and the remaining    *)
(* length went below zero.  (Where nothing was announced, because the peer *)
(* hung up first, the length was never set and anything may happen.)       *)
(***************************************************************************)
OkIsComplete ==
  \A p \in Peers :
    get[p].at = "ok" /\ get[p].told # -1 => Len(disk[p]) = get[p].told

(***************************************************************************)
(* And if the peer did not write to the file while it was sent, it has the *)
(* bytes of the peer's file, in order.                                     *)
(***************************************************************************)
OkIsCopy ==
  \A p \in Peers :
    get[p].at = "ok" /\ get[p].told # -1 /\ want[p] # Spoiled => disk[p] = want[p]

(***************************************************************************)
(* Every get ends, whoever dies, unless the listener it depends on has     *)
(* returned from a failed accept, or is held up by a client that has given *)
(* up its own get and not the connection: it waits for a name that is      *)
(* never sent, or for room for bytes that nobody reads.                    *)
(***************************************************************************)
HeldUp(q) ==
  /\ serve[q].at \in {"name", "write"}
  /\ LET c == serve[q].conn
     IN Mine(c) \in alive /\ (c # Current(Mine(c)) \/ get[Mine(c)].at \notin Fetching)

GetEnds ==
  \A p \in Peers :
    get[p].at \in Fetching ~> \/ get[p].at \notin Fetching
                              \/ [](get[p].at \in Fetching /\ HeldUp(get[p].src))
                              \/ [](get[p].at \in Fetching /\ get[p].src \notin listening)
=============================================================================
