---------------------------- MODULE P2PGetProofs -----------------------------
(***************************************************************************)
(* What holds of downloads for any number of peers that fetch and serve at *)
(* the same time, any files, and whoever dies.                             *)
(***************************************************************************)
EXTENDS P2PGet, ModArithmetic, SequenceTheorems, TLAPS

\* What travels to a client: a length, then bytes.
Datum == Byte \cup Nat

GetRecord == [at : Fetching \cup {"input", "ok", "failed"}, k : Nat, src : Peers,
              len : 0 .. LenMod - 1, told : -1 .. LenMod - 1]
ConnRecord == [asked : BOOLEAN, buf : Seq(Datum), closed : BOOLEAN]
ServeRecord == [at : {"accept", "name", "fread", "write"}, conn : Conns \cup {NoConn},
                pos : 0 .. LenMod - 1, inbuf : Seq(Byte), eof : BOOLEAN]

Typed ==
  /\ alive \subseteq Peers
  /\ disk \in [Peers -> Seq(Byte) \cup {NoFile}]
  /\ get \in [Peers -> GetRecord]
  /\ DOMAIN want = Peers /\ want = [p \in Peers |-> want[p]]
  /\ conn \in [Conns -> ConnRecord]
  /\ queue \in [Peers -> Seq(Conns)]
  /\ serve \in [Peers -> ServeRecord]
  /\ \A p \in Peers : get[p].k <= MaxGets[p]
  /\ \A c \in Conns : Len(conn[c].buf) <= SockBuf

\* No file grows to LenMod bytes; a get that is under way has a number; and
\* both threads of a peer end with it.
Bounded ==
  \A p \in Peers :
    /\ disk[p] # NoFile => Len(disk[p]) < LenMod
    /\ get[p].at \in Fetching => p \in alive
    /\ get[p].at \in Fetching \cup {"ok"} => get[p].k >= 1
    /\ p \notin alive => queue[p] = <<>> /\ serve[p] = Idle

\* The listener q has connection c before it: in its queue, or accepted.
Holds(q, c) ==
  \/ \E i \in DOMAIN queue[q] : queue[q][i] = c
  \/ serve[q].at # "accept" /\ serve[q].conn = c

\* A connection is made by its get, to one listener, and stands in its queue
\* or is accepted, once.
Connected ==
  \A q \in Peers :
    /\ \A c \in Conns :
         Holds(q, c) =>
           c[2] <= get[Mine(c)].k /\ (c[2] = get[Mine(c)].k => get[Mine(c)].src = q)
    /\ \A i, j \in DOMAIN queue[q] : queue[q][i] = queue[q][j] => i = j
    /\ serve[q].at # "accept" =>
         /\ serve[q].conn \in Conns
         /\ \A i \in DOMAIN queue[q] : queue[q][i] # serve[q].conn
    /\ serve[q].at # "write" => serve[q].inbuf = <<>>
    /\ serve[q].at = "name" => serve[q].pos = 0
    /\ serve[q].at \in {"fread", "write"} => disk[q] # NoFile

\* Nothing has happened on a connection that is not made yet.
Unused(x) == ~x.asked /\ ~x.closed /\ x.buf = <<>>
Fresh == \A c \in Conns : c[2] > get[Mine(c)].k => Unused(conn[c])

\* c has been accepted by q and answered; or is yet to be.
Served(q, c) == serve[q].at \in {"fread", "write"} /\ serve[q].conn = c
Waits(q, c) == Holds(q, c) /\ ~Served(q, c)

(***************************************************************************)
(* The download g with d written so far, over a connection that holds x,   *)
(* from a listener s that serves it or not: every byte that fread has got  *)
(* is written, on its way, or in inbuf.                                    *)
(***************************************************************************)
HeaderLen(g) == IF g.at = "len" THEN 1 ELSE 0

Measures(g, d, x, s, answered, waits) ==
  /\ g.at = "connected" => Unused(x) /\ ~answered /\ g.told = -1
  /\ g.at = "len" => /\ d = <<>> /\ g.told = -1
                     /\ answered => Len(x.buf) >= 1
                     /\ Len(x.buf) >= 1 => x.buf[1] \in 0 .. LenMod - 1
  /\ g.at \in {"len", "data"} =>
       /\ d \in Seq(Byte)
       /\ waits => g.at = "len" /\ x.buf = <<>> /\ ~x.closed
       /\ \A i \in 1 .. Len(x.buf) : i > HeaderLen(g) => x.buf[i] \in Byte
       /\ answered => Len(d) + Len(x.buf) - HeaderLen(g) + Len(s.inbuf) = s.pos
       /\ Len(d) + Len(x.buf) - HeaderLen(g) < LenMod
  /\ g.at = "data" /\ g.told # -1 => g.len = (g.told - Len(d)) % LenMod
  /\ g.at = "ok" /\ g.told # -1 => Len(d) = g.told

Measured(p) ==
  LET q == get[p].src
      c == Current(p)
  IN Measures(get[p], disk[p], conn[c], serve[q], Served(q, c), Waits(q, c))

(***************************************************************************)
(* The same, when w is what is to be copied and held has it: they are the  *)
(* bytes of w, in their places.                                            *)
(***************************************************************************)
Copies(g, d, x, s, answered, w, held) ==
  /\ g.at \in {"len", "data"} =>
       /\ held = w
       /\ answered \/ Len(x.buf) >= 1 \/ g.told # -1 => w \in Seq(Byte)
       /\ g.at = "len" /\ Len(x.buf) >= 1 => x.buf[1] = Len(w)
       /\ g.at = "data" /\ g.told # -1 => g.told = Len(w)
       /\ \A i \in 1 .. Len(d) : i <= Len(w) /\ d[i] = w[i]
       /\ \A i \in 1 .. Len(x.buf) :
            i > HeaderLen(g) =>
              /\ Len(d) + i - HeaderLen(g) <= Len(w)
              /\ x.buf[i] = w[Len(d) + i - HeaderLen(g)]
       /\ answered =>
            /\ s.pos <= Len(w)
            /\ \A i \in 1 .. Len(s.inbuf) : s.inbuf[i] = w[s.pos - Len(s.inbuf) + i]
  /\ g.at = "ok" /\ g.told # -1 => d = w

Copied(p) ==
  LET q == get[p].src
      c == Current(p)
  IN want[p] # Spoiled =>
       /\ get[p].at \in {"len", "data"} => q # p
       /\ Copies(get[p], disk[p], conn[c], serve[q], Served(q, c), want[p], disk[q])

Downloads == \A p \in Peers : get[p].k >= 1 => Measured(p) /\ Copied(p)

\* g is f with v at x.
Puts(f, g, x, v) == g = [f EXCEPT ![x] = v]

\* The inductive invariant.
GetInv == Typed /\ Bounded /\ Connected /\ Fresh /\ Downloads
-----------------------------------------------------------------------------
(***************************************************************************)
(* A connection is told by its peer and the number of its get.             *)
(***************************************************************************)
LEMMA ConnIs ==
  ASSUME NEW c \in Conns
  PROVE  /\ Mine(c) \in Peers /\ c[2] \in 1 .. MaxGets[Mine(c)] /\ c[2] \in Nat
         /\ c = <<Mine(c), c[2]>>
<1>1. PICK p \in Peers : c \in {<<p, k>> : k \in 1 .. MaxGets[p]}
  BY DEF Conns
<1>2. PICK k \in 1 .. MaxGets[p] : c = <<p, k>>
  BY <1>1
<1>3. MaxGets[p] \in Nat
  BY GetConstants
<1> QED BY <1>2, <1>3 DEF Mine

(***************************************************************************)
(* The connection of a get.                                                *)
(***************************************************************************)
LEMMA GetConn ==
  ASSUME NEW p \in Peers, NEW k \in 1 .. MaxGets[p]
  PROVE  <<p, k>> \in Conns /\ Mine(<<p, k>>) = p /\ <<p, k>>[2] = k
BY DEF Conns, Mine

(***************************************************************************)
(* What the type invariant says of the parts of the state.                 *)
(***************************************************************************)
LEMMA PartsTyped ==
  ASSUME Typed, NEW p \in Peers
  PROVE  /\ get[p].at \in Fetching \cup {"input", "ok", "failed"}
         /\ get[p].k \in Nat /\ MaxGets[p] \in Nat
         /\ get[p].src \in Peers /\ get[p].len \in 0 .. LenMod - 1
         /\ get[p].told \in -1 .. LenMod - 1
         /\ serve[p].at \in {"accept", "name", "fread", "write"}
         /\ serve[p].conn \in Conns \cup {NoConn} /\ serve[p].pos \in 0 .. LenMod - 1
         /\ serve[p].inbuf \in Seq(Byte) /\ serve[p].eof \in BOOLEAN
         /\ queue[p] \in Seq(Conns) /\ disk[p] \in Seq(Byte) \cup {NoFile}
         /\ get[p].k >= 1 => Current(p) \in Conns /\ Mine(Current(p)) = p
                             /\ Current(p)[2] = get[p].k
<1>1. MaxGets[p] \in Nat
  BY GetConstants
<1>2. get[p] \in GetRecord /\ serve[p] \in ServeRecord /\ get[p].k <= MaxGets[p]
  BY DEF Typed
<1>3. get[p].k \in Nat
  BY <1>2 DEF GetRecord
<1>4. get[p].k >= 1 => Current(p) \in Conns /\ Mine(Current(p)) = p
                       /\ Current(p)[2] = get[p].k
  BY <1>1, <1>2, <1>3, GetConn DEF Current
<1> QED BY <1>1, <1>2, <1>4 DEF Typed, GetRecord, ServeRecord

(***************************************************************************)
(* What it says of a connection.                                           *)
(***************************************************************************)
LEMMA ConnTyped ==
  ASSUME Typed, NEW c \in Conns
  PROVE  /\ conn[c].asked \in BOOLEAN /\ conn[c].closed \in BOOLEAN
         /\ conn[c].buf \in Seq(Datum)
BY DEF Typed, ConnRecord

(***************************************************************************)
(* Two peers do not fetch over one connection.                             *)
(***************************************************************************)
LEMMA CurrentApart ==
  ASSUME NEW p, NEW r, Current(p) = Current(r)
  PROVE  p = r
BY DEF Current

(***************************************************************************)
(* A download goes on undisturbed when nothing of it has changed but that  *)
(* its listener may have gone, and unless its source has been written to.  *)
(***************************************************************************)
LEMMA DownloadKept ==
  ASSUME NEW r \in Peers, get[r].k >= 1 => Measured(r) /\ Copied(r),
         get'[r] = get[r], disk'[r] = disk[r],
         get[r].k >= 1 => conn'[Current(r)] = conn[Current(r)],
         Served(get[r].src, Current(r))' =>
           /\ Served(get[r].src, Current(r))
           /\ serve'[get[r].src].inbuf = serve[get[r].src].inbuf
           /\ serve'[get[r].src].pos = serve[get[r].src].pos,
         get[r].k >= 1 /\ Waits(get[r].src, Current(r))' => Waits(get[r].src, Current(r)),
         want'[r] # Spoiled => want'[r] = want[r] /\ disk'[get[r].src] = disk[get[r].src]
  PROVE  (get[r].k >= 1 => Measured(r) /\ Copied(r))'
<1> SUFFICES ASSUME get[r].k >= 1 PROVE Measured(r)' /\ Copied(r)'
  OBVIOUS
<1> DEFINE q == get[r].src
           c == Current(r)
<1>1. Current(r)' = c
  BY DEF Current
<1>2. Measured(r)'
  <2>1. Measures(get[r], disk[r], conn[c], serve[q], Served(q, c), Waits(q, c))
    BY DEF Measured
  <2>2. Measures(get[r], disk[r], conn[c], serve'[q], Served(q, c)', Waits(q, c)')
    <3> HIDE DEF q, c
    <3> QED BY <2>1 DEF Measures, q, c
  <2> QED BY <1>1, <2>2 DEF Measured
<1>3. Copied(r)'
  <2> SUFFICES ASSUME want'[r] # Spoiled
               PROVE  /\ get[r].at \in {"len", "data"} => q # r
                      /\ Copies(get[r], disk[r], conn[c], serve'[q], Served(q, c)', want[r],
                                disk[q])
    BY <1>1 DEF Copied
  <2>1. /\ get[r].at \in {"len", "data"} => q # r
        /\ Copies(get[r], disk[r], conn[c], serve[q], Served(q, c), want[r], disk[q])
    BY DEF Copied
  <2> QED BY <2>1 DEF Copies
<1> QED BY <1>2, <1>3
-----------------------------------------------------------------------------
(***************************************************************************)
(* The invariant holds before anyone fetches.                              *)
(***************************************************************************)
LEMMA GetInit == Init => GetInv
<1>0. \A s : s = <<>> => DOMAIN s = {}
  OBVIOUS
<1> SUFFICES ASSUME Init PROVE GetInv
  OBVIOUS
<1> USE GetConstants DEF Init
<1>1. Typed
  <2>1. \A p \in Peers : get[p] \in GetRecord /\ get[p].k <= MaxGets[p]
    <3>1. 0 \in 0 .. LenMod - 1 /\ -1 \in -1 .. LenMod - 1 /\ \A p \in Peers : 0 <= MaxGets[p]
      OBVIOUS
    <3> QED BY <3>1 DEF GetRecord
  <2>2. \A c \in Conns : conn[c] \in ConnRecord /\ Len(conn[c].buf) <= SockBuf
    BY DEF ConnRecord
  <2>3. Idle \in ServeRecord
    BY DEF Idle, ServeRecord
  <2> QED BY <2>1, <2>2, <2>3 DEF Typed
<1>2. Bounded
  BY DEF Bounded, Fetching
<1>3. Connected
  <2>1. \A q \in Peers : queue[q] = <<>> /\ serve[q] = Idle
    OBVIOUS
  <2>2. Idle.at = "accept" /\ Idle.inbuf = <<>>
    BY DEF Idle
  <2>3. \A q \in Peers : DOMAIN queue[q] = {}
    BY <1>0, <2>1
  <2>4. \A q \in Peers : serve[q].at = "accept" /\ serve[q].inbuf = <<>>
    BY <2>1, <2>2
  <2> QED BY <2>3, <2>4 DEF Connected, Holds
<1>4. Fresh
  <2>1. \A c \in Conns : Unused(conn[c])
    BY DEF Unused
  <2> QED BY <2>1 DEF Fresh
<1>5. Downloads
  BY DEF Downloads
<1> QED BY <1>1, <1>2, <1>3, <1>4, <1>5 DEF GetInv

(***************************************************************************)
(* The order of connections is kept by a step of a client that makes none. *)
(***************************************************************************)
LEMMA ConnectedKept ==
  ASSUME Connected, UNCHANGED <<queue, serve>>,
         \A r \in Peers : /\ get'[r].k = get[r].k /\ get'[r].src = get[r].src
                          /\ disk'[r] = NoFile => disk[r] = NoFile
  PROVE  Connected'
<1>1. \A q \in Peers, c \in Conns : Holds(q, c)' <=> Holds(q, c)
  BY DEF Holds
<1>2. \A c \in Conns : get'[Mine(c)].k = get[Mine(c)].k /\ get'[Mine(c)].src = get[Mine(c)].src
  BY ConnIs
<1> QED BY <1>1, <1>2 DEF Connected

(***************************************************************************)
(* What the main thread of p does to its own download disturbs no other.   *)
(***************************************************************************)
LEMMA OthersKept ==
  ASSUME GetInv, NEW p \in Peers, UNCHANGED <<queue, serve>>,
         \A r \in Peers \ {p} : get'[r] = get[r] /\ disk'[r] = disk[r],
         \A c \in Conns : c # Current(p) => conn'[c] = conn[c],
         \A r \in Peers \ {p} :
           want'[r] # Spoiled => want'[r] = want[r] /\ disk'[get[r].src] = disk[get[r].src]
  PROVE  \A r \in Peers \ {p} : (get[r].k >= 1 => Measured(r) /\ Copied(r))'
<1> SUFFICES ASSUME NEW r \in Peers \ {p}
             PROVE  (get[r].k >= 1 => Measured(r) /\ Copied(r))'
  OBVIOUS
<1>1. get[r].k >= 1 => Measured(r) /\ Copied(r)
  BY DEF GetInv, Downloads
<1>2. /\ Served(get[r].src, Current(r))' <=> Served(get[r].src, Current(r))
      /\ Waits(get[r].src, Current(r))' <=> Waits(get[r].src, Current(r))
  BY DEF Served, Waits, Holds, Current
<1>3. get[r].k >= 1 => conn'[Current(r)] = conn[Current(r)]
  BY PartsTyped, CurrentApart DEF GetInv
<1> QED BY <1>1, <1>2, <1>3, DownloadKept

(***************************************************************************)
(* fopen fails, or the last bytes of a download have come, or no more will.*)
(***************************************************************************)
LEMMA EndsKeep ==
  ASSUME GetInv, NEW p \in Peers, fopen_fails(p) \/ get_ends(p)
  PROVE  GetInv'
<1> USE DEF GetInv
<1> DEFINE at == get'[p].at
<1>1. UNCHANGED <<alive, disk, want, conn, queue, serve>>
  BY DEF fopen_fails, get_ends
<1>2. /\ p \in alive /\ at \in {"ok", "failed"} /\ get' = [get EXCEPT ![p].at = at]
      /\ at = "ok" => get[p].at = "data" /\ get[p].len = 0
      /\ get[p].at \in Fetching
  <2>1. get \in [Peers -> GetRecord]
    BY DEF Typed
  <2> QED BY <2>1 DEF fopen_fails, get_ends, GetRecord, Fetching
<1>3. /\ get' \in [Peers -> GetRecord]
      /\ \A r \in Peers : get'[r].k = get[r].k /\ get'[r].src = get[r].src
      /\ \A r \in Peers : r # p => get'[r] = get[r]
      /\ get'[p].told = get[p].told
  <2>1. get \in [Peers -> GetRecord]
    BY DEF Typed
  <2> HIDE DEF at
  <2> QED BY <1>2, <2>1 DEF GetRecord
<1> HIDE DEF at
<1>4. Typed'
  BY <1>1, <1>3 DEF Typed
<1>5. Bounded'
  BY <1>1, <1>2, <1>3 DEF Bounded
<1>6. Connected'
  BY <1>1, <1>3, ConnectedKept
<1>7. Fresh'
  BY <1>1, <1>3, ConnIs DEF Fresh
<1>8. ASSUME NEW r \in Peers PROVE (get[r].k >= 1 => Measured(r) /\ Copied(r))'
  <2>1. CASE r # p
    BY <1>1, <1>3, <2>1, OthersKept
  <2>2. CASE r = p
    <3> SUFFICES ASSUME get[p].k >= 1 PROVE Measured(p)' /\ Copied(p)'
      BY <1>3, <2>2
    <3>1. CASE at = "failed"
      BY <3>1 DEF Measured, Measures, Copied, Copies, at
    <3>2. CASE at = "ok"
      <4>1. get[p].at = "data" /\ get[p].len = 0
        BY <1>2, <3>2
      <4>2. Measured(p) /\ Copied(p)
        BY DEF Downloads
      <4>3. get[p].told # -1 => Len(disk[p]) = get[p].told
        <5> SUFFICES ASSUME get[p].told # -1 PROVE Len(disk[p]) = get[p].told
          OBVIOUS
        <5> DEFINE b == Len(conn[Current(p)].buf)
        <5>1. /\ 0 = (get[p].told - Len(disk[p])) % LenMod
              /\ disk[p] \in Seq(Byte) /\ Len(disk[p]) + b - HeaderLen(get[p]) < LenMod
          BY <4>1, <4>2 DEF Measured, Measures
        <5>2. b \in Nat /\ HeaderLen(get[p]) = 0
          BY <4>1, PartsTyped, ConnTyped DEF HeaderLen
        <5>3. get[p].told \in 0 .. LenMod - 1
          BY PartsTyped, GetConstants
        <5>4. Len(disk[p]) \in Nat
          BY <5>1
        <5> HIDE DEF b
        <5>5. Len(disk[p]) < LenMod
          BY <5>1, <5>2, <5>4, GetConstants
        <5>6. LenMod \in Nat \ {0} /\ 0 % LenMod = 0
          BY GetConstants, ModSmall
        <5> DEFINE a == get[p].told - Len(disk[p])
        <5>7. a \in Int /\ 0 \in Int /\ a < 0 + LenMod /\ 0 < a + LenMod
          BY <5>3, <5>4, <5>5, <5>6
        <5>8. a % LenMod = 0 % LenMod
          BY <5>1, <5>6
        <5> HIDE DEF a
        <5>9. a = 0
          BY <5>6, <5>7, <5>8, ModInjective
        <5> QED BY <5>3, <5>4, <5>9 DEF a
      <4>4. Measured(p)'
        BY <1>1, <1>3, <3>2, <4>3 DEF Measured, Measures, at
      <4>5. get[p].told # -1 /\ want[p] # Spoiled => disk[p] = want[p]
        <5> SUFFICES ASSUME get[p].told # -1, want[p] # Spoiled PROVE disk[p] = want[p]
          OBVIOUS
        <5> DEFINE d == disk[p]
                   w == want[p]
        <5>1. /\ w \in Seq(Byte) /\ get[p].told = Len(w)
              /\ \A i \in 1 .. Len(d) : d[i] = w[i]
          BY <4>1, <4>2 DEF Copied, Copies
        <5>2. d \in Seq(Byte)
          BY <4>1, <4>2 DEF Measured, Measures
        <5>3. Len(d) = Len(w)
          BY <4>3, <5>1
        <5> HIDE DEF d, w
        <5>4. d = w
          BY <5>1, <5>2, <5>3
        <5> QED BY <5>4 DEF d, w
      <4>6. Copied(p)'
        BY <1>1, <1>3, <3>2, <4>5 DEF Copied, Copies, at
      <4> QED BY <4>4, <4>6
    <3> QED BY <1>2, <3>1, <3>2
  <2> QED BY <2>1, <2>2
<1>9. Downloads'
  BY <1>8 DEF Downloads
<1> QED BY <1>4, <1>5, <1>6, <1>7, <1>9

(***************************************************************************)
(* An empty file is a file.                                                *)
(***************************************************************************)
LEMMA EmptyFile ==
  /\ <<>> \in Seq(Byte) /\ <<>> # NoFile
  /\ Len(<<>>) = 0 /\ LenMod \in Int /\ 0 < LenMod
<1>1. <<>> \in Seq(Byte) /\ Len(<<>>) = 0
  OBVIOUS
<1>2. LenMod \in Int /\ 0 < LenMod
  BY GetConstants
<1>3. NoFile \notin Seq(Byte)
  BY GetConstants
<1> QED BY <1>1, <1>2, <1>3

(***************************************************************************)
(* The file is opened for writing and the peer asked: from here on the     *)
(* download is measured.                                                   *)
(***************************************************************************)
LEMMA RequestKeeps ==
  ASSUME GetInv, NEW p \in Peers, request(p)
  PROVE  GetInv'
<1> USE DEF GetInv
<1>0. PICK c, q : c = Current(p) /\ q = get[p].src
  OBVIOUS
<1>1. /\ UNCHANGED <<alive, queue, serve>> /\ p \in alive /\ get[p].at = "connected"
      /\ get' = [get EXCEPT ![p].at = "len"] /\ disk' = [disk EXCEPT ![p] = <<>>]
      /\ conn' = [conn EXCEPT ![c].asked = TRUE]
  BY <1>0 DEF request
<1>2. /\ get' \in [Peers -> GetRecord]
      /\ \A r \in Peers : get'[r].k = get[r].k /\ get'[r].src = get[r].src
      /\ \A r \in Peers \ {p} : get'[r] = get[r]
      /\ get'[p].at = "len" /\ get'[p].told = get[p].told
  <2>1. get \in [Peers -> GetRecord]
    BY DEF Typed
  <2> QED BY <1>1, <2>1 DEF GetRecord, Fetching
<1>3. /\ disk' \in [Peers -> Seq(Byte) \cup {NoFile}] /\ disk'[p] = <<>>
      /\ \A r \in Peers \ {p} : disk'[r] = disk[r]
      /\ \A r \in Peers : disk'[r] = NoFile => disk[r] = NoFile
  BY <1>1, EmptyFile DEF Typed
<1>4. /\ \A d \in Conns : d # c => conn'[d] = conn[d]
      /\ \A d \in Conns : conn'[d] \in ConnRecord /\ conn'[d].buf = conn[d].buf
      /\ DOMAIN conn' = Conns /\ conn' \in [Conns -> ConnRecord]
      /\ c \in Conns => conn'[c].closed = conn[c].closed
  <2>1. conn \in [Conns -> ConnRecord]
    BY DEF Typed
  <2> QED BY <1>1, <2>1 DEF ConnRecord
<1>5. /\ \A r \in Peers \ {p} :
           want'[r] # Spoiled => want'[r] = want[r] /\ get[r].src # p
      /\ want'[p] # Spoiled => want'[p] = disk[q] /\ q # p
      /\ DOMAIN want' = Peers /\ want' = [r \in Peers |-> want'[r]]
  BY <1>0 DEF request
<1>6. Typed'
  BY <1>1, <1>2, <1>3, <1>4, <1>5 DEF Typed
<1>7. Bounded'
  <2>1. \A r \in Peers : disk'[r] # NoFile => Len(disk'[r]) < LenMod
    BY <1>3, EmptyFile DEF Bounded
  <2> QED BY <1>1, <1>2, <2>1 DEF Bounded, Fetching
<1>8. Connected'
  BY <1>1, <1>2, <1>3, ConnectedKept
<1>9. Fresh'
  <2> SUFFICES ASSUME NEW d \in Conns, d[2] > get'[Mine(d)].k PROVE Unused(conn'[d])
    BY DEF Fresh
  <2>1. Mine(d) \in Peers /\ d[2] > get[Mine(d)].k
    BY <1>2, ConnIs
  <2>2. Mine(c) = p /\ c[2] = get[p].k
    BY <1>0 DEF Mine, Current
  <2>3. d # c
    BY <2>1, <2>2, ConnIs, PartsTyped
  <2> QED BY <1>4, <2>1, <2>3 DEF Fresh
<1>10. ASSUME get[p].k >= 1 PROVE Measured(p)' /\ Copied(p)'
  <2>1. Measured(p) /\ c \in Conns
    BY <1>0, <1>10, PartsTyped DEF Downloads
  <2>2. Unused(conn[c]) /\ ~Served(q, c) /\ get[p].told = -1
    BY <1>0, <1>1, <2>1 DEF Measured, Measures
  <2>3. conn'[c].buf = <<>> /\ ~conn'[c].closed /\ Len(conn'[c].buf) = 0
    BY <1>4, <2>1, <2>2 DEF Unused
  <2>4. ~Served(q, c)'
    BY <1>1, <2>2 DEF Served
  <2>5. get'[p].src = q /\ Current(p)' = c
    BY <1>0, <1>2 DEF Current
  <2>6. HeaderLen(get'[p]) = 1
    BY <1>2 DEF HeaderLen
  <2>7. Len(<<>>) + Len(conn'[c].buf) - HeaderLen(get'[p]) < LenMod
    BY <2>3, <2>6, EmptyFile
  <2>8. Measures(get'[p], disk'[p], conn'[c], serve'[q], Served(q, c)', Waits(q, c)')
    BY <1>2, <1>3, <2>2, <2>3, <2>4, <2>7, EmptyFile DEF Measures
  <2>9. want'[p] # Spoiled =>
          q # p /\ Copies(get'[p], disk'[p], conn'[c], serve'[q], Served(q, c)', want'[p],
                          disk'[q])
    <3> SUFFICES ASSUME want'[p] # Spoiled
                 PROVE  q # p /\ Copies(get'[p], disk'[p], conn'[c], serve'[q], Served(q, c)',
                                        want'[p], disk'[q])
      OBVIOUS
    <3>1. want'[p] = disk[q] /\ q # p /\ disk'[q] = disk[q]
      BY <1>0, <1>3, <1>5, PartsTyped
    <3> QED BY <1>2, <1>3, <2>2, <2>3, <2>4, <3>1, EmptyFile DEF Copies
  <2>10. Measured(p)'
    BY <2>5, <2>8 DEF Measured
  <2>11. Copied(p)'
    BY <2>5, <2>9 DEF Copied
  <2> QED BY <2>10, <2>11
<1>11. Downloads'
  <2>1. \A r \in Peers \ {p} : (get[r].k >= 1 => Measured(r) /\ Copied(r))'
    <3>1. \A r \in Peers \ {p} :
            want'[r] # Spoiled => want'[r] = want[r] /\ disk'[get[r].src] = disk[get[r].src]
      BY <1>3, <1>5, PartsTyped
    <3> QED BY <1>0, <1>1, <1>2, <1>3, <1>4, <3>1, OthersKept
  <2> QED BY <1>2, <1>10, <2>1 DEF Downloads
<1> QED BY <1>6, <1>7, <1>8, <1>9, <1>11

(***************************************************************************)
(* What a client that fetches knows of its own download.                   *)
(***************************************************************************)
LEMMA OwnDownload ==
  ASSUME GetInv, NEW p \in Peers, get[p].k >= 1,
         NEW c, NEW q, c = Current(p), q = get[p].src
  PROVE  /\ c \in Conns /\ Mine(c) = p /\ c[2] = get[p].k /\ q \in Peers
         /\ conn[c].buf \in Seq(Datum)
         /\ Measures(get[p], disk[p], conn[c], serve[q], Served(q, c), Waits(q, c))
         /\ want[p] # Spoiled =>
              /\ get[p].at \in {"len", "data"} => q # p
              /\ Copies(get[p], disk[p], conn[c], serve[q], Served(q, c), want[p], disk[q])
<1>1. c \in Conns /\ Mine(c) = p /\ c[2] = get[p].k /\ q \in Peers
  BY PartsTyped DEF GetInv
<1>2. conn[c].buf \in Seq(Datum)
  BY <1>1, ConnTyped DEF GetInv
<1>3. Measured(p) /\ Copied(p)
  BY DEF GetInv, Downloads
<1> QED BY <1>1, <1>2, <1>3 DEF Measured, Copied

(***************************************************************************)
(* And what there is to show of it after a step.                           *)
(***************************************************************************)
LEMMA OwnDownloadNext ==
  ASSUME NEW p, NEW c, NEW q, Current(p)' = c, get'[p].src = q,
         Measures(get'[p], disk'[p], conn'[c], serve'[q], Served(q, c)', Waits(q, c)'),
         want'[p] # Spoiled =>
           /\ get'[p].at \in {"len", "data"} => q # p
           /\ Copies(get'[p], disk'[p], conn'[c], serve'[q], Served(q, c)', want'[p], disk'[q])
  PROVE  Measured(p)' /\ Copied(p)'
BY DEF Measured, Copied

(***************************************************************************)
(* A get that is under way has a number.                                   *)
(***************************************************************************)
LEMMA FetchingHasConn ==
  ASSUME GetInv, NEW p \in Peers, get[p].at \in Fetching
  PROVE  get[p].k >= 1
BY DEF GetInv, Bounded

(***************************************************************************)
(* A client that has asked reads from its connection and writes to its     *)
(* file: what there is to show of such a step.                             *)
(***************************************************************************)
LEMMA ReaderKeeps ==
  ASSUME GetInv, NEW p \in Peers, NEW c, NEW q, c = Current(p), q = get[p].src,
         get[p].at \in {"len", "data"}, UNCHANGED <<alive, queue, serve>>,
         NEW g \in GetRecord, g.at = "data", g.k = get[p].k, g.src = get[p].src,
         NEW x \in ConnRecord, NEW d \in Seq(Byte), Len(d) < LenMod, Len(x.buf) <= SockBuf,
         Puts(get, get', p, g), Puts(conn, conn', c, x), Puts(disk, disk', p, d),
         DOMAIN want' = Peers, want' = [r \in Peers |-> want'[r]], want'[p] = want[p],
         \A r \in Peers \ {p} :
           want'[r] # Spoiled => want'[r] = want[r] /\ (get[r].src # p \/ d = disk[p]),
         Measures(g, d, x, serve[q], Served(q, c), Waits(q, c)),
         want[p] # Spoiled => Copies(g, d, x, serve[q], Served(q, c), want[p], disk[q])
  PROVE  GetInv'
<1> USE DEF GetInv
<1>1. get[p].k >= 1
  BY FetchingHasConn DEF Fetching
<1>2. /\ c \in Conns /\ Mine(c) = p /\ c[2] = get[p].k /\ q \in Peers
      /\ want[p] # Spoiled => q # p
  BY <1>1, OwnDownload
<1>3. /\ get' \in [Peers -> GetRecord]
      /\ \A r \in Peers : get'[r].k = get[r].k /\ get'[r].src = get[r].src
      /\ \A r \in Peers \ {p} : get'[r] = get[r]
      /\ get'[p] = g
  BY DEF Typed, Puts
<1>4. /\ conn' \in [Conns -> ConnRecord] /\ conn'[c] = x
      /\ \A e \in Conns : e # c => conn'[e] = conn[e]
  BY <1>2 DEF Typed, Puts
<1>5. /\ disk' \in [Peers -> Seq(Byte) \cup {NoFile}] /\ disk'[p] = d
      /\ \A r \in Peers \ {p} : disk'[r] = disk[r]
      /\ \A r \in Peers : disk'[r] = NoFile => disk[r] = NoFile
  BY GetConstants DEF Typed, Puts
<1>6. Typed'
  BY <1>3, <1>4, <1>5 DEF Typed
<1>7. Bounded'
  <2>1. p \in alive
    BY DEF Bounded, Fetching
  <2> QED BY <1>1, <1>3, <1>5, <2>1 DEF Bounded
<1>8. Connected'
  BY <1>3, <1>5, ConnectedKept
<1>9. Fresh'
  <2> SUFFICES ASSUME NEW e \in Conns, e[2] > get'[Mine(e)].k PROVE Unused(conn'[e])
    BY DEF Fresh
  <2>1. Mine(e) \in Peers /\ e[2] > get[Mine(e)].k
    BY <1>3, ConnIs
  <2>2. e # c
    BY <1>2, <2>1, ConnIs, PartsTyped
  <2> QED BY <1>4, <2>1, <2>2 DEF Fresh
<1>10. Measured(p)' /\ Copied(p)'
  <2>1. Current(p)' = c /\ get'[p].src = q
    BY <1>3 DEF Current
  <2>2. Served(q, c)' = Served(q, c) /\ Waits(q, c)' = Waits(q, c)
    BY DEF Served, Waits, Holds
  <2>3. Measures(get'[p], disk'[p], conn'[c], serve'[q], Served(q, c)', Waits(q, c)')
    BY <1>3, <1>4, <1>5, <2>2
  <2>4. ASSUME want'[p] # Spoiled
        PROVE  /\ q # p
               /\ Copies(get'[p], disk'[p], conn'[c], serve'[q], Served(q, c)', want'[p],
                         disk'[q])
    <3>1. want'[p] = want[p] /\ want[p] # Spoiled /\ q # p /\ disk'[q] = disk[q]
      BY <1>2, <1>5, <2>4
    <3> QED BY <1>3, <1>4, <1>5, <2>2, <3>1
  <2> QED BY <2>1, <2>3, <2>4, OwnDownloadNext
<1>11. Downloads'
  <2>1. \A r \in Peers \ {p} :
          want'[r] # Spoiled => want'[r] = want[r] /\ disk'[get[r].src] = disk[get[r].src]
    BY <1>5, PartsTyped
  <2>2. \A r \in Peers \ {p} : (get[r].k >= 1 => Measured(r) /\ Copied(r))'
    BY <1>3, <1>4, <1>5, <2>1, OthersKept
  <2> QED BY <1>3, <1>10, <2>2 DEF Downloads
<1> QED BY <1>6, <1>7, <1>8, <1>9, <1>11

(***************************************************************************)
(* The length is read; or the connection has ended, and len is whatever    *)
(* it was.                                                                 *)
(***************************************************************************)
LEMMA ReadLenKeeps ==
  ASSUME GetInv, NEW p \in Peers, read_len(p)
  PROVE  GetInv'
<1>0. PICK c, q : c = Current(p) /\ q = get[p].src
  OBVIOUS
<1>1. UNCHANGED <<alive, disk, want, queue, serve>> /\ p \in alive /\ get[p].at = "len"
  BY DEF read_len
<1>2. get[p].k >= 1
  BY <1>1, FetchingHasConn DEF Fetching
<1>3. /\ c \in Conns /\ Mine(c) = p /\ c[2] = get[p].k /\ q \in Peers
      /\ conn[c].buf \in Seq(Datum)
      /\ Measures(get[p], disk[p], conn[c], serve[q], Served(q, c), Waits(q, c))
      /\ want[p] # Spoiled =>
           /\ q # p
           /\ Copies(get[p], disk[p], conn[c], serve[q], Served(q, c), want[p], disk[q])
  BY <1>0, <1>1, <1>2, OwnDownload
<1> USE DEF GetInv
<1> DEFINE b == conn[c].buf
<1>4. /\ disk[p] = <<>> /\ get[p].told = -1
      /\ Served(q, c) => Len(b) >= 1
      /\ Len(b) >= 1 => b[1] \in 0 .. LenMod - 1
      /\ Waits(q, c) => b = <<>> /\ ~conn[c].closed
      /\ \A i \in 1 .. Len(b) : i > 1 => b[i] \in Byte
      /\ Served(q, c) => Len(<<>>) + Len(b) - 1 + Len(serve[q].inbuf) = serve[q].pos
      /\ Len(<<>>) + Len(b) - 1 < LenMod
  BY <1>1, <1>3 DEF Measures, HeaderLen
<1>5. /\ Served(q, c)' = Served(q, c)
      /\ Waits(q, c)' = Waits(q, c)
  BY <1>1 DEF Served, Waits, Holds
<1>6. /\ DOMAIN want' = Peers /\ want' = [r \in Peers |-> want'[r]]
      /\ Puts(disk, disk', p, disk[p]) /\ disk[p] \in Seq(Byte)
      /\ Len(disk[p]) < LenMod
  BY <1>1, <1>4, EmptyFile DEF Typed, Puts
<1>7. CASE b # <<>>
  <2> DEFINE x == [conn[c] EXCEPT !.buf = Tail(b)]
             len == Head(b)
  <2>1. /\ Tail(b) \in Seq(Datum) /\ Len(Tail(b)) = Len(b) - 1 /\ Len(b) \in Nat
        /\ Len(b) >= 1 /\ Head(b) = b[1]
        /\ \A i \in 1 .. Len(Tail(b)) : Tail(b)[i] = b[i + 1] /\ i + 1 \in 1 .. Len(b)
    BY <1>3, <1>7
  <2>2. len \in 0 .. LenMod - 1 /\ len # -1
    BY <1>4, <2>1
  <2>3. x \in ConnRecord /\ x.buf = Tail(b) /\ x.asked = conn[c].asked
        /\ x.closed = conn[c].closed
    <3>1. conn[c] \in ConnRecord
      BY <1>3 DEF Typed
    <3> QED BY <2>1, <3>1 DEF ConnRecord
  <2>4. Len(x.buf) <= SockBuf
    <3>1. Len(b) <= SockBuf
      BY <1>3 DEF Typed
    <3> QED BY <2>1, <2>3, <3>1, GetConstants
  <2> DEFINE g == [get[p] EXCEPT !.at = "data", !.len = len, !.told = len]
  <2>5. Puts(get, get', p, g)
    BY <1>0, <1>7 DEF read_len, AtEnd, Puts
  <2>6. Puts(conn, conn', c, x)
    BY <1>0, <1>7 DEF read_len, AtEnd, Puts
  <2>7. /\ g \in GetRecord /\ g.k = get[p].k /\ g.src = get[p].src
        /\ g.at = "data" /\ g.len = len /\ g.told = len
    <3>1. /\ get \in [Peers -> GetRecord] /\ "data" \in Fetching /\ len \in -1 .. LenMod - 1
          /\ g = [get[p] EXCEPT !.at = "data", !.len = len, !.told = len]
      BY <2>2 DEF Typed, Fetching
    <3> HIDE DEF len, g
    <3>2. get[p] \in GetRecord
      BY <3>1
    <3> QED BY <2>2, <3>1, <3>2 DEF GetRecord
  <2>8. ~Waits(q, c)
    BY <1>4, <1>7
  <2> HIDE DEF b, x, len, g
  <2>9. HeaderLen(g) = 0
    BY <2>7 DEF HeaderLen
  <2>10. Measures(g, disk[p], x, serve[q], Served(q, c), Waits(q, c))
    <3>1. len = (len - Len(<<>>)) % LenMod
      <4>1. len - Len(<<>>) = len
        BY <2>2, EmptyFile
      <4>2. len % LenMod = len
        BY <2>2, ModSmall, GetConstants
      <4> QED BY <4>1, <4>2
    <3>2. \A i \in 1 .. Len(x.buf) : x.buf[i] \in Byte
      BY <1>4, <2>1, <2>3
    <3>3. Served(q, c) => Len(<<>>) + Len(x.buf) - 0 + Len(serve[q].inbuf) = serve[q].pos
      <4>1. Len(serve[q].inbuf) \in Nat
        BY <1>3, PartsTyped
      <4> QED BY <1>4, <2>1, <2>3, <4>1, EmptyFile
    <3>4. Len(<<>>) + Len(x.buf) - 0 < LenMod
      BY <1>4, <2>1, <2>3, EmptyFile
    <3> QED BY <1>4, <2>7, <2>8, <2>9, <3>1, <3>2, <3>3, <3>4, EmptyFile DEF Measures
  <2>11. ASSUME want[p] # Spoiled
         PROVE  Copies(g, disk[p], x, serve[q], Served(q, c), want[p], disk[q])
    <3> DEFINE w == want[p]
    <3>1. /\ disk[q] = w /\ w \in Seq(Byte) /\ b[1] = Len(w)
          /\ \A i \in 1 .. Len(b) :
               i > 1 => Len(<<>>) + i - 1 <= Len(w) /\ b[i] = w[Len(<<>>) + i - 1]
          /\ Served(q, c) =>
               /\ serve[q].pos <= Len(w)
               /\ \A i \in 1 .. Len(serve[q].inbuf) :
                    serve[q].inbuf[i] = w[serve[q].pos - Len(serve[q].inbuf) + i]
      BY <1>1, <1>3, <1>4, <2>1, <2>11 DEF Copies, HeaderLen, b
    <3> HIDE DEF w
    <3>2. \A i \in 1 .. Len(x.buf) :
            Len(<<>>) + i - 0 <= Len(w) /\ x.buf[i] = w[Len(<<>>) + i - 0]
      BY <2>1, <2>3, <3>1, EmptyFile
    <3>3. len = Len(w)
      BY <2>1, <3>1 DEF len
    <3>4. Copies(g, disk[p], x, serve[q], Served(q, c), w, disk[q])
      BY <1>4, <2>7, <2>9, <3>1, <3>2, <3>3, EmptyFile DEF Copies
    <3> QED BY <3>4 DEF w
  <2> HIDE DEF GetInv
  <2> QED BY <1>0, <1>1, <1>6, <2>3, <2>4, <2>5, <2>6, <2>7, <2>10, <2>11, ReaderKeeps
<1>8. CASE b = <<>>
  <2>1. PICK len \in 0 .. LenMod - 1 : get' = [get EXCEPT ![p].at = "data", ![p].len = len]
    BY <1>8, <1>0 DEF read_len
  <2>2. AtEnd(c, q) /\ UNCHANGED conn
    BY <1>8, <1>0 DEF read_len
  <2> DEFINE g == [get[p] EXCEPT !.at = "data", !.len = len, !.told = -1]
  <2>3. Puts(get, get', p, g)
    <3>1. get \in [Peers -> GetRecord]
      BY DEF Typed
    <3> QED BY <1>4, <2>1, <3>1 DEF GetRecord, Puts
  <2>4. Puts(conn, conn', c, conn[c]) /\ conn[c] \in ConnRecord /\ Len(b) <= SockBuf
    BY <1>3, <2>2 DEF Typed, Puts
  <2>5. ~Served(q, c)
    BY <1>4, <1>8, EmptyFile
  <2>6. ~Waits(q, c)
    <3>1. CASE conn[c].closed
      BY <1>4, <3>1
    <3>2. CASE q \notin alive
      <4>1. queue[q] = <<>> /\ serve[q].at = "accept"
        BY <1>3, <3>2 DEF Bounded, Idle
      <4>2. DOMAIN queue[q] = {}
        BY <4>1
      <4> QED BY <4>1, <4>2 DEF Waits, Holds
    <3> QED BY <2>2, <3>1, <3>2 DEF AtEnd
  <2>7. /\ g \in GetRecord /\ g.k = get[p].k /\ g.src = get[p].src
        /\ g.at = "data" /\ g.told = -1
    <3>1. /\ get \in [Peers -> GetRecord] /\ "data" \in Fetching /\ -1 \in -1 .. LenMod - 1
          /\ g = [get[p] EXCEPT !.at = "data", !.len = len, !.told = -1]
      BY EmptyFile DEF Typed, Fetching
    <3> HIDE DEF g
    <3>2. get[p] \in GetRecord
      BY <3>1
    <3> QED BY <2>1, <3>1, <3>2 DEF GetRecord
  <2> HIDE DEF g
  <2>8. HeaderLen(g) = 0
    BY <2>7 DEF HeaderLen
  <2>9. Measures(g, disk[p], conn[c], serve[q], Served(q, c), Waits(q, c))
    BY <1>4, <1>8, <2>5, <2>6, <2>7, <2>8, EmptyFile DEF Measures
  <2>10. want[p] # Spoiled =>
           Copies(g, disk[p], conn[c], serve[q], Served(q, c), want[p], disk[q])
    <3>1. want[p] # Spoiled => disk[q] = want[p]
      BY <1>1, <1>3 DEF Copies
    <3> QED BY <1>4, <1>8, <2>5, <2>7, <3>1, EmptyFile DEF Copies
  <2> HIDE DEF GetInv
  <2> QED BY <1>0, <1>1, <1>6, <2>3, <2>4, <2>7, <2>9, <2>10, ReaderKeeps
<1> QED BY <1>7, <1>8

(***************************************************************************)
(* Cutting n bytes off a buffer and appending them to a file.              *)
(***************************************************************************)
LEMMA MoveBytes ==
  ASSUME NEW b \in Seq(Datum), NEW d \in Seq(Byte), NEW n \in 1 .. Len(b),
         \A i \in 1 .. Len(b) : b[i] \in Byte,
         NEW e, e = d \o SubSeq(b, 1, n), NEW rest, rest = SubSeq(b, n + 1, Len(b))
  PROVE  /\ e \in Seq(Byte) /\ Len(e) = Len(d) + n /\ Len(d) \in Nat /\ Len(b) \in Nat
         /\ rest \in Seq(Datum) /\ Len(rest) = Len(b) - n
         /\ \A i \in 1 .. Len(d) : e[i] = d[i]
         /\ \A i \in 1 .. n : e[Len(d) + i] = b[i]
         /\ \A i \in 1 .. Len(rest) : rest[i] = b[n + i]
<1> DEFINE s == SubSeq(b, 1, n)
<1>1. Len(b) \in Nat /\ Len(d) \in Nat /\ n \in Nat
  OBVIOUS
<1>2. Len(s) = n /\ \A i \in 1 .. n : s[i] = b[i]
  BY <1>1
<1>3. s \in Seq(Byte)
  <2>1. s = [i \in 1 .. n |-> b[i]]
    BY <1>1
  <2> QED BY <1>1, <2>1
<1> HIDE DEF s
<1>4. e = d \o s
  BY DEF s
<1>5. e \in Seq(Byte) /\ Len(e) = Len(d) + n
  BY <1>1, <1>2, <1>3, <1>4
<1>6. \A i \in 1 .. Len(d) : e[i] = d[i]
  BY <1>1, <1>3, <1>4
<1>7. ASSUME NEW i \in 1 .. n PROVE e[Len(d) + i] = b[i]
  <2>1. e[Len(d) + i] = s[i]
    BY <1>1, <1>2, <1>3, <1>4
  <2> QED BY <1>2, <2>1
<1>8. rest \in Seq(Datum) /\ Len(rest) = Len(b) - n
  BY <1>1
<1>9. \A i \in 1 .. Len(rest) : rest[i] = b[n + i]
  BY <1>1, <1>8
<1> QED BY <1>1, <1>5, <1>6, <1>7, <1>8, <1>9

(***************************************************************************)
(* Bytes are read and written; the length may go below zero and comes      *)
(* around.                                                                 *)
(***************************************************************************)
LEMMA ReadDataKeeps ==
  ASSUME GetInv, NEW p \in Peers, read_data(p)
  PROVE  GetInv'
<1>0. PICK c, q : c = Current(p) /\ q = get[p].src
  OBVIOUS
<1>1. UNCHANGED <<alive, queue, serve>> /\ p \in alive /\ get[p].at = "data"
  BY DEF read_data
<1>2. get[p].k >= 1
  BY <1>1, FetchingHasConn DEF Fetching
<1>3. /\ c \in Conns /\ Mine(c) = p /\ c[2] = get[p].k /\ q \in Peers
      /\ conn[c].buf \in Seq(Datum)
      /\ Measures(get[p], disk[p], conn[c], serve[q], Served(q, c), Waits(q, c))
      /\ want[p] # Spoiled =>
           /\ q # p
           /\ Copies(get[p], disk[p], conn[c], serve[q], Served(q, c), want[p], disk[q])
  BY <1>0, <1>1, <1>2, OwnDownload
<1> USE DEF GetInv
<1> DEFINE b == conn[c].buf
           d == disk[p]
<1>4. PICK n \in 1 .. BufSize :
        /\ n <= Len(b)
        /\ Writes(p, d \o SubSeq(b, 1, n))
        /\ conn' = [conn EXCEPT ![c].buf = SubSeq(@, n + 1, Len(@))]
        /\ get' = [get EXCEPT ![p].len = Remaining(@, n)]
  BY <1>0 DEF read_data
<1>5. /\ d \in Seq(Byte) /\ ~Waits(q, c)
      /\ \A i \in 1 .. Len(b) : i > 0 => b[i] \in Byte
      /\ Served(q, c) => Len(d) + Len(b) - 0 + Len(serve[q].inbuf) = serve[q].pos
      /\ Len(d) + Len(b) - 0 < LenMod
      /\ get[p].told # -1 => get[p].len = (get[p].told - Len(d)) % LenMod
  BY <1>1, <1>3 DEF Measures, HeaderLen
<1> DEFINE e == d \o SubSeq(b, 1, n)
           rest == SubSeq(b, n + 1, Len(b))
           x == [conn[c] EXCEPT !.buf = rest]
           len == Remaining(get[p].len, n)
           g == [get[p] EXCEPT !.at = "data", !.len = len, !.told = get[p].told]
<1>6. /\ n \in 1 .. Len(b) /\ n \in Nat /\ Len(b) \in Nat
      /\ \A i \in 1 .. Len(b) : b[i] \in Byte
  <2>1. b \in Seq(Datum) /\ n \in Nat
    BY <1>3, <1>4, GetConstants
  <2> HIDE DEF b
  <2> QED BY <1>4, <1>5, <2>1
<1>7. /\ e \in Seq(Byte) /\ Len(e) = Len(d) + n /\ Len(d) \in Nat
      /\ rest \in Seq(Datum) /\ Len(rest) = Len(b) - n
      /\ \A i \in 1 .. Len(d) : e[i] = d[i]
      /\ \A i \in 1 .. n : e[Len(d) + i] = b[i]
      /\ \A i \in 1 .. Len(rest) : rest[i] = b[n + i]
  <2>1. /\ b \in Seq(Datum) /\ d \in Seq(Byte)
        /\ e = d \o SubSeq(b, 1, n) /\ rest = SubSeq(b, n + 1, Len(b))
    BY <1>3, <1>5
  <2> HIDE DEF b, d, e, rest
  <2> QED BY <1>6, <2>1, MoveBytes
<1>8. x \in ConnRecord /\ x.buf = rest /\ Puts(conn, conn', c, x)
  <2>1. conn[c] \in ConnRecord
    BY <1>3 DEF Typed
  <2>2. Puts(conn, conn', c, x)
    BY <1>4 DEF Puts
  <2> HIDE DEF rest
  <2> QED BY <1>7, <2>1, <2>2 DEF ConnRecord
<1>9. /\ Puts(disk, disk', p, e)
      /\ DOMAIN want' = Peers /\ want' = [r \in Peers |-> want'[r]] /\ want'[p] = want[p]
      /\ \A r \in Peers \ {p} : want'[r] # Spoiled => want'[r] = want[r] /\ get[r].src # p
  BY <1>4 DEF Writes, Puts
<1>10. len \in 0 .. LenMod - 1
  <2>1. get[p].len - n \in Int /\ LenMod \in Nat \ {0}
    BY <1>6, PartsTyped, GetConstants
  <2> QED BY <2>1, ModRange DEF Remaining
<1>11. Puts(get, get', p, g)
  <2>1. get \in [Peers -> GetRecord]
    BY DEF Typed
  <2> QED BY <1>1, <1>4, <2>1 DEF GetRecord, Puts
<1>12. /\ g \in GetRecord /\ g.k = get[p].k /\ g.src = get[p].src
       /\ g.at = "data" /\ g.len = len /\ g.told = get[p].told
  <2>1. /\ get \in [Peers -> GetRecord] /\ get[p].told \in -1 .. LenMod - 1
        /\ "data" \in Fetching
        /\ g = [get[p] EXCEPT !.at = "data", !.len = len, !.told = get[p].told]
    BY PartsTyped DEF Typed, Fetching
  <2> HIDE DEF len, g
  <2>2. get[p] \in GetRecord
    BY <2>1
  <2> QED BY <1>10, <2>1, <2>2 DEF GetRecord
<1>13. Len(rest) <= SockBuf
  <2>1. Len(b) <= SockBuf
    BY <1>3 DEF Typed
  <2> HIDE DEF rest, b
  <2> QED BY <1>6, <1>7, <2>1, GetConstants
<1>14. get[p].told # -1 => len = (get[p].told - Len(e)) % LenMod
  <2> SUFFICES ASSUME get[p].told # -1 PROVE len = (get[p].told - Len(e)) % LenMod
    OBVIOUS
  <2> DEFINE a == get[p].told - Len(d)
             m == -n
  <2>1. a \in Int /\ m \in Int /\ LenMod \in Nat \ {0}
    BY <1>6, <1>7, PartsTyped, GetConstants
  <2>2. len = ((a % LenMod) - n) % LenMod
    BY <1>5 DEF Remaining
  <2>3. a % LenMod \in Int
    <3> HIDE DEF a
    <3> QED BY <2>1, ModRange
  <2>4. (a % LenMod) - n = (a % LenMod) + m
    BY <1>6, <2>3
  <2>5. a + m = get[p].told - Len(e)
    <3>1. get[p].told \in Int /\ Len(e) = Len(d) + n /\ Len(d) \in Nat /\ n \in Nat
      BY <1>6, <1>7, PartsTyped
    <3> HIDE DEF e, d
    <3> QED BY <3>1
  <2> HIDE DEF a, m, len, e
  <2>6. ((a % LenMod) + m) % LenMod = (a + m) % LenMod
    BY <2>1, ModAdd
  <2> QED BY <2>2, <2>4, <2>5, <2>6
<1>15. /\ Len(serve[q].inbuf) \in Nat /\ LenMod \in Nat /\ Len(d) \in Nat /\ Len(b) \in Nat
       /\ n \in Nat /\ n <= Len(b) /\ Len(e) = Len(d) + n /\ Len(rest) = Len(b) - n
  <2>1. Len(serve[q].inbuf) \in Nat
    BY <1>3, PartsTyped
  <2>2. LenMod \in Nat
    BY GetConstants
  <2> HIDE DEF b, d, e, rest
  <2> QED BY <1>4, <1>6, <1>7, <2>1, <2>2
<1> HIDE DEF b, d, e, rest, x, len, g
<1>16. HeaderLen(g) = 0 /\ HeaderLen(get[p]) = 0
  BY <1>1, <1>12 DEF HeaderLen
<1>17. Measures(g, e, x, serve[q], Served(q, c), Waits(q, c))
  <2>1. ASSUME NEW i \in 1 .. Len(rest) PROVE rest[i] \in Byte
    <3>1. n + i \in 1 .. Len(b)
      BY <1>15
    <3> QED BY <1>6, <1>7, <3>1
  <2>2. Served(q, c) => Len(e) + Len(rest) - 0 + Len(serve[q].inbuf) = serve[q].pos
    <3>1. Served(q, c) => Len(d) + Len(b) - 0 + Len(serve[q].inbuf) = serve[q].pos
      BY <1>5
    <3>2. Len(e) + Len(rest) - 0 = Len(d) + Len(b) - 0
      BY <1>15
    <3> QED BY <3>1, <3>2
  <2>3. Len(e) + Len(rest) - 0 < LenMod
    BY <1>5, <1>15
  <2> QED BY <1>5, <1>7, <1>8, <1>12, <1>14, <1>16, <2>1, <2>2, <2>3 DEF Measures
<1>18. ASSUME want[p] # Spoiled
       PROVE  Copies(g, e, x, serve[q], Served(q, c), want[p], disk[q])
  <2> DEFINE w == want[p]
  <2>1. Len(b) >= 1
    BY <1>6
  <2>2. /\ disk[q] = w /\ w \in Seq(Byte)
        /\ get[p].told # -1 => get[p].told = Len(w)
        /\ \A i \in 1 .. Len(d) : i <= Len(w) /\ d[i] = w[i]
        /\ \A i \in 1 .. Len(b) :
             i > 0 => Len(d) + i - 0 <= Len(w) /\ b[i] = w[Len(d) + i - 0]
        /\ Served(q, c) =>
             /\ serve[q].pos <= Len(w)
             /\ \A i \in 1 .. Len(serve[q].inbuf) :
                  serve[q].inbuf[i] = w[serve[q].pos - Len(serve[q].inbuf) + i]
    BY <1>1, <1>3, <1>16, <1>18, <2>1 DEF Copies, b, d
  <2> HIDE DEF w
  <2>3. ASSUME NEW i \in 1 .. Len(b) PROVE Len(d) + i <= Len(w) /\ b[i] = w[Len(d) + i]
    <3>1. i > 0 /\ Len(d) + i - 0 = Len(d) + i
      BY <1>15
    <3>2. Len(d) + i - 0 <= Len(w) /\ b[i] = w[Len(d) + i - 0]
      BY <2>2, <3>1
    <3> QED BY <3>1, <3>2
  <2>4. ASSUME NEW i \in 1 .. Len(e) PROVE i <= Len(w) /\ e[i] = w[i]
    <3>1. CASE i <= Len(d)
      BY <1>7, <2>2, <3>1
    <3>2. CASE i > Len(d)
      <4>1. i - Len(d) \in 1 .. n /\ Len(d) + (i - Len(d)) = i /\ i - Len(d) \in 1 .. Len(b)
        BY <1>6, <1>7, <3>2
      <4>2. e[i] = b[i - Len(d)] /\ b[i - Len(d)] = w[i] /\ i <= Len(w)
        BY <1>7, <2>3, <4>1
      <4> QED BY <4>2
    <3> QED BY <1>6, <1>7, <3>1, <3>2
  <2>5. ASSUME NEW i \in 1 .. Len(rest)
        PROVE  Len(e) + i - 0 <= Len(w) /\ rest[i] = w[Len(e) + i - 0]
    <3>1. n + i \in 1 .. Len(b) /\ Len(d) + (n + i) = Len(e) + i /\ Len(e) + i - 0 = Len(e) + i
      BY <1>6, <1>7
    <3> QED BY <1>7, <2>3, <3>1
  <2>6. Copies(g, e, x, serve[q], Served(q, c), w, disk[q])
    BY <1>8, <1>12, <1>16, <2>2, <2>4, <2>5 DEF Copies
  <2> QED BY <2>6 DEF w
<1>19. Len(e) < LenMod /\ get[p].told \in -1 .. LenMod - 1
  <2>1. get[p].told \in -1 .. LenMod - 1
    BY PartsTyped
  <2> QED BY <1>5, <1>15, <2>1
<1>20. Len(x.buf) <= SockBuf
  BY <1>8, <1>13
<1> HIDE DEF GetInv
<1> QED BY <1>0, <1>1, <1>7, <1>8, <1>9, <1>11, <1>12, <1>17, <1>18, <1>19, <1>20,
           ReaderKeeps

(***************************************************************************)
(* A connection is added to a queue, or cannot be made.                    *)
(***************************************************************************)
LEMMA ConnectKeeps ==
  ASSUME GetInv, NEW p \in Peers, NEW q \in Sources[p], connect_client(p, q)
  PROVE  GetInv'
<1> USE DEF GetInv
<1>1. /\ UNCHANGED <<alive, disk, want, conn, serve>> /\ p \in alive
      /\ get[p].at \notin Fetching /\ get[p].k < MaxGets[p] /\ q \in Peers
  BY GetConstants DEF connect_client
<1>2. CASE get' = [get EXCEPT ![p].at = "failed"] /\ UNCHANGED queue
  <2>1. /\ get' \in [Peers -> GetRecord]
        /\ \A r \in Peers : get'[r].k = get[r].k /\ get'[r].src = get[r].src
        /\ \A r \in Peers \ {p} : get'[r] = get[r]
        /\ get'[p].at = "failed"
    <3>1. get \in [Peers -> GetRecord]
      BY DEF Typed
    <3> QED BY <1>2, <3>1 DEF GetRecord
  <2>2. Typed'
    BY <1>1, <1>2, <2>1 DEF Typed
  <2>3. Bounded'
    BY <1>1, <1>2, <2>1 DEF Bounded, Fetching
  <2>4. Connected'
    BY <1>1, <1>2, <2>1, ConnectedKept
  <2>5. Fresh'
    BY <1>1, <2>1, ConnIs DEF Fresh
  <2>6. \A r \in Peers \ {p} : (get[r].k >= 1 => Measured(r) /\ Copied(r))'
    BY <1>1, <1>2, <2>1, OthersKept
  <2>7. Measured(p)' /\ Copied(p)'
    BY <2>1 DEF Measured, Measures, Copied, Copies
  <2>8. Downloads'
    BY <2>1, <2>6, <2>7 DEF Downloads
  <2> QED BY <2>2, <2>3, <2>4, <2>5, <2>8
<1>3. CASE /\ q \in alive
           /\ get' = [get EXCEPT ![p] = [at |-> "connected", k |-> @.k + 1, src |-> q,
                                         len |-> 0, told |-> -1]]
           /\ queue' = [queue EXCEPT ![q] = Append(@, <<p, get[p].k + 1>>)]
  <2>1. PICK k, n : k = get[p].k + 1 /\ n = <<p, k>>
    OBVIOUS
  <2>2. /\ k \in 1 .. MaxGets[p] /\ get[p].k \in Nat /\ k \in Nat /\ k > get[p].k
        /\ n \in Conns /\ Mine(n) = p /\ n[2] = k
    <3>1. k \in 1 .. MaxGets[p] /\ get[p].k \in Nat /\ k \in Nat /\ k > get[p].k
      BY <1>1, <2>1, PartsTyped
    <3> QED BY <2>1, <3>1, GetConn
  <2>3. /\ get' \in [Peers -> GetRecord]
        /\ \A r \in Peers \ {p} : get'[r] = get[r]
        /\ get'[p].k = k /\ get'[p].src = q /\ get'[p].at = "connected" /\ get'[p].told = -1
    <3> DEFINE g == [at |-> "connected", k |-> k, src |-> q, len |-> 0, told |-> -1]
    <3>1. g \in GetRecord
      BY <1>1, <2>2, EmptyFile DEF GetRecord, Fetching
    <3>2. get \in [Peers -> GetRecord] /\ get' = [get EXCEPT ![p] = g]
      BY <1>3, <2>1 DEF Typed
    <3>3. get'[p] = g
      BY <3>2
    <3> QED BY <3>1, <3>2, <3>3
  <2>4. /\ queue[q] \in Seq(Conns) /\ queue'[q] = Append(queue[q], n)
        /\ queue' \in [Peers -> Seq(Conns)]
        /\ \A r \in Peers \ {q} : queue'[r] = queue[r]
    <3>1. queue[q] \in Seq(Conns) /\ Append(queue[q], n) \in Seq(Conns)
      BY <1>1, <2>2 DEF Typed
    <3> QED BY <1>1, <1>3, <2>1, <3>1 DEF Typed
  <2>5. /\ \A i \in DOMAIN queue'[q] :
             \/ i \in DOMAIN queue[q] /\ queue'[q][i] = queue[q][i]
             \/ i = Len(queue[q]) + 1 /\ queue'[q][i] = n
    BY <2>4
  <2>6. ~Holds(q, n) /\ \A r \in Peers : ~Holds(r, n)
    BY <1>1, <2>2 DEF Connected
  <2>7. \A r \in Peers, c \in Conns : Holds(r, c)' => Holds(r, c) \/ (r = q /\ c = n)
    <3> SUFFICES ASSUME NEW r \in Peers, NEW c \in Conns, Holds(r, c)', ~Holds(r, c)
                 PROVE  r = q /\ c = n
      OBVIOUS
    <3>1. \E i \in DOMAIN queue'[r] : queue'[r][i] = c
      BY <1>1 DEF Holds
    <3>2. r = q
      BY <2>4, <3>1 DEF Holds
    <3> QED BY <2>5, <3>1, <3>2 DEF Holds
  <2>8. Typed'
    <3>1. get'[p].k <= MaxGets[p]
      BY <2>2, <2>3, PartsTyped
    <3>2. \A r \in Peers : get'[r].k <= MaxGets[r]
      BY <2>3, <3>1 DEF Typed
    <3> QED BY <1>1, <2>3, <2>4, <3>2 DEF Typed
  <2>9. Bounded'
    <3>1. \A r \in Peers : r \notin alive => queue'[r] = <<>>
      BY <1>3, <2>4 DEF Bounded
    <3> QED BY <1>1, <2>2, <2>3, <3>1 DEF Bounded
  <2>10. Connected'
    <3> SUFFICES ASSUME NEW r \in Peers
                 PROVE  /\ \A c \in Conns :
                             Holds(r, c)' =>
                               /\ c[2] <= get'[Mine(c)].k
                               /\ c[2] = get'[Mine(c)].k => get'[Mine(c)].src = r
                        /\ \A i, j \in DOMAIN queue'[r] : queue'[r][i] = queue'[r][j] => i = j
                        /\ serve[r].at # "accept" =>
                             \A i \in DOMAIN queue'[r] : queue'[r][i] # serve[r].conn
      BY <1>1 DEF Connected
    <3>1. ASSUME NEW c \in Conns, Holds(r, c)'
          PROVE  /\ c[2] <= get'[Mine(c)].k
                 /\ c[2] = get'[Mine(c)].k => get'[Mine(c)].src = r
      <4>1. CASE Holds(r, c)
        <5>1. /\ c[2] <= get[Mine(c)].k /\ (c[2] = get[Mine(c)].k => get[Mine(c)].src = r)
          BY <4>1 DEF Connected
        <5>2. Mine(c) \in Peers /\ c[2] \in Nat
          BY ConnIs
        <5> QED BY <2>2, <2>3, <5>1, <5>2
      <4>2. CASE r = q /\ c = n
        BY <2>2, <2>3, <4>2
      <4> QED BY <2>7, <3>1, <4>1, <4>2
    <3>2. \A i, j \in DOMAIN queue'[r] : queue'[r][i] = queue'[r][j] => i = j
      <4>1. \A i, j \in DOMAIN queue[r] : queue[r][i] = queue[r][j] => i = j
        BY DEF Connected
      <4>2. \A i \in DOMAIN queue[q] : queue[q][i] # n
        BY <2>6 DEF Holds
      <4>3. CASE r = q
        BY <2>5, <4>1, <4>2, <4>3
      <4>4. CASE r # q
        BY <2>4, <4>1, <4>4
      <4> QED BY <4>3, <4>4
    <3>3. serve[r].at # "accept" => \A i \in DOMAIN queue'[r] : queue'[r][i] # serve[r].conn
      <4>1. serve[r].at # "accept" =>
              serve[r].conn # n /\ \A i \in DOMAIN queue[r] : queue[r][i] # serve[r].conn
        BY <2>6 DEF Connected, Holds
      <4> QED BY <2>4, <2>5, <4>1
    <3> QED BY <3>1, <3>2, <3>3
  <2>11. Fresh'
    <3> SUFFICES ASSUME NEW c \in Conns, c[2] > get'[Mine(c)].k PROVE Unused(conn[c])
      BY <1>1 DEF Fresh
    <3>1. Mine(c) \in Peers /\ c[2] \in Nat
      BY ConnIs
    <3>2. c[2] > get[Mine(c)].k
      BY <2>2, <2>3, <3>1
    <3> QED BY <3>2 DEF Fresh
  <2>12. ASSUME NEW r \in Peers \ {p} PROVE (get[r].k >= 1 => Measured(r) /\ Copied(r))'
    <3>1. get[r].k >= 1 => Measured(r) /\ Copied(r)
      BY DEF Downloads
    <3>2. Served(get[r].src, Current(r))' <=> Served(get[r].src, Current(r))
      BY <1>1, <2>3 DEF Served, Current
    <3>3. get[r].k >= 1 /\ Waits(get[r].src, Current(r))' => Waits(get[r].src, Current(r))
      <4> SUFFICES ASSUME get[r].k >= 1, Waits(get[r].src, Current(r))'
                   PROVE  Waits(get[r].src, Current(r))
        OBVIOUS
      <4>1. PICK s, c : s = get[r].src /\ c = Current(r)
        OBVIOUS
      <4>2. s \in Peers /\ c \in Conns /\ Mine(c) = r
        BY <4>1, PartsTyped
      <4>3. Waits(s, c)'
        BY <2>3, <4>1 DEF Waits, Holds, Served, Current
      <4>4. Holds(s, c)
        BY <2>2, <2>7, <4>2, <4>3 DEF Waits
      <4> QED BY <1>1, <4>1, <4>3, <4>4 DEF Waits, Served
    <3> QED BY <1>1, <2>3, <3>1, <3>2, <3>3, DownloadKept DEF Current
  <2>13. Measured(p)' /\ Copied(p)'
    <3>1. Current(p)' = n /\ get'[p].src = q
      BY <2>1, <2>3 DEF Current
    <3>2. Unused(conn'[n])
      BY <1>1, <2>2 DEF Fresh
    <3>3. ~Served(q, n)'
      BY <1>1, <2>6 DEF Served, Holds
    <3>4. Measures(get'[p], disk'[p], conn'[n], serve'[q], Served(q, n)', Waits(q, n)')
      BY <2>3, <3>2, <3>3 DEF Measures
    <3>5. Copies(get'[p], disk'[p], conn'[n], serve'[q], Served(q, n)', want'[p], disk'[q])
      BY <2>3 DEF Copies
    <3> QED BY <2>3, <3>1, <3>4, <3>5, OwnDownloadNext
  <2>14. Downloads'
    BY <2>12, <2>13 DEF Downloads
  <2> QED BY <2>8, <2>9, <2>10, <2>11, <2>14
<1> QED BY <1>2, <1>3 DEF connect_client
-----------------------------------------------------------------------------
(***************************************************************************)
(* The download over the connection that a listener has accepted.          *)
(***************************************************************************)
LEMMA HeldDownload ==
  ASSUME GetInv, NEW q \in Peers, serve[q].at # "accept",
         NEW c, NEW p, c = serve[q].conn, p = Mine(c), c = Current(p)
  PROVE  /\ p \in Peers /\ get[p].src = q /\ get[p].k >= 1
         /\ Measures(get[p], disk[p], conn[c], serve[q],
                     serve[q].at # "name", serve[q].at = "name")
         /\ want[p] # Spoiled =>
              /\ get[p].at \in {"len", "data"} => q # p
              /\ Copies(get[p], disk[p], conn[c], serve[q], serve[q].at # "name", want[p],
                        disk[q])
<1> USE DEF GetInv
<1>1. c \in Conns /\ Holds(q, c)
  BY DEF Connected, Holds
<1>2. p \in Peers /\ c[2] \in Nat /\ c[2] >= 1
  BY <1>1, ConnIs
<1>3. c[2] = get[p].k
  BY DEF Current
<1>4. get[p].src = q /\ get[p].k >= 1
  BY <1>1, <1>2, <1>3 DEF Connected
<1>5. serve[q].at \in {"accept", "name", "fread", "write"}
  BY PartsTyped
<1>6. Served(q, c) = (serve[q].at # "name") /\ Waits(q, c) = (serve[q].at = "name")
  BY <1>1, <1>5 DEF Served, Waits
<1>7. Measures(get[p], disk[p], conn[c], serve[q], Served(q, c), Waits(q, c))
  BY <1>2, <1>4, OwnDownload
<1>8. want[p] # Spoiled =>
        /\ get[p].at \in {"len", "data"} => q # p
        /\ Copies(get[p], disk[p], conn[c], serve[q], Served(q, c), want[p], disk[q])
  BY <1>2, <1>4, OwnDownload
<1> QED BY <1>2, <1>4, <1>6, <1>7, <1>8

(***************************************************************************)
(* What there is to show of a step of a listener on the connection that it *)
(* has accepted.                                                           *)
(***************************************************************************)
LEMMA ListenerKeeps ==
  ASSUME GetInv, NEW q \in Peers, serve[q].at # "accept", q \in alive,
         NEW c, NEW p, c = serve[q].conn, p = Mine(c),
         UNCHANGED <<alive, disk, get, want, queue>>,
         NEW x \in ConnRecord, Len(x.buf) <= SockBuf, Puts(conn, conn', c, x),
         NEW s \in ServeRecord, Puts(serve, serve', q, s),
         s.at # "name", s.at # "accept" => s.conn = c /\ disk[q] # NoFile,
         s.at # "write" => s.inbuf = <<>>,
         c = Current(p) => Measures(get[p], disk[p], x, s, s.at # "accept", FALSE),
         c = Current(p) /\ want[p] # Spoiled =>
           Copies(get[p], disk[p], x, s, s.at # "accept", want[p], disk[q])
  PROVE  GetInv'
<1> USE DEF GetInv
<1>1. /\ c \in Conns /\ Holds(q, c) /\ p \in Peers /\ c[2] \in Nat
      /\ \A i \in DOMAIN queue[q] : queue[q][i] # c
  BY ConnIs DEF Connected, Holds
<1>2. /\ conn' \in [Conns -> ConnRecord] /\ conn'[c] = x
      /\ \A d \in Conns : d # c => conn'[d] = conn[d]
      /\ serve' \in [Peers -> ServeRecord] /\ serve'[q] = s
      /\ \A r \in Peers \ {q} : serve'[r] = serve[r]
  BY <1>1 DEF Typed, Puts
<1>3. Typed'
  <2>1. \A d \in Conns : Len(conn'[d].buf) <= SockBuf
    BY <1>2 DEF Typed
  <2> QED BY <1>2, <2>1 DEF Typed
<1>4. Bounded'
  BY <1>2 DEF Bounded
<1>5. \A r \in Peers : \A d : Holds(r, d)' => Holds(r, d)
  BY <1>2 DEF Holds
<1>6. Connected'
  <2>1. \A r \in Peers, d \in Conns :
          Holds(r, d)' =>
            d[2] <= get[Mine(d)].k /\ (d[2] = get[Mine(d)].k => get[Mine(d)].src = r)
    BY <1>5 DEF Connected
  <2>2. ASSUME NEW r \in Peers
        PROVE  /\ \A i, j \in DOMAIN queue[r] : queue[r][i] = queue[r][j] => i = j
               /\ serve'[r].at # "accept" =>
                    /\ serve'[r].conn \in Conns
                    /\ \A i \in DOMAIN queue[r] : queue[r][i] # serve'[r].conn
               /\ serve'[r].at # "write" => serve'[r].inbuf = <<>>
               /\ serve'[r].at = "name" => serve'[r].pos = 0
               /\ serve'[r].at \in {"fread", "write"} => disk[r] # NoFile
    <3>1. CASE r = q
      BY <1>1, <1>2, <3>1 DEF Connected
    <3>2. CASE r # q
      BY <1>2, <3>2 DEF Connected
    <3> QED BY <3>1, <3>2
  <2> QED BY <2>1, <2>2 DEF Connected
<1>7. Fresh'
  <2> SUFFICES ASSUME NEW d \in Conns, d[2] > get[Mine(d)].k PROVE Unused(conn'[d])
    BY DEF Fresh
  <2>1. c[2] <= get[p].k /\ get[p].k \in Nat
    BY <1>1, PartsTyped DEF Connected
  <2>2. d # c
    BY <1>1, <2>1
  <2> QED BY <1>2, <2>2 DEF Fresh
<1>8. ASSUME NEW r \in Peers, get[r].k >= 1 PROVE Measured(r)' /\ Copied(r)'
  <2>1. CASE Current(r) = c
    <3>1. r = p /\ c = Current(p)
      BY <2>1 DEF Mine, Current
    <3>2. get[p].src = q /\ (want[p] # Spoiled /\ get[p].at \in {"len", "data"} => q # p)
      <4>1. get[p].src = q
        <5>1. c[2] = get[p].k
          BY <3>1 DEF Current
        <5> QED BY <1>1, <5>1 DEF Connected
      <4> HIDE DEF GetInv
      <4>2. want[p] # Spoiled /\ get[p].at \in {"len", "data"} => q # p
        BY <3>1, HeldDownload
      <4> QED BY <4>1, <4>2
    <3>3. Current(p)' = c
      BY <3>1 DEF Current
    <3>4. Served(q, c)' = (s.at # "accept")
      <4>1. s.at \in {"accept", "name", "fread", "write"}
        BY DEF ServeRecord
      <4> QED BY <1>2, <4>1 DEF Served
    <3>5. Waits(q, c)' = FALSE
      <4>1. Holds(q, c)' => Served(q, c)'
        BY <1>1, <1>2, <3>4 DEF Holds
      <4> QED BY <4>1 DEF Waits
    <3>6. Measures(get'[p], disk'[p], conn'[c], serve'[q], Served(q, c)', Waits(q, c)')
      BY <1>2, <3>1, <3>4, <3>5
    <3>7. want'[p] # Spoiled =>
            /\ get'[p].at \in {"len", "data"} => q # p
            /\ Copies(get'[p], disk'[p], conn'[c], serve'[q], Served(q, c)', want'[p], disk'[q])
      BY <1>2, <3>1, <3>2, <3>4
    <3> QED BY <3>1, <3>2, <3>3, <3>6, <3>7, OwnDownloadNext
  <2>2. CASE Current(r) # c
    <3>1. Current(r)' = Current(r) /\ Current(r) \in Conns /\ get[r].src \in Peers
      BY <1>8, PartsTyped DEF Current
    <3>2. PICK o, d : o = get[r].src /\ d = Current(r)
      OBVIOUS
    <3>3. Served(o, d)' =>
            Served(o, d) /\ serve'[o].inbuf = serve[o].inbuf /\ serve'[o].pos = serve[o].pos
      <4>1. CASE o = q
        BY <1>2, <2>2, <3>2, <4>1 DEF Served
      <4>2. CASE o # q
        BY <1>2, <3>1, <3>2, <4>2 DEF Served
      <4> QED BY <4>1, <4>2
    <3>4. Waits(o, d)' => Waits(o, d)
      <4>1. CASE o = q
        BY <1>2, <1>5, <2>2, <3>2, <4>1 DEF Waits, Served
      <4>2. CASE o # q
        BY <1>2, <1>5, <3>1, <3>2, <4>2 DEF Waits, Served
      <4> QED BY <4>1, <4>2
    <3>5. /\ Served(get[r].src, Current(r))' =>
               /\ Served(get[r].src, Current(r))
               /\ serve'[get[r].src].inbuf = serve[get[r].src].inbuf
               /\ serve'[get[r].src].pos = serve[get[r].src].pos
          /\ Waits(get[r].src, Current(r))' => Waits(get[r].src, Current(r))
      BY <3>1, <3>2, <3>3, <3>4 DEF Served, Waits, Holds
    <3>6. conn'[Current(r)] = conn[Current(r)]
      BY <1>2, <2>2, <3>1
    <3>7. Measured(r) /\ Copied(r)
      BY <1>8 DEF Downloads
    <3> QED BY <1>8, <3>5, <3>6, <3>7, DownloadKept
  <2> QED BY <2>1, <2>2
<1>9. Downloads'
  BY <1>8 DEF Downloads
<1> QED BY <1>3, <1>4, <1>6, <1>7, <1>9

(***************************************************************************)
(* A record of a connection with other bytes, or closed.                   *)
(***************************************************************************)
LEMMA ConnWith ==
  ASSUME GetInv, NEW c \in Conns, NEW b \in Seq(Datum)
  PROVE  /\ [conn[c] EXCEPT !.buf = b] \in ConnRecord
         /\ [conn[c] EXCEPT !.buf = b].buf = b
         /\ [conn[c] EXCEPT !.buf = b].asked = conn[c].asked
         /\ [conn[c] EXCEPT !.buf = b].closed = conn[c].closed
         /\ [conn[c] EXCEPT !.closed = TRUE] \in ConnRecord
         /\ [conn[c] EXCEPT !.closed = TRUE].buf = conn[c].buf
         /\ [conn[c] EXCEPT !.closed = TRUE].asked = conn[c].asked
<1>1. conn[c] \in ConnRecord
  BY DEF GetInv, Typed
<1> QED BY <1>1 DEF ConnRecord

(***************************************************************************)
(* The listener closes its connection: of a get that is under way only if  *)
(* it has been asked, and with the bytes that have come left to read.      *)
(***************************************************************************)
LEMMA HangUpKeeps ==
  ASSUME GetInv, NEW q \in Peers, serve[q].at \in {"name", "fread"}, q \in alive, HangUp(q),
         UNCHANGED <<alive, disk, get, want, queue>>,
         serve[q].at = "fread" \/ conn[serve[q].conn].asked \/ Mine(serve[q].conn) \notin alive
  PROVE  GetInv'
<1>1. PICK c, p : c = serve[q].conn /\ p = Mine(c)
  OBVIOUS
<1>2. PICK x : x = [conn[c] EXCEPT !.closed = TRUE]
  OBVIOUS
<1>3. c \in Conns /\ p \in Peers
  BY <1>1, ConnIs DEF GetInv, Connected
<1>4. /\ x \in ConnRecord /\ x.buf = conn[c].buf /\ x.asked = conn[c].asked
      /\ Len(x.buf) <= SockBuf
  <2>1. <<>> \in Seq(Datum)
    OBVIOUS
  <2> QED BY <1>2, <1>3, <2>1, ConnWith DEF GetInv, Typed
<1>5. Puts(conn, conn', c, x) /\ Puts(serve, serve', q, Idle)
  BY <1>1, <1>2, <1>3 DEF HangUp, Puts, GetInv, Typed
<1>6. Idle \in ServeRecord /\ Idle.at = "accept" /\ Idle.inbuf = <<>>
  BY GetConstants DEF Idle, ServeRecord
<1>7. c = Current(p) => /\ Measures(get[p], disk[p], x, Idle, FALSE, FALSE)
                        /\ want[p] # Spoiled =>
                             Copies(get[p], disk[p], x, Idle, FALSE, want[p], disk[q])
  <2> SUFFICES ASSUME c = Current(p)
               PROVE  /\ Measures(get[p], disk[p], x, Idle, FALSE, FALSE)
                      /\ want[p] # Spoiled =>
                           Copies(get[p], disk[p], x, Idle, FALSE, want[p], disk[q])
    OBVIOUS
  <2>1. /\ Measures(get[p], disk[p], conn[c], serve[q],
                    serve[q].at # "name", serve[q].at = "name")
        /\ want[p] # Spoiled =>
             Copies(get[p], disk[p], conn[c], serve[q], serve[q].at # "name", want[p], disk[q])
    BY <1>1, HeldDownload
  <2>2. get[p].at # "connected"
    <3>1. get[p].at = "connected" => p \in alive /\ ~conn[c].asked /\ serve[q].at = "name"
      BY <1>3, <2>1 DEF Measures, Unused, GetInv, Bounded, Fetching
    <3> QED BY <1>1, <3>1
  <2>3. Measures(get[p], disk[p], x, Idle, FALSE, FALSE)
    BY <1>4, <2>1, <2>2 DEF Measures
  <2>4. want[p] # Spoiled => Copies(get[p], disk[p], x, Idle, FALSE, want[p], disk[q])
    BY <1>4, <2>1 DEF Copies
  <2> QED BY <2>3, <2>4
<1>8. /\ Idle.at # "name" /\ serve[q].at # "accept"
      /\ Idle.at # "accept" => Idle.conn = c /\ disk[q] # NoFile
      /\ Idle.at # "write" => Idle.inbuf = <<>>
      /\ (Idle.at # "accept") = FALSE
  BY <1>6
<1> HIDE DEF Idle
<1> QED BY <1>1, <1>4, <1>5, <1>6, <1>7, <1>8, ListenerKeeps

(***************************************************************************)
(* A listener that writes to a process that has ended disturbs no get.     *)
(***************************************************************************)
LEMMA LostWrite ==
  ASSUME GetInv, NEW p \in Peers, p \notin alive, NEW x, NEW s, NEW w, NEW h,
         NEW answered \in BOOLEAN, NEW q \in Peers, NEW c, NEW a, NEW v,
         Measures(get[p], disk[p], conn[c], serve[q], a, v),
         want[p] # Spoiled => Copies(get[p], disk[p], conn[c], serve[q], a, w, h)
  PROVE  /\ Measures(get[p], disk[p], x, s, answered, FALSE)
         /\ want[p] # Spoiled => Copies(get[p], disk[p], x, s, answered, w, h)
<1>1. get[p].at \notin {"connected", "len", "data"}
  BY DEF GetInv, Bounded, Fetching
<1> QED BY <1>1 DEF Measures, Copies

(***************************************************************************)
(* The listener answers with the length of the file, or hangs up.          *)
(***************************************************************************)
LEMMA ReadNameKeeps ==
  ASSUME GetInv, NEW q \in Peers, read_name(q)
  PROVE  GetInv'
<1>0. disk[q] # NoFile => Len(disk[q]) % LenMod = Len(disk[q])
  <2>1. disk[q] # NoFile => Len(disk[q]) \in Nat /\ Len(disk[q]) < LenMod
    BY DEF GetInv, Typed, Bounded
  <2>2. disk[q] # NoFile => Len(disk[q]) \in 0 .. LenMod - 1
    BY <2>1, GetConstants
  <2> QED BY <2>2, ModSmall, GetConstants
<1>1. CASE HangUp(q)
  BY <1>1, HangUpKeeps DEF read_name
<1>2. CASE /\ disk[q] # NoFile /\ PeerWrite(serve[q].conn, <<Len(disk[q])>>)
           /\ serve' = [serve EXCEPT ![q].at = "fread"]
  <2>1. PICK c, p, n : c = serve[q].conn /\ p = Mine(c) /\ n = Len(disk[q])
    OBVIOUS
  <2>2. /\ q \in alive /\ serve[q].at = "name" /\ (conn[c].asked \/ p \notin alive)
        /\ UNCHANGED <<alive, disk, get, want, queue>>
    BY <2>1 DEF read_name
  <2>3. /\ c \in Conns /\ p \in Peers /\ disk[q] \in Seq(Byte) /\ n \in 0 .. LenMod - 1
        /\ serve[q].inbuf = <<>> /\ serve[q].pos = 0 /\ conn[c].buf \in Seq(Datum)
    <3>1. c \in Conns /\ serve[q].inbuf = <<>> /\ serve[q].pos = 0
      BY <2>1, <2>2 DEF GetInv, Connected
    <3>2. disk[q] \in Seq(Byte) /\ n \in 0 .. LenMod - 1
      <4>1. disk[q] \in Seq(Byte) /\ n \in Nat /\ n < LenMod
        BY <1>2, <2>1 DEF GetInv, Typed, Bounded
      <4> QED BY <4>1, GetConstants
    <3>3. conn[c] \in ConnRecord
      BY <3>1 DEF GetInv, Typed
    <3> QED BY <2>1, <3>1, <3>2, <3>3, ConnIs DEF ConnRecord
  <2>4. PICK s : s = [at |-> "fread", conn |-> serve[q].conn, pos |-> 0, inbuf |-> <<>>,
                      eof |-> serve[q].eof]
    OBVIOUS
  <2>5. /\ s \in ServeRecord /\ s.at = "fread" /\ s.conn = c /\ s.pos = 0 /\ s.inbuf = <<>>
        /\ Puts(serve, serve', q, s)
    <3>1. serve[q] \in ServeRecord
      BY DEF GetInv, Typed
    <3>2. s \in ServeRecord /\ s.at = "fread" /\ s.conn = c /\ s.pos = 0 /\ s.inbuf = <<>>
      BY <2>1, <2>3, <2>4, <3>1 DEF ServeRecord
    <3>3. s = [serve[q] EXCEPT !.at = "fread"]
      BY <2>3, <2>4, <3>1 DEF ServeRecord
    <3> QED BY <1>2, <3>2, <3>3 DEF Puts
  <2>6. c = Current(p) =>
          /\ Measures(get[p], disk[p], conn[c], serve[q], FALSE, TRUE)
          /\ want[p] # Spoiled =>
               Copies(get[p], disk[p], conn[c], serve[q], FALSE, want[p], disk[q])
    <3>1. (serve[q].at # "name") = FALSE /\ (serve[q].at = "name") = TRUE
      BY <2>2
    <3>2. c = Current(p) =>
            /\ Measures(get[p], disk[p], conn[c], serve[q],
                        serve[q].at # "name", serve[q].at = "name")
            /\ want[p] # Spoiled =>
                 Copies(get[p], disk[p], conn[c], serve[q], serve[q].at # "name", want[p],
                        disk[q])
      BY <2>1, <2>2, HeldDownload
    <3> QED BY <3>1, <3>2
  <2>7. /\ s.at # "name" /\ serve[q].at # "accept"
        /\ s.at # "accept" => s.conn = c /\ disk[q] # NoFile
        /\ s.at # "write" => s.inbuf = <<>>
        /\ (s.at # "accept") = TRUE
    BY <1>2, <2>2, <2>5
  <2>8. CASE p \in alive /\ Len(conn[c].buf) + Len(<<n>>) <= SockBuf
             /\ conn' = [conn EXCEPT ![c].buf = @ \o <<n>>]
    <3>1. PICK b, x : b = conn[c].buf \o <<n>> /\ x = [conn[c] EXCEPT !.buf = b]
      OBVIOUS
    <3>2. b \in Seq(Datum) /\ Len(b) = Len(conn[c].buf) + 1 /\ Len(b) <= SockBuf
      BY <2>3, <2>8, <3>1 DEF Datum
    <3>3. x \in ConnRecord /\ x.buf = b
      BY <2>3, <3>1, <3>2, ConnWith
    <3>4. Puts(conn, conn', c, x)
      BY <2>3, <2>8, <3>1 DEF Puts, GetInv, Typed
    <3>5. conn[c].buf = <<>> => Len(b) = 1 /\ b[1] = n
      BY <2>3, <3>1
    <3>6. c = Current(p) => get[p].at # "connected" /\ get[p].at # "data"
      BY <2>2, <2>6, <2>8 DEF Measures, Unused
    <3>7. c = Current(p) => Measures(get[p], disk[p], x, s, TRUE, FALSE)
      <4>1. CASE get[p].at = "len" /\ c = Current(p)
        <5>1. disk[p] = <<>> /\ get[p].told = -1 /\ Len(b) = 1 /\ b[1] = n /\ Len(disk[p]) = 0
              /\ disk[p] \in Seq(Byte) /\ HeaderLen(get[p]) = 1 /\ Len(s.inbuf) = 0
          BY <2>5, <2>6, <3>5, <4>1, EmptyFile DEF Measures, HeaderLen
        <5>2. 0 < LenMod
          BY GetConstants
        <5> QED BY <2>3, <2>5, <3>3, <4>1, <5>1, <5>2 DEF Measures
      <4>2. CASE get[p].at # "len" /\ c = Current(p)
        BY <2>6, <3>6, <4>2 DEF Measures
      <4> QED BY <4>1, <4>2
    <3>8. c = Current(p) /\ want[p] # Spoiled =>
            Copies(get[p], disk[p], x, s, TRUE, want[p], disk[q])
      <4>1. CASE get[p].at = "len" /\ c = Current(p) /\ want[p] # Spoiled
        <5>1. disk[p] = <<>> /\ get[p].told = -1 /\ Len(b) = 1 /\ b[1] = n /\ Len(disk[p]) = 0
              /\ HeaderLen(get[p]) = 1 /\ Len(s.inbuf) = 0 /\ disk[q] = want[p]
          BY <2>5, <2>6, <3>5, <4>1, EmptyFile DEF Measures, Copies, HeaderLen
        <5>2. n = Len(want[p]) /\ want[p] \in Seq(Byte) /\ 0 <= Len(want[p])
          BY <2>1, <2>3, <5>1
        <5> QED BY <2>5, <3>3, <4>1, <5>1, <5>2 DEF Copies
      <4>2. CASE get[p].at # "len" /\ c = Current(p) /\ want[p] # Spoiled
        BY <2>6, <3>6, <4>2 DEF Copies
      <4> QED BY <4>1, <4>2
    <3> QED BY <2>1, <2>2, <2>5, <2>7, <3>2, <3>3, <3>4, <3>7, <3>8, ListenerKeeps
  <2>9. CASE p \notin alive /\ UNCHANGED conn
    <3>1. /\ conn[c] \in ConnRecord /\ Len(conn[c].buf) <= SockBuf
          /\ Puts(conn, conn', c, conn[c])
      BY <2>3, <2>9 DEF Puts, GetInv, Typed
    <3>2. PICK x : x = conn[c]
      OBVIOUS
    <3>3. c = Current(p) => /\ Measures(get[p], disk[p], x, s, TRUE, FALSE)
                            /\ want[p] # Spoiled =>
                                 Copies(get[p], disk[p], x, s, TRUE, want[p], disk[q])
      BY <2>3, <2>6, <2>9, LostWrite
    <3> QED BY <2>1, <2>2, <2>5, <2>7, <3>1, <3>2, <3>3, ListenerKeeps
  <2> QED BY <1>2, <2>1, <2>8, <2>9 DEF PeerWrite
<1> QED BY <1>0, <1>1, <1>2 DEF read_name

(***************************************************************************)
(* The whole file has been sent.                                           *)
(***************************************************************************)
LEMMA ServedKeeps ==
  ASSUME GetInv, NEW q \in Peers, served(q)
  PROVE  GetInv'
BY HangUpKeeps DEF served

(***************************************************************************)
(* A block of the file: the bytes from where the listener stands.          *)
(***************************************************************************)
LEMMA BlockIs ==
  ASSUME GetInv, NEW q \in Peers, disk[q] \in Seq(Byte), serve[q].pos < Len(disk[q])
  PROVE  /\ Block(q) \in Seq(Byte) /\ Len(Block(q)) \in Nat
         /\ serve[q].pos \in Nat /\ serve[q].pos + Len(Block(q)) <= Len(disk[q])
         /\ \A i \in 1 .. Len(Block(q)) : Block(q)[i] = disk[q][serve[q].pos + i]
<1>1. PICK d, n, m : /\ d = disk[q] /\ n = serve[q].pos
                     /\ m = Least(serve[q].pos + BufSize, Len(disk[q]))
  OBVIOUS
<1>2. d \in Seq(Byte) /\ n \in Nat /\ Len(d) \in Nat /\ BufSize \in Nat \ {0}
  <2>1. serve[q] \in ServeRecord
    BY DEF GetInv, Typed
  <2> QED BY <1>1, <2>1, GetConstants DEF ServeRecord
<1>3. m \in Nat /\ m >= n /\ m <= Len(d)
  BY <1>1, <1>2 DEF Least
<1>4. Block(q) = SubSeq(d, n + 1, m)
  BY <1>1 DEF Block
<1>5. /\ SubSeq(d, n + 1, m) \in Seq(Byte) /\ Len(SubSeq(d, n + 1, m)) = m - n
      /\ \A i \in 1 .. m - n : SubSeq(d, n + 1, m)[i] = d[n + i]
  BY <1>2, <1>3
<1>6. m - n \in Nat /\ n + (m - n) <= Len(d)
  BY <1>2, <1>3
<1>7. PICK b, l : b = Block(q) /\ l = m - n
  OBVIOUS
<1>8. b \in Seq(Byte) /\ Len(b) = l /\ l \in Nat /\ n + l <= Len(d) /\ \A i \in 1 .. l : b[i] = d[n + i]
  BY <1>4, <1>5, <1>6, <1>7
<1>9. b \in Seq(Byte) /\ Len(b) \in Nat /\ n + Len(b) <= Len(d) /\ \A i \in 1 .. Len(b) : b[i] = d[n + i]
  BY <1>8
<1> QED BY <1>1, <1>2, <1>7, <1>9

(***************************************************************************)
(* The listener reads a block of the file.                                 *)
(***************************************************************************)
LEMMA FreadKeeps ==
  ASSUME GetInv, NEW q \in Peers, fread(q)
  PROVE  GetInv'
<1>1. PICK c, p, b, o : c = serve[q].conn /\ p = Mine(c) /\ b = Block(q) /\ o = serve[q].pos
  OBVIOUS
<1>2. /\ q \in alive /\ serve[q].at = "fread" /\ o < Len(disk[q])
      /\ UNCHANGED <<alive, disk, get, want, conn, queue>>
  BY <1>1 DEF fread
<1>3. /\ c \in Conns /\ p \in Peers /\ disk[q] # NoFile /\ disk[q] \in Seq(Byte)
      /\ Len(disk[q]) < LenMod /\ serve[q].inbuf = <<>>
  <2>1. c \in Conns /\ disk[q] # NoFile /\ serve[q].inbuf = <<>>
    BY <1>1, <1>2 DEF GetInv, Connected
  <2> QED BY <1>1, <2>1, ConnIs DEF GetInv, Typed, Bounded
<1>4. /\ b \in Seq(Byte) /\ Len(b) \in Nat /\ o \in Nat /\ o + Len(b) <= Len(disk[q])
      /\ \A i \in 1 .. Len(b) : b[i] = disk[q][o + i]
  BY <1>1, <1>2, <1>3, BlockIs
<1>5. o + Len(b) \in 0 .. LenMod - 1
  BY <1>3, <1>4, GetConstants
<1>6. PICK s, e : /\ s = [serve[q] EXCEPT !.at = "write", !.inbuf = Block(q),
                                          !.pos = @ + Len(Block(q)),
                                          !.eof = Len(Block(q)) < BufSize]
                  /\ e = (Len(Block(q)) < BufSize)
  OBVIOUS
<1>7. /\ s \in ServeRecord /\ s.at = "write" /\ s.conn = c /\ s.pos = o + Len(b)
      /\ s.inbuf = b
  <2>1. serve[q] \in ServeRecord
    BY DEF GetInv, Typed
  <2>2. e \in BOOLEAN
    BY <1>6
  <2>3. s = [serve[q] EXCEPT !.at = "write", !.inbuf = b, !.pos = o + Len(b), !.eof = e]
    BY <1>1, <1>6
  <2> QED BY <1>1, <1>4, <1>5, <2>1, <2>2, <2>3 DEF ServeRecord
<1>8. Puts(serve, serve', q, s)
  <2>1. serve \in [Peers -> ServeRecord]
    BY DEF GetInv, Typed
  <2>2. serve[q] \in ServeRecord
    BY <2>1
  <2> QED BY <1>6, <2>1, <2>2 DEF Puts, fread, ServeRecord
<1>9. PICK x : x = conn[c]
  OBVIOUS
<1>10. x \in ConnRecord /\ Len(x.buf) <= SockBuf /\ Puts(conn, conn', c, x)
  BY <1>2, <1>3, <1>9 DEF Puts, GetInv, Typed
<1>11. c = Current(p) =>
         /\ Measures(get[p], disk[p], x, serve[q], TRUE, FALSE)
         /\ want[p] # Spoiled =>
              Copies(get[p], disk[p], x, serve[q], TRUE, want[p], disk[q])
  <2>1. (serve[q].at # "name") = TRUE /\ (serve[q].at = "name") = FALSE
    BY <1>2
  <2>2. c = Current(p) =>
          /\ Measures(get[p], disk[p], conn[c], serve[q],
                      serve[q].at # "name", serve[q].at = "name")
          /\ want[p] # Spoiled =>
               Copies(get[p], disk[p], conn[c], serve[q], serve[q].at # "name", want[p],
                      disk[q])
    BY <1>1, <1>2, HeldDownload
  <2> QED BY <1>9, <2>1, <2>2
<1>12. c = Current(p) => Measures(get[p], disk[p], x, s, TRUE, FALSE)
  <2> SUFFICES ASSUME c = Current(p) PROVE Measures(get[p], disk[p], x, s, TRUE, FALSE)
    OBVIOUS
  <2>1. get[p].at \in {"len", "data"} =>
          Len(disk[p]) + Len(x.buf) - HeaderLen(get[p]) + Len(s.inbuf) = s.pos
    <3> SUFFICES ASSUME get[p].at \in {"len", "data"}
                 PROVE  Len(disk[p]) + Len(x.buf) - HeaderLen(get[p]) + Len(s.inbuf) = s.pos
      OBVIOUS
    <3>1. Len(disk[p]) + Len(x.buf) - HeaderLen(get[p]) + 0 = o
      BY <1>1, <1>3, <1>11, EmptyFile DEF Measures
    <3>2. Len(disk[p]) \in Nat /\ Len(x.buf) \in Nat /\ HeaderLen(get[p]) \in Nat
      BY <1>10, <1>11 DEF Measures, ConnRecord, HeaderLen
    <3> QED BY <1>4, <1>7, <3>1, <3>2
  <2> QED BY <1>11, <2>1 DEF Measures
<1>13. c = Current(p) /\ want[p] # Spoiled =>
         Copies(get[p], disk[p], x, s, TRUE, want[p], disk[q])
  <2> SUFFICES ASSUME c = Current(p), want[p] # Spoiled
               PROVE  Copies(get[p], disk[p], x, s, TRUE, want[p], disk[q])
    OBVIOUS
  <2>1. Copies(get[p], disk[p], x, serve[q], TRUE, want[p], disk[q])
    BY <1>11
  <2>2. get[p].at \in {"len", "data"} =>
          /\ s.pos <= Len(want[p])
          /\ \A i \in 1 .. Len(s.inbuf) : s.inbuf[i] = want[p][s.pos - Len(s.inbuf) + i]
    <3> SUFFICES ASSUME get[p].at \in {"len", "data"}
                 PROVE  /\ s.pos <= Len(want[p])
                        /\ \A i \in 1 .. Len(b) : s.inbuf[i] = want[p][s.pos - Len(b) + i]
      BY <1>7
    <3>1. disk[q] = want[p]
      BY <2>1 DEF Copies
    <3>2. \A i \in 1 .. Len(b) : s.pos - Len(b) + i = o + i
      BY <1>4, <1>7
    <3> QED BY <1>4, <1>7, <3>1, <3>2
  <2> QED BY <2>1, <2>2 DEF Copies
<1>14. /\ s.at # "name" /\ serve[q].at # "accept"
       /\ s.at # "accept" => s.conn = c /\ disk[q] # NoFile
       /\ s.at # "write" => s.inbuf = <<>>
       /\ (s.at # "accept") = TRUE
  BY <1>2, <1>3, <1>7
<1> QED BY <1>1, <1>2, <1>7, <1>8, <1>10, <1>12, <1>13, <1>14, ListenerKeeps

(***************************************************************************)
(* The bytes of a block behind those that are on their way.                *)
(***************************************************************************)
LEMMA Appended ==
  ASSUME NEW a \in Seq(Datum), NEW b \in Seq(Byte)
  PROVE  /\ a \o b \in Seq(Datum) /\ Len(a \o b) = Len(a) + Len(b)
         /\ Len(a) \in Nat /\ Len(b) \in Nat
         /\ \A i \in 1 .. Len(a) : (a \o b)[i] = a[i]
         /\ \A i \in 1 .. Len(a) + Len(b) :
              i > Len(a) => /\ (a \o b)[i] = b[i - Len(a)] /\ b[i - Len(a)] \in Byte
                            /\ i - Len(a) \in 1 .. Len(b)
<1>1. b \in Seq(Datum)
  BY DEF Datum
<1> QED BY <1>1

(***************************************************************************)
(* The listener sends a block.                                             *)
(***************************************************************************)
LEMMA WriteKeeps ==
  ASSUME GetInv, NEW q \in Peers, write(q)
  PROVE  GetInv'
<1>1. PICK c, p, b, o : c = serve[q].conn /\ p = Mine(c) /\ b = serve[q].inbuf /\ o = serve[q].pos
  OBVIOUS
<1>2. /\ q \in alive /\ serve[q].at = "write" /\ PeerWrite(c, b)
      /\ UNCHANGED <<alive, disk, get, want, queue>>
  BY <1>1 DEF write
<1>3. c \in Conns /\ p \in Peers /\ disk[q] # NoFile /\ conn[c] \in ConnRecord
  <2>1. c \in Conns /\ disk[q] # NoFile
    BY <1>1, <1>2 DEF GetInv, Connected
  <2> QED BY <1>1, <2>1, ConnIs DEF GetInv, Typed
<1>4. conn[c].buf \in Seq(Datum) /\ b \in Seq(Byte) /\ o \in 0 .. LenMod - 1 /\ Len(b) \in Nat
  <2>1. serve[q] \in ServeRecord
    BY DEF GetInv, Typed
  <2> QED BY <1>1, <1>3, <2>1 DEF ConnRecord, ServeRecord
<1>5. PICK s : s = [serve[q] EXCEPT !.at = "fread", !.inbuf = <<>>]
  OBVIOUS
<1>6. /\ s \in ServeRecord /\ s.at = "fread" /\ s.conn = c /\ s.pos = o /\ s.inbuf = <<>>
      /\ Len(s.inbuf) = 0
  <2>1. serve[q] \in ServeRecord
    BY DEF GetInv, Typed
  <2>2. s \in ServeRecord /\ s.at = "fread" /\ s.conn = c /\ s.pos = o /\ s.inbuf = <<>>
    BY <1>1, <1>5, <2>1, EmptyFile DEF ServeRecord
  <2> QED BY <2>2, EmptyFile
<1>7. Puts(serve, serve', q, s)
  BY <1>5 DEF Puts, write
<1>8. c = Current(p) =>
        /\ Measures(get[p], disk[p], conn[c], serve[q], TRUE, FALSE)
        /\ want[p] # Spoiled =>
             Copies(get[p], disk[p], conn[c], serve[q], TRUE, want[p], disk[q])
  <2>1. (serve[q].at # "name") = TRUE /\ (serve[q].at = "name") = FALSE
    BY <1>2
  <2>2. c = Current(p) =>
          /\ Measures(get[p], disk[p], conn[c], serve[q],
                      serve[q].at # "name", serve[q].at = "name")
          /\ want[p] # Spoiled =>
               Copies(get[p], disk[p], conn[c], serve[q], serve[q].at # "name", want[p],
                      disk[q])
    BY <1>1, <1>2, HeldDownload
  <2> QED BY <2>1, <2>2
<1>9. /\ s.at # "name" /\ serve[q].at # "accept"
      /\ s.at # "accept" => s.conn = c /\ disk[q] # NoFile
      /\ s.at # "write" => s.inbuf = <<>>
      /\ (s.at # "accept") = TRUE
  BY <1>2, <1>3, <1>6
<1>10. CASE p \notin alive /\ UNCHANGED conn
  <2>1. PICK x : x = conn[c]
    OBVIOUS
  <2>2. x \in ConnRecord /\ Len(x.buf) <= SockBuf /\ Puts(conn, conn', c, x)
    BY <1>3, <1>10, <2>1 DEF Puts, GetInv, Typed
  <2>3. c = Current(p) => /\ Measures(get[p], disk[p], x, s, TRUE, FALSE)
                          /\ want[p] # Spoiled =>
                               Copies(get[p], disk[p], x, s, TRUE, want[p], disk[q])
    BY <1>3, <1>8, <1>10, LostWrite
  <2> QED BY <1>1, <1>2, <1>6, <1>7, <1>9, <2>2, <2>3, ListenerKeeps
<1>11. CASE /\ p \in alive /\ Len(conn[c].buf) + Len(b) <= SockBuf
            /\ conn' = [conn EXCEPT ![c].buf = @ \o b]
  <2>1. PICK a, e, x : a = conn[c].buf /\ e = a \o b /\ x = [conn[c] EXCEPT !.buf = e]
    OBVIOUS
  <2>2. /\ e \in Seq(Datum) /\ Len(e) = Len(a) + Len(b) /\ Len(a) \in Nat
        /\ \A i \in 1 .. Len(a) : e[i] = a[i]
        /\ \A i \in 1 .. Len(e) :
             i > Len(a) => /\ e[i] = b[i - Len(a)] /\ b[i - Len(a)] \in Byte
                           /\ i - Len(a) \in 1 .. Len(b)
    BY <1>4, <2>1, Appended
  <2>3. x \in ConnRecord /\ x.buf = e /\ x.asked = conn[c].asked /\ x.closed = conn[c].closed
    BY <1>3, <2>1, <2>2, ConnWith
  <2>4. Len(x.buf) <= SockBuf /\ Puts(conn, conn', c, x)
    BY <1>3, <1>11, <2>1, <2>2, <2>3 DEF Puts, GetInv, Typed
  <2>5. c = Current(p) /\ get[p].at \in {"len", "data"} =>
          /\ Len(disk[p]) \in Nat /\ HeaderLen(get[p]) \in {0, 1} /\ HeaderLen(get[p]) <= Len(a)
          /\ Len(disk[p]) + Len(a) - HeaderLen(get[p]) + Len(b) = o
    <3> SUFFICES ASSUME c = Current(p), get[p].at \in {"len", "data"}
                 PROVE  /\ Len(disk[p]) \in Nat /\ HeaderLen(get[p]) \in {0, 1}
                        /\ HeaderLen(get[p]) <= Len(a)
                        /\ Len(disk[p]) + Len(a) - HeaderLen(get[p]) + Len(b) = o
      OBVIOUS
    <3>1. /\ disk[p] \in Seq(Byte) /\ (get[p].at = "len" => Len(a) >= 1)
          /\ Len(disk[p]) + Len(a) - HeaderLen(get[p]) + Len(b) = o
      BY <1>1, <1>8, <2>1 DEF Measures
    <3>2. HeaderLen(get[p]) \in {0, 1} /\ HeaderLen(get[p]) <= Len(a)
      BY <2>2, <3>1 DEF HeaderLen
    <3> QED BY <3>1, <3>2
  <2>6. c = Current(p) => Measures(get[p], disk[p], x, s, TRUE, FALSE)
    <3> SUFFICES ASSUME c = Current(p) PROVE Measures(get[p], disk[p], x, s, TRUE, FALSE)
      OBVIOUS
    <3>1. get[p].at # "connected"
      BY <1>8 DEF Measures
    <3>2. get[p].at = "len" => Len(e) >= 1 /\ e[1] \in 0 .. LenMod - 1
      <4> SUFFICES ASSUME get[p].at = "len" PROVE Len(e) >= 1 /\ e[1] \in 0 .. LenMod - 1
        OBVIOUS
      <4>1. Len(a) >= 1 /\ a[1] \in 0 .. LenMod - 1
        BY <1>8, <2>1 DEF Measures
      <4> QED BY <1>4, <2>2, <4>1
    <3>3. get[p].at \in {"len", "data"} =>
            /\ \A i \in 1 .. Len(e) : i > HeaderLen(get[p]) => e[i] \in Byte
            /\ Len(disk[p]) + Len(e) - HeaderLen(get[p]) + 0 = o
            /\ Len(disk[p]) + Len(e) - HeaderLen(get[p]) < LenMod
      <4> SUFFICES ASSUME get[p].at \in {"len", "data"}
                   PROVE  /\ \A i \in 1 .. Len(e) : i > HeaderLen(get[p]) => e[i] \in Byte
                          /\ Len(disk[p]) + Len(e) - HeaderLen(get[p]) + 0 = o
                          /\ Len(disk[p]) + Len(e) - HeaderLen(get[p]) < LenMod
        OBVIOUS
      <4>1. \A i \in 1 .. Len(a) : i > HeaderLen(get[p]) => a[i] \in Byte
        BY <1>8, <2>1 DEF Measures
      <4>2. \A i \in 1 .. Len(e) : i > HeaderLen(get[p]) => e[i] \in Byte
        BY <1>4, <2>2, <4>1
      <4>3. Len(disk[p]) + Len(e) - HeaderLen(get[p]) + 0 = o
        BY <1>4, <2>2, <2>5
      <4> QED BY <1>4, <2>2, <2>5, <4>2, <4>3, GetConstants
    <3> QED BY <1>6, <1>8, <2>3, <3>1, <3>2, <3>3 DEF Measures
  <2>7. c = Current(p) /\ want[p] # Spoiled =>
          Copies(get[p], disk[p], x, s, TRUE, want[p], disk[q])
    <3> SUFFICES ASSUME c = Current(p), want[p] # Spoiled
                 PROVE  Copies(get[p], disk[p], x, s, TRUE, want[p], disk[q])
      OBVIOUS
    <3>1. PICK w, h : w = want[p] /\ h = HeaderLen(get[p])
      OBVIOUS
    <3>2. Copies(get[p], disk[p], conn[c], serve[q], TRUE, w, disk[q])
      BY <1>8, <3>1
    <3>3. get[p].at \in {"len", "data"} =>
            /\ w \in Seq(Byte) /\ o <= Len(w)
            /\ get[p].at = "len" => e[1] = Len(w)
            /\ \A i \in 1 .. Len(e) :
                 i > h => Len(disk[p]) + i - h <= Len(w) /\ e[i] = w[Len(disk[p]) + i - h]
      <4> SUFFICES ASSUME get[p].at \in {"len", "data"}
                   PROVE  /\ w \in Seq(Byte) /\ o <= Len(w)
                          /\ get[p].at = "len" => e[1] = Len(w)
                          /\ \A i \in 1 .. Len(e) :
                               i > h => /\ Len(disk[p]) + i - h <= Len(w)
                                        /\ e[i] = w[Len(disk[p]) + i - h]
        OBVIOUS
      <4>1. /\ w \in Seq(Byte) /\ o <= Len(w)
            /\ get[p].at = "len" /\ Len(a) >= 1 => a[1] = Len(w)
            /\ \A i \in 1 .. Len(a) :
                 i > h => Len(disk[p]) + i - h <= Len(w) /\ a[i] = w[Len(disk[p]) + i - h]
            /\ \A i \in 1 .. Len(b) : b[i] = w[o - Len(b) + i]
        BY <1>1, <2>1, <3>1, <3>2 DEF Copies
      <4>2. /\ Len(disk[p]) \in Nat /\ h \in {0, 1} /\ h <= Len(a) /\ (get[p].at = "len" => h = 1)
            /\ Len(disk[p]) + Len(a) - h + Len(b) = o
        BY <2>5, <3>1 DEF HeaderLen
      <4>3. get[p].at = "len" => e[1] = Len(w)
        BY <2>2, <4>1, <4>2
      <4>4. ASSUME NEW i \in 1 .. Len(e), i > h
            PROVE  Len(disk[p]) + i - h <= Len(w) /\ e[i] = w[Len(disk[p]) + i - h]
        <5>1. CASE i <= Len(a)
          BY <2>2, <4>1, <4>4, <5>1
        <5>2. CASE i > Len(a)
          <6>1. PICK j : j = i - Len(a)
            OBVIOUS
          <6>2. j \in 1 .. Len(b) /\ e[i] = b[j]
            BY <2>2, <5>2, <6>1
          <6>3. o - Len(b) + j = Len(disk[p]) + i - h /\ Len(disk[p]) + i - h <= o
            <7>1. PICK l, m, n : l = Len(disk[p]) /\ m = Len(a) /\ n = Len(b)
              OBVIOUS
            <7>2. /\ l \in Nat /\ m \in Nat /\ n \in Nat /\ h \in Nat /\ l + m - h + n = o
                  /\ j \in 1 .. n /\ i \in Int /\ j = i - m
              BY <1>4, <2>2, <4>2, <6>1, <6>2, <7>1
            <7>3. o - n + j = l + i - h /\ l + i - h <= o
              BY <7>2
            <7> QED BY <7>1, <7>3
          <6>4. b[j] = w[o - Len(b) + j]
            BY <4>1, <6>2
          <6>5. Len(disk[p]) + i - h <= Len(w)
            BY <1>4, <2>2, <4>1, <4>2, <6>3
          <6> QED BY <6>2, <6>3, <6>4, <6>5
        <5> QED BY <2>2, <5>1, <5>2
      <4> QED BY <4>1, <4>3, <4>4
    <3>4. Copies(get[p], disk[p], x, s, TRUE, w, disk[q])
      BY <1>6, <2>3, <3>1, <3>2, <3>3 DEF Copies
    <3> QED BY <3>1, <3>4
  <2> QED BY <1>1, <1>2, <1>6, <1>7, <1>9, <2>3, <2>4, <2>6, <2>7, ListenerKeeps
<1> QED BY <1>1, <1>2, <1>10, <1>11 DEF PeerWrite
-----------------------------------------------------------------------------
(***************************************************************************)
(* The head and the tail of a queue.                                       *)
(***************************************************************************)
LEMMA QueueMoves ==
  ASSUME NEW s \in Seq(Conns), s # <<>>
  PROVE  /\ Head(s) \in Conns /\ 1 \in DOMAIN s /\ Head(s) = s[1] /\ Tail(s) \in Seq(Conns)
         /\ \A i \in DOMAIN Tail(s) : i + 1 \in DOMAIN s /\ i + 1 # 1 /\ Tail(s)[i] = s[i + 1]
                                      /\ i \in Int
OBVIOUS

(***************************************************************************)
(* The listener takes the first connection that waits for it.              *)
(***************************************************************************)
LEMMA AcceptKeeps ==
  ASSUME GetInv, NEW q \in Peers, accept(q)
  PROVE  GetInv'
<1> USE DEF GetInv
<1>1. /\ q \in alive /\ serve[q].at = "accept" /\ queue[q] # <<>>
      /\ UNCHANGED <<alive, disk, get, want, conn>>
  BY DEF accept
<1>2. PICK h, t, s : /\ h = Head(queue[q]) /\ t = Tail(queue[q])
                     /\ s = [Idle EXCEPT !.at = "name", !.conn = Head(queue[q])]
  OBVIOUS
<1>3. /\ h \in Conns /\ 1 \in DOMAIN queue[q] /\ h = queue[q][1] /\ t \in Seq(Conns)
      /\ \A i \in DOMAIN t : i + 1 \in DOMAIN queue[q] /\ i + 1 # 1 /\ t[i] = queue[q][i + 1]
                             /\ i \in Int
  BY <1>1, <1>2, PartsTyped, QueueMoves
<1>4. s \in ServeRecord /\ s.at = "name" /\ s.conn = h /\ s.pos = 0 /\ s.inbuf = <<>>
  <2>1. Idle \in ServeRecord /\ Idle.pos = 0 /\ Idle.inbuf = <<>>
    BY GetConstants DEF Idle, ServeRecord
  <2>2. s = [Idle EXCEPT !.at = "name", !.conn = h]
    BY <1>2
  <2> HIDE DEF Idle
  <2> QED BY <1>3, <2>1, <2>2 DEF ServeRecord
<1>5. /\ queue' \in [Peers -> Seq(Conns)] /\ queue'[q] = t
      /\ serve' \in [Peers -> ServeRecord] /\ serve'[q] = s
      /\ \A r \in Peers \ {q} : queue'[r] = queue[r] /\ serve'[r] = serve[r]
  BY <1>2, <1>3, <1>4 DEF Typed, accept
<1>6. \A i, j \in DOMAIN queue[q] : queue[q][i] = queue[q][j] => i = j
  BY DEF Connected
<1>7. \A r \in Peers : \A d : Holds(r, d)' => Holds(r, d)
  <2> SUFFICES ASSUME NEW r \in Peers, NEW d, Holds(r, d)' PROVE Holds(r, d)
    OBVIOUS
  <2>1. CASE r = q
    BY <1>3, <1>4, <1>5, <2>1 DEF Holds
  <2>2. CASE r # q
    BY <1>5, <2>2 DEF Holds
  <2> QED BY <2>1, <2>2
<1>8. Typed'
  BY <1>1, <1>5 DEF Typed
<1>9. Bounded'
  BY <1>1, <1>5 DEF Bounded
<1>10. Connected'
  <2>1. \A r \in Peers, d \in Conns :
          Holds(r, d)' =>
            d[2] <= get[Mine(d)].k /\ (d[2] = get[Mine(d)].k => get[Mine(d)].src = r)
    BY <1>7 DEF Connected
  <2>2. ASSUME NEW r \in Peers
        PROVE  /\ \A i, j \in DOMAIN queue'[r] : queue'[r][i] = queue'[r][j] => i = j
               /\ serve'[r].at # "accept" =>
                    /\ serve'[r].conn \in Conns
                    /\ \A i \in DOMAIN queue'[r] : queue'[r][i] # serve'[r].conn
               /\ serve'[r].at # "write" => serve'[r].inbuf = <<>>
               /\ serve'[r].at = "name" => serve'[r].pos = 0
               /\ serve'[r].at \in {"fread", "write"} => disk[r] # NoFile
    <3>1. CASE r = q
      <4>1. \A i, j \in DOMAIN t : t[i] = t[j] => i = j
        <5> SUFFICES ASSUME NEW i \in DOMAIN t, NEW j \in DOMAIN t, t[i] = t[j] PROVE i = j
          OBVIOUS
        <5>1. i + 1 = j + 1 /\ i \in Int /\ j \in Int
          BY <1>3, <1>6
        <5> QED BY <5>1
      <4>2. \A i \in DOMAIN t : t[i] # h
        BY <1>3, <1>6
      <4> QED BY <1>3, <1>4, <1>5, <3>1, <4>1, <4>2
    <3>2. CASE r # q
      BY <1>5, <3>2 DEF Connected
    <3> QED BY <3>1, <3>2
  <2> QED BY <1>1, <2>1, <2>2 DEF Connected
<1>11. Fresh'
  BY <1>1 DEF Fresh
<1>12. ASSUME NEW r \in Peers PROVE (get[r].k >= 1 => Measured(r) /\ Copied(r))'
  <2>1. PICK o, d : o = get[r].src /\ d = Current(r)
    OBVIOUS
  <2>2. o \in Peers /\ Current(r)' = Current(r) /\ get'[r].src = get[r].src
    BY <1>1, <2>1, PartsTyped DEF Current
  <2>3. Served(o, d)' =>
          Served(o, d) /\ serve'[o].inbuf = serve[o].inbuf /\ serve'[o].pos = serve[o].pos
    <3>1. CASE o = q
      BY <1>4, <1>5, <3>1 DEF Served
    <3>2. CASE o # q
      BY <1>5, <2>2, <3>2 DEF Served
    <3> QED BY <3>1, <3>2
  <2>4. Waits(o, d)' => Waits(o, d)
    <3>1. CASE o = q
      BY <1>1, <1>7, <2>2, <3>1 DEF Waits, Served
    <3>2. CASE o # q
      BY <1>5, <1>7, <2>2, <3>2 DEF Waits, Served
    <3> QED BY <3>1, <3>2
  <2>5. /\ Served(get[r].src, Current(r))' =>
             /\ Served(get[r].src, Current(r))
             /\ serve'[get[r].src].inbuf = serve[get[r].src].inbuf
             /\ serve'[get[r].src].pos = serve[get[r].src].pos
        /\ Waits(get[r].src, Current(r))' => Waits(get[r].src, Current(r))
    BY <2>1, <2>2, <2>3, <2>4 DEF Served, Waits, Holds
  <2>6. get[r].k >= 1 => Measured(r) /\ Copied(r)
    BY DEF Downloads
  <2> QED BY <1>1, <2>5, <2>6, DownloadKept
<1>13. Downloads'
  BY <1>12 DEF Downloads
<1> QED BY <1>8, <1>9, <1>10, <1>11, <1>13

(***************************************************************************)
(* A process ends, wherever its threads stand.                             *)
(***************************************************************************)
LEMMA DiesKeeps ==
  ASSUME GetInv, NEW p \in Peers, Dies(p)
  PROVE  GetInv'
<1>0. \A s : s = <<>> => DOMAIN s = {}
  OBVIOUS
<1> USE DEF GetInv
<1>1. alive' = alive \ {p} /\ UNCHANGED <<disk, want, conn>>
  BY DEF Dies
<1>2. /\ get' \in [Peers -> GetRecord] /\ get'[p].at = "failed"
      /\ get'[p].k = get[p].k /\ get'[p].src = get[p].src
      /\ \A r \in Peers \ {p} : get'[r] = get[r]
  <2>1. get \in [Peers -> GetRecord] /\ get[p] \in GetRecord
    BY DEF Typed
  <2> QED BY <2>1 DEF Dies, GetRecord
<1>3. Idle \in ServeRecord /\ Idle.at = "accept" /\ Idle.inbuf = <<>>
  BY GetConstants DEF Idle, ServeRecord
<1>4. /\ serve' \in [Peers -> ServeRecord] /\ serve'[p] = Idle
      /\ queue' \in [Peers -> Seq(Conns)] /\ queue'[p] = <<>> /\ DOMAIN queue'[p] = {}
      /\ \A r \in Peers \ {p} : queue'[r] = queue[r] /\ serve'[r] = serve[r]
  <2>1. /\ serve' \in [Peers -> ServeRecord] /\ serve'[p] = Idle
        /\ queue' \in [Peers -> Seq(Conns)] /\ queue'[p] = <<>>
        /\ \A r \in Peers \ {p} : queue'[r] = queue[r] /\ serve'[r] = serve[r]
    BY <1>3 DEF Typed, Dies
  <2> QED BY <1>0, <2>1
<1>5. \A r \in Peers : \A d : Holds(r, d)' => r # p /\ Holds(r, d)
  <2> SUFFICES ASSUME NEW r \in Peers, NEW d, Holds(r, d)' PROVE r # p /\ Holds(r, d)
    OBVIOUS
  <2>1. r # p
    BY <1>3, <1>4 DEF Holds
  <2> QED BY <1>4, <2>1 DEF Holds
<1>6. \A r \in Peers : get'[r].k = get[r].k /\ get'[r].src = get[r].src
  BY <1>2
<1>7. Typed'
  BY <1>1, <1>2, <1>4, <1>6 DEF Typed
<1>8. Bounded'
  <2> SUFFICES ASSUME NEW r \in Peers
               PROVE  /\ disk[r] # NoFile => Len(disk[r]) < LenMod
                      /\ get'[r].at \in Fetching => r \in alive'
                      /\ get'[r].at \in Fetching \cup {"ok"} => get'[r].k >= 1
                      /\ r \notin alive' => queue'[r] = <<>> /\ serve'[r] = Idle
    BY <1>1 DEF Bounded
  <2>1. CASE r = p
    BY <1>2, <1>4, <2>1 DEF Bounded, Fetching
  <2>2. CASE r # p
    BY <1>1, <1>2, <1>4, <2>2 DEF Bounded
  <2> QED BY <2>1, <2>2
<1>9. Connected'
  <2>1. \A r \in Peers, d \in Conns :
          Holds(r, d)' =>
            d[2] <= get'[Mine(d)].k /\ (d[2] = get'[Mine(d)].k => get'[Mine(d)].src = r)
    BY <1>5, <1>6, ConnIs DEF Connected
  <2>2. ASSUME NEW r \in Peers
        PROVE  /\ \A i, j \in DOMAIN queue'[r] : queue'[r][i] = queue'[r][j] => i = j
               /\ serve'[r].at # "accept" =>
                    /\ serve'[r].conn \in Conns
                    /\ \A i \in DOMAIN queue'[r] : queue'[r][i] # serve'[r].conn
               /\ serve'[r].at # "write" => serve'[r].inbuf = <<>>
               /\ serve'[r].at = "name" => serve'[r].pos = 0
               /\ serve'[r].at \in {"fread", "write"} => disk[r] # NoFile
    <3>1. CASE r = p
      BY <1>3, <1>4, <3>1
    <3>2. CASE r # p
      BY <1>4, <3>2 DEF Connected
    <3> QED BY <3>1, <3>2
  <2> QED BY <1>1, <2>1, <2>2 DEF Connected
<1>10. Fresh'
  BY <1>1, <1>6, ConnIs DEF Fresh
<1>11. ASSUME NEW r \in Peers PROVE (get[r].k >= 1 => Measured(r) /\ Copied(r))'
  <2>1. CASE r = p
    BY <1>2, <2>1 DEF Measured, Measures, Copied, Copies
  <2>2. CASE r # p
    <3>1. PICK o, d : o = get[r].src /\ d = Current(r)
      OBVIOUS
    <3>2. o \in Peers /\ Current(r)' = Current(r) /\ get'[r] = get[r]
      BY <1>2, <2>2, <3>1, PartsTyped DEF Current
    <3>3. Served(o, d)' =>
            Served(o, d) /\ serve'[o].inbuf = serve[o].inbuf /\ serve'[o].pos = serve[o].pos
      <4>1. CASE o = p
        BY <1>3, <1>4, <4>1 DEF Served
      <4>2. CASE o # p
        BY <1>4, <3>2, <4>2 DEF Served
      <4> QED BY <4>1, <4>2
    <3>4. Waits(o, d)' => Waits(o, d)
      BY <1>4, <1>5, <3>2 DEF Waits, Served
    <3>5. /\ Served(get[r].src, Current(r))' =>
               /\ Served(get[r].src, Current(r))
               /\ serve'[get[r].src].inbuf = serve[get[r].src].inbuf
               /\ serve'[get[r].src].pos = serve[get[r].src].pos
          /\ Waits(get[r].src, Current(r))' => Waits(get[r].src, Current(r))
      BY <3>1, <3>2, <3>3, <3>4 DEF Served, Waits, Holds
    <3>6. get[r].k >= 1 => Measured(r) /\ Copied(r)
      BY DEF Downloads
    <3> QED BY <1>1, <3>2, <3>5, <3>6, DownloadKept
  <2> QED BY <2>1, <2>2
<1>12. Downloads'
  BY <1>11 DEF Downloads
<1> QED BY <1>7, <1>8, <1>9, <1>10, <1>12
-----------------------------------------------------------------------------
(***************************************************************************)
(* Every step of either thread of any process keeps the invariant.         *)
(***************************************************************************)
LEMMA GetStep == GetInv /\ [Next]_vars => GetInv'
<1> SUFFICES ASSUME GetInv, [Next]_vars PROVE GetInv'
  OBVIOUS
<1>1. CASE UNCHANGED <<alive, disk, get, want, conn, queue, serve>>
  <2> USE <1>1
  <2>1. Typed' /\ Bounded' /\ Fresh'
    BY DEF GetInv, Typed, Bounded, Fresh
  <2>2. Connected'
    BY ConnectedKept DEF GetInv
  <2>3. \A r \in Peers : (get[r].k >= 1 => Measured(r) /\ Copied(r))'
    BY DEF GetInv, Downloads, Measured, Copied, Served, Waits, Holds, Current
  <2>4. Downloads'
    BY <2>3 DEF Downloads
  <2> QED BY <2>1, <2>2, <2>4 DEF GetInv
<1>2. CASE Next
  <2>1. PICK p \in Peers : \/ \E q \in Sources[p] : connect_client(p, q)
                           \/ ClientStep(p) \/ peer_listener(p) \/ accept_fails(p)
                           \/ Crash(p) \/ SigPipe(p)
    BY <1>2 DEF Next
  <2>2. ASSUME NEW q \in Sources[p], connect_client(p, q) PROVE GetInv'
    <3>1. q \in Peers
      BY GetConstants
    <3> QED BY <2>2, <3>1, ConnectKeeps
  <2>3. CASE ClientStep(p)
    BY <2>3, EndsKeep, RequestKeeps, ReadLenKeeps, ReadDataKeeps DEF ClientStep
  <2>4. CASE peer_listener(p)
    BY <2>4, AcceptKeeps, ReadNameKeeps, FreadKeeps, WriteKeeps, ServedKeeps DEF peer_listener
  <2>5. CASE Crash(p) \/ SigPipe(p)
    BY <2>5, DiesKeeps DEF Crash, SigPipe
  <2>6. CASE accept_fails(p)
    BY <1>1, <2>6 DEF accept_fails
  <2> QED BY <2>1, <2>2, <2>3, <2>4, <2>5, <2>6
<1> QED BY <1>1, <1>2 DEF vars

(***************************************************************************)
(* A thread peer_listener that has returned is not started again.          *)
(***************************************************************************)
LEMMA ListeningStep == listening \subseteq Peers /\ [Next]_vars => (listening \subseteq Peers)'
<1> SUFFICES ASSUME listening \subseteq Peers, [Next]_vars PROVE listening' \subseteq listening
  OBVIOUS
<1>1. CASE UNCHANGED vars
  BY <1>1 DEF vars
<1>2. CASE Next
  <2>1. PICK p \in Peers : \/ \E q \in Sources[p] : connect_client(p, q)
                           \/ ClientStep(p) \/ peer_listener(p) \/ accept_fails(p)
                           \/ Crash(p) \/ SigPipe(p)
    BY <1>2 DEF Next
  <2>2. CASE accept_fails(p)
    BY <2>2 DEF accept_fails
  <2>3. ASSUME NEW q, connect_client(p, q) PROVE listening' = listening
    BY <2>3 DEF connect_client
  <2>4. CASE ClientStep(p)
    BY <2>4 DEF ClientStep, fopen_fails, request, read_len, read_data, get_ends
  <2>5. CASE peer_listener(p)
    BY <2>5 DEF peer_listener, accept, read_name, fread, write, served
  <2>6. CASE Crash(p) \/ SigPipe(p)
    BY <2>6 DEF Crash, SigPipe, Dies
  <2> QED BY <2>1, <2>2, <2>3, <2>4, <2>5, <2>6
<1> QED BY <1>1, <1>2

(***************************************************************************)
(* The invariant gives what is said of downloads.                          *)
(***************************************************************************)
LEMMA InvGives ==
  GetInv => /\ listening \subseteq Peers => TypeOK
            /\ OkIsComplete /\ OkIsCopy
<1> SUFFICES ASSUME GetInv PROVE (listening \subseteq Peers => TypeOK) /\ OkIsComplete /\ OkIsCopy
  OBVIOUS
<1>1. ASSUME listening \subseteq Peers PROVE TypeOK
  <2>1. ASSUME NEW p \in Peers PROVE get[p].k \in 0 .. MaxGets[p]
    BY PartsTyped DEF GetInv, Typed
  <2>2. \A p \in Peers : serve[p].at # "accept" => serve[p].conn \in Conns
    BY DEF GetInv, Connected
  <2>3. alive \subseteq Peers /\ \A c \in Conns : Len(conn[c].buf) <= SockBuf
    BY DEF GetInv, Typed
  <2>4. Typed
    BY DEF GetInv
  <2> QED BY <1>1, <2>1, <2>2, <2>3, <2>4, PartsTyped DEF TypeOK
<1>2. ASSUME NEW p \in Peers, get[p].at = "ok" PROVE Measured(p) /\ Copied(p)
  BY <1>2 DEF GetInv, Bounded, Downloads
<1>3. OkIsComplete
  BY <1>2 DEF OkIsComplete, Measured, Measures
<1>4. OkIsCopy
  BY <1>2 DEF OkIsCopy, Copied, Copies
<1> QED BY <1>1, <1>3, <1>4

(***************************************************************************)
(* The invariant holds throughout.                                         *)
(***************************************************************************)
THEOREM DownloadsConsistent == Spec => []GetInv
BY GetInit, GetStep, PTL DEF Spec

(***************************************************************************)
(* Both threads of every client keep their state in shape: in particular   *)
(* the remaining length of wait_for_input stays an unsigned number and no  *)
(* connection is filled beyond its buffer.                                 *)
(***************************************************************************)
THEOREM GetTypeCorrect == Spec => []TypeOK
<1>1. Init => listening \subseteq Peers
  BY DEF Init
<1> QED BY <1>1, ListeningStep, DownloadsConsistent, InvGives, PTL DEF Spec

(***************************************************************************)
(* A get that ends without a message has written as many bytes as the      *)
(* peer announced, though the file may change while peer_listener sends it *)
(* and the remaining length may pass zero.                                 *)
(***************************************************************************)
THEOREM OkDownloadsComplete == Spec => []OkIsComplete
BY DownloadsConsistent, InvGives, PTL

(***************************************************************************)
(* And if nobody wrote to the peer's file meanwhile, it has written the    *)
(* bytes of that file, in order.                                           *)
(***************************************************************************)
THEOREM OkDownloadsCopy == Spec => []OkIsCopy
BY DownloadsConsistent, InvGives, PTL
=============================================================================
