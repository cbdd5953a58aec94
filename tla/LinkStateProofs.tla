--------------------------- MODULE LinkStateProofs ---------------------------
(***************************************************************************)
(* What holds of the routers for every network, whatever the order in      *)
(* which floods arrive.                                                    *)
(***************************************************************************)
EXTENDS LinkState, SequenceTheorems, FiniteSetTheorems, WellFoundedInduction, TLAPS

\* The links of a packet, and the entries and tables of r.
Link == [dest : Nodes, cost : 0 .. 255]
Entries(r) ==
  [gateway : Neighbors(r), cost : Nat \cup {-1}, packet : Packets \cup {NoPacket}]
IsTable(r, tab) ==
  DOMAIN tab \subseteq Nodes \ {r} /\ \A d \in DOMAIN tab : tab[d] \in Entries(r)

\* tab with more entries, other costs and gateways, and the packets of old.
Keeps(old, tab) ==
  /\ DOMAIN old \subseteq DOMAIN tab
  /\ \A d \in DOMAIN tab :
       tab[d].packet = IF d \in DOMAIN old THEN old[d].packet ELSE NoPacket

\* What the loop of update_routing_table has made of old.
RunOK(r, old, run) ==
  /\ IsTable(r, run.tab) /\ Keeps(old, run.tab)
  /\ r \in run.reached /\ run.reached \subseteq {r} \cup DOMAIN run.tab
  /\ \A d \in run.reached \ {r} : run.tab[d].cost \in Nat
-----------------------------------------------------------------------------
(***************************************************************************)
(* A set of natural numbers has a least element.                           *)
(***************************************************************************)
LEMMA LeastNumber ==
  ASSUME NEW S, S \subseteq Nat, S # {}
  PROVE  \E x \in S : \A y \in S : x <= y
<1>1. PICK R : R = OpToRel(<, Nat)
  OBVIOUS
<1>2. IsWellFoundedOn(R, Nat)
  BY <1>1, NatLessThanWellFounded
<1>3. PICK x \in S : \A y \in S : ~(<<y, x>> \in R)
  BY <1>2, WFMin
<1>4. ASSUME NEW a \in Nat, NEW b \in Nat, a < b PROVE <<a, b>> \in R
  BY <1>1, <1>4 DEF OpToRel
<1>5. ASSUME NEW y \in S PROVE x <= y
  <2>1. ~(y < x)
    BY <1>3, <1>4
  <2> QED BY <2>1
<1> QED BY <1>5

(***************************************************************************)
(* set_shortest finds a link whenever there is one.                        *)
(***************************************************************************)
LEMMA ShortestExists ==
  ASSUME NEW C, C # {},
         \A c \in C : c.cost \in Nat /\ c.src \in Nat /\ c.dest \in Nat
  PROVE  \E l \in C : l \in Shortest(C)
<1>1. PICK x \in {c.cost : c \in C} : \A y \in {c.cost : c \in C} : x <= y
  <2>1. {c.cost : c \in C} \subseteq Nat /\ {c.cost : c \in C} # {}
    OBVIOUS
  <2> QED BY <2>1, LeastNumber
<1> DEFINE D == {c \in C : c.cost = x}
<1>2. PICK y \in {c.src : c \in D} : \A z \in {c.src : c \in D} : y <= z
  <2>1. {c.src : c \in D} \subseteq Nat /\ {c.src : c \in D} # {}
    BY <1>1
  <2> QED BY <2>1, LeastNumber
<1> DEFINE E == {c \in D : c.src = y}
<1>3. PICK z \in {c.dest : c \in E} : \A w \in {c.dest : c \in E} : z <= w
  <2>1. {c.dest : c \in E} \subseteq Nat /\ {c.dest : c \in E} # {}
    BY <1>2
  <2> QED BY <2>1, LeastNumber
<1>4. PICK l \in E : l.dest = z
  BY <1>3
<1>5. l \in C /\ l.cost = x /\ l.src = y /\ l.dest = z /\ x \in Nat /\ y \in Nat /\ z \in Nat
  BY <1>4
<1>6. ASSUME NEW o \in C
      PROVE  \/ l.cost < o.cost
             \/ l.cost = o.cost /\ l.src < o.src
             \/ l.cost = o.cost /\ l.src = o.src /\ l.dest <= o.dest
  <2>1. x <= o.cost /\ o.cost \in Nat /\ o.src \in Nat /\ o.dest \in Nat
    BY <1>1
  <2>2. o.cost = x => y <= o.src
    BY <1>2
  <2>3. o.cost = x /\ o.src = y => z <= o.dest
    BY <1>3
  <2> HIDE DEF D, E
  <2> QED BY <1>5, <2>1, <2>2, <2>3
<1> QED BY <1>5, <1>6 DEF Shortest

(***************************************************************************)
(* A link has a cost and leads to a router.                                *)
(***************************************************************************)
LEMMA LinkIs == \A l \in Link : l.cost \in Nat /\ l.dest \in Nodes
BY DEF Link

(***************************************************************************)
(* Links lead from routers to other routers, and back.                     *)
(***************************************************************************)
LEMMA LinksAre ==
  ASSUME links \in Topologies, NEW r \in Nodes
  PROVE  /\ links[r] \in Seq(Link) /\ LinksOf(r) \subseteq Link
         /\ Neighbors(r) \subseteq Nodes /\ r \notin Neighbors(r)
         /\ \A m \in Neighbors(r) : r \in Neighbors(m)
         /\ \A l \in LinksOf(r) : l.dest \in Neighbors(r)
<1>1. links[r] \in Seq(Link)
  BY LinkStateConstants DEF Link
<1>2. LinksOf(r) \subseteq Link
  BY <1>1 DEF LinksOf, LinksIn
<1>3. r \notin Neighbors(r) /\ \A m \in Neighbors(r) : r \in Neighbors(m)
  BY LinkStateConstants DEF Neighbors
<1>4. Neighbors(r) = {l.dest : l \in LinksOf(r)}
  BY DEF Neighbors, NeighborsIn, LinksOf
<1> QED BY <1>1, <1>2, <1>3, <1>4 DEF Link

(***************************************************************************)
(* A packet has an origin, a number from 1 on, and links of its origin.    *)
(***************************************************************************)
LEMMA PacketsAre ==
  ASSUME links \in Topologies, NEW p \in Packets
  PROVE  /\ p.origin \in Nodes /\ p.seq \in Nat /\ p.seq >= 1 /\ p.entries = links[p.origin]
         /\ p.entries \in Seq(Link) /\ p # NoPacket
<1>1. PICK o \in Nodes, n \in 1 .. MaxSeq[links] : p = Packet(o, n)
  BY DEF Packets
<1>2. MaxSeq[links] \in Nat
  BY LinkStateConstants
<1>3. p.origin = o /\ p.seq = n /\ p.entries = links[o]
  BY <1>1 DEF Packet
<1>4. p.entries \in Seq(Link)
  BY <1>3, LinksAre
<1>5. p # NoPacket
  <2>1. NoPacket.seq = 0
    BY DEF NoPacket
  <2> QED BY <1>2, <1>3, <2>1
<1> QED BY <1>2, <1>3, <1>4, <1>5

(***************************************************************************)
(* The links a turn of the loop looks at: out of a router that is reached, *)
(* to one that is not, at a cost that is known.                            *)
(***************************************************************************)
LEMMA CandidatesAre ==
  ASSUME links \in Topologies, NEW r \in Nodes, NEW old, NEW run, RunOK(r, old, run),
         NEW c \in Candidates(r, run.tab, run.reached)
  PROVE  /\ c.cost \in Nat /\ c.src \in run.reached /\ c.dest \in Nodes
         /\ c.dest \notin run.reached
         /\ c.src = r => c.dest \in Neighbors(r)
         /\ c.src # r => c.src \in DOMAIN run.tab
<1>1. c.dest \notin run.reached
  BY DEF Candidates
<1>2. CASE c \in {[src |-> r, dest |-> l.dest, cost |-> l.cost] : l \in LinksOf(r)}
  <2>1. PICK l \in LinksOf(r) : c = [src |-> r, dest |-> l.dest, cost |-> l.cost]
    BY <1>2
  <2>2. l \in Link /\ l.dest \in Neighbors(r)
    BY LinksAre
  <2> QED BY <1>1, <2>1, <2>2 DEF Link, RunOK
<1>3. CASE c \in UNION {{[src |-> s, dest |-> l.dest, cost |-> l.cost + run.tab[s].cost] :
                          l \in {run.tab[s].packet.entries[i] :
                                   i \in 1 .. Len(run.tab[s].packet.entries)}} :
                         s \in run.reached \ {r}}
  <2>1. PICK s \in run.reached \ {r} :
          c \in {[src |-> s, dest |-> l.dest, cost |-> l.cost + run.tab[s].cost] :
                          l \in {run.tab[s].packet.entries[i] :
                                   i \in 1 .. Len(run.tab[s].packet.entries)}}
    BY <1>3
  <2>2. PICK l \in {run.tab[s].packet.entries[i] : i \in 1 .. Len(run.tab[s].packet.entries)} :
          c = [src |-> s, dest |-> l.dest, cost |-> l.cost + run.tab[s].cost]
    BY <2>1
  <2>3. s \in DOMAIN run.tab /\ run.tab[s].cost \in Nat /\ run.tab[s] \in Entries(r)
    BY DEF RunOK, IsTable
  <2>4. run.tab[s].packet.entries \in Seq(Link)
    <3>1. run.tab[s].packet \in Packets \/ run.tab[s].packet = NoPacket
      BY <2>3 DEF Entries
    <3>2. NoPacket.entries \in Seq(Link)
      BY DEF NoPacket
    <3> QED BY <3>1, <3>2, PacketsAre
  <2>5. l \in Link
    BY <2>2, <2>4
  <2>6. l.cost \in Nat /\ l.dest \in Nodes
    BY <2>5, LinkIs
  <2>7. c.src = s /\ c.dest = l.dest /\ c.cost = l.cost + run.tab[s].cost
    BY <2>2
  <2> QED BY <1>1, <2>3, <2>6, <2>7
<1> QED BY <1>2, <1>3 DEF Candidates

(***************************************************************************)
(* A turn of the loop takes one of them, or nothing is left to do.         *)
(***************************************************************************)
LEMMA ReachIs ==
  ASSUME links \in Topologies, NEW r \in Nodes, NEW old, NEW run, RunOK(r, old, run)
  PROVE  \/ Reach(r, run) = run
         \/ \E l \in Candidates(r, run.tab, run.reached) :
              /\ l \in Shortest(Candidates(r, run.tab, run.reached))
              /\ Reach(r, run) = Reached(r, run, l)
<1> DEFINE C == Candidates(r, run.tab, run.reached)
           next == {Reached(r, run, l) : l \in Shortest(C)}
<1> SUFFICES ASSUME Reach(r, run) # run
             PROVE  \E l \in C : l \in Shortest(C) /\ Reach(r, run) = Reached(r, run, l)
  OBVIOUS
<1>1. C # {} /\ Reach(r, run) = CHOOSE n \in next : TRUE
  BY DEF Reach
<1>2. \A c \in C : c.cost \in Nat /\ c.src \in Nat /\ c.dest \in Nat
  <2> SUFFICES ASSUME NEW c \in C PROVE c.cost \in Nat /\ c.src \in Nat /\ c.dest \in Nat
    OBVIOUS
  <2>1. c.cost \in Nat /\ c.src \in run.reached /\ c.dest \in Nodes
    BY CandidatesAre
  <2>2. run.reached \subseteq Nodes /\ Nodes \subseteq Nat
    BY LinkStateConstants DEF RunOK, IsTable
  <2> QED BY <2>1, <2>2
<1> HIDE DEF C
<1>3. \E l \in C : l \in Shortest(C)
  BY <1>1, <1>2, ShortestExists
<1>4. next # {}
  BY <1>3
<1>5. Reach(r, run) \in next
  BY <1>1, <1>4
<1>6. Shortest(C) \subseteq C
  BY DEF Shortest
<1> QED BY <1>5, <1>6

(***************************************************************************)
(* So a turn keeps the packets of the table.                               *)
(***************************************************************************)
LEMMA ReachKeeps ==
  ASSUME links \in Topologies, NEW r \in Nodes, NEW old, NEW run, RunOK(r, old, run)
  PROVE  RunOK(r, old, Reach(r, run))
<1> SUFFICES ASSUME NEW l \in Candidates(r, run.tab, run.reached)
             PROVE  RunOK(r, old, Reached(r, run, l))
  BY ReachIs
<1>1. /\ l.cost \in Nat /\ l.src \in run.reached /\ l.dest \in Nodes /\ l.dest \notin run.reached
      /\ l.src = r => l.dest \in Neighbors(r)
      /\ l.src # r => l.src \in DOMAIN run.tab
  BY CandidatesAre
<1>2. PICK e : e = [gateway |-> Gateway(r, run.tab, l), cost |-> l.cost,
                    packet |-> IF l.dest \in DOMAIN run.tab
                               THEN run.tab[l.dest].packet ELSE NoPacket]
  OBVIOUS
<1>3. PICK t : t = WithEntry(run.tab, l.dest, e)
  OBVIOUS
<1>4. PICK n : n = Reached(r, run, l)
  OBVIOUS
<1>5. n.reached = run.reached \cup {l.dest} /\ n.tab = t
  BY <1>2, <1>3, <1>4 DEF Reached
<1>6. DOMAIN t = DOMAIN run.tab \cup {l.dest} /\ t[l.dest] = e
      /\ \A d \in DOMAIN run.tab : d # l.dest => t[d] = run.tab[d]
  BY <1>3 DEF WithEntry
<1>7. l.dest # r
  BY <1>1 DEF RunOK
<1>8. IsTable(r, run.tab) /\ Keeps(old, run.tab)
  BY DEF RunOK
<1>9. e \in Entries(r)
  <2>1. Gateway(r, run.tab, l) \in Neighbors(r)
    BY <1>1, <1>8 DEF Gateway, IsTable, Entries
  <2>2. (IF l.dest \in DOMAIN run.tab THEN run.tab[l.dest].packet ELSE NoPacket)
          \in Packets \cup {NoPacket}
    BY <1>8 DEF IsTable, Entries
  <2> QED BY <1>1, <1>2, <2>1, <2>2 DEF Entries
<1>10. IsTable(r, t)
  BY <1>1, <1>6, <1>7, <1>8, <1>9 DEF IsTable
<1>11. Keeps(old, t)
  <2>1. e.packet = IF l.dest \in DOMAIN run.tab THEN run.tab[l.dest].packet ELSE NoPacket
    BY <1>2
  <2> QED BY <1>6, <1>8, <2>1 DEF Keeps
<1>12. \A d \in n.reached \ {r} : t[d].cost \in Nat
  <2>1. e.cost = l.cost
    BY <1>2
  <2> QED BY <1>1, <1>5, <1>6, <2>1 DEF RunOK
<1>13. r \in n.reached /\ n.reached \subseteq {r} \cup DOMAIN t
  BY <1>5, <1>6 DEF RunOK
<1> QED BY <1>4, <1>5, <1>10, <1>11, <1>12, <1>13 DEF RunOK

(***************************************************************************)
(* The loop of update_routing_table, turn by turn.                         *)
(***************************************************************************)
IsRun(r, tab, n, run) ==
  /\ run[0] = [reached |-> {r}, tab |-> tab]
  /\ \A k \in 1 .. n : run[k] = Reach(r, run[k - 1])

\* The same, as Recomputed defines it.
Solves(r, tab, run) ==
  run = [k \in 0 .. Cardinality(Nodes) |->
           IF k = 0 THEN [reached |-> {r}, tab |-> tab]
           ELSE CHOOSE next \in {Reach(r, prev) : prev \in {run[k - 1]}} : TRUE]

(***************************************************************************)
(* The number of routers is a natural number.                              *)
(***************************************************************************)
LEMMA NodeCount == Cardinality(Nodes) \in Nat
BY LinkStateConstants, FS_CardinalityType

(***************************************************************************)
(* There is a run of every length: there is none of a least length for     *)
(* which there is none.                                                    *)
(***************************************************************************)
LEMMA RunExists ==
  ASSUME NEW r, NEW tab, NEW n \in Nat
  PROVE  \E run : run = [k \in 0 .. n |-> run[k]] /\ IsRun(r, tab, n, run)
<1> DEFINE Has(m) == \E run : run = [k \in 0 .. m |-> run[k]] /\ IsRun(r, tab, m, run)
           None == {m \in Nat : ~Has(m)}
<1> SUFFICES ASSUME None # {} PROVE FALSE
  OBVIOUS
<1>1. PICK m \in None : \A k \in None : m <= k
  <2>1. None \subseteq Nat
    OBVIOUS
  <2> QED BY <2>1, LeastNumber
<1>2. m \in Nat /\ ~Has(m) /\ \A k \in Nat : k < m => Has(k)
  <2>1. m \in Nat /\ ~Has(m)
    OBVIOUS
  <2>2. ASSUME NEW k \in Nat, k < m PROVE Has(k)
    <3>1. k \notin None
      <4> HIDE DEF None
      <4> QED BY <1>1, <2>1, <2>2
    <3> QED BY <3>1
  <2> QED BY <2>1, <2>2
<1>3. CASE m = 0
  <2>1. PICK run : run = [k \in 0 .. 0 |-> [reached |-> {r}, tab |-> tab]]
    OBVIOUS
  <2>2. run = [k \in 0 .. 0 |-> run[k]] /\ run[0] = [reached |-> {r}, tab |-> tab]
    BY <2>1
  <2>3. IsRun(r, tab, 0, run)
    BY <2>2 DEF IsRun
  <2> QED BY <1>2, <1>3, <2>2, <2>3
<1>4. CASE m # 0
  <2>1. m - 1 \in Nat /\ m - 1 < m
    BY <1>2, <1>4
  <2>2. PICK f : IsRun(r, tab, m - 1, f)
    BY <1>2, <2>1
  <2>3. PICK run : run = [k \in 0 .. m |-> IF k = m THEN Reach(r, f[m - 1]) ELSE f[k]]
    OBVIOUS
  <2>4. run = [k \in 0 .. m |-> run[k]]
    BY <2>3
  <2>5. \A k \in 0 .. m - 1 : run[k] = f[k]
    BY <1>2, <2>1, <2>3
  <2>6. run[0] = [reached |-> {r}, tab |-> tab]
    BY <2>1, <2>2, <2>5 DEF IsRun
  <2>7. ASSUME NEW k \in 1 .. m PROVE run[k] = Reach(r, run[k - 1])
    <3>1. run[k - 1] = f[k - 1]
      BY <1>2, <2>5
    <3>2. CASE k = m
      BY <1>2, <2>3, <3>1, <3>2
    <3>3. CASE k # m
      <4>1. k \in 1 .. m - 1 /\ k \in 0 .. m - 1
        BY <1>2, <3>3
      <4> QED BY <2>2, <2>5, <3>1, <4>1 DEF IsRun
    <3> QED BY <3>2, <3>3
  <2> QED BY <1>2, <2>4, <2>6, <2>7 DEF IsRun
<1> QED BY <1>3, <1>4

(***************************************************************************)
(* Recomputed is what the loop ends with.                                  *)
(***************************************************************************)
LEMMA RecomputedIs ==
  ASSUME NEW r, NEW tab
  PROVE  \E run : /\ IsRun(r, tab, Cardinality(Nodes), run)
                  /\ Recomputed(r, tab) = run[Cardinality(Nodes)].tab
<1> DEFINE N == Cardinality(Nodes)
           F == CHOOSE run : Solves(r, tab, run)
<1>1. N \in Nat
  BY NodeCount
<1>2. \A x : (CHOOSE next \in {Reach(r, prev) : prev \in {x}} : TRUE) = Reach(r, x)
  OBVIOUS
<1>3. PICK f : f = [k \in 0 .. N |-> f[k]] /\ IsRun(r, tab, N, f)
  BY <1>1, RunExists
<1>4. Solves(r, tab, f)
  <2>1. ASSUME NEW k \in 0 .. N
        PROVE  f[k] = IF k = 0 THEN [reached |-> {r}, tab |-> tab]
                      ELSE CHOOSE next \in {Reach(r, prev) : prev \in {f[k - 1]}} : TRUE
    <3>1. CASE k = 0
      BY <1>3, <3>1 DEF IsRun
    <3>2. CASE k # 0
      <4>1. k \in 1 .. N
        BY <1>1, <3>2
      <4>2. f[k] = Reach(r, f[k - 1])
        BY <1>3, <4>1 DEF IsRun
      <4>3. (CHOOSE next \in {Reach(r, prev) : prev \in {f[k - 1]}} : TRUE) = Reach(r, f[k - 1])
        BY <1>2
      <4> QED BY <3>2, <4>2, <4>3
    <3> QED BY <3>1, <3>2
  <2> QED BY <1>3, <2>1 DEF Solves
<1>5. Solves(r, tab, F)
  BY <1>4
<1>6. Recomputed(r, tab) = F[N].tab
  BY DEF Recomputed, Solves
<1> HIDE DEF F
<1>7. IsRun(r, tab, N, F)
  <2>1. F[0] = [reached |-> {r}, tab |-> tab]
    BY <1>1, <1>5 DEF Solves
  <2>2. ASSUME NEW k \in 1 .. N PROVE F[k] = Reach(r, F[k - 1])
    <3>1. k \in 0 .. N /\ k # 0
      BY <1>1
    <3>2. F[k] = CHOOSE next \in {Reach(r, prev) : prev \in {F[k - 1]}} : TRUE
      BY <1>5, <3>1 DEF Solves
    <3> QED BY <1>2, <3>2
  <2> QED BY <2>1, <2>2 DEF IsRun
<1> QED BY <1>6, <1>7

(***************************************************************************)
(* Every turn keeps the packets: none is the first that does not.          *)
(***************************************************************************)
LEMMA RunKeeps ==
  ASSUME links \in Topologies, NEW r \in Nodes, NEW tab, IsTable(r, tab),
         NEW n \in Nat, NEW run, IsRun(r, tab, n, run)
  PROVE  \A k \in 0 .. n : RunOK(r, tab, run[k])
<1> DEFINE Bad == {k \in 0 .. n : ~RunOK(r, tab, run[k])}
<1> SUFFICES ASSUME Bad # {} PROVE FALSE
  OBVIOUS
<1>1. PICK m \in Bad : \A k \in Bad : m <= k
  <2>1. Bad \subseteq Nat
    OBVIOUS
  <2> QED BY <2>1, LeastNumber
<1>2. m \in 0 .. n /\ ~RunOK(r, tab, run[m])
  OBVIOUS
<1>3. CASE m = 0
  <2>1. run[0].reached = {r} /\ run[0].tab = tab
    BY DEF IsRun
  <2>2. Keeps(tab, tab)
    BY DEF Keeps
  <2> QED BY <1>2, <1>3, <2>1, <2>2 DEF RunOK
<1>4. CASE m # 0
  <2>1. m - 1 \in 0 .. n /\ m \in 1 .. n /\ ~(m <= m - 1)
    BY <1>2, <1>4
  <2>2. RunOK(r, tab, run[m - 1])
    BY <1>1, <2>1
  <2>3. run[m] = Reach(r, run[m - 1])
    BY <2>1 DEF IsRun
  <2> QED BY <1>2, <2>2, <2>3, ReachKeeps
<1> QED BY <1>3, <1>4

(***************************************************************************)
(* So the loop leaves a table, with the packets it was given.              *)
(***************************************************************************)
LEMMA RecomputedKeeps ==
  ASSUME links \in Topologies, NEW r \in Nodes, NEW tab, IsTable(r, tab)
  PROVE  IsTable(r, Recomputed(r, tab)) /\ Keeps(tab, Recomputed(r, tab))
<1>1. PICK run : /\ IsRun(r, tab, Cardinality(Nodes), run)
                 /\ Recomputed(r, tab) = run[Cardinality(Nodes)].tab
  BY RecomputedIs
<1>2. RunOK(r, tab, run[Cardinality(Nodes)])
  BY <1>1, NodeCount, RunKeeps
<1> QED BY <1>1, <1>2 DEF RunOK
-----------------------------------------------------------------------------
(***************************************************************************)
(* What a table has heard of, and what update_routing_table makes of it    *)
(* when it is given p.                                                     *)
(***************************************************************************)
HeardIn(r, tab) == {r} \cup {d \in DOMAIN tab : tab[d].packet # NoPacket}

Updated(r, p) == IF HasUpdate(r, p) THEN Recomputed(r, Recorded(r, p)) ELSE table[r]

\* What a router has sent, it has heard.
SentIsHeard ==
  \A r \in Nodes : \A m \in Neighbors(r) :
    \A i \in 1 .. Len(chan[r][m]) : chan[r][m][i].origin \in Heard(r)

\* FloodReaches, of one link; it does not matter who has exited.
Floods(r, m) ==
  /\ seqnum[r] > 0 => r \in Heard(m) \/ InTransit(r, m, r)
  /\ \A o \in Heard(r) \ {r, m} : o \in Heard(m) \/ InTransit(r, m, o)

Shape ==
  /\ DOMAIN table = Nodes /\ table = [r \in Nodes |-> table[r]]
  /\ DOMAIN chan = Nodes /\ chan = [r \in Nodes |-> chan[r]]

\* The inductive invariant.
RouterInv ==
  /\ Shape /\ TypeOK /\ SentIsHeard
  /\ \A r \in Nodes : \A m \in Neighbors(r) : Floods(r, m)

(***************************************************************************)
(* A table is one in the sense of TypeOK.                                  *)
(***************************************************************************)
LEMMA TablesAre ==
  ASSUME TypeOK
  PROVE  /\ links \in Topologies
         /\ \A r \in Nodes : /\ IsTable(r, table[r]) /\ Heard(r) = HeardIn(r, table[r])
                             /\ Heard(r) \subseteq Nodes
BY DEF TypeOK, IsTable, Entries, Heard, HeardIn

(***************************************************************************)
(* A packet that is filed is heard of, besides what was heard of before.   *)
(***************************************************************************)
LEMMA RecordedHears ==
  ASSUME TypeOK, NEW r \in Nodes, NEW p \in Packets, Neighbors(r) # {}, HasUpdate(r, p)
  PROVE  /\ IsTable(r, Recorded(r, p))
         /\ HeardIn(r, Recorded(r, p)) = Heard(r) \cup {p.origin}
<1>1. /\ links \in Topologies /\ IsTable(r, table[r]) /\ Heard(r) = HeardIn(r, table[r])
  BY TablesAre
<1>2. /\ p.origin \in Nodes /\ p.seq \in Nat /\ p.seq >= 1 /\ p.entries \in Seq(Link)
      /\ p # NoPacket
  BY <1>1, PacketsAre
<1>3. PICK tab : tab = Recorded(r, p)
  OBVIOUS
<1>4. p.origin # r
  BY DEF HasUpdate
<1>5. /\ DOMAIN tab = DOMAIN table[r] \cup {p.origin}
      /\ \A d \in DOMAIN table[r] : d # p.origin => tab[d] = table[r][d]
      /\ tab[p.origin] = IF p.origin \in DOMAIN table[r]
                         THEN [table[r][p.origin] EXCEPT !.packet = p]
                         ELSE [gateway |-> ZeroGateway(r), cost |-> -1, packet |-> p]
  BY <1>3 DEF Recorded, WithEntry
<1>6. tab[p.origin] \in Entries(r) /\ tab[p.origin].packet = p
  <2>1. CASE p.origin \in DOMAIN table[r]
    <3>1. table[r][p.origin] \in Entries(r)
      BY <1>1, <2>1 DEF IsTable
    <3> QED BY <1>5, <2>1, <3>1 DEF Entries
  <2>2. CASE p.origin \notin DOMAIN table[r]
    <3>1. ZeroGateway(r) \in Neighbors(r)
      <4>1. links[r] \in Seq(Link) /\ \A l \in LinksOf(r) : l.dest \in Neighbors(r)
        BY <1>1, LinksAre
      <4>2. links[r] # <<>>
        BY <4>1 DEF Neighbors, NeighborsIn, LinksIn
      <4>3. Head(links[r]) = links[r][1] /\ 1 \in 1 .. Len(links[r])
        BY <4>1, <4>2
      <4>4. links[r][1] \in LinksOf(r)
        BY <4>3 DEF LinksOf, LinksIn
      <4> QED BY <4>1, <4>3, <4>4 DEF ZeroGateway
    <3> QED BY <1>5, <2>2, <3>1 DEF Entries
  <2> QED BY <2>1, <2>2
<1>7. IsTable(r, tab)
  BY <1>1, <1>2, <1>4, <1>5, <1>6 DEF IsTable
<1>8. HeardIn(r, tab) = Heard(r) \cup {p.origin}
  BY <1>1, <1>2, <1>5, <1>6 DEF HeardIn
<1> QED BY <1>3, <1>7, <1>8

(***************************************************************************)
(* A packet that is read is heard of after it, and what was heard of       *)
(* before still is; nothing else is.                                       *)
(***************************************************************************)
LEMMA UpdatedHears ==
  ASSUME TypeOK, NEW r \in Nodes, NEW p \in Packets, Neighbors(r) # {}
  PROVE  /\ IsTable(r, Updated(r, p))
         /\ HeardIn(r, Updated(r, p)) = Heard(r) \cup {p.origin}
<1>1. /\ links \in Topologies /\ IsTable(r, table[r]) /\ Heard(r) = HeardIn(r, table[r])
  BY TablesAre
<1>2. /\ p.origin \in Nodes /\ p.seq \in Nat /\ p.seq >= 1 /\ p.entries \in Seq(Link)
      /\ p # NoPacket
  BY <1>1, PacketsAre
<1>3. CASE HasUpdate(r, p)
  <2>1. PICK tab : tab = Recorded(r, p)
    OBVIOUS
  <2>2. IsTable(r, tab) /\ HeardIn(r, tab) = Heard(r) \cup {p.origin}
    BY <1>3, <2>1, RecordedHears
  <2>3. PICK new : new = Recomputed(r, tab)
    OBVIOUS
  <2>4. IsTable(r, new) /\ Keeps(tab, new)
    BY <1>1, <2>2, <2>3, RecomputedKeeps
  <2>5. HeardIn(r, new) = HeardIn(r, tab)
    BY <2>4 DEF HeardIn, Keeps
  <2>6. Updated(r, p) = new
    BY <1>3, <2>1, <2>3 DEF Updated
  <2> QED BY <2>2, <2>4, <2>5, <2>6
<1>4. CASE ~HasUpdate(r, p)
  <2>1. p.origin \in Heard(r)
    <3> SUFFICES ASSUME p.origin # r PROVE p.origin \in Heard(r)
      BY DEF Heard
    <3>1. p.origin \in DOMAIN table[r] /\ ~packet_has_update(table[r][p.origin].packet, p)
      BY <1>4 DEF HasUpdate
    <3>2. packet_has_update(NoPacket, p)
      <4>1. NoPacket.seq = 0 /\ NoPacket.entries = <<>>
        BY DEF NoPacket
      <4>2. p.entries = <<>> \/ Len(p.entries) # Len(<<>>)
        BY <1>2
      <4> QED BY <1>2, <4>1, <4>2 DEF packet_has_update
    <3> QED BY <3>1, <3>2 DEF Heard
  <2>2. Updated(r, p) = table[r]
    BY <1>4 DEF Updated
  <2> QED BY <1>1, <2>1, <2>2
<1> QED BY <1>3, <1>4
-----------------------------------------------------------------------------
(***************************************************************************)
(* What is on a connection after a packet was added to it, or not, and     *)
(* after the first was taken from it.                                      *)
(***************************************************************************)
LEMMA SentAdds ==
  ASSUME NEW D, NEW row \in [D -> Seq(Packets)], NEW p \in Packets, NEW S
  PROVE  /\ Sent(row, p, S) \in [D -> Seq(Packets)]
         /\ \A m \in D \ S : Sent(row, p, S)[m] = row[m]
         /\ \A m \in D \cap S : Sent(row, p, S)[m] = Append(row[m], p)
BY DEF Sent

(***************************************************************************)
(* t has what s has, and e or nothing more; s has what t has, and e or     *)
(* nothing more.                                                           *)
(***************************************************************************)
Within(s, t, e) ==
  \A i \in 1 .. Len(s) : s[i] = e \/ \E j \in 1 .. Len(t) : t[j] = s[i]
Has(s, e) == \E j \in 1 .. Len(s) : s[j] = e
Adds(s, t, e) == Within(t, s, e) /\ Has(t, e) /\ \A i \in 1 .. Len(s) : Has(t, s[i])
Drops(s, t, e) == Within(s, t, e) /\ Has(s, e) /\ \A i \in 1 .. Len(t) : Has(s, t[i])

(***************************************************************************)
(* A sequence with an element more has what it had, and that one.          *)
(***************************************************************************)
LEMMA Appended ==
  ASSUME NEW T, NEW s \in Seq(T), NEW e \in T
  PROVE  Append(s, e) \in Seq(T) /\ Adds(s, Append(s, e), e)
<1>1. /\ Append(s, e) \in Seq(T) /\ Len(s) \in Nat /\ Len(Append(s, e)) = Len(s) + 1
      /\ Append(s, e)[Len(s) + 1] = e
  OBVIOUS
<1>2. \A i \in 1 .. Len(s) : Append(s, e)[i] = s[i]
  OBVIOUS
<1> HIDE DEF Append
<1>3. ASSUME NEW j \in 1 .. Len(Append(s, e))
      PROVE  Append(s, e)[j] = e \/ \E i \in 1 .. Len(s) : Append(s, e)[j] = s[i]
  BY <1>1, <1>2
<1>4. ASSUME NEW i \in 1 .. Len(s)
      PROVE  \E j \in 1 .. Len(Append(s, e)) : Append(s, e)[j] = s[i]
  <2>1. i \in 1 .. Len(Append(s, e))
    BY <1>1
  <2> QED BY <1>2, <2>1
<1>5. Len(s) + 1 \in 1 .. Len(Append(s, e))
  BY <1>1
<1> QED BY <1>1, <1>3, <1>4, <1>5 DEF Adds, Within, Has

(***************************************************************************)
(* A sequence without its first element has the others.                    *)
(***************************************************************************)
LEMMA TailHas ==
  ASSUME NEW T, NEW s \in Seq(T), s # <<>>
  PROVE  Head(s) \in T /\ Tail(s) \in Seq(T) /\ Drops(s, Tail(s), Head(s))
<1>1. /\ Head(s) \in T /\ Tail(s) \in Seq(T) /\ Head(s) = s[1] /\ Len(s) \in Nat /\ Len(s) >= 1
      /\ Len(Tail(s)) = Len(s) - 1
  OBVIOUS
<1>2. \A j \in 1 .. Len(s) - 1 : Tail(s)[j] = s[j + 1]
  OBVIOUS
<1>3. ASSUME NEW j \in 1 .. Len(Tail(s)) PROVE \E i \in 1 .. Len(s) : Tail(s)[j] = s[i]
  <2>1. j \in 1 .. Len(s) - 1 /\ j + 1 \in 1 .. Len(s)
    BY <1>1
  <2> QED BY <1>2, <2>1
<1>4. ASSUME NEW i \in 1 .. Len(s), i # 1
      PROVE  \E j \in 1 .. Len(Tail(s)) : Tail(s)[j] = s[i]
  <2>1. i - 1 \in 1 .. Len(s) - 1 /\ (i - 1) + 1 = i /\ i - 1 \in 1 .. Len(Tail(s))
    BY <1>1, <1>4
  <2>2. Tail(s)[i - 1] = s[i]
    BY <1>2, <2>1
  <2> QED BY <2>1, <2>2
<1>5. 1 \in 1 .. Len(s)
  BY <1>1
<1> QED BY <1>1, <1>3, <1>4, <1>5 DEF Drops, Within, Has

(***************************************************************************)
(* broadcast_packet keeps the invariant: what r sends is its own.          *)
(***************************************************************************)
LEMMA BroadcastKeeps ==
  ASSUME RouterInv, NEW r \in Nodes, broadcast_packet(r)
  PROVE  RouterInv'
<1>1. /\ links \in Topologies /\ links' = links /\ table' = table /\ up' = up
      /\ \A a \in Nodes : Heard(a)' = Heard(a) /\ Neighbors(a)' = Neighbors(a)
      /\ Packets' = Packets
  BY DEF broadcast_packet, RouterInv, TypeOK, Heard, Neighbors, Packets, Packet
<1>2. PICK p : p = Packet(r, seqnum'[r])
  OBVIOUS
<1>3. /\ seqnum \in [Nodes -> 0 .. MaxSeq[links]] /\ MaxSeq[links] \in Nat
      /\ seqnum' = [seqnum EXCEPT ![r] = @ + 1] /\ seqnum[r] < MaxSeq[links]
      /\ chan' = [chan EXCEPT ![r] = Sent(@, p, Neighbors(r))]
  BY <1>2, LinkStateConstants DEF broadcast_packet, RouterInv, TypeOK
<1>4. seqnum' \in [Nodes -> 0 .. MaxSeq[links]] /\ seqnum'[r] \in 1 .. MaxSeq[links]
  BY <1>3
<1>5. p \in Packets /\ p.origin = r
  BY <1>2, <1>4 DEF Packets, Packet
<1>6. \A a \in Nodes : chan[a] \in [Neighbors(a) -> Seq(Packets)]
  BY DEF RouterInv, TypeOK
<1>7. PICK row : row = Sent(chan[r], p, Neighbors(r))
  OBVIOUS
<1>8. /\ row \in [Neighbors(r) -> Seq(Packets)]
      /\ \A m \in Neighbors(r) : row[m] = Append(chan[r][m], p)
  BY <1>5, <1>6, <1>7, SentAdds
<1>9. /\ DOMAIN chan' = Nodes /\ chan' = [a \in Nodes |-> chan'[a]] /\ chan'[r] = row
      /\ \A a \in Nodes \ {r} : chan'[a] = chan[a]
  BY <1>3, <1>7 DEF RouterInv, Shape
<1>10. ASSUME NEW m \in Neighbors(r) PROVE Adds(chan[r][m], chan'[r][m], p)
  <2>1. chan[r][m] \in Seq(Packets) /\ chan'[r][m] = Append(chan[r][m], p)
    BY <1>6, <1>8, <1>9
  <2> QED BY <1>5, <2>1, Appended
<1>11. ASSUME NEW m \in Neighbors(r), NEW o, InTransit(r, m, o) PROVE InTransit(r, m, o)'
  BY <1>10, <1>11 DEF InTransit, Adds, Has
<1>12. ASSUME NEW m \in Neighbors(r) PROVE InTransit(r, m, r)'
  BY <1>5, <1>10 DEF InTransit, Adds, Has
<1>13. ASSUME NEW a \in Nodes \ {r}, NEW m \in Neighbors(a), NEW o
       PROVE  InTransit(a, m, o)' <=> InTransit(a, m, o)
  BY <1>9 DEF InTransit
<1>14. TypeOK'
  <2>1. \A a \in Nodes : chan'[a] \in [Neighbors(a) -> Seq(Packets)]
    BY <1>6, <1>8, <1>9
  <2> QED BY <1>1, <1>4, <2>1 DEF TypeOK, RouterInv
<1>15. SentIsHeard'
  <2> SUFFICES ASSUME NEW a \in Nodes, NEW m \in Neighbors(a), NEW i \in 1 .. Len(chan'[a][m])
               PROVE  chan'[a][m][i].origin \in Heard(a)
    BY <1>1 DEF SentIsHeard
  <2>1. CASE a = r
    BY <1>5, <1>10, <2>1 DEF RouterInv, SentIsHeard, Heard, Adds, Within
  <2>2. CASE a # r
    BY <1>9, <2>2 DEF RouterInv, SentIsHeard
  <2> QED BY <2>1, <2>2
<1>16. ASSUME NEW a \in Nodes, NEW m \in Neighbors(a) PROVE Floods(a, m)'
  <2>1. Floods(a, m)
    BY DEF RouterInv
  <2>2. m \in Nodes
    BY <1>1, LinksAre
  <2>3. CASE a = r
    BY <1>1, <1>11, <1>12, <2>1, <2>2, <2>3 DEF Floods
  <2>4. CASE a # r
    <3>1. seqnum'[a] = seqnum[a]
      BY <1>3, <2>4
    <3> QED BY <1>1, <1>13, <2>1, <2>2, <2>4, <3>1 DEF Floods
  <2> QED BY <2>3, <2>4
<1>17. Shape'
  BY <1>1, <1>9 DEF RouterInv, Shape
<1> QED BY <1>1, <1>14, <1>15, <1>16, <1>17 DEF RouterInv

(***************************************************************************)
(* read_packet keeps the invariant: what r has heard of, it has forwarded, *)
(* or it was told by the neighbor itself.                                  *)
(***************************************************************************)
LEMMA ReadKeeps ==
  ASSUME RouterInv, NEW r \in Nodes, NEW m \in Neighbors(r), read_packet(r, m)
  PROVE  RouterInv'
<1>1. /\ links \in Topologies /\ links' = links /\ seqnum' = seqnum /\ up' = up
      /\ \A a \in Nodes : Neighbors(a)' = Neighbors(a)
      /\ Packets' = Packets
  BY DEF read_packet, RouterInv, TypeOK, Neighbors, Packets, Packet
<1>2. /\ m \in Nodes /\ r \in Neighbors(m) /\ m # r
      /\ \A a \in Nodes : Neighbors(a) \subseteq Nodes /\ a \notin Neighbors(a)
  BY <1>1, LinksAre
<1>3. \A a \in Nodes : chan[a] \in [Neighbors(a) -> Seq(Packets)]
  BY DEF RouterInv, TypeOK
<1>4. PICK p, forward : /\ p = Head(chan[m][r])
                        /\ forward = IF HasUpdate(r, p) THEN Neighbors(r) \ {m} ELSE {}
  OBVIOUS
<1>5. /\ chan[m][r] # <<>>
      /\ chan' = [chan EXCEPT ![m][r] = Tail(@), ![r] = Sent(@, p, forward)]
      /\ table' = [table EXCEPT ![r] = Updated(r, p)]
  BY <1>4 DEF read_packet, update_routing_table, Updated
<1>6. p \in Packets /\ Tail(chan[m][r]) \in Seq(Packets) /\ Drops(chan[m][r], Tail(chan[m][r]), p)
  <2>1. chan[m][r] \in Seq(Packets)
    BY <1>2, <1>3
  <2> QED BY <1>4, <1>5, <2>1, TailHas
<1>7. PICK row : row = Sent(chan[r], p, forward)
  OBVIOUS
<1>8. /\ row \in [Neighbors(r) -> Seq(Packets)]
      /\ \A b \in Neighbors(r) \ forward : row[b] = chan[r][b]
      /\ \A b \in Neighbors(r) \cap forward : row[b] = Append(chan[r][b], p)
  <2>1. chan[r] \in [Neighbors(r) -> Seq(Packets)]
    BY <1>3
  <2> QED BY <1>6, <1>7, <2>1, SentAdds
<1>9. /\ DOMAIN chan' = Nodes /\ chan' = [a \in Nodes |-> chan'[a]] /\ chan'[r] = row
      /\ chan'[m] = [chan[m] EXCEPT ![r] = Tail(@)]
      /\ \A a \in Nodes \ {r, m} : chan'[a] = chan[a]
  BY <1>2, <1>5, <1>7 DEF RouterInv, Shape
<1>10. /\ chan'[m] \in [Neighbors(m) -> Seq(Packets)] /\ chan'[m][r] = Tail(chan[m][r])
       /\ \A b \in Neighbors(m) \ {r} : chan'[m][b] = chan[m][b]
  BY <1>2, <1>3, <1>6, <1>9
<1>11. /\ DOMAIN table' = Nodes /\ table' = [a \in Nodes |-> table'[a]]
       /\ table'[r] = Updated(r, p) /\ \A a \in Nodes \ {r} : table'[a] = table[a]
  BY <1>5 DEF RouterInv, Shape
<1>12. /\ IsTable(r, Updated(r, p)) /\ HeardIn(r, Updated(r, p)) = Heard(r) \cup {p.origin}
       /\ ~HasUpdate(r, p) => HeardIn(r, Updated(r, p)) = Heard(r)
  <2>1. /\ IsTable(r, Updated(r, p)) /\ HeardIn(r, Updated(r, p)) = Heard(r) \cup {p.origin}
    BY <1>6, UpdatedHears DEF RouterInv
  <2>2. ~HasUpdate(r, p) => HeardIn(r, Updated(r, p)) = Heard(r)
    BY TablesAre DEF Updated, RouterInv
  <2> QED BY <2>1, <2>2
<1>13. /\ Heard(r)' = Heard(r) \cup {p.origin} /\ (~HasUpdate(r, p) => Heard(r)' = Heard(r))
       /\ \A a \in Nodes \ {r} : Heard(a)' = Heard(a)
  <2>1. Heard(r)' = HeardIn(r, Updated(r, p))
    BY <1>11 DEF Heard, HeardIn
  <2>2. \A a \in Nodes \ {r} : Heard(a)' = Heard(a)
    BY <1>11 DEF Heard
  <2> QED BY <1>12, <2>1, <2>2
<1>14. p.origin \in Heard(m)
  <2>1. \E i \in 1 .. Len(chan[m][r]) : chan[m][r][i] = p
    BY <1>6 DEF Drops, Has
  <2> QED BY <1>2, <2>1 DEF RouterInv, SentIsHeard
<1>15. ASSUME NEW b \in forward, b \in Neighbors(r) PROVE Adds(chan[r][b], chan'[r][b], p)
  <2>1. chan[r][b] \in Seq(Packets) /\ chan'[r][b] = Append(chan[r][b], p)
    BY <1>3, <1>8, <1>9, <1>15
  <2> QED BY <1>6, <2>1, Appended
<1>16. Drops(chan[m][r], chan'[m][r], p)
  BY <1>6, <1>10
<1>17. forward \subseteq Neighbors(r)
  BY <1>4
<1>18. ASSUME NEW a \in Nodes, NEW b \in Neighbors(a), ~(a = r /\ b \in forward), ~(a = m /\ b = r)
       PROVE  chan'[a][b] = chan[a][b]
  BY <1>2, <1>8, <1>9, <1>10, <1>18
<1>19. ASSUME NEW a \in Nodes, NEW b \in Neighbors(a), NEW o, InTransit(a, b, o)
       PROVE  InTransit(a, b, o)' \/ (b = r /\ o = p.origin)
  <2>1. CASE a = r /\ b \in forward
    BY <1>15, <1>19, <2>1 DEF InTransit, Adds, Has
  <2>2. CASE a = m /\ b = r
    BY <1>16, <1>19, <2>2 DEF InTransit, Drops, Within
  <2>3. CASE ~(a = r /\ b \in forward) /\ ~(a = m /\ b = r)
    BY <1>18, <1>19, <2>3 DEF InTransit
  <2> QED BY <2>1, <2>2, <2>3
<1>20. ASSUME NEW b \in forward PROVE InTransit(r, b, p.origin)'
  BY <1>15, <1>17 DEF InTransit, Adds, Has
<1>21. SentIsHeard'
  <2> SUFFICES ASSUME NEW a \in Nodes, NEW b \in Neighbors(a), NEW i \in 1 .. Len(chan'[a][b])
               PROVE  chan'[a][b][i].origin \in Heard(a)'
    BY <1>1 DEF SentIsHeard
  <2>1. Heard(a) \subseteq Heard(a)'
    BY <1>13
  <2>2. \A j \in 1 .. Len(chan[a][b]) : chan[a][b][j].origin \in Heard(a)
    BY DEF RouterInv, SentIsHeard
  <2>3. CASE a = r /\ b \in forward
    <3>1. chan'[a][b][i] = p \/ \E j \in 1 .. Len(chan[a][b]) : chan[a][b][j] = chan'[a][b][i]
      BY <1>15, <2>3 DEF Adds, Within
    <3>2. p.origin \in Heard(a)'
      BY <1>13, <2>3
    <3> QED BY <2>1, <2>2, <3>1, <3>2
  <2>4. CASE a = m /\ b = r
    <3>1. \E j \in 1 .. Len(chan[a][b]) : chan[a][b][j] = chan'[a][b][i]
      BY <1>16, <2>4 DEF Drops, Has
    <3> QED BY <2>1, <2>2, <3>1
  <2>5. CASE ~(a = r /\ b \in forward) /\ ~(a = m /\ b = r)
    BY <1>18, <2>1, <2>2, <2>5
  <2> QED BY <2>3, <2>4, <2>5
<1>22. ASSUME NEW a \in Nodes, NEW b \in Neighbors(a) PROVE Floods(a, b)'
  <2>1. b \in Nodes /\ Heard(b) \subseteq Heard(b)' /\ Floods(a, b)
    BY <1>2, <1>13 DEF RouterInv
  <2>2. ASSUME NEW o, o \in Heard(b) \/ InTransit(a, b, o)
        PROVE  o \in Heard(b)' \/ InTransit(a, b, o)'
    BY <1>13, <1>19, <2>1, <2>2
  <2>3. seqnum'[a] > 0 => a \in Heard(b)' \/ InTransit(a, b, a)'
    BY <1>1, <2>1, <2>2 DEF Floods
  <2>4. ASSUME NEW o \in Heard(a)' \ {a, b} PROVE o \in Heard(b)' \/ InTransit(a, b, o)'
    <3>1. CASE o \in Heard(a)
      BY <2>1, <2>2, <2>4, <3>1 DEF Floods
    <3>2. CASE o \notin Heard(a)
      <4>1. a = r /\ o = p.origin /\ HasUpdate(r, p)
        BY <1>13, <2>4, <3>2
      <4>2. CASE b = m
        BY <1>14, <2>1, <4>1, <4>2
      <4>3. CASE b # m
        BY <1>4, <1>20, <4>1, <4>3
      <4> QED BY <4>2, <4>3
    <3> QED BY <3>1, <3>2
  <2> QED BY <2>3, <2>4 DEF Floods
<1>23. TypeOK'
  <2>1. \A a \in Nodes : chan'[a] \in [Neighbors(a) -> Seq(Packets)]
    BY <1>3, <1>8, <1>9, <1>10
  <2>2. \A a \in Nodes : IsTable(a, table'[a])
    BY <1>11, <1>12, TablesAre DEF RouterInv
  <2> QED BY <1>1, <2>1, <2>2 DEF TypeOK, RouterInv, IsTable, Entries
<1>24. Shape'
  BY <1>9, <1>11 DEF Shape
<1> QED BY <1>1, <1>21, <1>22, <1>23, <1>24 DEF RouterInv

(***************************************************************************)
(* Every step keeps the invariant; an exit changes nothing of it.          *)
(***************************************************************************)
LEMMA RouterStep == RouterInv /\ [Next]_vars => RouterInv'
<1> SUFFICES ASSUME RouterInv, [Next]_vars PROVE RouterInv'
  OBVIOUS
<1>1. ASSUME NEW r \in Nodes, broadcast_packet(r) PROVE RouterInv'
  BY <1>1, BroadcastKeeps
<1>2. ASSUME NEW r \in Nodes, NEW m \in Neighbors(r), read_packet(r, m) PROVE RouterInv'
  BY <1>2, ReadKeeps
<1>3. ASSUME UNCHANGED <<links, table, seqnum, chan>>, up' \subseteq up PROVE RouterInv'
  <2>1. TypeOK' /\ Shape'
    BY <1>3 DEF RouterInv, TypeOK, Shape, Neighbors, Packets, Packet
  <2>2. /\ \A a : Heard(a)' = Heard(a) /\ Neighbors(a)' = Neighbors(a)
        /\ \A a, b, o : InTransit(a, b, o)' <=> InTransit(a, b, o)
    BY <1>3 DEF Heard, Neighbors, InTransit
  <2>3. SentIsHeard'
    BY <1>3, <2>2 DEF RouterInv, SentIsHeard
  <2>4. \A a, b : Floods(a, b)' <=> Floods(a, b)
    BY <1>3, <2>2 DEF Floods
  <2> QED BY <2>1, <2>2, <2>3, <2>4 DEF RouterInv
<1>4. ASSUME NEW r \in Nodes, Interrupt(r) \/ close_router(r) PROVE RouterInv'
  BY <1>3, <1>4 DEF Interrupt, close_router
<1>5. CASE UNCHANGED vars
  BY <1>3, <1>5 DEF vars
<1> QED BY <1>1, <1>2, <1>4, <1>5 DEF Next

(***************************************************************************)
(* Routers start with empty tables and nothing on their connections.       *)
(***************************************************************************)
LEMMA RouterInit == Init => RouterInv
<1> SUFFICES ASSUME Init PROVE RouterInv
  OBVIOUS
<1>1. /\ links \in Topologies /\ MaxSeq[links] \in Nat
      /\ seqnum = [r \in Nodes |-> 0] /\ up = Nodes
      /\ \A r \in Nodes : table[r] = <<>> /\ chan[r] = [m \in Neighbors(r) |-> <<>>]
  BY LinkStateConstants DEF Init
<1>2. Shape
  BY DEF Init, Shape
<1>3. ASSUME NEW r \in Nodes
      PROVE  /\ chan[r] \in [Neighbors(r) -> Seq(Packets)]
             /\ \A m \in Neighbors(r) : 1 .. Len(chan[r][m]) = {}
  <2>1. <<>> \in Seq(Packets) /\ 1 .. Len(<<>>) = {}
    OBVIOUS
  <2>2. chan[r] = [m \in Neighbors(r) |-> <<>>]
    BY <1>1
  <2> QED BY <2>1, <2>2
<1>4. DOMAIN <<>> = {} /\ Len(<<>>) = 0
  OBVIOUS
<1>5. TypeOK
  <2>1. seqnum \in [Nodes -> 0 .. MaxSeq[links]]
    BY <1>1
  <2> QED BY <1>1, <1>3, <1>4, <2>1 DEF TypeOK
<1>6. \A r \in Nodes : \A m \in Neighbors(r) : 1 .. Len(chan[r][m]) = {}
  BY <1>3
<1>7. SentIsHeard
  BY <1>6 DEF SentIsHeard
<1>8. \A r \in Nodes : Heard(r) = {r}
  BY <1>1, <1>4 DEF Heard
<1>9. \A r \in Nodes : \A m \in Neighbors(r) : Floods(r, m)
  BY <1>1, <1>8 DEF Floods
<1> QED BY <1>2, <1>5, <1>7, <1>9 DEF RouterInv
-----------------------------------------------------------------------------
(***************************************************************************)
(* The invariant holds, for every network: tables and packets are what     *)
(* they should be, only what was heard of is forwarded, and a neighbor has *)
(* heard of everything a router has heard of, or will.                     *)
(***************************************************************************)
THEOREM RoutersConsistent == Spec => []RouterInv
BY RouterInit, RouterStep, PTL DEF Spec

(***************************************************************************)
(* TypeOK: update_routing_table keeps an entry for each of some other      *)
(* routers, with a neighbor as its gateway, though its loop adds entries   *)
(* for routers nobody has heard from.                                      *)
(***************************************************************************)
THEOREM RouterTypeCorrect == Spec => []TypeOK
<1>1. RouterInv => TypeOK
  BY DEF RouterInv
<1> QED BY <1>1, RoutersConsistent, PTL

(***************************************************************************)
(* FloodReaches: although read_packet forwards a packet only if it brings  *)
(* news and never to where it came from, what one router holds is held by, *)
(* or on its way to, each of its neighbors, in every network.              *)
(***************************************************************************)
THEOREM FloodLeavesNobodyOut == Spec => []FloodReaches
<1>1. RouterInv => FloodReaches
  BY DEF RouterInv, FloodReaches, Floods
<1> QED BY <1>1, RoutersConsistent, PTL
-----------------------------------------------------------------------------
(***************************************************************************)
(* Paths.  Over the links of the nodes in S, p leads from a to d by n      *)
(* routers, none of them twice.                                            *)
(***************************************************************************)
Path(t, S, a, d, n, p) ==
  /\ n \in Nat /\ n >= 1 /\ p \in [1 .. n -> Nodes]
  /\ \A i, j \in 1 .. n : p[i] = p[j] => i = j
  /\ p[1] = a /\ p[n] = d
  /\ \A i \in 1 .. n - 1 : p[i] \in S /\ p[i + 1] \in NeighborsIn(t, p[i])

\* The cost of the first k routers of p is f[k].
Sums(t, n, p, f) ==
  f[1] = 0 /\ \A k \in 2 .. n : f[k] = f[k - 1] + LinkCost(t, p[k - 1], p[k])

\* The same, as PathCost defines it.
SumsTo(t, p, f) ==
  f = [k \in 1 .. Len(p) |-> IF k = 1 THEN 0 ELSE f[k - 1] + LinkCost(t, p[k - 1], p[k])]

\* q is the m routers of p, of n, that follow its first s.
PartOf(n, p, s, m, q) ==
  s \in Nat /\ m \in Nat /\ m >= 1 /\ s + m <= n /\ \A i \in 1 .. m : q[i] = p[i + s]

(***************************************************************************)
(* No path has more routers than there are.                                *)
(***************************************************************************)
LEMMA PathBound ==
  ASSUME NEW t, NEW S, NEW a, NEW d, NEW n, NEW p, Path(t, S, a, d, n, p)
  PROVE  n <= Cardinality(Nodes)
<1>1. n \in Nat /\ n >= 1 /\ p \in [1 .. n -> Nodes] /\ \A i, j \in 1 .. n : p[i] = p[j] => i = j
  BY DEF Path
<1>2. IsFiniteSet(1 .. n) /\ Cardinality(1 .. n) = n
  BY <1>1, FS_Interval
<1>3. IsFiniteSet(Nodes) /\ Cardinality(Nodes) \in Nat
  BY LinkStateConstants, NodeCount
<1>4. ~(Cardinality(Nodes) < Cardinality(1 .. n))
  BY <1>1, <1>2, <1>3, FS_PigeonHole
<1> QED BY <1>1, <1>2, <1>3, <1>4

(***************************************************************************)
(* The paths that BestCost looks at.                                       *)
(***************************************************************************)
LEMMA PathsAre ==
  ASSUME NEW t, NEW S, NEW a, NEW d
  PROVE  /\ \A p \in PathsOver(t, a, d, S) : \E n : Path(t, S, a, d, n, p)
         /\ \A n, p : Path(t, S, a, d, n, p) => p \in PathsOver(t, a, d, S)
<1>1. ASSUME NEW p \in PathsOver(t, a, d, S) PROVE \E n : Path(t, S, a, d, n, p)
  <2>1. p \in SimplePaths
    BY DEF PathsOver
  <2>2. PICK n \in 1 .. Cardinality(Nodes) :
          p \in {q \in [1 .. n -> Nodes] : \A i, j \in 1 .. n : q[i] = q[j] => i = j}
    BY <2>1 DEF SimplePaths
  <2>3. n \in Nat /\ n >= 1 /\ p \in [1 .. n -> Nodes]
    BY <2>2, NodeCount
  <2>4. Len(p) = n
    BY <2>3
  <2> QED BY <2>2, <2>3, <2>4 DEF Path, PathsOver
<1>2. ASSUME NEW n, NEW p, Path(t, S, a, d, n, p) PROVE p \in PathsOver(t, a, d, S)
  <2>1. n \in Nat /\ n >= 1 /\ p \in [1 .. n -> Nodes]
    BY <1>2 DEF Path
  <2>2. Len(p) = n
    BY <2>1
  <2>3. n \in 1 .. Cardinality(Nodes)
    BY <1>2, <2>1, NodeCount, PathBound
  <2>4. p \in SimplePaths
    BY <1>2, <2>3 DEF SimplePaths, Path
  <2> QED BY <1>2, <2>2, <2>4 DEF Path, PathsOver
<1> QED BY <1>1, <1>2

(***************************************************************************)
(* Every path has a cost: there is no least number of routers for which    *)
(* there are no sums.                                                      *)
(***************************************************************************)
LEMMA SumsExist ==
  ASSUME NEW t, NEW p, NEW n \in Nat, n >= 1
  PROVE  \E f : f = [k \in 1 .. n |-> f[k]] /\ Sums(t, n, p, f)
<1> DEFINE Good(m) == \E f : f = [k \in 1 .. m |-> f[k]] /\ Sums(t, m, p, f)
           None == {m \in Nat : m >= 1 /\ ~Good(m)}
<1> SUFFICES ASSUME None # {} PROVE FALSE
  OBVIOUS
<1>1. PICK m \in None : \A k \in None : m <= k
  <2>1. None \subseteq Nat
    OBVIOUS
  <2> QED BY <2>1, LeastNumber
<1>2. m \in Nat /\ m >= 1 /\ ~Good(m)
  OBVIOUS
<1>3. CASE m = 1
  <2>1. PICK f : f = [k \in 1 .. 1 |-> 0]
    OBVIOUS
  <2>2. f = [k \in 1 .. 1 |-> f[k]] /\ f[1] = 0 /\ 2 .. 1 = {}
    BY <2>1
  <2>3. Sums(t, 1, p, f)
    BY <2>2 DEF Sums
  <2> QED BY <1>2, <1>3, <2>2, <2>3
<1>4. CASE m # 1
  <2>1. m - 1 \in Nat /\ m - 1 >= 1 /\ ~(m <= m - 1)
    BY <1>2, <1>4
  <2>2. Good(m - 1)
    <3>1. m - 1 \notin None
      BY <1>1, <2>1
    <3> QED BY <2>1, <3>1
  <2>3. PICK g : Sums(t, m - 1, p, g)
    BY <2>2
  <2>4. PICK f : f = [k \in 1 .. m |-> IF k = m THEN g[m - 1] + LinkCost(t, p[m - 1], p[m])
                                       ELSE g[k]]
    OBVIOUS
  <2>5. f = [k \in 1 .. m |-> f[k]]
    BY <2>4
  <2>6. \A k \in 1 .. m - 1 : f[k] = g[k]
    BY <1>2, <2>1, <2>4
  <2>7. f[1] = 0
    BY <2>1, <2>3, <2>6 DEF Sums
  <2>8. ASSUME NEW k \in 2 .. m PROVE f[k] = f[k - 1] + LinkCost(t, p[k - 1], p[k])
    <3>1. f[k - 1] = g[k - 1]
      BY <1>2, <2>6
    <3>2. CASE k = m
      BY <1>2, <2>4, <3>1, <3>2
    <3>3. CASE k # m
      <4>1. k \in 2 .. m - 1 /\ k \in 1 .. m - 1
        BY <1>2, <3>3
      <4> QED BY <2>3, <2>6, <3>1, <4>1 DEF Sums
    <3> QED BY <3>2, <3>3
  <2> QED BY <1>2, <2>5, <2>7, <2>8 DEF Sums
<1> QED BY <1>3, <1>4

(***************************************************************************)
(* PathCost is the last of the sums.                                       *)
(***************************************************************************)
LEMMA CostIs ==
  ASSUME NEW t, NEW n \in Nat, n >= 1, NEW p \in [1 .. n -> Nodes]
  PROVE  \E f : Sums(t, n, p, f) /\ PathCost(t, p) = f[n]
<1>1. Len(p) = n
  OBVIOUS
<1>2. PICK f : f = [k \in 1 .. n |-> f[k]] /\ Sums(t, n, p, f)
  BY SumsExist
<1>3. SumsTo(t, p, f)
  <2>1. ASSUME NEW k \in 1 .. n
        PROVE  f[k] = IF k = 1 THEN 0 ELSE f[k - 1] + LinkCost(t, p[k - 1], p[k])
    <3>1. CASE k = 1
      BY <1>2, <3>1 DEF Sums
    <3>2. CASE k # 1
      <4>1. k \in 2 .. n
        BY <3>2
      <4> QED BY <1>2, <3>2, <4>1 DEF Sums
    <3> QED BY <3>1, <3>2
  <2> QED BY <1>1, <1>2, <2>1 DEF SumsTo
<1> DEFINE F == CHOOSE g : SumsTo(t, p, g)
<1>4. SumsTo(t, p, F)
  BY <1>3
<1>5. PathCost(t, p) = F[Len(p)]
  BY DEF PathCost, SumsTo
<1> HIDE DEF F
<1>6. Sums(t, n, p, F)
  <2>1. F[1] = 0
    BY <1>1, <1>4 DEF SumsTo
  <2>2. ASSUME NEW k \in 2 .. n PROVE F[k] = F[k - 1] + LinkCost(t, p[k - 1], p[k])
    <3>1. k \in 1 .. n /\ k # 1
      OBVIOUS
    <3> QED BY <1>1, <1>4, <3>1 DEF SumsTo
  <2> QED BY <2>1, <2>2 DEF Sums
<1> QED BY <1>1, <1>5, <1>6

(***************************************************************************)
(* The cost of a link is that of the cheapest of its kind.                 *)
(***************************************************************************)
LEMMA LinkCostIs ==
  ASSUME NEW t \in Topologies, NEW a \in Nodes, NEW b \in NeighborsIn(t, a)
  PROVE  /\ LinkCost(t, a, b) \in Nat
         /\ \A l \in LinksIn(t, a) : l.dest = b => LinkCost(t, a, b) <= l.cost
         /\ \E l \in LinksIn(t, a) : l.dest = b /\ l.cost = LinkCost(t, a, b)
<1> DEFINE X == {x \in LinksIn(t, a) : x.dest = b}
           C == {l.cost : l \in X}
<1>1. LinksIn(t, a) \subseteq Link
  <2>1. t \in [Nodes -> Seq(Link)]
    BY LinkStateConstants DEF Link
  <2>2. t[a] \in Seq(Link)
    BY <2>1
  <2> QED BY <2>2 DEF LinksIn
<1>2. C \subseteq Nat /\ C # {}
  BY <1>1, LinkIs DEF NeighborsIn
<1>3. \E c \in C : \A l \in LinksIn(t, a) : l.dest = b => c <= l.cost
  <2>1. PICK c \in C : \A o \in C : c <= o
    <3> HIDE DEF C
    <3> QED BY <1>2, LeastNumber
  <2> QED BY <2>1
<1>4. /\ LinkCost(t, a, b) \in C
      /\ \A l \in LinksIn(t, a) : l.dest = b => LinkCost(t, a, b) <= l.cost
  BY <1>3 DEF LinkCost
<1> QED BY <1>2, <1>4

(***************************************************************************)
(* Along a path, every router is a router and every link has a cost.       *)
(***************************************************************************)
LEMMA PathLinks ==
  ASSUME NEW t \in Topologies, NEW S, NEW a, NEW d, NEW n, NEW p, Path(t, S, a, d, n, p),
         NEW k \in 2 .. n
  PROVE  /\ k - 1 \in 1 .. n /\ k \in 1 .. n /\ p[k - 1] \in S /\ p[k] \in NeighborsIn(t, p[k - 1])
         /\ LinkCost(t, p[k - 1], p[k]) \in Nat
<1>1. n \in Nat /\ p \in [1 .. n -> Nodes]
  BY DEF Path
<1>2. k - 1 \in 1 .. n - 1 /\ (k - 1) + 1 = k /\ k - 1 \in 1 .. n /\ k \in 1 .. n
  BY <1>1
<1>3. p[k - 1] \in S /\ p[k] \in NeighborsIn(t, p[k - 1])
  BY <1>2 DEF Path
<1>4. p[k - 1] \in Nodes
  BY <1>1, <1>2
<1> QED BY <1>2, <1>3, <1>4, LinkCostIs

(***************************************************************************)
(* The sums are numbers, and do not fall.                                  *)
(***************************************************************************)
LEMMA SumsGrow ==
  ASSUME NEW t \in Topologies, NEW S, NEW a, NEW d, NEW n, NEW p, Path(t, S, a, d, n, p),
         NEW f, Sums(t, n, p, f)
  PROVE  \A j \in 1 .. n : f[j] \in Nat /\ \A i \in 1 .. j : f[i] \in Nat /\ f[i] <= f[j]
<1> DEFINE Good(j) == f[j] \in Nat /\ \A i \in 1 .. j : f[i] \in Nat /\ f[i] <= f[j]
           Bad == {j \in 1 .. n : ~Good(j)}
<1> SUFFICES ASSUME Bad # {} PROVE FALSE
  OBVIOUS
<1>1. n \in Nat /\ n >= 1
  BY DEF Path
<1>2. PICK m \in Bad : \A k \in Bad : m <= k
  <2>1. Bad \subseteq Nat
    BY <1>1
  <2> QED BY <2>1, LeastNumber
<1>3. m \in 1 .. n /\ ~Good(m)
  OBVIOUS
<1>4. CASE m = 1
  <2>1. f[1] = 0
    BY DEF Sums
  <2>2. \A i \in 1 .. 1 : i = 1
    OBVIOUS
  <2> QED BY <1>3, <1>4, <2>1, <2>2
<1>5. CASE m # 1
  <2>1. m \in 2 .. n /\ m - 1 \in 1 .. n /\ ~(m <= m - 1)
    BY <1>1, <1>3, <1>5
  <2>2. Good(m - 1)
    <3>1. m - 1 \notin Bad
      <4> HIDE DEF Bad
      <4> QED BY <1>2, <2>1
    <3> QED BY <2>1, <3>1
  <2>3. f[m] = f[m - 1] + LinkCost(t, p[m - 1], p[m]) /\ LinkCost(t, p[m - 1], p[m]) \in Nat
    BY <2>1, PathLinks DEF Sums
  <2>4. f[m] \in Nat /\ f[m - 1] <= f[m] /\ f[m - 1] \in Nat
    BY <2>2, <2>3
  <2>5. ASSUME NEW i \in 1 .. m PROVE f[i] \in Nat /\ f[i] <= f[m]
    <3>1. CASE i = m
      BY <2>4, <3>1
    <3>2. CASE i # m
      <4>1. i \in 1 .. m - 1
        BY <1>1, <1>3, <3>2
      <4> QED BY <2>2, <2>4, <4>1
    <3> QED BY <3>1, <3>2
  <2> QED BY <1>3, <2>4, <2>5
<1> QED BY <1>4, <1>5

(***************************************************************************)
(* The sums of a part of a path are those of the path, less where it       *)
(* begins.                                                                 *)
(***************************************************************************)
LEMMA SumsOfPart ==
  ASSUME NEW t \in Topologies, NEW S, NEW a, NEW d, NEW n, NEW p, Path(t, S, a, d, n, p),
         NEW f, Sums(t, n, p, f),
         NEW s, NEW m, NEW q, PartOf(n, p, s, m, q), NEW g, Sums(t, m, q, g)
  PROVE  \A k \in 1 .. m : g[k] \in Nat /\ g[k] + f[1 + s] = f[k + s]
<1>0. s \in Nat /\ m \in Nat /\ m >= 1 /\ s + m <= n /\ \A i \in 1 .. m : q[i] = p[i + s]
  BY DEF PartOf
<1> DEFINE Good(k) == g[k] \in Nat /\ g[k] + f[1 + s] = f[k + s]
           Bad == {k \in 1 .. m : ~Good(k)}
<1> SUFFICES ASSUME Bad # {} PROVE FALSE
  OBVIOUS
<1>1. n \in Nat /\ n >= 1
  BY DEF Path
<1>2. PICK k \in Bad : \A j \in Bad : k <= j
  <2>1. Bad \subseteq Nat
    BY <1>0
  <2> QED BY <2>1, LeastNumber
<1>3. k \in 1 .. m /\ ~Good(k)
  OBVIOUS
<1>4. \A j \in 1 .. n : f[j] \in Nat
  BY SumsGrow
<1>5. 1 + s \in 1 .. n /\ k + s \in 1 .. n
  BY <1>0, <1>1, <1>3
<1>6. CASE k = 1
  <2>1. g[1] = 0
    BY DEF Sums
  <2>2. f[1 + s] \in Nat
    BY <1>4, <1>5
  <2> QED BY <1>0, <1>3, <1>6, <2>1, <2>2
<1>7. CASE k # 1
  <2>1. /\ k \in 2 .. m /\ k - 1 \in 1 .. m /\ ~(k <= k - 1)
        /\ k + s \in 2 .. n /\ (k - 1) + s = (k + s) - 1 /\ (k + s) - 1 \in 1 .. n
    BY <1>0, <1>1, <1>3, <1>7
  <2>2. Good(k - 1)
    <3>1. k - 1 \notin Bad
      <4> HIDE DEF Bad
      <4> QED BY <1>2, <2>1
    <3> QED BY <2>1, <3>1
  <2>3. g[k] = g[k - 1] + LinkCost(t, q[k - 1], q[k])
    BY <2>1 DEF Sums
  <2>4. q[k - 1] = p[(k + s) - 1] /\ q[k] = p[k + s]
    <3>1. q[k - 1] = p[(k - 1) + s]
      BY <1>0, <2>1
    <3> QED BY <1>0, <1>3, <2>1, <3>1
  <2>5. /\ f[k + s] = f[(k + s) - 1] + LinkCost(t, p[(k + s) - 1], p[k + s])
        /\ LinkCost(t, p[(k + s) - 1], p[k + s]) \in Nat
    BY <2>1, PathLinks DEF Sums
  <2>6. g[k - 1] \in Nat /\ g[k - 1] + f[1 + s] = f[(k + s) - 1] /\ f[1 + s] \in Nat
    BY <1>4, <1>5, <2>1, <2>2
  <2>7. PICK c : c = LinkCost(t, p[(k + s) - 1], p[k + s])
    OBVIOUS
  <2>8. g[k] = g[k - 1] + c /\ f[k + s] = f[(k + s) - 1] + c /\ c \in Nat
    BY <2>3, <2>4, <2>5, <2>7
  <2>9. g[k] \in Nat /\ g[k] + f[1 + s] = f[k + s]
    BY <2>6, <2>8
  <2> QED BY <1>3, <2>9
<1> QED BY <1>6, <1>7

(***************************************************************************)
(* A part of a path is a path, and costs no more.  Without its last or its *)
(* first router it costs less by that link.                                *)
(***************************************************************************)
LEMMA PartOfPath ==
  ASSUME NEW t \in Topologies, NEW S, NEW a, NEW d, NEW n, NEW p, Path(t, S, a, d, n, p),
         NEW s, NEW m, NEW q \in [1 .. m -> Nodes], PartOf(n, p, s, m, q)
  PROVE  /\ Path(t, S, p[1 + s], p[m + s], m, q)
         /\ PathCost(t, p) \in Nat /\ PathCost(t, q) \in Nat /\ PathCost(t, q) <= PathCost(t, p)
         /\ s = 0 /\ m < n => PathCost(t, q) + LinkCost(t, p[m], p[m + 1]) <= PathCost(t, p)
         /\ s = 0 /\ m + 1 = n => PathCost(t, p) = PathCost(t, q) + LinkCost(t, p[m], p[n])
         /\ s = 1 /\ m + 1 = n => PathCost(t, p) = LinkCost(t, p[1], p[2]) + PathCost(t, q)
<1>0. s \in Nat /\ m \in Nat /\ m >= 1 /\ s + m <= n /\ \A i \in 1 .. m : q[i] = p[i + s]
  BY DEF PartOf
<1>1. n \in Nat /\ n >= 1 /\ p \in [1 .. n -> Nodes] /\ \A i, j \in 1 .. n : p[i] = p[j] => i = j
  BY DEF Path
<1>2. Path(t, S, p[1 + s], p[m + s], m, q)
  <2>1. \A i \in 1 .. m : i + s \in 1 .. n
    BY <1>0, <1>1
  <2>2. ASSUME NEW i \in 1 .. m, NEW j \in 1 .. m, q[i] = q[j] PROVE i = j
    <3>1. i + s = j + s
      BY <1>0, <1>1, <2>1, <2>2
    <3> QED BY <1>0, <3>1
  <2>3. q[1] = p[1 + s] /\ q[m] = p[m + s]
    BY <1>0
  <2>4. ASSUME NEW i \in 1 .. m - 1 PROVE q[i] \in S /\ q[i + 1] \in NeighborsIn(t, q[i])
    <3>1. /\ i \in 1 .. m /\ i + 1 \in 1 .. m /\ i + s \in 1 .. n - 1
          /\ (i + 1) + s = (i + s) + 1
      BY <1>0, <1>1
    <3>2. q[i] = p[i + s] /\ q[i + 1] = p[(i + s) + 1]
      <4>1. q[i + 1] = p[(i + 1) + s]
        BY <1>0, <3>1
      <4> QED BY <1>0, <3>1, <4>1
    <3>3. p[i + s] \in S /\ p[(i + s) + 1] \in NeighborsIn(t, p[i + s])
      BY <3>1 DEF Path
    <3> QED BY <3>2, <3>3
  <2> QED BY <1>0, <2>2, <2>3, <2>4 DEF Path
<1>3. PICK f : Sums(t, n, p, f) /\ PathCost(t, p) = f[n]
  BY <1>1, CostIs
<1>4. PICK g : Sums(t, m, q, g) /\ PathCost(t, q) = g[m]
  BY <1>0, CostIs
<1>5. \A j \in 1 .. n : f[j] \in Nat /\ \A i \in 1 .. j : f[i] \in Nat /\ f[i] <= f[j]
  BY <1>3, SumsGrow
<1>6. /\ n \in 1 .. n /\ m + s \in 1 .. n /\ 1 + s \in 1 .. n /\ m \in 1 .. m /\ 1 \in 1 .. n
      /\ m + s \in 1 .. n
  BY <1>0, <1>1
<1>7. g[m] \in Nat /\ g[m] + f[1 + s] = f[m + s]
  BY <1>3, <1>4, <1>6, SumsOfPart
<1>8. f[n] \in Nat /\ f[m + s] \in Nat /\ f[1 + s] \in Nat /\ f[m + s] <= f[n] /\ f[1] = 0
  BY <1>3, <1>5, <1>6 DEF Sums
<1>9. \A k \in 2 .. n : /\ f[k] = f[k - 1] + LinkCost(t, p[k - 1], p[k])
                        /\ LinkCost(t, p[k - 1], p[k]) \in Nat
  BY <1>3, PathLinks DEF Sums
<1>10. ASSUME s = 0, m < n
       PROVE  /\ PathCost(t, q) + LinkCost(t, p[m], p[m + 1]) <= PathCost(t, p)
              /\ m + 1 = n => PathCost(t, p) = PathCost(t, q) + LinkCost(t, p[m], p[n])
  <2>1. m + 1 \in 2 .. n /\ (m + 1) - 1 = m /\ m + s = m /\ 1 + s = 1 /\ m + 1 \in 1 .. n
    BY <1>0, <1>1, <1>10
  <2>2. f[m + 1] = f[m] + LinkCost(t, p[m], p[m + 1])
    BY <1>9, <2>1
  <2>3. f[m + 1] <= f[n]
    BY <1>5, <1>6, <2>1
  <2>4. g[m] = f[m]
    BY <1>7, <1>8, <2>1
  <2> QED BY <1>3, <1>4, <2>2, <2>3, <2>4
<1>11. ASSUME s = 1, m + 1 = n
       PROVE  PathCost(t, p) = LinkCost(t, p[1], p[2]) + PathCost(t, q)
  <2>1. 2 \in 2 .. n /\ 2 - 1 = 1 /\ m + s = n /\ 1 + s = 2
    BY <1>0, <1>1, <1>11
  <2>2. f[2] = f[1] + LinkCost(t, p[1], p[2]) /\ LinkCost(t, p[1], p[2]) \in Nat
    BY <1>9, <2>1
  <2>3. g[m] + f[2] = f[n]
    BY <1>7, <2>1
  <2> QED BY <1>3, <1>4, <1>7, <1>8, <2>2, <2>3
<1>12. PathCost(t, p) \in Nat /\ PathCost(t, q) \in Nat /\ PathCost(t, q) <= PathCost(t, p)
  BY <1>3, <1>4, <1>7, <1>8
<1>13. s = 0 /\ m + 1 = n => m < n
  BY <1>0, <1>1
<1> QED BY <1>2, <1>10, <1>11, <1>12, <1>13

(***************************************************************************)
(* A path may be continued to a router that is not on it.                  *)
(***************************************************************************)
LEMMA PathOnward ==
  ASSUME NEW t \in Topologies, NEW S, NEW a, NEW d \in S, NEW n, NEW p, Path(t, S, a, d, n, p),
         NEW e \in Nodes, e \in NeighborsIn(t, d), \A i \in 1 .. n : p[i] # e
  PROVE  \E q : /\ Path(t, S, a, e, n + 1, q)
                /\ \A i \in 1 .. n : q[i] = p[i] /\ q[n + 1] = e
                /\ PathCost(t, q) = PathCost(t, p) + LinkCost(t, d, e)
<1>1. n \in Nat /\ n >= 1 /\ p \in [1 .. n -> Nodes] /\ \A i, j \in 1 .. n : p[i] = p[j] => i = j
  BY DEF Path
<1>2. PICK q : q = [i \in 1 .. n + 1 |-> IF i = n + 1 THEN e ELSE p[i]]
  OBVIOUS
<1>3. /\ q \in [1 .. n + 1 -> Nodes] /\ q[n + 1] = e /\ \A i \in 1 .. n : q[i] = p[i]
  <2>1. \A i \in 1 .. n + 1 : i = n + 1 \/ i \in 1 .. n
    BY <1>1
  <2>2. n + 1 \in 1 .. n + 1 /\ n + 1 \notin 1 .. n
    BY <1>1
  <2>3. \A i \in 1 .. n : i \in 1 .. n + 1 /\ i # n + 1
    BY <1>1
  <2> QED BY <1>1, <1>2, <2>1, <2>2, <2>3
<1>4. Path(t, S, a, e, n + 1, q)
  <2>1. \A i \in 1 .. n + 1 : i = n + 1 \/ i \in 1 .. n
    BY <1>1
  <2>2. ASSUME NEW i \in 1 .. n + 1, NEW j \in 1 .. n + 1, q[i] = q[j] PROVE i = j
    BY <1>1, <1>3, <2>1, <2>2
  <2>3. 1 \in 1 .. n /\ n \in 1 .. n /\ p[1] = a /\ p[n] = d
    BY <1>1 DEF Path
  <2>4. q[1] = a
    BY <1>3, <2>3
  <2>5. ASSUME NEW i \in 1 .. (n + 1) - 1
        PROVE  q[i] \in S /\ q[i + 1] \in NeighborsIn(t, q[i])
    <3>1. CASE i = n
      BY <1>3, <2>3, <3>1
    <3>2. CASE i # n
      <4>1. i \in 1 .. n - 1 /\ i \in 1 .. n /\ i + 1 \in 1 .. n
        BY <1>1, <3>2
      <4>2. p[i] \in S /\ p[i + 1] \in NeighborsIn(t, p[i])
        BY <4>1 DEF Path
      <4> QED BY <1>3, <4>1, <4>2
    <3> QED BY <3>1, <3>2
  <2>6. n + 1 \in Nat /\ n + 1 >= 1
    BY <1>1
  <2> QED BY <1>3, <2>2, <2>4, <2>5, <2>6 DEF Path
<1>5. PathCost(t, q) = PathCost(t, p) + LinkCost(t, q[n], q[n + 1])
  <2>1. PartOf(n + 1, q, 0, n, p) /\ n < n + 1
    BY <1>1, <1>3 DEF PartOf
  <2> QED BY <1>1, <1>4, <2>1, PartOfPath
<1>6. q[n] = d
  <2>1. n \in 1 .. n /\ p[n] = d
    BY <1>1 DEF Path
  <2> QED BY <1>3, <2>1
<1> QED BY <1>3, <1>4, <1>5, <1>6

(***************************************************************************)
(* A path may begin at a router before it that is not on it.               *)
(***************************************************************************)
LEMMA PathBefore ==
  ASSUME NEW t \in Topologies, NEW S, NEW a, NEW d, NEW n, NEW p, Path(t, S, a, d, n, p),
         NEW r \in Nodes, r \in S, a \in NeighborsIn(t, r), \A i \in 1 .. n : p[i] # r
  PROVE  \E q : /\ Path(t, S, r, d, n + 1, q)
                /\ q[1] = r /\ \A i \in 1 .. n : q[i + 1] = p[i]
                /\ PathCost(t, q) = LinkCost(t, r, a) + PathCost(t, p)
<1>1. n \in Nat /\ n >= 1 /\ p \in [1 .. n -> Nodes] /\ \A i, j \in 1 .. n : p[i] = p[j] => i = j
  BY DEF Path
<1>2. PICK q : q = [i \in 1 .. n + 1 |-> IF i = 1 THEN r ELSE p[i - 1]]
  OBVIOUS
<1>3. \A i \in 1 .. n + 1 : i = 1 \/ i - 1 \in 1 .. n
  BY <1>1
<1>4. /\ q \in [1 .. n + 1 -> Nodes] /\ q[1] = r
      /\ \A i \in 1 .. n + 1 : i # 1 => q[i] = p[i - 1]
  <2>1. 1 \in 1 .. n + 1
    BY <1>1
  <2> QED BY <1>1, <1>2, <1>3, <2>1
<1>5. \A i \in 1 .. n : q[i + 1] = p[i]
  <2>1. \A i \in 1 .. n : i + 1 \in 1 .. n + 1 /\ i + 1 # 1 /\ (i + 1) - 1 = i
    BY <1>1
  <2> QED BY <1>4, <2>1
<1>6. Path(t, S, r, d, n + 1, q)
  <2>1. ASSUME NEW i \in 1 .. n + 1, NEW j \in 1 .. n + 1, q[i] = q[j] PROVE i = j
    <3>1. CASE i = 1 \/ j = 1
      BY <1>3, <1>4, <2>1, <3>1
    <3>2. CASE i # 1 /\ j # 1
      <4>1. i - 1 = j - 1
        BY <1>1, <1>3, <1>4, <2>1, <3>2
      <4> QED BY <1>1, <4>1
    <3> QED BY <3>1, <3>2
  <2>2. 1 \in 1 .. n /\ n \in 1 .. n /\ p[1] = a /\ p[n] = d
    BY <1>1 DEF Path
  <2>3. q[n + 1] = d
    BY <1>5, <2>2
  <2>4. ASSUME NEW i \in 1 .. (n + 1) - 1
        PROVE  q[i] \in S /\ q[i + 1] \in NeighborsIn(t, q[i])
    <3>1. i \in 1 .. n /\ q[i + 1] = p[i]
      BY <1>1, <1>5
    <3>2. CASE i = 1
      BY <1>4, <2>2, <3>1, <3>2
    <3>3. CASE i # 1
      <4>1. i - 1 \in 1 .. n - 1 /\ (i - 1) + 1 = i /\ i \in 1 .. n + 1
        BY <1>1, <3>1, <3>3
      <4>2. p[i - 1] \in S /\ p[i] \in NeighborsIn(t, p[i - 1])
        BY <4>1 DEF Path
      <4>3. q[i] = p[i - 1]
        BY <1>4, <3>3, <4>1
      <4> QED BY <3>1, <4>2, <4>3
    <3> QED BY <3>2, <3>3
  <2>5. n + 1 \in Nat /\ n + 1 >= 1
    BY <1>1
  <2> QED BY <1>4, <2>1, <2>3, <2>4, <2>5 DEF Path
<1>7. PathCost(t, q) = LinkCost(t, q[1], q[2]) + PathCost(t, p)
  <2>1. PartOf(n + 1, q, 1, n, p)
    BY <1>1, <1>5 DEF PartOf
  <2> QED BY <1>1, <1>6, <2>1, PartOfPath
<1>8. q[2] = a
  <2>1. 1 \in 1 .. n /\ p[1] = a
    BY <1>1 DEF Path
  <2>2. q[1 + 1] = p[1]
    BY <1>5, <2>1
  <2> QED BY <2>1, <2>2
<1> QED BY <1>4, <1>5, <1>6, <1>7, <1>8

(***************************************************************************)
(* What a path costs, and what none costs less than.                       *)
(***************************************************************************)
Attains(t, S, a, d, c) == \E n, p : Path(t, S, a, d, n, p) /\ PathCost(t, p) = c
Bounds(t, S, a, d, c) == \A n, p : Path(t, S, a, d, n, p) => c <= PathCost(t, p)

(***************************************************************************)
(* The cost of a path is a number; that of a router on its own is 0.       *)
(***************************************************************************)
LEMMA PathCostIs ==
  ASSUME NEW t \in Topologies, NEW S, NEW a, NEW d, NEW n, NEW p, Path(t, S, a, d, n, p)
  PROVE  PathCost(t, p) \in Nat /\ (n = 1 => PathCost(t, p) = 0)
<1>1. n \in Nat /\ n >= 1 /\ p \in [1 .. n -> Nodes] /\ n \in 1 .. n
  BY DEF Path
<1>2. PICK f : Sums(t, n, p, f) /\ PathCost(t, p) = f[n]
  BY <1>1, CostIs
<1>3. f[n] \in Nat
  BY <1>1, <1>2, SumsGrow
<1>4. f[1] = 0
  BY <1>2 DEF Sums
<1> QED BY <1>2, <1>3, <1>4

(***************************************************************************)
(* BestCost is the cost of a path that none costs less than, or -1 where   *)
(* there is no path.                                                       *)
(***************************************************************************)
LEMMA BestIs ==
  ASSUME links \in Topologies, NEW a, NEW d, NEW S
  PROVE  \/ /\ BestCost(a, d, S) = -1
            /\ \A n, p : ~Path(links, S, a, d, n, p)
         \/ /\ BestCost(a, d, S) \in Nat
            /\ Attains(links, S, a, d, BestCost(a, d, S))
            /\ Bounds(links, S, a, d, BestCost(a, d, S))
<1> DEFINE C == {PathCost(links, p) : p \in PathsOver(links, a, d, S)}
<1>1. C \subseteq Nat
  <2> SUFFICES ASSUME NEW p \in PathsOver(links, a, d, S) PROVE PathCost(links, p) \in Nat
    OBVIOUS
  <2>1. PICK n : Path(links, S, a, d, n, p)
    BY PathsAre
  <2> QED BY <2>1, PathCostIs
<1>2. \A n, p : Path(links, S, a, d, n, p) => PathCost(links, p) \in C
  BY PathsAre
<1>3. \A c \in C : Attains(links, S, a, d, c)
  BY PathsAre DEF Attains
<1>4. BestCost(a, d, S) = IF C = {} THEN -1 ELSE CHOOSE c \in C : \A o \in C : c <= o
  BY DEF BestCost
<1> HIDE DEF C
<1>5. CASE C = {}
  BY <1>2, <1>4, <1>5
<1>6. CASE C # {}
  <2>1. \E c \in C : \A o \in C : c <= o
    BY <1>1, <1>6, LeastNumber
  <2>2. BestCost(a, d, S) \in C /\ \A o \in C : BestCost(a, d, S) <= o
    BY <1>4, <1>6, <2>1
  <2>3. Bounds(links, S, a, d, BestCost(a, d, S))
    BY <1>2, <2>2 DEF Bounds
  <2> QED BY <1>1, <1>3, <2>2, <2>3
<1> QED BY <1>5, <1>6

(***************************************************************************)
(* There is one such cost.                                                 *)
(***************************************************************************)
LEMMA BestOne ==
  ASSUME links \in Topologies, NEW a, NEW d, NEW S, NEW c,
         Attains(links, S, a, d, c), Bounds(links, S, a, d, c)
  PROVE  BestCost(a, d, S) = c
<1>1. PICK n, p : Path(links, S, a, d, n, p) /\ PathCost(links, p) = c
  BY DEF Attains
<1>2. c \in Nat
  BY <1>1, PathCostIs
<1>3. PICK b : b = BestCost(a, d, S)
  OBVIOUS
<1>4. b \in Nat /\ Attains(links, S, a, d, b) /\ Bounds(links, S, a, d, b)
  BY <1>1, <1>3, BestIs
<1>5. b <= c /\ c <= b
  BY <1>1, <1>4 DEF Attains, Bounds
<1> QED BY <1>2, <1>3, <1>4, <1>5

(***************************************************************************)
(* Hearing of more routers makes a best path no worse.                     *)
(***************************************************************************)
LEMMA BestFalls ==
  ASSUME links \in Topologies, NEW a, NEW d, NEW S, NEW T, S \subseteq T
  PROVE  /\ BestCost(a, d, S) # -1 => BestCost(a, d, T) \in 0 .. BestCost(a, d, S)
         /\ BestCost(a, d, T) = -1 => BestCost(a, d, S) = -1
<1>1. \A n, p : Path(links, S, a, d, n, p) => Path(links, T, a, d, n, p)
  BY DEF Path
<1>2. PICK b, c : b = BestCost(a, d, S) /\ c = BestCost(a, d, T)
  OBVIOUS
<1>3. b = -1 \/ (b \in Nat /\ Attains(links, S, a, d, b))
  BY <1>2, BestIs
<1>4. \/ c = -1 /\ \A n, p : ~Path(links, T, a, d, n, p)
      \/ c \in Nat /\ Bounds(links, T, a, d, c)
  BY <1>2, BestIs
<1>5. b # -1 => c \in Nat /\ c <= b
  BY <1>1, <1>3, <1>4 DEF Attains, Bounds
<1>6. b # -1 => c \in 0 .. b
  BY <1>3, <1>5
<1>7. c = -1 => b = -1
  BY <1>5
<1> QED BY <1>2, <1>6, <1>7
-----------------------------------------------------------------------------
(***************************************************************************)
(* Dijkstra's algorithm.  A packet in a table has the links of the router  *)
(* it is filed under.                                                      *)
(***************************************************************************)
Reports(tab) ==
  \A d \in DOMAIN tab : tab[d].packet = NoPacket \/ tab[d].packet.entries = links[d]

\* The cost of the way to s.
CostTo(r, tab, s) == IF s = r THEN 0 ELSE tab[s].cost

\* Within R a path leads from r by g to d, at cost c.
Way(t, S, R, r, d, g, c) ==
  \E n, p : /\ Path(t, S, r, d, n, p) /\ PathCost(t, p) = c
            /\ n >= 2 /\ p[2] = g /\ \A i \in 1 .. n : p[i] \in R

\* The loop is right about the routers it has reached, and has left the others.
Dijkstra(r, S, old, run) ==
  /\ \A d \in run.reached \ {r} :
       /\ Way(links, S, run.reached, r, d, run.tab[d].gateway, run.tab[d].cost)
       /\ Bounds(links, S, r, d, run.tab[d].cost)
  /\ \A d \in DOMAIN run.tab \ run.reached : d \in DOMAIN old /\ run.tab[d] = old[d]

(***************************************************************************)
(* The links that set_shortest_neighbor and set_shortest_distant look at   *)
(* are the links of the routers that are reached and were heard of.        *)
(***************************************************************************)
LEMMA CandidateLinks ==
  ASSUME links \in Topologies, NEW r \in Nodes, NEW old, NEW run, RunOK(r, old, run),
         Reports(run.tab)
  PROVE  /\ \A c \in Candidates(r, run.tab, run.reached) :
              /\ c.src \in HeardIn(r, run.tab)
              /\ \E l \in LinksIn(links, c.src) :
                   l.dest = c.dest /\ c.cost = l.cost + CostTo(r, run.tab, c.src)
         /\ \A s \in run.reached \cap HeardIn(r, run.tab) : \A l \in LinksIn(links, s) :
              l.dest \notin run.reached =>
                \E c \in Candidates(r, run.tab, run.reached) :
                  c.src = s /\ c.dest = l.dest /\ c.cost = l.cost + CostTo(r, run.tab, s)
<1> DEFINE Own == {[src |-> r, dest |-> l.dest, cost |-> l.cost] : l \in LinksOf(r)}
           Of(s) == {run.tab[s].packet.entries[i] : i \in 1 .. Len(run.tab[s].packet.entries)}
           From(s) == {[src |-> s, dest |-> l.dest, cost |-> l.cost + run.tab[s].cost] :
                         l \in Of(s)}
<1>1. /\ \A s \in run.reached \ {r} : s \in DOMAIN run.tab
      /\ \A d \in run.reached \ {r} : run.tab[d].cost \in Nat
  BY DEF RunOK
<1>2. Candidates(r, run.tab, run.reached) =
        {c \in Own \cup UNION {From(s) : s \in run.reached \ {r}} : c.dest \notin run.reached}
  BY DEF Candidates
<1>3. ASSUME NEW s \in run.reached \ {r}
      PROVE  IF run.tab[s].packet = NoPacket THEN Of(s) = {} ELSE Of(s) = LinksIn(links, s)
  <2>1. s \in DOMAIN run.tab
    BY <1>1
  <2>2. CASE run.tab[s].packet = NoPacket
    BY <2>2 DEF NoPacket
  <2>3. CASE run.tab[s].packet # NoPacket
    BY <2>1, <2>3 DEF Reports, LinksIn
  <2> QED BY <2>2, <2>3
<1>4. LinksOf(r) = LinksIn(links, r) /\ LinksIn(links, r) \subseteq Link
  BY LinksAre DEF LinksOf
<1>5. \A l \in Link : l.cost \in Nat /\ l.cost + 0 = l.cost
  BY LinkIs
<1> HIDE DEF Of
<1>6. ASSUME NEW c \in Candidates(r, run.tab, run.reached)
      PROVE  /\ c.src \in HeardIn(r, run.tab)
             /\ \E l \in LinksIn(links, c.src) :
                  l.dest = c.dest /\ c.cost = l.cost + CostTo(r, run.tab, c.src)
  <2>1. CASE c \in Own
    <3>1. PICK l \in LinksIn(links, r) : c = [src |-> r, dest |-> l.dest, cost |-> l.cost]
      BY <1>4, <2>1
    <3>2. c.src = r /\ c.dest = l.dest /\ c.cost = l.cost
      BY <3>1
    <3>3. c.cost = l.cost + 0
      BY <1>4, <1>5, <3>2
    <3> QED BY <3>2, <3>3 DEF CostTo, HeardIn
  <2>2. ASSUME NEW s \in run.reached \ {r}, c \in From(s)
        PROVE  /\ c.src \in HeardIn(r, run.tab)
               /\ \E l \in LinksIn(links, c.src) :
                    l.dest = c.dest /\ c.cost = l.cost + CostTo(r, run.tab, c.src)
    <3>1. PICK l \in Of(s) : c = [src |-> s, dest |-> l.dest, cost |-> l.cost + run.tab[s].cost]
      BY <2>2
    <3>2. c.src = s /\ c.dest = l.dest /\ c.cost = l.cost + run.tab[s].cost
      BY <3>1
    <3>3. run.tab[s].packet # NoPacket /\ l \in LinksIn(links, s) /\ s \in DOMAIN run.tab /\ s # r
      BY <1>1, <1>3, <3>1
    <3> QED BY <3>2, <3>3 DEF CostTo, HeardIn
  <2> QED BY <1>2, <2>1, <2>2
<1>7. ASSUME NEW s \in run.reached \cap HeardIn(r, run.tab), NEW l \in LinksIn(links, s),
             l.dest \notin run.reached
      PROVE  \E c \in Candidates(r, run.tab, run.reached) :
               c.src = s /\ c.dest = l.dest /\ c.cost = l.cost + CostTo(r, run.tab, s)
  <2>1. CASE s = r
    <3>1. PICK c : c = [src |-> r, dest |-> l.dest, cost |-> l.cost]
      OBVIOUS
    <3>2. c.src = r /\ c.dest = l.dest /\ c.cost = l.cost
      BY <3>1
    <3>3. c \in Own
      BY <1>4, <2>1, <3>1
    <3>4. c \in Candidates(r, run.tab, run.reached)
      BY <1>2, <1>7, <3>2, <3>3
    <3>5. c.cost = l.cost + 0
      BY <1>4, <1>5, <2>1, <3>2
    <3> QED BY <2>1, <3>2, <3>4, <3>5 DEF CostTo
  <2>2. CASE s # r
    <3>1. PICK c : c = [src |-> s, dest |-> l.dest, cost |-> l.cost + run.tab[s].cost]
      OBVIOUS
    <3>2. c.src = s /\ c.dest = l.dest /\ c.cost = l.cost + run.tab[s].cost
      BY <3>1
    <3>3. s \in run.reached \ {r} /\ run.tab[s].packet # NoPacket
      BY <2>2 DEF HeardIn
    <3>4. c \in From(s)
      BY <1>3, <3>1, <3>3
    <3>5. c \in Candidates(r, run.tab, run.reached)
      BY <1>2, <1>7, <3>2, <3>3, <3>4
    <3> QED BY <2>2, <3>2, <3>5 DEF CostTo
  <2> QED BY <2>1, <2>2
<1> QED BY <1>6, <1>7

(***************************************************************************)
(* A path out of R has a first link out of it.                             *)
(***************************************************************************)
LEMMA FirstExit ==
  ASSUME NEW t, NEW S, NEW a, NEW d, NEW n, NEW p, Path(t, S, a, d, n, p),
         NEW R, a \in R, d \notin R
  PROVE  \E i \in 1 .. n - 1 : p[i] \in R /\ p[i + 1] \notin R
<1> DEFINE Out == {j \in 1 .. n : p[j] \notin R}
<1>1. n \in Nat /\ n >= 1 /\ p[1] = a /\ p[n] = d
  BY DEF Path
<1>2. n \in Out /\ Out \subseteq Nat
  BY <1>1
<1>3. PICK m \in Out : \A k \in Out : m <= k
  BY <1>2, LeastNumber
<1>4. m \in 1 .. n /\ p[m] \notin R /\ m # 1
  BY <1>1
<1>5. m - 1 \in 1 .. n - 1 /\ m - 1 \in 1 .. n /\ (m - 1) + 1 = m /\ ~(m <= m - 1)
  BY <1>1, <1>4
<1>6. m - 1 \notin Out
  <2> HIDE DEF Out
  <2> QED BY <1>3, <1>5
<1> QED BY <1>4, <1>5, <1>6

(***************************************************************************)
(* A path may be left early, and joined late.                              *)
(***************************************************************************)
LEMMA PathStart ==
  ASSUME NEW t \in Topologies, NEW S, NEW a, NEW d, NEW n, NEW p, Path(t, S, a, d, n, p),
         NEW i \in 1 .. n - 1
  PROVE  \E q : /\ Path(t, S, a, p[i], i, q)
                /\ PathCost(t, q) + LinkCost(t, p[i], p[i + 1]) <= PathCost(t, p)
<1>1. n \in Nat /\ n >= 1 /\ p \in [1 .. n -> Nodes] /\ p[1] = a
  BY DEF Path
<1>2. PICK q : q = [k \in 1 .. i |-> p[k]]
  OBVIOUS
<1>3. q \in [1 .. i -> Nodes] /\ i < n /\ 1 + 0 = 1 /\ i + 0 = i
  BY <1>1, <1>2
<1>4. PartOf(n, p, 0, i, q)
  BY <1>1, <1>2 DEF PartOf
<1> QED BY <1>1, <1>3, <1>4, PartOfPath

(***************************************************************************)
(* The rest of a path from its i-th router on.                             *)
(***************************************************************************)
LEMMA PathEnd ==
  ASSUME NEW t \in Topologies, NEW S, NEW a, NEW d, NEW n, NEW p, Path(t, S, a, d, n, p),
         NEW i \in 1 .. n
  PROVE  \E m, q : /\ Path(t, S, p[i], d, m, q)
                   /\ PathCost(t, q) <= PathCost(t, p)
                   /\ i = 2 => PathCost(t, p) = LinkCost(t, p[1], p[2]) + PathCost(t, q)
<1>1. n \in Nat /\ n >= 1 /\ p \in [1 .. n -> Nodes] /\ p[n] = d
  BY DEF Path
<1>2. PICK s, m : s = i - 1 /\ m = (n - i) + 1
  OBVIOUS
<1>3. s \in Nat /\ m \in Nat /\ m >= 1 /\ s + m = n /\ 1 + s = i /\ m + s = n
  BY <1>1, <1>2
<1>4. PICK q : q = [k \in 1 .. m |-> p[k + s]]
  OBVIOUS
<1>5. \A k \in 1 .. m : k + s \in 1 .. n
  BY <1>1, <1>3
<1>6. q \in [1 .. m -> Nodes]
  BY <1>1, <1>4, <1>5
<1>7. PartOf(n, p, s, m, q)
  BY <1>1, <1>3, <1>4 DEF PartOf
<1>8. Path(t, S, p[i], d, m, q) /\ PathCost(t, q) <= PathCost(t, p)
  BY <1>1, <1>3, <1>6, <1>7, PartOfPath
<1>9. ASSUME i = 2 PROVE PathCost(t, p) = LinkCost(t, p[1], p[2]) + PathCost(t, q)
  <2>1. s = 1 /\ m + 1 = n
    BY <1>1, <1>2, <1>3, <1>9
  <2> QED BY <1>6, <1>7, <2>1, PartOfPath
<1> QED BY <1>8, <1>9

(***************************************************************************)
(* A path to a router that is not reached costs no less than one of the    *)
(* links the loop looks at: the one by which it leaves what is reached.    *)
(***************************************************************************)
LEMMA NoCheaper ==
  ASSUME links \in Topologies, NEW r \in Nodes, NEW old, NEW run, RunOK(r, old, run),
         Reports(run.tab), NEW S, S = HeardIn(r, run.tab), Dijkstra(r, S, old, run),
         NEW d, d \notin run.reached, NEW n, NEW p, Path(links, S, r, d, n, p)
  PROVE  \E c \in Candidates(r, run.tab, run.reached) : c.cost <= PathCost(links, p)
<1>1. r \in run.reached
  BY DEF RunOK
<1>2. PICK i \in 1 .. n - 1 : p[i] \in run.reached /\ p[i + 1] \notin run.reached
  BY <1>1, FirstExit
<1>3. n \in Nat /\ p \in [1 .. n -> Nodes] /\ p[i] \in S /\ p[i + 1] \in NeighborsIn(links, p[i])
  BY DEF Path
<1>4. PICK s, e : s = p[i] /\ e = p[i + 1]
  OBVIOUS
<1>5. s \in Nodes /\ s \in run.reached /\ s \in S /\ e \notin run.reached
      /\ e \in NeighborsIn(links, s)
  BY <1>2, <1>3, <1>4
<1>6. PICK q : /\ Path(links, S, r, s, i, q)
               /\ PathCost(links, q) + LinkCost(links, s, e) <= PathCost(links, p)
  BY <1>4, PathStart
<1>7. PathCost(links, q) \in Nat /\ PathCost(links, p) \in Nat
  BY <1>6, PathCostIs
<1>8. CostTo(r, run.tab, s) \in Nat /\ CostTo(r, run.tab, s) <= PathCost(links, q)
  <2>1. CASE s = r
    BY <1>7, <2>1 DEF CostTo
  <2>2. CASE s # r
    <3>1. run.tab[s].cost \in Nat
      BY <1>5, <2>2 DEF RunOK
    <3>2. Bounds(links, S, r, s, run.tab[s].cost)
      BY <1>5, <2>2 DEF Dijkstra
    <3>3. run.tab[s].cost <= PathCost(links, q)
      BY <1>6, <3>2 DEF Bounds
    <3> QED BY <2>2, <3>1, <3>3 DEF CostTo
  <2> QED BY <2>1, <2>2
<1>9. PICK l \in LinksIn(links, s) : l.dest = e /\ l.cost = LinkCost(links, s, e)
  BY <1>5, LinkCostIs
<1>10. LinkCost(links, s, e) \in Nat
  BY <1>5, LinkCostIs
<1>11. PICK c \in Candidates(r, run.tab, run.reached) :
         c.cost = l.cost + CostTo(r, run.tab, s)
  <2>1. s \in run.reached \cap HeardIn(r, run.tab)
    BY <1>5
  <2> QED BY <1>5, <1>9, <2>1, CandidateLinks
<1>12. PICK x, y, z, w : x = CostTo(r, run.tab, s) /\ y = LinkCost(links, s, e)
                         /\ z = PathCost(links, q) /\ w = PathCost(links, p)
  OBVIOUS
<1>13. /\ x \in Nat /\ y \in Nat /\ z \in Nat /\ w \in Nat /\ x <= z /\ z + y <= w
       /\ c.cost = y + x
  BY <1>6, <1>7, <1>8, <1>9, <1>10, <1>11, <1>12
<1>14. c.cost <= w
  BY <1>13
<1> QED BY <1>12, <1>14

(***************************************************************************)
(* A way may be continued to a router that is not reached.                 *)
(***************************************************************************)
LEMMA WayOnward ==
  ASSUME NEW t \in Topologies, NEW S, NEW R, NEW r \in Nodes, r \in R,
         NEW s \in S, s \in Nodes, NEW e \in Nodes, e \notin R, e \in NeighborsIn(t, s),
         NEW g, NEW c, (s = r /\ c = 0 /\ g = e) \/ Way(t, S, R, r, s, g, c)
  PROVE  Way(t, S, R \cup {e}, r, e, g, c + LinkCost(t, s, e))
<1>1. \E n, p : /\ Path(t, S, r, s, n, p) /\ PathCost(t, p) = c
                /\ (n = 1 /\ g = e) \/ (n >= 2 /\ p[2] = g)
                /\ \A i \in 1 .. n : p[i] \in R
  <2>1. CASE s = r /\ c = 0 /\ g = e
    <3>1. PICK p : p = [i \in 1 .. 1 |-> r]
      OBVIOUS
    <3>2. Path(t, S, r, r, 1, p)
      BY <3>1 DEF Path
    <3>3. PathCost(t, p) = 0
      BY <3>2, PathCostIs
    <3>4. \A i \in 1 .. 1 : p[i] \in R
      BY <3>1
    <3> QED BY <2>1, <3>2, <3>3, <3>4
  <2>2. CASE Way(t, S, R, r, s, g, c)
    BY <2>2 DEF Way
  <2> QED BY <2>1, <2>2
<1>2. PICK n, p : /\ Path(t, S, r, s, n, p) /\ PathCost(t, p) = c
                  /\ (n = 1 /\ g = e) \/ (n >= 2 /\ p[2] = g)
                  /\ \A i \in 1 .. n : p[i] \in R
  BY <1>1
<1>3. PICK q : /\ Path(t, S, r, e, n + 1, q)
               /\ \A i \in 1 .. n : q[i] = p[i] /\ q[n + 1] = e
               /\ PathCost(t, q) = PathCost(t, p) + LinkCost(t, s, e)
  <2>1. \A i \in 1 .. n : p[i] # e
    BY <1>2
  <2> QED BY <1>2, <2>1, PathOnward
<1>4. n \in Nat /\ n >= 1
  BY <1>2 DEF Path
<1>5. n + 1 >= 2 /\ q[n + 1] = e /\ \A i \in 1 .. n : q[i] = p[i]
  <2>1. 1 \in 1 .. n
    BY <1>4
  <2> QED BY <1>3, <1>4, <2>1
<1>6. q[2] = g
  <2>1. CASE n = 1 /\ g = e
    BY <1>5, <2>1
  <2>2. CASE n >= 2 /\ p[2] = g
    <3>1. 2 \in 1 .. n
      BY <1>4, <2>2
    <3> QED BY <1>5, <2>2, <3>1
  <2> QED BY <1>2, <2>1, <2>2
<1>7. ASSUME NEW i \in 1 .. n + 1 PROVE q[i] \in R \cup {e}
  <2>1. i \in 1 .. n \/ i = n + 1
    BY <1>4
  <2> QED BY <1>2, <1>5, <2>1
<1>8. PathCost(t, q) = c + LinkCost(t, s, e)
  BY <1>2, <1>3
<1> QED BY <1>3, <1>5, <1>6, <1>7, <1>8 DEF Way

(***************************************************************************)
(* The loop hears of nobody, and changes no packet.                        *)
(***************************************************************************)
LEMMA KeptHeard ==
  ASSUME NEW r, NEW old, NEW tab, Keeps(old, tab)
  PROVE  HeardIn(r, tab) = HeardIn(r, old) /\ (Reports(old) => Reports(tab))
BY DEF Keeps, HeardIn, Reports

(***************************************************************************)
(* A turn of the loop is right about the router it reaches: the cheapest   *)
(* link out of what is reached ends a best path.                           *)
(***************************************************************************)
LEMMA ReachBest ==
  ASSUME links \in Topologies, NEW r \in Nodes, NEW old, NEW run, RunOK(r, old, run),
         Reports(old), NEW S, S = HeardIn(r, old), Dijkstra(r, S, old, run)
  PROVE  Dijkstra(r, S, old, Reach(r, run))
<1> DEFINE C == Candidates(r, run.tab, run.reached)
<1> SUFFICES ASSUME NEW l \in C, l \in Shortest(C)
             PROVE  Dijkstra(r, S, old, Reached(r, run, l))
  BY ReachIs
<1>1. Reports(run.tab) /\ S = HeardIn(r, run.tab)
  BY KeptHeard DEF RunOK
<1>2. PICK s, e : s = l.src /\ e = l.dest
  OBVIOUS
<1>3. \A o \in C : o.cost \in Nat /\ o.src \in run.reached /\ o.dest \in Nodes
                   /\ o.dest \notin run.reached
  BY CandidatesAre
<1>4. /\ s \in run.reached /\ s \in S /\ s \in Nodes /\ e \in Nodes /\ e \notin run.reached
      /\ l.cost \in Nat /\ r \in run.reached /\ e # r
  <2>1. run.reached \subseteq Nodes /\ r \in run.reached
    BY DEF RunOK, IsTable
  <2>2. s \in S
    BY <1>1, <1>2, CandidateLinks
  <2> QED BY <1>2, <1>3, <2>1, <2>2
<1>5. PICK k \in LinksIn(links, s) : k.dest = e /\ l.cost = k.cost + CostTo(r, run.tab, s)
  BY <1>1, <1>2, CandidateLinks
<1>6. \A o \in C : l.cost <= o.cost
  <2> SUFFICES ASSUME NEW o \in C PROVE l.cost <= o.cost
    OBVIOUS
  <2>1. l.cost < o.cost \/ l.cost = o.cost
    BY DEF Shortest
  <2>2. l.cost \in Nat /\ o.cost \in Nat
    BY <1>3
  <2> QED BY <2>1, <2>2
<1>7. CostTo(r, run.tab, s) \in Nat
  BY <1>4 DEF CostTo, RunOK
<1>8. e \in NeighborsIn(links, s) /\ k.cost \in Nat
  <2>1. k \in Link
    BY <1>4, LinksAre DEF LinksOf
  <2> QED BY <1>5, <2>1, LinkIs DEF NeighborsIn
<1>9. k.cost = LinkCost(links, s, e)
  <2>1. PICK x : x = LinkCost(links, s, e)
    OBVIOUS
  <2>2. x \in Nat /\ x <= k.cost
    BY <1>4, <1>5, <1>8, <2>1, LinkCostIs
  <2>3. PICK h \in LinksIn(links, s) : h.dest = e /\ h.cost = x
    BY <1>4, <1>8, <2>1, LinkCostIs
  <2>4. PICK o \in C : o.cost = h.cost + CostTo(r, run.tab, s)
    <3>1. s \in run.reached \cap HeardIn(r, run.tab)
      BY <1>1, <1>4
    <3> QED BY <1>1, <1>4, <2>3, <3>1, CandidateLinks
  <2>5. PICK y : y = CostTo(r, run.tab, s)
    OBVIOUS
  <2>6. k.cost + y <= x + y /\ y \in Nat
    BY <1>5, <1>6, <1>7, <2>3, <2>4, <2>5
  <2> QED BY <1>8, <2>1, <2>2, <2>6
<1>10. PICK n : n = Reached(r, run, l)
  OBVIOUS
<1>11. /\ n.reached = run.reached \cup {e}
       /\ DOMAIN n.tab = DOMAIN run.tab \cup {e}
       /\ n.tab[e].gateway = Gateway(r, run.tab, l) /\ n.tab[e].cost = l.cost
       /\ \A d \in DOMAIN run.tab : d # e => n.tab[d] = run.tab[d]
  BY <1>2, <1>10 DEF Reached, WithEntry
<1>12. Way(links, S, n.reached, r, e, n.tab[e].gateway, n.tab[e].cost)
  <2>1. PICK g, c : g = Gateway(r, run.tab, l) /\ c = CostTo(r, run.tab, s)
    OBVIOUS
  <2>2. (s = r /\ c = 0 /\ g = e) \/ Way(links, S, run.reached, r, s, g, c)
    BY <1>2, <1>4, <2>1 DEF Gateway, CostTo, Dijkstra
  <2>3. Way(links, S, run.reached \cup {e}, r, e, g, c + LinkCost(links, s, e))
    BY <1>4, <1>8, <2>2, WayOnward
  <2>4. l.cost = c + LinkCost(links, s, e)
    BY <1>5, <1>7, <1>8, <1>9, <2>1
  <2> QED BY <1>11, <2>1, <2>3, <2>4
<1>13. Bounds(links, S, r, e, n.tab[e].cost)
  <2> SUFFICES ASSUME NEW m, NEW p, Path(links, S, r, e, m, p)
               PROVE  l.cost <= PathCost(links, p)
    BY <1>11 DEF Bounds
  <2>1. PICK o \in C : o.cost <= PathCost(links, p)
    BY <1>1, <1>4, NoCheaper
  <2>2. PathCost(links, p) \in Nat /\ o.cost \in Nat /\ l.cost <= o.cost
    BY <1>3, <1>6, PathCostIs
  <2> QED BY <1>4, <2>1, <2>2
<1>14. ASSUME NEW d \in run.reached \ {r}
       PROVE  /\ Way(links, S, n.reached, r, d, n.tab[d].gateway, n.tab[d].cost)
              /\ Bounds(links, S, r, d, n.tab[d].cost)
  <2>1. n.tab[d] = run.tab[d]
    BY <1>4, <1>11 DEF RunOK
  <2>2. Way(links, S, run.reached, r, d, run.tab[d].gateway, run.tab[d].cost)
        /\ Bounds(links, S, r, d, run.tab[d].cost)
    BY DEF Dijkstra
  <2>3. Way(links, S, n.reached, r, d, run.tab[d].gateway, run.tab[d].cost)
    BY <1>11, <2>2 DEF Way
  <2> QED BY <2>1, <2>2, <2>3
<1>15. ASSUME NEW d \in DOMAIN n.tab \ n.reached PROVE d \in DOMAIN old /\ n.tab[d] = old[d]
  BY <1>11 DEF Dijkstra
<1>16. \A d \in n.reached \ {r} :
         /\ Way(links, S, n.reached, r, d, n.tab[d].gateway, n.tab[d].cost)
         /\ Bounds(links, S, r, d, n.tab[d].cost)
  BY <1>11, <1>12, <1>13, <1>14
<1> QED BY <1>10, <1>15, <1>16 DEF Dijkstra

(***************************************************************************)
(* The loop has ended when nothing is left to look at, or every known      *)
(* destination is reached.                                                 *)
(***************************************************************************)
Ended(r, run) ==
  \/ Candidates(r, run.tab, run.reached) = {}
  \/ Cardinality(run.reached) > Cardinality(DOMAIN run.tab)

(***************************************************************************)
(* A turn of a loop that has not ended reaches one router more; of one     *)
(* that has, it changes nothing.                                           *)
(***************************************************************************)
LEMMA ReachMore ==
  ASSUME links \in Topologies, NEW r \in Nodes, NEW old, NEW run, RunOK(r, old, run)
  PROVE  /\ Ended(r, run) => Reach(r, run) = run
         /\ ~Ended(r, run) =>
              Cardinality(Reach(r, run).reached) = Cardinality(run.reached) + 1
<1> DEFINE C == Candidates(r, run.tab, run.reached)
           next == {Reached(r, run, l) : l \in Shortest(C)}
<1>1. Reach(r, run) = IF Ended(r, run) THEN run ELSE CHOOSE n \in next : TRUE
  BY DEF Reach, Ended
<1>2. ASSUME ~Ended(r, run)
      PROVE  Cardinality(Reach(r, run).reached) = Cardinality(run.reached) + 1
  <2>1. C # {}
    BY <1>2 DEF Ended
  <2>2. \A c \in C : c.cost \in Nat /\ c.src \in run.reached /\ c.dest \in Nodes
                     /\ c.dest \notin run.reached
    BY CandidatesAre
  <2>3. run.reached \subseteq Nodes /\ IsFiniteSet(run.reached)
    <3>1. run.reached \subseteq Nodes
      BY DEF RunOK, IsTable
    <3> QED BY <3>1, LinkStateConstants, FS_Subset
  <2>4. \A c \in C : c.cost \in Nat /\ c.src \in Nat /\ c.dest \in Nat
    BY <2>2, <2>3, LinkStateConstants
  <2> HIDE DEF C
  <2>5. \E l \in C : l \in Shortest(C)
    BY <2>1, <2>4, ShortestExists
  <2>6. Reach(r, run) \in next
    BY <1>1, <1>2, <2>5
  <2>7. PICK l \in Shortest(C) : Reach(r, run) = Reached(r, run, l)
    BY <2>6
  <2>8. l.dest \notin run.reached
    BY <2>2, <2>7 DEF Shortest
  <2>9. Reach(r, run).reached = run.reached \cup {l.dest}
    BY <2>7 DEF Reached
  <2> QED BY <2>3, <2>8, <2>9, FS_AddElement
<1> QED BY <1>1, <1>2

(***************************************************************************)
(* As many turns as there are routers are enough: no turn is the first     *)
(* that neither ended the loop nor was needed.                             *)
(***************************************************************************)
LEMMA RunEnds ==
  ASSUME links \in Topologies, NEW r \in Nodes, NEW tab, IsTable(r, tab),
         NEW run, IsRun(r, tab, Cardinality(Nodes), run)
  PROVE  Ended(r, run[Cardinality(Nodes)])
<1>1. PICK N : N = Cardinality(Nodes)
  OBVIOUS
<1>2. N \in Nat /\ IsRun(r, tab, N, run)
  BY <1>1, NodeCount
<1>3. \A k \in 0 .. N : RunOK(r, tab, run[k])
  BY <1>2, RunKeeps
<1> DEFINE Good(k) == Ended(r, run[k]) \/ Cardinality(run[k].reached) = k + 1
           Bad == {k \in 0 .. N : ~Good(k)}
<1>4. Bad = {}
  <2> SUFFICES ASSUME Bad # {} PROVE FALSE
    OBVIOUS
  <2>1. PICK m \in Bad : \A k \in Bad : m <= k
    <3>1. Bad \subseteq Nat
      BY <1>2
    <3> QED BY <3>1, LeastNumber
  <2>2. m \in 0 .. N /\ ~Good(m)
    OBVIOUS
  <2>3. CASE m = 0
    <3>1. run[0].reached = {r}
      BY <1>2 DEF IsRun
    <3>2. Cardinality({r}) = 1
      BY FS_Singleton
    <3> QED BY <2>2, <2>3, <3>1, <3>2
  <2>4. CASE m # 0
    <3>1. m - 1 \in 0 .. N /\ m \in 1 .. N /\ ~(m <= m - 1) /\ ((m - 1) + 1) + 1 = m + 1
      BY <1>2, <2>2, <2>4
    <3>2. Good(m - 1)
      <4>1. m - 1 \notin Bad
        <5> HIDE DEF Bad
        <5> QED BY <2>1, <3>1
      <4> QED BY <3>1, <4>1
    <3>3. run[m] = Reach(r, run[m - 1])
      BY <1>2, <3>1 DEF IsRun
    <3>4. CASE Ended(r, run[m - 1])
      <4>1. Reach(r, run[m - 1]) = run[m - 1]
        BY <1>3, <3>1, <3>4, ReachMore
      <4> QED BY <2>2, <3>3, <3>4, <4>1
    <3>5. CASE ~Ended(r, run[m - 1])
      <4>1. Cardinality(run[m].reached) = Cardinality(run[m - 1].reached) + 1
        BY <1>3, <3>1, <3>3, <3>5, ReachMore
      <4> QED BY <2>2, <3>1, <3>2, <3>5, <4>1
    <3> QED BY <3>4, <3>5
  <2> QED BY <2>3, <2>4
<1>5. Good(N)
  BY <1>2, <1>4
<1>6. Cardinality(run[N].reached) <= N
  <2>1. run[N].reached \subseteq Nodes
    BY <1>2, <1>3 DEF RunOK, IsTable
  <2> QED BY <1>1, <2>1, LinkStateConstants, FS_Subset
<1>7. ~(Cardinality(run[N].reached) = N + 1)
  BY <1>2, <1>6
<1> QED BY <1>1, <1>5, <1>7

(***************************************************************************)
(* Every turn is right about what it has reached: none is the first that   *)
(* is not.                                                                 *)
(***************************************************************************)
LEMMA RunBest ==
  ASSUME links \in Topologies, NEW r \in Nodes, NEW tab, IsTable(r, tab), Reports(tab),
         NEW n \in Nat, NEW run, IsRun(r, tab, n, run)
  PROVE  \A k \in 0 .. n : Dijkstra(r, HeardIn(r, tab), tab, run[k])
<1> DEFINE Bad == {k \in 0 .. n : ~Dijkstra(r, HeardIn(r, tab), tab, run[k])}
<1> SUFFICES ASSUME Bad # {} PROVE FALSE
  OBVIOUS
<1>1. PICK m \in Bad : \A k \in Bad : m <= k
  <2>1. Bad \subseteq Nat
    OBVIOUS
  <2> QED BY <2>1, LeastNumber
<1>2. m \in 0 .. n /\ ~Dijkstra(r, HeardIn(r, tab), tab, run[m])
  OBVIOUS
<1>3. CASE m = 0
  <2>1. run[0].reached = {r} /\ run[0].tab = tab
    BY DEF IsRun
  <2> QED BY <1>2, <1>3, <2>1 DEF Dijkstra
<1>4. CASE m # 0
  <2>1. m - 1 \in 0 .. n /\ m \in 1 .. n /\ ~(m <= m - 1)
    BY <1>2, <1>4
  <2>2. Dijkstra(r, HeardIn(r, tab), tab, run[m - 1])
    BY <1>1, <2>1
  <2>3. run[m] = Reach(r, run[m - 1])
    BY <2>1 DEF IsRun
  <2>4. RunOK(r, tab, run[m - 1])
    BY <2>1, RunKeeps
  <2> QED BY <1>2, <2>2, <2>3, <2>4, ReachBest
<1> QED BY <1>3, <1>4

(***************************************************************************)
(* What the loop has not reached when it ends has no path to it.           *)
(***************************************************************************)
LEMMA UnreachedHasNoPath ==
  ASSUME links \in Topologies, NEW r \in Nodes, NEW old, NEW run, RunOK(r, old, run),
         Reports(run.tab), NEW S, S = HeardIn(r, run.tab), Dijkstra(r, S, old, run),
         Ended(r, run), NEW d \in DOMAIN run.tab, d \notin run.reached
  PROVE  \A n, p : ~Path(links, S, r, d, n, p)
<1>1. CASE Candidates(r, run.tab, run.reached) = {}
  BY <1>1, NoCheaper
<1>2. CASE Cardinality(run.reached) > Cardinality(DOMAIN run.tab)
  <2>1. PICK D : D = DOMAIN run.tab
    OBVIOUS
  <2>2. D \subseteq Nodes \ {r} /\ run.reached \subseteq {r} \cup D /\ d \in D
    BY <2>1 DEF RunOK, IsTable
  <2>3. IsFiniteSet(D) /\ Cardinality(D) \in Nat
    BY <2>2, LinkStateConstants, FS_Subset, FS_CardinalityType
  <2>4. IsFiniteSet(D \ {d}) /\ Cardinality(D \ {d}) = Cardinality(D) - 1
    BY <2>2, <2>3, FS_RemoveElement
  <2>5. IsFiniteSet((D \ {d}) \cup {r})
        /\ Cardinality((D \ {d}) \cup {r}) = Cardinality(D \ {d}) + 1
    BY <2>2, <2>4, FS_AddElement
  <2>6. run.reached \subseteq (D \ {d}) \cup {r}
    BY <2>2
  <2>7. /\ Cardinality(run.reached) <= Cardinality((D \ {d}) \cup {r})
        /\ Cardinality(run.reached) \in Nat
    BY <2>5, <2>6, FS_Subset, FS_CardinalityType
  <2>8. PICK x, y : x = Cardinality(run.reached) /\ y = Cardinality(D)
    OBVIOUS
  <2>9. x \in Nat /\ y \in Nat /\ x <= (y - 1) + 1 /\ x > y
    BY <1>2, <2>1, <2>3, <2>4, <2>5, <2>7, <2>8
  <2> QED BY <2>9
<1> QED BY <1>1, <1>2 DEF Ended

(***************************************************************************)
(* The gateway of a best path is the first hop of one: what follows it is  *)
(* a best path too, since one that came back would be no better.           *)
(***************************************************************************)
LEMMA GatewayBest ==
  ASSUME links \in Topologies, NEW S, NEW R, NEW r \in Nodes, r \in S, NEW d, NEW g, NEW c,
         Way(links, S, R, r, d, g, c), Bounds(links, S, r, d, c)
  PROVE  c \in Nat /\ c = LinkCost(links, r, g) + BestCost(g, d, S)
<1>1. PICK n, p : /\ Path(links, S, r, d, n, p) /\ PathCost(links, p) = c
                  /\ n >= 2 /\ p[2] = g
  BY DEF Way
<1>2. n \in Nat /\ p \in [1 .. n -> Nodes] /\ p[1] = r /\ 2 \in 1 .. n /\ 2 \in 2 .. n
  BY <1>1 DEF Path
<1>3. c \in Nat
  BY <1>1, PathCostIs
<1>4. LinkCost(links, r, g) \in Nat /\ g \in NeighborsIn(links, r)
  <2>1. 2 - 1 = 1
    OBVIOUS
  <2> QED BY <1>1, <1>2, <2>1, PathLinks
<1>5. PICK m, q : /\ Path(links, S, g, d, m, q)
                  /\ PathCost(links, p) = LinkCost(links, r, g) + PathCost(links, q)
  BY <1>1, <1>2, PathEnd
<1>6. PICK x, y : x = LinkCost(links, r, g) /\ y = PathCost(links, q)
  OBVIOUS
<1>7. x \in Nat /\ y \in Nat /\ c = x + y
  BY <1>1, <1>4, <1>5, <1>6, PathCostIs
<1>8. Bounds(links, S, g, d, y)
  <2> SUFFICES ASSUME NEW k, NEW w, Path(links, S, g, d, k, w)
               PROVE  y <= PathCost(links, w)
    BY DEF Bounds
  <2>1. PathCost(links, w) \in Nat
    BY PathCostIs
  <2>2. CASE \E i \in 1 .. k : w[i] = r
    <3>1. PICK i \in 1 .. k : w[i] = r
      BY <2>2
    <3>2. PICK j, v : Path(links, S, r, d, j, v) /\ PathCost(links, v) <= PathCost(links, w)
      BY <3>1, PathEnd
    <3>3. PathCost(links, v) \in Nat /\ c <= PathCost(links, v)
      BY <3>2, PathCostIs DEF Bounds
    <3> QED BY <1>7, <2>1, <3>2, <3>3
  <2>3. CASE \A i \in 1 .. k : w[i] # r
    <3>1. PICK v : /\ Path(links, S, r, d, k + 1, v)
                   /\ PathCost(links, v) = LinkCost(links, r, g) + PathCost(links, w)
      BY <1>4, <2>3, PathBefore
    <3>2. c <= x + PathCost(links, w)
      BY <1>6, <3>1 DEF Bounds
    <3> QED BY <1>7, <2>1, <3>2
  <2> QED BY <2>2, <2>3
<1>9. BestCost(g, d, S) = y
  <2>1. Attains(links, S, g, d, y)
    BY <1>5, <1>6 DEF Attains
  <2> QED BY <1>8, <2>1, BestOne
<1> QED BY <1>3, <1>6, <1>7, <1>9
-----------------------------------------------------------------------------
(***************************************************************************)
(* BestOverHeardLinks, of one table; and the inductive invariant it needs. *)
(***************************************************************************)
BestIn(r, tab) ==
  \A d \in DOMAIN tab :
    /\ tab[d].cost = BestCost(r, d, HeardIn(r, tab))
    /\ tab[d].cost # -1 =>
         tab[d].cost = LinkCost(links, r, tab[d].gateway)
                         + BestCost(tab[d].gateway, d, HeardIn(r, tab))

BestInv ==
  RouterInv /\ \A r \in Nodes : Reports(table[r]) /\ BestIn(r, table[r])

(***************************************************************************)
(* update_routing_table finds the best paths over the packets it has,      *)
(* whatever costs it had before, if it had none where there is no path.    *)
(***************************************************************************)
LEMMA RecomputedBest ==
  ASSUME links \in Topologies, NEW r \in Nodes, NEW tab, IsTable(r, tab), Reports(tab),
         \A d \in DOMAIN tab : BestCost(r, d, HeardIn(r, tab)) = -1 => tab[d].cost = -1
  PROVE  BestIn(r, Recomputed(r, tab)) /\ Reports(Recomputed(r, tab))
<1>1. PICK N, run : /\ N = Cardinality(Nodes) /\ IsRun(r, tab, N, run)
                    /\ Recomputed(r, tab) = run[N].tab
  BY RecomputedIs
<1>2. N \in Nat /\ N \in 0 .. N
  BY <1>1, NodeCount
<1>3. PICK S, end : S = HeardIn(r, tab) /\ end = run[N]
  OBVIOUS
<1>4. RunOK(r, tab, end) /\ Dijkstra(r, S, tab, end) /\ Ended(r, end)
  BY <1>1, <1>2, <1>3, RunKeeps, RunBest, RunEnds
<1>5. Reports(end.tab) /\ S = HeardIn(r, end.tab) /\ r \in S
  <2>1. Keeps(tab, end.tab)
    BY <1>4 DEF RunOK
  <2>2. Reports(end.tab) /\ S = HeardIn(r, end.tab)
    BY <1>3, <2>1, KeptHeard
  <2> QED BY <1>3, <2>2 DEF HeardIn
<1>6. ASSUME NEW d \in DOMAIN end.tab
      PROVE  /\ end.tab[d].cost = BestCost(r, d, S)
             /\ end.tab[d].cost # -1 =>
                  end.tab[d].cost = LinkCost(links, r, end.tab[d].gateway)
                                      + BestCost(end.tab[d].gateway, d, S)
  <2>1. CASE d \in end.reached
    <3>1. d # r
      BY <1>4 DEF RunOK, IsTable
    <3>2. PICK g, c : g = end.tab[d].gateway /\ c = end.tab[d].cost
      OBVIOUS
    <3>3. Way(links, S, end.reached, r, d, g, c) /\ Bounds(links, S, r, d, c)
      BY <1>4, <2>1, <3>1, <3>2 DEF Dijkstra
    <3>4. Attains(links, S, r, d, c)
      BY <3>3 DEF Way, Attains
    <3>5. BestCost(r, d, S) = c
      BY <3>3, <3>4, BestOne
    <3>6. c = LinkCost(links, r, g) + BestCost(g, d, S)
      BY <1>5, <3>3, GatewayBest
    <3> QED BY <3>2, <3>5, <3>6
  <2>2. CASE d \notin end.reached
    <3>1. \A n, p : ~Path(links, S, r, d, n, p)
      BY <1>4, <1>5, <2>2, UnreachedHasNoPath
    <3>2. BestCost(r, d, S) = -1
      BY <3>1, BestIs DEF Attains
    <3>3. d \in DOMAIN tab /\ end.tab[d] = tab[d]
      BY <1>4, <2>2 DEF Dijkstra
    <3>4. end.tab[d].cost = -1
      BY <1>3, <3>2, <3>3
    <3> QED BY <3>2, <3>4
  <2> QED BY <2>1, <2>2
<1>7. BestIn(r, end.tab)
  BY <1>5, <1>6 DEF BestIn
<1> QED BY <1>1, <1>3, <1>5, <1>7

(***************************************************************************)
(* So does reading a packet, whatever it tells, and no entry is withdrawn. *)
(***************************************************************************)
LEMMA UpdatedBest ==
  ASSUME TypeOK, NEW r \in Nodes, NEW p \in Packets, Neighbors(r) # {},
         Reports(table[r]), BestIn(r, table[r])
  PROVE  /\ BestIn(r, Updated(r, p)) /\ Reports(Updated(r, p))
         /\ DOMAIN table[r] \subseteq DOMAIN Updated(r, p)
<1>1. links \in Topologies /\ IsTable(r, table[r]) /\ Heard(r) = HeardIn(r, table[r])
  BY TablesAre
<1>2. CASE ~HasUpdate(r, p)
  BY <1>2 DEF Updated
<1>3. CASE HasUpdate(r, p)
  <2>1. PICK tab, o : tab = Recorded(r, p) /\ o = p.origin
    OBVIOUS
  <2>2. Updated(r, p) = Recomputed(r, tab)
    BY <1>3, <2>1 DEF Updated
  <2>3. /\ DOMAIN tab = DOMAIN table[r] \cup {o}
        /\ \A d \in DOMAIN table[r] : d # o => tab[d] = table[r][d]
        /\ tab[o] = IF o \in DOMAIN table[r] THEN [table[r][o] EXCEPT !.packet = p]
                    ELSE [gateway |-> ZeroGateway(r), cost |-> -1, packet |-> p]
    BY <2>1 DEF Recorded, WithEntry
  <2>4. /\ tab[o].packet = p
        /\ tab[o].cost = IF o \in DOMAIN table[r] THEN table[r][o].cost ELSE -1
    <3>1. CASE o \in DOMAIN table[r]
      <4>1. table[r][o] \in Entries(r)
        BY <1>1, <3>1 DEF IsTable
      <4> QED BY <2>3, <3>1, <4>1 DEF Entries
    <3>2. CASE o \notin DOMAIN table[r]
      BY <2>3, <3>2
    <3> QED BY <3>1, <3>2
  <2>5. IsTable(r, tab) /\ HeardIn(r, tab) = Heard(r) \cup {o}
    BY <1>3, <2>1, RecordedHears
  <2>6. Reports(tab)
    <3>1. p.entries = links[o]
      BY <1>1, <2>1, PacketsAre
    <3> QED BY <2>3, <2>4, <3>1 DEF Reports
  <2>7. ASSUME NEW d \in DOMAIN tab, BestCost(r, d, HeardIn(r, tab)) = -1 PROVE tab[d].cost = -1
    <3>1. BestCost(r, d, Heard(r)) = -1
      <4>1. Heard(r) \subseteq HeardIn(r, tab)
        BY <2>5
      <4> QED BY <1>1, <2>7, <4>1, BestFalls
    <3>2. d \in DOMAIN table[r] => table[r][d].cost = -1
      BY <1>1, <3>1 DEF BestIn
    <3> QED BY <2>3, <2>4, <3>2
  <2>8. BestIn(r, Recomputed(r, tab)) /\ Reports(Recomputed(r, tab))
    BY <1>1, <2>5, <2>6, <2>7, RecomputedBest
  <2>9. DOMAIN tab \subseteq DOMAIN Recomputed(r, tab)
    BY <1>1, <2>5, RecomputedKeeps DEF Keeps
  <2> QED BY <2>2, <2>3, <2>8, <2>9
<1> QED BY <1>2, <1>3

(***************************************************************************)
(* What a step does to the tables: nothing, or one router reads a packet.  *)
(***************************************************************************)
LEMMA TableStep ==
  ASSUME RouterInv, [Next]_vars
  PROVE  /\ links' = links
         /\ \/ table' = table
            \/ \E r \in Nodes, p \in Packets :
                 /\ Neighbors(r) # {} /\ table'[r] = Updated(r, p)
                 /\ \A a \in Nodes \ {r} : table'[a] = table[a]
<1>1. ASSUME NEW r \in Nodes, NEW m \in Neighbors(r), read_packet(r, m)
      PROVE  /\ links' = links
             /\ \E p \in Packets : table'[r] = Updated(r, p)
             /\ \A a \in Nodes \ {r} : table'[a] = table[a]
  <2>1. PICK p : p = Head(chan[m][r])
    OBVIOUS
  <2>2. chan[m][r] # <<>> /\ table' = [table EXCEPT ![r] = Updated(r, p)] /\ links' = links
    BY <1>1, <2>1 DEF read_packet, update_routing_table, Updated
  <2>3. p \in Packets
    <3>1. m \in Nodes /\ r \in Neighbors(m)
      BY LinksAre DEF RouterInv, TypeOK
    <3>2. chan[m] \in [Neighbors(m) -> Seq(Packets)]
      BY <3>1 DEF RouterInv, TypeOK
    <3>3. chan[m][r] \in Seq(Packets)
      BY <3>1, <3>2
    <3> QED BY <2>1, <2>2, <3>3
  <2>4. DOMAIN table = Nodes
    BY DEF RouterInv, Shape
  <2> QED BY <2>2, <2>3, <2>4
<1>2. ASSUME NEW r \in Nodes, broadcast_packet(r) \/ Interrupt(r) \/ close_router(r)
      PROVE  links' = links /\ table' = table
  BY <1>2 DEF broadcast_packet, Interrupt, close_router
<1>3. CASE UNCHANGED vars
  BY <1>3 DEF vars
<1>4. CASE Next
  BY <1>1, <1>2, <1>4 DEF Next
<1> QED BY <1>3, <1>4

(***************************************************************************)
(* Every step keeps every table right, and withdraws no entry.             *)
(***************************************************************************)
LEMMA BestStep ==
  ASSUME BestInv, [Next]_vars
  PROVE  /\ BestInv' /\ links' = links
         /\ \A r \in Nodes : /\ DOMAIN table[r] \subseteq DOMAIN table'[r]
                             /\ HeardIn(r, table[r]) \subseteq HeardIn(r, table'[r])
<1>1. RouterInv /\ RouterInv' /\ links' = links /\ TypeOK
  BY RouterStep, TableStep DEF BestInv, RouterInv
<1>2. \A a, d, S : BestCost(a, d, S)' = BestCost(a, d, S)
  BY <1>1 DEF BestCost
<1>3. ASSUME NEW r \in Nodes
      PROVE  /\ Reports(table'[r]) /\ BestIn(r, table'[r])
             /\ DOMAIN table[r] \subseteq DOMAIN table'[r]
             /\ HeardIn(r, table[r]) \subseteq HeardIn(r, table'[r])
  <2>1. Reports(table[r]) /\ BestIn(r, table[r])
    BY DEF BestInv
  <2>2. table'[r] = table[r] \/ \E p \in Packets : Neighbors(r) # {} /\ table'[r] = Updated(r, p)
    BY <1>1, TableStep
  <2>3. CASE table'[r] = table[r]
    BY <2>1, <2>3
  <2>4. ASSUME NEW p \in Packets, Neighbors(r) # {}, table'[r] = Updated(r, p)
        PROVE  /\ Reports(table'[r]) /\ BestIn(r, table'[r])
               /\ DOMAIN table[r] \subseteq DOMAIN table'[r]
               /\ HeardIn(r, table[r]) \subseteq HeardIn(r, table'[r])
    <3>1. HeardIn(r, table[r]) \subseteq HeardIn(r, Updated(r, p))
      BY <1>1, <2>4, UpdatedHears, TablesAre
    <3>2. /\ BestIn(r, Updated(r, p)) /\ Reports(Updated(r, p))
          /\ DOMAIN table[r] \subseteq DOMAIN Updated(r, p)
      BY <1>1, <2>1, <2>4, UpdatedBest
    <3> QED BY <2>4, <3>1, <3>2
  <2> QED BY <2>2, <2>3, <2>4
<1>4. ASSUME NEW r \in Nodes PROVE Reports(table[r])' /\ BestIn(r, table[r])'
  <2>1. Reports(table'[r]) /\ BestIn(r, table'[r])
    BY <1>3
  <2>2. Reports(table[r])'
    BY <1>1, <2>1 DEF Reports
  <2>3. BestIn(r, table[r])'
    BY <1>1, <1>2, <2>1 DEF BestIn, HeardIn
  <2> QED BY <2>2, <2>3
<1> QED BY <1>1, <1>3, <1>4 DEF BestInv

(***************************************************************************)
(* The tables are right in every reachable state, for every network.       *)
(***************************************************************************)
THEOREM TablesRight == Spec => []BestInv
<1>1. Init => BestInv
  <2> SUFFICES ASSUME Init PROVE BestInv
    OBVIOUS
  <2>1. \A r \in Nodes : table[r] = <<>>
    BY DEF Init
  <2>2. DOMAIN <<>> = {}
    OBVIOUS
  <2> QED BY <2>1, <2>2, RouterInit DEF BestInv, Reports, BestIn
<1>2. BestInv /\ [Next]_vars => BestInv'
  BY BestStep
<1> QED BY <1>1, <1>2, PTL DEF Spec

(***************************************************************************)
(* BestOverHeardLinks: in every network, and in whatever order packets     *)
(* arrive, the loop of update_routing_table leaves each destination with   *)
(* the cost of the best path over the links heard of so far, and with the  *)
(* first hop of such a path as its gateway.                                *)
(***************************************************************************)
THEOREM DijkstraCorrect == Spec => []BestOverHeardLinks
<1>1. BestInv => BestOverHeardLinks
  <2> SUFFICES ASSUME BestInv, NEW r \in Nodes
               PROVE  \A d \in DOMAIN table[r] :
                        LET e == table[r][d]
                        IN /\ e.cost = BestCost(r, d, Heard(r))
                           /\ e.cost # -1 =>
                                e.cost = LinkCost(links, r, e.gateway)
                                           + BestCost(e.gateway, d, Heard(r))
    BY DEF BestOverHeardLinks
  <2>1. Heard(r) = HeardIn(r, table[r]) /\ BestIn(r, table[r])
    BY DEF BestInv, Heard, HeardIn
  <2> QED BY <2>1 DEF BestIn
<1> QED BY <1>1, TablesRight, PTL

(***************************************************************************)
(* RoutesOnlyImprove: since a packet is never forgotten and the tables are *)
(* right, no packet read makes a route more expensive, or takes it away.   *)
(***************************************************************************)
THEOREM RoutesImprove == Spec => RoutesOnlyImprove
<1>1. BestInv /\ BestInv' /\ [Next]_vars => [RouteNeverWorse]_vars
  <2> SUFFICES ASSUME BestInv, BestInv', [Next]_vars PROVE RouteNeverWorse
    OBVIOUS
  <2>1. links' = links /\ links \in Topologies
    BY BestStep DEF BestInv, RouterInv, TypeOK
  <2>2. \A a, d, S : BestCost(a, d, S)' = BestCost(a, d, S)
    BY <2>1 DEF BestCost
  <2>3. ASSUME NEW r \in Nodes, NEW d \in DOMAIN table[r], table[r][d].cost # -1
        PROVE  table'[r][d].cost \in 0 .. table[r][d].cost
    <3>1. PICK S, T : S = HeardIn(r, table[r]) /\ T = HeardIn(r, table'[r])
      OBVIOUS
    <3>2. S \subseteq T /\ d \in DOMAIN table'[r]
      BY <3>1, BestStep
    <3>3. table[r][d].cost = BestCost(r, d, S)
      BY <3>1 DEF BestInv, BestIn
    <3>4. table'[r][d].cost = BestCost(r, d, T)
      <4>1. BestIn(r, table[r])'
        BY DEF BestInv
      <4>2. HeardIn(r, table[r])' = T
        BY <3>1 DEF HeardIn
      <4>3. table'[r][d].cost = BestCost(r, d, T)'
        BY <3>2, <4>1, <4>2 DEF BestIn
      <4> QED BY <2>2, <4>3
    <3>5. BestCost(r, d, T) \in 0 .. BestCost(r, d, S)
      BY <2>1, <2>3, <3>2, <3>3, BestFalls
    <3> QED BY <3>3, <3>4, <3>5
  <2>4. \A r \in Nodes : DOMAIN table[r] \subseteq DOMAIN table'[r]
    BY BestStep
  <2> QED BY <2>3, <2>4 DEF RouteNeverWorse
<1> QED BY <1>1, TablesRight, PTL DEF Spec, RoutesOnlyImprove

(***************************************************************************)
(* Every router is joined to every other by links; and the flood is over:  *)
(* every router has broadcast, and nothing is left to read.                *)
(***************************************************************************)
Connected(t) ==
  \A S \in SUBSET Nodes :
    S # {} /\ (\A a \in S : NeighborsIn(t, a) \subseteq S) => S = Nodes

FloodOver ==
  \A r \in Nodes : seqnum[r] > 0 /\ \A m \in Neighbors(r) : chan[r][m] = <<>>

(***************************************************************************)
(* "Our routers can successfully communicate and converge to a proper      *)
(* forwarding table", the part that needs no fairness: in a network that   *)
(* is connected, whatever the order of the packets read, once there is     *)
(* none left to read each router has an entry for every other, with the    *)
(* true best cost.  read_packet drops nothing that somebody still needs.   *)
(***************************************************************************)
THEOREM ProperWhenQuiet == Spec => [](Connected(links) /\ FloodOver => Proper)
<1>1. BestInv => (Connected(links) /\ FloodOver => Proper)
  <2> SUFFICES ASSUME BestInv, Connected(links), FloodOver PROVE Proper
    OBVIOUS
  <2>1. RouterInv /\ TypeOK
    BY DEF BestInv, RouterInv
  <2>2. \A a \in Nodes : Neighbors(a) \subseteq Nodes
    BY <2>1, LinksAre, TablesAre
  <2>3. ASSUME NEW o \in Nodes PROVE \A a \in Nodes : o \in Heard(a)
    <3> DEFINE S == {a \in Nodes : o \in Heard(a)}
    <3>1. o \in S
      BY DEF Heard
    <3>2. ASSUME NEW a \in S, NEW m \in Neighbors(a) PROVE m \in S
      <4>1. m \in Nodes /\ Floods(a, m) /\ seqnum[a] > 0
        BY <2>1, <2>2 DEF RouterInv, FloodOver
      <4>2. ~InTransit(a, m, o)
        <5>1. chan[a][m] = <<>> /\ Len(<<>>) = 0 /\ 1 .. 0 = {}
          BY DEF FloodOver
        <5> QED BY <5>1 DEF InTransit
      <4>3. m \in Heard(m)
        BY DEF Heard
      <4> QED BY <4>1, <4>2, <4>3 DEF Floods
    <3>3. S = Nodes
      BY <3>1, <3>2 DEF Connected, Neighbors
    <3> QED BY <3>3
  <2>4. ASSUME NEW r \in Nodes
        PROVE  /\ DOMAIN table[r] = Nodes \ {r}
               /\ \A d \in Nodes \ {r} : table[r][d].cost = BestCost(r, d, Nodes)
    <3>1. HeardIn(r, table[r]) = Nodes /\ IsTable(r, table[r])
      BY <2>1, <2>3, TablesAre
    <3>2. DOMAIN table[r] = Nodes \ {r}
      BY <3>1 DEF HeardIn, IsTable
    <3> QED BY <3>1, <3>2 DEF BestInv, BestIn
  <2> QED BY <2>4 DEF Proper
<1> QED BY <1>1, TablesRight, PTL

(***************************************************************************)
(* A path of n routers costs at most n - 1 links of the largest cost.      *)
(***************************************************************************)
LEMMA PathCostBound ==
  ASSUME NEW t \in Topologies, NEW S, NEW a, NEW d, NEW n, NEW p, Path(t, S, a, d, n, p)
  PROVE  PathCost(t, p) + 255 <= 255 * n
<1>1. n \in Nat /\ n >= 1 /\ p \in [1 .. n -> Nodes] /\ n \in 1 .. n
  BY DEF Path
<1>2. PICK f : Sums(t, n, p, f) /\ PathCost(t, p) = f[n]
  BY <1>1, CostIs
<1>3. \A k \in 1 .. n : f[k] \in Nat
  BY <1>2, SumsGrow
<1> DEFINE Good(k) == f[k] + 255 <= 255 * k
           Bad == {k \in 1 .. n : ~Good(k)}
<1>4. Bad = {}
  <2> SUFFICES ASSUME Bad # {} PROVE FALSE
    OBVIOUS
  <2>1. PICK m \in Bad : \A k \in Bad : m <= k
    <3>1. Bad \subseteq Nat
      BY <1>1
    <3> QED BY <3>1, LeastNumber
  <2>2. m \in 1 .. n /\ ~Good(m)
    OBVIOUS
  <2>3. CASE m = 1
    <3>1. f[1] = 0
      BY <1>2 DEF Sums
    <3> QED BY <2>2, <2>3, <3>1
  <2>4. CASE m # 1
    <3>1. m \in 2 .. n /\ m - 1 \in 1 .. n /\ ~(m <= m - 1)
      BY <1>1, <2>2, <2>4
    <3>2. Good(m - 1)
      <4>1. m - 1 \notin Bad
        <5> HIDE DEF Bad
        <5> QED BY <2>1, <3>1
      <4> QED BY <3>1, <4>1
    <3>3. PICK c : c = LinkCost(t, p[m - 1], p[m])
      OBVIOUS
    <3>4. f[m] = f[m - 1] + c
      BY <1>2, <3>1, <3>3 DEF Sums
    <3>5. c \in 0 .. 255
      <4>1. p[m - 1] \in Nodes /\ p[m] \in NeighborsIn(t, p[m - 1])
        BY <1>1, <3>1, PathLinks
      <4>2. PICK l \in LinksIn(t, p[m - 1]) : l.cost = c
        BY <3>3, <4>1, LinkCostIs
      <4>3. t \in [Nodes -> Seq(Link)]
        BY LinkStateConstants DEF Link
      <4>4. t[p[m - 1]] \in Seq(Link)
        BY <4>1, <4>3
      <4>5. l \in Link
        BY <4>4 DEF LinksIn
      <4> QED BY <4>2, <4>5 DEF Link
    <3>6. f[m - 1] \in Nat /\ f[m - 1] + 255 <= 255 * (m - 1)
      BY <1>3, <3>1, <3>2
    <3>7. f[m] + 255 <= 255 * m
      BY <2>2, <3>4, <3>5, <3>6
    <3> QED BY <2>2, <3>7
  <2> QED BY <2>3, <2>4
<1>5. Good(n)
  BY <1>1, <1>4
<1> QED BY <1>2, <1>5

\* Adding any link to any cost in a table stays within this many links' worth.
CostsFit ==
  \A r \in Nodes : \A d \in DOMAIN table[r] :
    table[r][d].cost + 255 <= 255 * Cardinality(Nodes)

(***************************************************************************)
(* The int16_t of a routing entry and the int16_t in which                 *)
(* set_shortest_distant adds a link to it never overflow: with the 32      *)
(* routers of MAX_NUM_ROUTERS no sum is above 8160.  So costs may be       *)
(* natural numbers in the model, and no sum is taken for the -1 that       *)
(* stands for "none".                                                      *)
(***************************************************************************)
THEOREM CostsNeverOverflow == Spec => []CostsFit
<1>1. BestInv => CostsFit
  <2> SUFFICES ASSUME BestInv, NEW r \in Nodes, NEW d \in DOMAIN table[r]
               PROVE  table[r][d].cost + 255 <= 255 * Cardinality(Nodes)
    BY DEF CostsFit
  <2>1. PICK c, N, S : /\ c = table[r][d].cost /\ N = Cardinality(Nodes)
                       /\ S = HeardIn(r, table[r])
    OBVIOUS
  <2>2. links \in Topologies /\ N \in Nat /\ N >= 1
    <3>1. N # 0
      BY <2>1, LinkStateConstants, FS_EmptySet
    <3> QED BY <2>1, <3>1, NodeCount DEF BestInv, RouterInv, TypeOK
  <2>3. c = BestCost(r, d, S)
    BY <2>1 DEF BestInv, BestIn
  <2>4. CASE c = -1
    BY <2>1, <2>2, <2>4
  <2>5. CASE c # -1
    <3>1. PICK n, p : Path(links, S, r, d, n, p) /\ PathCost(links, p) = c
      BY <2>2, <2>3, <2>5, BestIs DEF Attains
    <3>2. n \in Nat /\ n <= N
      <4>1. n <= Cardinality(Nodes)
        BY <3>1, PathBound
      <4> QED BY <2>1, <3>1, <4>1 DEF Path
    <3>3. c + 255 <= 255 * n /\ c \in Nat
      BY <2>2, <3>1, PathCostBound, PathCostIs
    <3>4. c + 255 <= 255 * N
      BY <2>2, <3>2, <3>3
    <3> QED BY <2>1, <3>4
  <2> QED BY <2>4, <2>5
<1> QED BY <1>1, TablesRight, PTL
=============================================================================
