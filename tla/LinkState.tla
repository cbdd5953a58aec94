------------------------------ MODULE LinkState ------------------------------
(***************************************************************************)
(* The link-state routers of PA3, once every neighbor is connected: each   *)
(* router broadcasts the costs of its own links, floods the packets that   *)
(* tell it something new, and recomputes its routing table with Dijkstra's *)
(* algorithm.  A router that stops takes its neighbors with it.            *)
(*                                                                         *)
(* A router is single-threaded, so handling one packet is one step.  The   *)
(* table is indexed by node id, as Router_GetRoutingEntryForNode presents  *)
(* it; gateways and links are named by the neighbor they lead to.          *)
(***************************************************************************)
EXTENDS Integers, Sequences, FiniteSets

CONSTANTS
  Nodes,       \* the routers, by id
  Topologies,  \* what the initialization file may say: the links of each router
  MaxSeq,      \* bound: how often each router broadcasts, per topology
  CanStop      \* a router may be interrupted

(***************************************************************************)
(* In topology t, the links of router r and the routers they lead to.      *)
(***************************************************************************)
LinksIn(t, r) == {t[r][i] : i \in 1 .. Len(t[r])}
NeighborsIn(t, r) == {l.dest : l \in LinksIn(t, r)}

ASSUME LinkStateConstants ==
  /\ Nodes \subseteq Nat /\ IsFiniteSet(Nodes)
  /\ Topologies \subseteq [Nodes -> Seq([dest : Nodes, cost : 0 .. 255])]
  /\ MaxSeq \in [Topologies -> Nat \ {0}]
  /\ CanStop \in BOOLEAN
  /\ \A t \in Topologies, r \in Nodes :
       /\ r \notin NeighborsIn(t, r)
       /\ \A m \in NeighborsIn(t, r) : r \in NeighborsIn(t, m)

VARIABLES
  links,   \* _m_neighbors_table of every router
  table,   \* _m_destinations: an entry for every node heard of
  seqnum,  \* _m_seq_num
  chan,    \* chan[r][m]: what r has written to its connection with m
  up       \* the routers that have not exited

vars == <<links, table, seqnum, chan, up>>

LinksOf(r) == LinksIn(links, r)
Neighbors(r) == NeighborsIn(links, r)

(***************************************************************************)
(* A link-state packet, and the entries of the routing table.  The cost is *)
(* -1 where no path is known, the packet is NoPacket where none was seen.  *)
(***************************************************************************)
Packet(o, n) == [origin |-> o, seq |-> n, entries |-> links[o]]
NoPacket == [origin |-> -1, seq |-> 0, entries |-> <<>>]
Packets == {Packet(o, n) : o \in Nodes, n \in 1 .. MaxSeq[links]}

\* gateway_idx of an entry that has no path yet: the array is zeroed.
ZeroGateway(r) == Head(links[r]).dest

Init ==
  /\ links \in Topologies
  /\ table = [r \in Nodes |-> <<>>]
  /\ seqnum = [r \in Nodes |-> 0]
  /\ chan = [r \in Nodes |-> [m \in Neighbors(r) |-> <<>>]]
  /\ up = Nodes
-----------------------------------------------------------------------------
(***************************************************************************)
(* packet_has_update: of two packets with as many entries, only the first  *)
(* entries are compared.                                                   *)
(***************************************************************************)
packet_has_update(orig, incoming) ==
  /\ incoming.seq > orig.seq
  /\ \/ Len(incoming.entries) # Len(orig.entries)
     \/ incoming.entries = <<>>
     \/ Head(incoming.entries) # Head(orig.entries)

(***************************************************************************)
(* The table after the entry of id is set.                                 *)
(***************************************************************************)
WithEntry(tab, id, e) ==
  [d \in DOMAIN tab \cup {id} |-> IF d = id THEN e ELSE tab[d]]

\* Mutant of Candidates: a distant link counts without the way to it.
LocalCandidates(r, tab, reached) ==
  {c \in {[src |-> r, dest |-> l.dest, cost |-> l.cost] : l \in LinksOf(r)}
           \cup UNION {{[src |-> s, dest |-> l.dest, cost |-> l.cost] :
                          l \in {tab[s].packet.entries[i] :
                                   i \in 1 .. Len(tab[s].packet.entries)}} :
                         s \in reached \ {r}} :
     c.dest \notin reached}

(***************************************************************************)
(* The links out of the nodes already reached to nodes not yet reached,    *)
(* with the whole cost of the path that ends in them: set_shortest_neighbor*)
(* for r's own links, set_shortest_distant for those a packet reported.    *)
(***************************************************************************)
Candidates(r, tab, reached) ==
  {c \in {[src |-> r, dest |-> l.dest, cost |-> l.cost] : l \in LinksOf(r)}
           \cup UNION {{[src |-> s, dest |-> l.dest, cost |-> l.cost + tab[s].cost] :
                          l \in {tab[s].packet.entries[i] :
                                   i \in 1 .. Len(tab[s].packet.entries)}} :
                         s \in reached \ {r}} :
     c.dest \notin reached}

\* Mutant of Shortest: the source decides before the cost.
ShortestBySource(cands) ==
  {c \in cands : \A o \in cands :
    \/ c.src < o.src
    \/ c.src = o.src /\ c.cost < o.cost
    \/ c.src = o.src /\ c.cost = o.cost /\ c.dest <= o.dest}

\* set_shortest: the cheapest, ties broken by source, then by destination.
Shortest(cands) ==
  {c \in cands : \A o \in cands :
    \/ c.cost < o.cost
    \/ c.cost = o.cost /\ c.src < o.src
    \/ c.cost = o.cost /\ c.src = o.src /\ c.dest <= o.dest}

\* get_gateway_idx
Gateway(r, tab, link) ==
  IF link.src = r THEN link.dest ELSE tab[link.src].gateway

(***************************************************************************)
(* One turn of the loop: the nearest node not yet reached is reached.      *)
(***************************************************************************)
Reached(r, run, link) ==
  [reached |-> run.reached \cup {link.dest},
   tab |-> WithEntry(run.tab, link.dest,
             [gateway |-> Gateway(r, run.tab, link),
              cost |-> link.cost,
              packet |-> IF link.dest \in DOMAIN run.tab
                         THEN run.tab[link.dest].packet ELSE NoPacket])]

\* Mutant of Reach: the loop ends one destination early.
ReachFewer(r, run) ==
  LET cands == Candidates(r, run.tab, run.reached)
  IN IF cands = {} \/ Cardinality(run.reached) >= Cardinality(DOMAIN run.tab)
     THEN run
     ELSE CHOOSE next \in {Reached(r, run, l) : l \in Shortest(cands)} : TRUE

Reach(r, run) ==
  LET cands == Candidates(r, run.tab, run.reached)
  IN IF cands = {} \/ Cardinality(run.reached) > Cardinality(DOMAIN run.tab)
     THEN run
     ELSE CHOOSE next \in {Reached(r, run, l) : l \in Shortest(cands)} : TRUE

(***************************************************************************)
(* The loop ends when every known destination is reached, or when nothing  *)
(* more can be; either way within as many turns as there are routers.      *)
(***************************************************************************)
Recomputed(r, tab) ==
  LET run[k \in 0 .. Cardinality(Nodes)] ==
        IF k = 0 THEN [reached |-> {r}, tab |-> tab]
        ELSE CHOOSE next \in {Reach(r, prev) : prev \in {run[k - 1]}} : TRUE
  IN run[Cardinality(Nodes)].tab

\* Mutants of HasUpdate: a router hears itself; a known node has no news.
HasUpdateOfSelf(r, p) ==
  p.origin \in DOMAIN table[r] => packet_has_update(table[r][p.origin].packet, p)
HasUpdateIfNew(r, p) == p.origin # r /\ p.origin \notin DOMAIN table[r]

(***************************************************************************)
(* update_routing_table: whether the packet is of use, and the new table.  *)
(***************************************************************************)
HasUpdate(r, p) ==
  /\ p.origin # r
  /\ p.origin \in DOMAIN table[r] =>
       packet_has_update(table[r][p.origin].packet, p)

Recorded(r, p) ==
  WithEntry(table[r], p.origin,
    IF p.origin \in DOMAIN table[r]
    THEN [table[r][p.origin] EXCEPT !.packet = p]
    ELSE [gateway |-> ZeroGateway(r), cost |-> -1, packet |-> p])

update_routing_table(r, p) ==
  table' = [table EXCEPT ![r] =
              IF HasUpdate(r, p) THEN Recomputed(r, Recorded(r, p)) ELSE @]
-----------------------------------------------------------------------------
\* write p to the connections of r with the neighbors in S
Sent(row, p, S) == [m \in DOMAIN row |-> IF m \in S THEN Append(row[m], p) ELSE row[m]]

(***************************************************************************)
(* More than five seconds have passed since the last broadcast.            *)
(***************************************************************************)
broadcast_packet(r) ==
  /\ r \in up /\ seqnum[r] < MaxSeq[links]
  /\ seqnum' = [seqnum EXCEPT ![r] = @ + 1]
  /\ chan' = [chan EXCEPT ![r] = Sent(@, Packet(r, seqnum'[r]), Neighbors(r))]
  /\ UNCHANGED <<links, table, up>>

(***************************************************************************)
(* r reads a packet of m, and forwards it to its other neighbors if it     *)
(* changed something.                                                      *)
(***************************************************************************)
read_packet(r, m) ==
  /\ r \in up /\ chan[m][r] # <<>>
  /\ LET p == Head(chan[m][r])
         forward == IF HasUpdate(r, p) THEN Neighbors(r) \ {m} ELSE {}
     IN /\ chan' = [chan EXCEPT ![m][r] = Tail(@),
                                ![r] = Sent(@, p, forward)]
        /\ update_routing_table(r, p)
  /\ UNCHANGED <<links, seqnum, up>>

(***************************************************************************)
(* SIGINT, and what it leads to: a read from, or a write to, a neighbor    *)
(* that is gone ends the process.                                          *)
(***************************************************************************)
Interrupt(r) ==
  /\ CanStop /\ r \in up
  /\ up' = up \ {r}
  /\ UNCHANGED <<links, table, seqnum, chan>>

\* Mutant of close_router: it takes all the neighbors to end a router.
close_router_last(r) ==
  /\ r \in up
  /\ \A m \in Neighbors(r) : m \notin up
  /\ up' = up \ {r}
  /\ UNCHANGED <<links, table, seqnum, chan>>

close_router(r) ==
  /\ r \in up
  /\ \E m \in Neighbors(r) : m \notin up
  /\ up' = up \ {r}
  /\ UNCHANGED <<links, table, seqnum, chan>>

Next ==
  \E r \in Nodes :
    \/ broadcast_packet(r)
    \/ \E m \in Neighbors(r) : read_packet(r, m)
    \/ Interrupt(r)
    \/ close_router(r)

Spec == Init /\ [][Next]_vars

(***************************************************************************)
(* The five-second timer fires, select serves every connection that has    *)
(* something to read, and an end of file is one of those things.           *)
(***************************************************************************)
FairSpec ==
  /\ Spec
  /\ \A r \in Nodes :
       /\ WF_vars(broadcast_packet(r))
       /\ WF_vars(close_router(r))
       /\ WF_vars(\E m \in Neighbors(r) : read_packet(r, m))
-----------------------------------------------------------------------------
(***************************************************************************)
(* Type invariant; in particular no router has an entry for itself.        *)
(***************************************************************************)
TypeOK ==
  /\ links \in Topologies
  /\ \A r \in Nodes :
       /\ DOMAIN table[r] \subseteq Nodes \ {r}
       /\ \A d \in DOMAIN table[r] :
            table[r][d] \in [gateway : Neighbors(r),
                             cost : Nat \cup {-1},
                             packet : Packets \cup {NoPacket}]
       /\ chan[r] \in [Neighbors(r) -> Seq(Packets)]
  /\ seqnum \in [Nodes -> 0 .. MaxSeq[links]]
  /\ up \subseteq Nodes

(***************************************************************************)
(* The reference: the cost of the best path from a to d over the links of  *)
(* the nodes in S, by enumeration of the simple paths; -1 if there is none.*)
(***************************************************************************)
SimplePaths ==
  UNION {{p \in [1 .. n -> Nodes] : \A i, j \in 1 .. n : p[i] = p[j] => i = j} :
           n \in 1 .. Cardinality(Nodes)}

LinkCost(t, a, b) ==
  CHOOSE c \in {l.cost : l \in {x \in LinksIn(t, a) : x.dest = b}} :
    \A l \in LinksIn(t, a) : l.dest = b => c <= l.cost

PathCost(t, p) ==
  LET sum[k \in 1 .. Len(p)] ==
        IF k = 1 THEN 0 ELSE sum[k - 1] + LinkCost(t, p[k - 1], p[k])
  IN sum[Len(p)]

PathsOver(t, a, d, S) ==
  {p \in SimplePaths :
     /\ p[1] = a /\ p[Len(p)] = d
     /\ \A i \in 1 .. Len(p) - 1 : p[i] \in S /\ p[i + 1] \in NeighborsIn(t, p[i])}

BestCost(a, d, S) ==
  LET costs == {PathCost(links, p) : p \in PathsOver(links, a, d, S)}
  IN IF costs = {} THEN -1 ELSE CHOOSE c \in costs : \A o \in costs : c <= o

\* the nodes whose links r knows: its own and those of the packets it holds
Heard(r) == {r} \cup {d \in DOMAIN table[r] : table[r][d].packet # NoPacket}

(***************************************************************************)
(* After every packet, in whatever order packets arrive, each destination  *)
(* in the table has the cost of the best path over the links heard of so   *)
(* far, and its gateway is the first hop of a path that cheap.             *)
(***************************************************************************)
BestOverHeardLinks ==
  \A r \in Nodes : \A d \in DOMAIN table[r] :
    LET e == table[r][d]
    IN /\ e.cost = BestCost(r, d, Heard(r))
       /\ e.cost # -1 =>
            e.cost = LinkCost(links, r, e.gateway) + BestCost(e.gateway, d, Heard(r))

(***************************************************************************)
(* The flood leaves nobody out: while all routers run, a packet that one   *)
(* router holds is held by, or on its way to, each of its neighbors.       *)
(***************************************************************************)
InTransit(r, m, o) == \E i \in 1 .. Len(chan[r][m]) : chan[r][m][i].origin = o

FloodReaches ==
  up = Nodes =>
    \A r \in Nodes : \A m \in Neighbors(r) :
      /\ seqnum[r] > 0 => r \in Heard(m) \/ InTransit(r, m, r)
      /\ \A o \in Heard(r) \ {r, m} : o \in Heard(m) \/ InTransit(r, m, o)

(***************************************************************************)
(* A route never gets worse: an entry is never withdrawn, and once it has  *)
(* a path its cost only falls.                                             *)
(***************************************************************************)
RouteNeverWorse ==
  \A r \in Nodes :
    /\ DOMAIN table[r] \subseteq DOMAIN table'[r]
    /\ \A d \in DOMAIN table[r] : table[r][d].cost # -1 =>
         table'[r][d].cost \in 0 .. table[r][d].cost

RoutesOnlyImprove == [][RouteNeverWorse]_vars

(***************************************************************************)
(* "Our routers can successfully communicate and converge to a proper      *)
(* forwarding table": unless a router is stopped, from some moment on each *)
(* one has the true best cost to every other.                              *)
(***************************************************************************)
Proper ==
  \A r \in Nodes :
    /\ DOMAIN table[r] = Nodes \ {r}
    /\ \A d \in Nodes \ {r} : table[r][d].cost = BestCost(r, d, Nodes)

Converges == <>[](Proper \/ up # Nodes)

(***************************************************************************)
(* A router that exits takes the whole network down with it.               *)
(***************************************************************************)
StopsTogether == (up # Nodes) ~> (up = {})
=============================================================================
