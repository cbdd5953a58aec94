--------------------------- MODULE NeighborStartup ---------------------------
(***************************************************************************)
(* How the routers of PA3 find each other.  Each starts a thread per       *)
(* neighbor, which tries to connect to the neighbor's port for this link   *)
(* and, refused, listens on its own; when all threads have ended the       *)
(* router enters Router_Main.  A router may be stopped and started again.  *)
(*                                                                         *)
(* The listening socket stays open after the accept, so that a connection  *)
(* nobody will accept can be made to it; and a router that waits for its   *)
(* neighbors does not look at the connections it already has.              *)
(***************************************************************************)
EXTENDS Integers, Sequences, FiniteSets

CONSTANTS
  Nodes,      \* the routers
  Neighbors,  \* the neighbors of each, from the initialization file
  MaxStarts   \* bound: how often each is started

ASSUME StartupConstants ==
  /\ Nodes \subseteq Nat /\ IsFiniteSet(Nodes)
  /\ Neighbors \in [Nodes -> SUBSET Nodes]
  /\ \A r \in Nodes : r \notin Neighbors[r]
  /\ \A r \in Nodes : \A m \in Neighbors[r] : r \in Neighbors[m]
  /\ MaxStarts \in [Nodes -> Nat \ {0}]

VARIABLES
  proc,     \* each process: down, starting (in wait_for_neighbors), main
  starts,   \* how often it was started
  place,    \* place[r][m]: the thread of r for neighbor m
  sock_fd,  \* sock_fd[r][m]: the connection r has with m
  backlog   \* backlog[r][m]: connections at r's listener not yet accepted

vars == <<proc, starts, place, sock_fd, backlog>>

Places == {"idle", "try_connect", "bind", "accept", "connected", "accepted", "failed"}

\* A connection is known by the process that made it.
Connection(r) == <<r, starts[r]>>
NoConnection == <<>>

OnEach(v) == [r \in Nodes |-> [m \in Neighbors[r] |-> v]]

Init ==
  /\ proc = [r \in Nodes |-> "down"]
  /\ starts = [r \in Nodes |-> 0]
  /\ place = OnEach("idle")
  /\ sock_fd = OnEach(NoConnection)
  /\ backlog = OnEach(<<>>)
-----------------------------------------------------------------------------
main(r) ==
  /\ proc[r] = "down" /\ starts[r] < MaxStarts[r]
  /\ proc' = [proc EXCEPT ![r] = "starting"]
  /\ starts' = [starts EXCEPT ![r] = @ + 1]
  /\ place' = [place EXCEPT ![r] = [m \in Neighbors[r] |-> "try_connect"]]
  /\ UNCHANGED <<sock_fd, backlog>>

Thread(r, m, from, to) ==
  /\ place[r][m] = from
  /\ place' = [place EXCEPT ![r][m] = to]
  /\ UNCHANGED <<proc, starts>>

\* Mutant of Listens: the socket listens before connect is tried.
ListensFirst(r, m) == place[r][m] \notin {"idle", "failed"}
Listens(r, m) == place[r][m] \in {"accept", "accepted"}

(***************************************************************************)
(* open_neighbor: connect succeeds as soon as the neighbor's socket        *)
(* listens, whoever waits in accept.                                       *)
(***************************************************************************)
try_connect(r, m) ==
  /\ Listens(m, r)
  /\ Thread(r, m, "try_connect", "connected")
  /\ sock_fd' = [sock_fd EXCEPT ![r][m] = Connection(r)]
  /\ backlog' = [backlog EXCEPT ![m][r] = Append(@, Connection(r))]

connect_refused(r, m) ==
  /\ ~Listens(m, r)
  /\ Thread(r, m, "try_connect", "bind")
  /\ UNCHANGED <<sock_fd, backlog>>

listen_connect(r, m) ==
  /\ Thread(r, m, "bind", "accept")
  /\ UNCHANGED <<sock_fd, backlog>>

\* The port may still be taken by a connection of an earlier process; the
\* thread ends with -1 for a descriptor all the same.
bind_fails(r, m) ==
  /\ starts[r] > 1
  /\ Thread(r, m, "bind", "failed")
  /\ UNCHANGED <<sock_fd, backlog>>

\* Mutant of accept: the descriptor is not stored.
AcceptForgets(r, m) ==
  /\ backlog[r][m] # <<>>
  /\ Thread(r, m, "accept", "accepted")
  /\ backlog' = [backlog EXCEPT ![r][m] = Tail(@)]
  /\ UNCHANGED sock_fd

accept(r, m) ==
  /\ backlog[r][m] # <<>>
  /\ Thread(r, m, "accept", "accepted")
  /\ sock_fd' = [sock_fd EXCEPT ![r][m] = Head(backlog[r][m])]
  /\ backlog' = [backlog EXCEPT ![r][m] = Tail(@)]

Opened(r, m) == place[r][m] \in {"connected", "accepted", "failed"}

\* Mutant of open_neighbor: no threads, one neighbor after the other.
OneAfterTheOther(r, m) ==
  /\ \A k \in Neighbors[r] :
       (k - r) % Cardinality(Nodes) < (m - r) % Cardinality(Nodes) => Opened(r, k)
  /\ \/ try_connect(r, m) \/ connect_refused(r, m)
     \/ listen_connect(r, m) \/ bind_fails(r, m) \/ accept(r, m)

open_neighbor(r, m) ==
  \/ try_connect(r, m) \/ connect_refused(r, m)
  \/ listen_connect(r, m) \/ bind_fails(r, m) \/ accept(r, m)

wait_for_neighbors(r) ==
  /\ proc[r] = "starting"
  /\ \A m \in Neighbors[r] : Opened(r, m)
  /\ proc' = [proc EXCEPT ![r] = "main"]
  /\ UNCHANGED <<starts, place, sock_fd, backlog>>
-----------------------------------------------------------------------------
(***************************************************************************)
(* The process ends: its descriptors are closed, and what waited at its    *)
(* listeners is reset.                                                     *)
(***************************************************************************)
close_router(r) ==
  /\ proc' = [proc EXCEPT ![r] = "down"]
  /\ place' = [place EXCEPT ![r] = [m \in Neighbors[r] |-> "idle"]]
  /\ sock_fd' = [sock_fd EXCEPT ![r] = [m \in Neighbors[r] |-> NoConnection]]
  /\ backlog' = [backlog EXCEPT ![r] = [m \in Neighbors[r] |-> <<>>]]
  /\ UNCHANGED starts

sighandler(r) == proc[r] # "down" /\ close_router(r)

\* The far end of r's connection with m is closed.
FarEndGone(r, m) ==
  /\ sock_fd[r][m] # NoConnection
  /\ sock_fd[m][r] # sock_fd[r][m]
  /\ \A i \in DOMAIN backlog[m][r] : backlog[m][r][i] # sock_fd[r][m]

\* Mutant of Router_Main: a read of no bytes is taken for no error.
ReadOfNothing(r) == FALSE

\* Router_Main: a read or a write finds that out, and ends the process.
Router_Main(r) ==
  /\ proc[r] = "main"
  /\ \E m \in Neighbors[r] : FarEndGone(r, m)
  /\ close_router(r)

Next ==
  \/ \E r \in Nodes :
       main(r) \/ wait_for_neighbors(r) \/ sighandler(r) \/ Router_Main(r)
  \/ \E r \in Nodes : \E m \in Neighbors[r] : open_neighbor(r, m)

Spec == Init /\ [][Next]_vars

(***************************************************************************)
(* Threads run, and select reports the end of a connection; nobody is      *)
(* obliged to start or to stop a router.                                   *)
(***************************************************************************)
FairSpec ==
  /\ Spec
  /\ \A r \in Nodes : WF_vars(wait_for_neighbors(r)) /\ WF_vars(Router_Main(r))
  /\ \A r \in Nodes : \A m \in Neighbors[r] : WF_vars(open_neighbor(r, m))
-----------------------------------------------------------------------------
(***************************************************************************)
(* Type invariant; in particular a router in Router_Main has a descriptor  *)
(* for every link, unless a port was taken.                                *)
(***************************************************************************)
TypeOK ==
  /\ proc \in [Nodes -> {"down", "starting", "main"}]
  /\ \A r \in Nodes : starts[r] \in 0 .. MaxStarts[r]
  /\ \A r \in Nodes : \A m \in Neighbors[r] :
       /\ place[r][m] \in Places
       /\ (sock_fd[r][m] # NoConnection) <=> (place[r][m] \in {"connected", "accepted"})
       /\ sock_fd[r][m] # NoConnection =>
            sock_fd[r][m][1] = (IF place[r][m] = "connected" THEN r ELSE m)
       /\ proc[r] = "down" => place[r][m] = "idle" /\ backlog[r][m] = <<>>

(***************************************************************************)
(* A link never carries two connections, one opened from either side: a    *)
(* thread that listens will not connect any more.                          *)
(***************************************************************************)
NeverCrossed ==
  \A r \in Nodes : \A m \in Neighbors[r] :
    ~(place[r][m] = "connected" /\ place[m][r] = "connected")

(***************************************************************************)
(* A restarted router can be connected to a listener whose owner still     *)
(* holds the connection of its predecessor.  When two routers find         *)
(* themselves in Router_Main with different connections of their link, one *)
(* of the two notices and ends.                                            *)
(***************************************************************************)
Mismatched(r, m) ==
  /\ proc[r] = "main" /\ proc[m] = "main"
  /\ sock_fd[r][m] # NoConnection /\ sock_fd[m][r] # NoConnection
  /\ sock_fd[r][m] # sock_fd[m][r]

MismatchEnds ==
  \A r \in Nodes : \A m \in Neighbors[r] :
    Mismatched(r, m) ~> (proc[r] = "down" \/ proc[m] = "down")

(***************************************************************************)
(* "When all its neighbors come up it begins broadcasting": while no       *)
(* router is down, each one reaches Router_Main, unless a thread waits for *)
(* a neighbor that is past its only attempt to connect (two neighbors that *)
(* start together may both be refused, and both listen for ever).          *)
(***************************************************************************)
Stranded(r, m) ==
  /\ place[r][m] = "accept" /\ backlog[r][m] = <<>>
  /\ place[m][r] \notin {"idle", "try_connect"}

StartsUp ==
  \A r \in Nodes :
    proc[r] = "starting" ~>
      \/ proc[r] = "main"
      \/ \E m \in Nodes : proc[m] = "down"
      \/ \E n \in Nodes : \E m \in Neighbors[n] : Stranded(n, m)
=============================================================================
