------------------------ MODULE NeighborStartupProofs ------------------------
(***************************************************************************)
(* What holds of the connections between routers for every network and    *)
(* any number of stops and starts.                                         *)
(***************************************************************************)
EXTENDS NeighborStartup, TLAPS

\* f keeps something for every router and each of its neighbors.
OnLinks(f) ==
  /\ DOMAIN f = Nodes /\ f = [r \in Nodes |-> f[r]]
  /\ \A r \in Nodes : DOMAIN f[r] = Neighbors[r] /\ f[r] = [m \in Neighbors[r] |-> f[r][m]]

\* One field set, and all the fields of a router set.
SetAt(f, r, m, v) == [f EXCEPT ![r][m] = v]
SetAll(f, r, v) == [f EXCEPT ![r] = [m \in Neighbors[r] |-> v]]

\* What waits at r's listener for m was made by processes of m.
FromNeighbor ==
  \A r \in Nodes : \A m \in Neighbors[r] : backlog[r][m] \in Seq({m} \X Nat)

Shape == OnLinks(place) /\ OnLinks(sock_fd) /\ OnLinks(backlog) /\ starts \in [Nodes -> Nat]

\* The inductive invariant.
StartupInv == Shape /\ TypeOK /\ FromNeighbor /\ NeverCrossed
-----------------------------------------------------------------------------
(***************************************************************************)
(* A link has two ends, and each is a neighbor of the other.               *)
(***************************************************************************)
LEMMA TwoEnds ==
  ASSUME NEW r \in Nodes, NEW m \in Neighbors[r]
  PROVE  m \in Nodes /\ r \in Neighbors[m] /\ m # r
BY StartupConstants

(***************************************************************************)
(* An assignment to one link's field changes that field and no other.      *)
(***************************************************************************)
LEMMA SetField ==
  ASSUME NEW f, OnLinks(f), NEW r \in Nodes, NEW m \in Neighbors[r], NEW v,
         NEW g, g = SetAt(f, r, m, v)
  PROVE  /\ OnLinks(g)
         /\ g[r][m] = v
         /\ \A s \in Nodes : \A k \in Neighbors[s] : (s # r \/ k # m) => g[s][k] = f[s][k]
<1> DEFINE row == [f[r] EXCEPT ![m] = v]
<1>1. DOMAIN row = Neighbors[r] /\ row = [k \in Neighbors[r] |-> row[k]]
  BY DEF OnLinks
<1>2. row[m] = v /\ \A k \in Neighbors[r] : k # m => row[k] = f[r][k]
  BY DEF OnLinks
<1>3. g = [f EXCEPT ![r] = row]
  BY DEF SetAt
<1> HIDE DEF row
<1>4. g[r] = row /\ \A s \in Nodes : s # r => g[s] = f[s]
  BY <1>3 DEF OnLinks
<1>5. DOMAIN g = Nodes /\ g = [s \in Nodes |-> g[s]]
  BY <1>3 DEF OnLinks
<1>6. OnLinks(g)
  BY <1>1, <1>4, <1>5 DEF OnLinks
<1> QED BY <1>2, <1>4, <1>6

(***************************************************************************)
(* So does an assignment to all the fields of a router.                    *)
(***************************************************************************)
LEMMA SetRow ==
  ASSUME NEW f, OnLinks(f), NEW r \in Nodes, NEW v,
         NEW g, g = SetAll(f, r, v)
  PROVE  /\ OnLinks(g)
         /\ \A m \in Neighbors[r] : g[r][m] = v
         /\ \A s \in Nodes : \A k \in Neighbors[s] : s # r => g[s][k] = f[s][k]
BY DEF OnLinks, SetAll

(***************************************************************************)
(* A connection names the process that made it, and is not the absence of  *)
(* one.                                                                    *)
(***************************************************************************)
LEMMA ConnectionFrom ==
  ASSUME NEW r, NEW c \in {r} \X Nat
  PROVE  c[1] = r /\ c # NoConnection
<1>1. c[1] = r /\ c = <<c[1], c[2]>>
  OBVIOUS
<1>2. <<c[1], c[2]>> # <<>>
  OBVIOUS
<1> QED BY <1>1, <1>2 DEF NoConnection

(***************************************************************************)
(* The invariant holds when no router has been started.                    *)
(***************************************************************************)
LEMMA StartupInit == Init => StartupInv
<1> SUFFICES ASSUME Init PROVE StartupInv
  OBVIOUS
<1> USE StartupConstants DEF Init, OnEach
<1>1. Shape
  BY DEF Shape, OnLinks
<1>2. TypeOK
  BY DEF TypeOK, Places
<1>3. FromNeighbor
  BY DEF FromNeighbor
<1>4. NeverCrossed
  BY TwoEnds DEF NeverCrossed
<1> QED BY <1>1, <1>2, <1>3, <1>4 DEF StartupInv

(***************************************************************************)
(* A step of the thread of r for m, whatever it does to the connection and *)
(* to the backlogs, leaves the other threads where they are.               *)
(***************************************************************************)
LEMMA ThreadMoves ==
  ASSUME StartupInv, NEW r \in Nodes, NEW m \in Neighbors[r], NEW from, NEW to,
         Thread(r, m, from, to)
  PROVE  /\ OnLinks(place')
         /\ place[r][m] = from /\ place'[r][m] = to
         /\ \A s \in Nodes : \A k \in Neighbors[s] :
              (s # r \/ k # m) => place'[s][k] = place[s][k]
         /\ UNCHANGED <<proc, starts>>
<1>1. OnLinks(place)
  BY DEF StartupInv, Shape
<1>2. place' = SetAt(place, r, m, to)
  BY DEF Thread, SetAt
<1>3. /\ OnLinks(place') /\ place'[r][m] = to
      /\ \A s \in Nodes : \A k \in Neighbors[s] :
           (s # r \/ k # m) => place'[s][k] = place[s][k]
  BY <1>1, <1>2, SetField
<1> QED BY <1>3 DEF Thread

(***************************************************************************)
(* The steps of open_neighbor that neither make nor accept a connection.   *)
(***************************************************************************)
LEMMA QuietStep ==
  ASSUME StartupInv, NEW r \in Nodes, NEW m \in Neighbors[r],
         connect_refused(r, m) \/ listen_connect(r, m) \/ bind_fails(r, m)
  PROVE  StartupInv'
<1>1. PICK from \in {"try_connect", "bind"}, to \in {"bind", "accept", "failed"} :
        Thread(r, m, from, to)
  BY DEF connect_refused, listen_connect, bind_fails
<1>2. UNCHANGED <<sock_fd, backlog>>
  BY DEF connect_refused, listen_connect, bind_fails
<1>3. /\ OnLinks(place')
      /\ place[r][m] = from /\ place'[r][m] = to
      /\ \A s \in Nodes : \A k \in Neighbors[s] :
           (s # r \/ k # m) => place'[s][k] = place[s][k]
      /\ UNCHANGED <<proc, starts>>
  BY <1>1, ThreadMoves
<1>4. Shape'
  BY <1>2, <1>3 DEF StartupInv, Shape, OnLinks
<1>5. TypeOK'
  BY <1>2, <1>3 DEF StartupInv, TypeOK, Places
<1>6. FromNeighbor'
  BY <1>2 DEF StartupInv, FromNeighbor
<1>7. NeverCrossed'
  BY <1>3, TwoEnds DEF StartupInv, NeverCrossed
<1> QED BY <1>4, <1>5, <1>6, <1>7 DEF StartupInv

(***************************************************************************)
(* connect: the other end listens, so it is not connected itself.          *)
(***************************************************************************)
LEMMA ConnectStep ==
  ASSUME StartupInv, NEW r \in Nodes, NEW m \in Neighbors[r], try_connect(r, m)
  PROVE  StartupInv'
<1> DEFINE c == Connection(r)
           longer == Append(backlog[m][r], c)
<1>1. m \in Nodes /\ r \in Neighbors[m] /\ m # r
  BY TwoEnds
<1>2. /\ OnLinks(place')
      /\ place[r][m] = "try_connect" /\ place'[r][m] = "connected"
      /\ \A s \in Nodes : \A k \in Neighbors[s] :
           (s # r \/ k # m) => place'[s][k] = place[s][k]
      /\ UNCHANGED <<proc, starts>>
  BY ThreadMoves DEF try_connect
<1>3. /\ OnLinks(sock_fd') /\ sock_fd'[r][m] = c
      /\ \A s \in Nodes : \A k \in Neighbors[s] :
           (s # r \/ k # m) => sock_fd'[s][k] = sock_fd[s][k]
  <2>1. OnLinks(sock_fd)
    BY DEF StartupInv, Shape
  <2>2. sock_fd' = SetAt(sock_fd, r, m, c)
    BY DEF try_connect, SetAt
  <2> HIDE DEF c
  <2> QED BY <2>1, <2>2, SetField
<1>4. /\ OnLinks(backlog') /\ backlog'[m][r] = longer
      /\ \A s \in Nodes : \A k \in Neighbors[s] :
           (s # m \/ k # r) => backlog'[s][k] = backlog[s][k]
  <2>1. backlog' = SetAt(backlog, m, r, longer)
    BY DEF try_connect, SetAt
  <2>2. OnLinks(backlog)
    BY DEF StartupInv, Shape
  <2> HIDE DEF longer
  <2> QED BY <1>1, <2>1, <2>2, SetField
<1>5. c \in {r} \X Nat
  BY DEF Connection, StartupInv, Shape
<1>6. c[1] = r /\ c # NoConnection
  BY <1>5, ConnectionFrom
<1>7. place[m][r] \in {"accept", "accepted"}
  BY DEF try_connect, Listens
<1> HIDE DEF c
<1>8. proc[m] # "down"
  BY <1>1, <1>7 DEF StartupInv, TypeOK
<1>9. proc[r] # "down"
  BY <1>2 DEF StartupInv, TypeOK
<1>10. Shape'
  BY <1>2, <1>3, <1>4 DEF StartupInv, Shape
<1>11. TypeOK'
  BY <1>2, <1>3, <1>4, <1>6, <1>8, <1>9 DEF StartupInv, TypeOK, Places
<1>12. FromNeighbor'
  <2>1. backlog[m][r] \in Seq({r} \X Nat)
    BY <1>1 DEF StartupInv, FromNeighbor
  <2>2. Append(backlog[m][r], c) \in Seq({r} \X Nat)
    BY <1>5, <2>1
  <2> QED BY <1>4, <2>2 DEF StartupInv, FromNeighbor
<1>13. NeverCrossed'
  <2> SUFFICES ASSUME NEW s \in Nodes, NEW k \in Neighbors[s],
                      place'[s][k] = "connected", place'[k][s] = "connected"
               PROVE  FALSE
    BY DEF NeverCrossed
  <2>1. k \in Nodes /\ s \in Neighbors[k] /\ k # s
    BY TwoEnds
  <2>2. CASE s = r /\ k = m
    BY <1>1, <1>2, <1>7, <2>1, <2>2
  <2>3. CASE s = m /\ k = r
    BY <1>1, <1>2, <1>7, <2>1, <2>3
  <2>4. CASE ~(s = r /\ k = m) /\ ~(s = m /\ k = r)
    BY <1>2, <2>1, <2>4 DEF StartupInv, NeverCrossed
  <2> QED BY <2>2, <2>3, <2>4
<1> QED BY <1>10, <1>11, <1>12, <1>13 DEF StartupInv

(***************************************************************************)
(* accept: what is taken from the backlog was made by the neighbor.        *)
(***************************************************************************)
LEMMA AcceptStep ==
  ASSUME StartupInv, NEW r \in Nodes, NEW m \in Neighbors[r], accept(r, m)
  PROVE  StartupInv'
<1> DEFINE c == Head(backlog[r][m])
<1>1. /\ OnLinks(place')
      /\ place[r][m] = "accept" /\ place'[r][m] = "accepted"
      /\ \A s \in Nodes : \A k \in Neighbors[s] :
           (s # r \/ k # m) => place'[s][k] = place[s][k]
      /\ UNCHANGED <<proc, starts>>
  BY ThreadMoves DEF accept
<1>2. /\ OnLinks(sock_fd') /\ sock_fd'[r][m] = c
      /\ \A s \in Nodes : \A k \in Neighbors[s] :
           (s # r \/ k # m) => sock_fd'[s][k] = sock_fd[s][k]
  <2>1. OnLinks(sock_fd)
    BY DEF StartupInv, Shape
  <2>2. sock_fd' = SetAt(sock_fd, r, m, c)
    BY DEF accept, SetAt
  <2> HIDE DEF c
  <2> QED BY <2>1, <2>2, SetField
<1>3. /\ OnLinks(backlog') /\ backlog'[r][m] = Tail(backlog[r][m])
      /\ \A s \in Nodes : \A k \in Neighbors[s] :
           (s # r \/ k # m) => backlog'[s][k] = backlog[s][k]
  <2>1. backlog' = SetAt(backlog, r, m, Tail(backlog[r][m]))
    BY DEF accept, SetAt
  <2>2. OnLinks(backlog)
    BY DEF StartupInv, Shape
  <2> QED BY <2>1, <2>2, SetField
<1>4. backlog[r][m] \in Seq({m} \X Nat) /\ backlog[r][m] # <<>>
  BY DEF accept, StartupInv, FromNeighbor
<1>5. c \in {m} \X Nat /\ Tail(backlog[r][m]) \in Seq({m} \X Nat)
  BY <1>4
<1>6. c[1] = m /\ c # NoConnection
  BY <1>5, ConnectionFrom
<1> HIDE DEF c
<1>7. proc[r] # "down"
  BY <1>1 DEF StartupInv, TypeOK
<1>8. Shape'
  BY <1>1, <1>2, <1>3 DEF StartupInv, Shape
<1>9. TypeOK'
  BY <1>1, <1>2, <1>3, <1>6, <1>7 DEF StartupInv, TypeOK, Places
<1>10. FromNeighbor'
  BY <1>3, <1>5 DEF StartupInv, FromNeighbor
<1>11. NeverCrossed'
  BY <1>1, TwoEnds DEF StartupInv, NeverCrossed
<1> QED BY <1>8, <1>9, <1>10, <1>11 DEF StartupInv

(***************************************************************************)
(* A process is started: each of its threads begins by connecting.         *)
(***************************************************************************)
LEMMA MainStep ==
  ASSUME StartupInv, NEW r \in Nodes, main(r)
  PROVE  StartupInv'
<1>1. /\ OnLinks(place')
      /\ \A k \in Neighbors[r] : place'[r][k] = "try_connect"
      /\ \A s \in Nodes : \A k \in Neighbors[s] : s # r => place'[s][k] = place[s][k]
  <2>1. OnLinks(place)
    BY DEF StartupInv, Shape
  <2>2. place' = SetAll(place, r, "try_connect")
    BY DEF main, SetAll
  <2> QED BY <2>1, <2>2, SetRow
<1>2. UNCHANGED <<sock_fd, backlog>>
  BY DEF main
<1>3. /\ proc' \in [Nodes -> {"down", "starting", "main"}]
      /\ proc[r] = "down" /\ proc'[r] = "starting"
      /\ \A s \in Nodes : s # r => proc'[s] = proc[s]
  BY DEF main, StartupInv, TypeOK
<1>4. starts' \in [Nodes -> Nat] /\ \A s \in Nodes : starts'[s] \in 0 .. MaxStarts[s]
  <2>1. starts \in [Nodes -> Nat] /\ \A s \in Nodes : starts[s] \in 0 .. MaxStarts[s]
    BY DEF StartupInv, TypeOK, Shape
  <2>2. starts' = [starts EXCEPT ![r] = starts[r] + 1] /\ starts[r] < MaxStarts[r]
    BY DEF main
  <2>3. \A s \in Nodes : MaxStarts[s] \in Nat
    BY StartupConstants
  <2> QED BY <2>1, <2>2, <2>3
<1>5. Shape'
  BY <1>1, <1>2, <1>4 DEF StartupInv, Shape
<1>6. TypeOK'
  BY <1>1, <1>2, <1>3, <1>4 DEF StartupInv, TypeOK, Places
<1>7. FromNeighbor'
  BY <1>2 DEF StartupInv, FromNeighbor
<1>8. NeverCrossed'
  BY <1>1, TwoEnds DEF StartupInv, NeverCrossed
<1> QED BY <1>5, <1>6, <1>7, <1>8 DEF StartupInv

(***************************************************************************)
(* A process ends: it leaves neither connections nor a backlog.            *)
(***************************************************************************)
LEMMA CloseStep ==
  ASSUME StartupInv, NEW r \in Nodes, close_router(r)
  PROVE  StartupInv'
<1>1. /\ OnLinks(place')
      /\ \A k \in Neighbors[r] : place'[r][k] = "idle"
      /\ \A s \in Nodes : \A k \in Neighbors[s] : s # r => place'[s][k] = place[s][k]
  <2>1. OnLinks(place)
    BY DEF StartupInv, Shape
  <2>2. place' = SetAll(place, r, "idle")
    BY DEF close_router, SetAll
  <2> QED BY <2>1, <2>2, SetRow
<1>2. /\ OnLinks(sock_fd')
      /\ \A k \in Neighbors[r] : sock_fd'[r][k] = NoConnection
      /\ \A s \in Nodes : \A k \in Neighbors[s] : s # r => sock_fd'[s][k] = sock_fd[s][k]
  <2>1. OnLinks(sock_fd)
    BY DEF StartupInv, Shape
  <2>2. sock_fd' = SetAll(sock_fd, r, NoConnection)
    BY DEF close_router, SetAll
  <2> QED BY <2>1, <2>2, SetRow
<1>3. /\ OnLinks(backlog')
      /\ \A k \in Neighbors[r] : backlog'[r][k] = <<>>
      /\ \A s \in Nodes : \A k \in Neighbors[s] : s # r => backlog'[s][k] = backlog[s][k]
  <2>1. OnLinks(backlog)
    BY DEF StartupInv, Shape
  <2>2. backlog' = SetAll(backlog, r, <<>>)
    BY DEF close_router, SetAll
  <2> QED BY <2>1, <2>2, SetRow
<1>4. /\ proc' \in [Nodes -> {"down", "starting", "main"}]
      /\ \A s \in Nodes : s # r => proc'[s] = proc[s]
      /\ starts' = starts
  BY DEF close_router, StartupInv, TypeOK
<1>5. Shape'
  BY <1>1, <1>2, <1>3, <1>4 DEF StartupInv, Shape
<1>6. TypeOK'
  BY <1>1, <1>2, <1>3, <1>4 DEF StartupInv, TypeOK, Places
<1>7. FromNeighbor'
  <2>1. \A k \in Neighbors[r] : <<>> \in Seq({k} \X Nat)
    OBVIOUS
  <2> QED BY <1>3, <2>1 DEF StartupInv, FromNeighbor
<1>8. NeverCrossed'
  BY <1>1, TwoEnds DEF StartupInv, NeverCrossed
<1> QED BY <1>5, <1>6, <1>7, <1>8 DEF StartupInv

(***************************************************************************)
(* Every step of every router preserves the invariant.                     *)
(***************************************************************************)
LEMMA StartupStep == StartupInv /\ [Next]_vars => StartupInv'
<1> SUFFICES ASSUME StartupInv, [Next]_vars PROVE StartupInv'
  OBVIOUS
<1>1. ASSUME NEW r \in Nodes, NEW m \in Neighbors[r], open_neighbor(r, m)
      PROVE  StartupInv'
  BY <1>1, QuietStep, ConnectStep, AcceptStep DEF open_neighbor
<1>2. ASSUME NEW r \in Nodes, wait_for_neighbors(r) PROVE StartupInv'
  <2>1. proc' \in [Nodes -> {"down", "starting", "main"}]
    BY <1>2 DEF wait_for_neighbors, StartupInv, TypeOK
  <2>2. \A s \in Nodes : proc'[s] = "down" => proc[s] = "down"
    BY <1>2 DEF wait_for_neighbors, StartupInv, TypeOK
  <2>3. UNCHANGED <<starts, place, sock_fd, backlog>>
    BY <1>2 DEF wait_for_neighbors
  <2>4. TypeOK'
    BY <2>1, <2>2, <2>3 DEF StartupInv, TypeOK
  <2> QED BY <2>3, <2>4 DEF StartupInv, Shape, OnLinks, FromNeighbor, NeverCrossed
<1>3. ASSUME NEW r \in Nodes, sighandler(r) \/ Router_Main(r) PROVE StartupInv'
  BY <1>3, CloseStep DEF sighandler, Router_Main
<1>4. CASE UNCHANGED vars
  <2>1. UNCHANGED <<proc, starts, place, sock_fd, backlog>>
    BY <1>4 DEF vars
  <2>2. Shape' /\ NeverCrossed'
    BY <2>1 DEF StartupInv, Shape, OnLinks, NeverCrossed
  <2>3. TypeOK' /\ FromNeighbor'
    BY <2>1 DEF StartupInv, TypeOK, FromNeighbor
  <2> QED BY <2>2, <2>3 DEF StartupInv
<1> QED BY <1>1, <1>2, <1>3, <1>4, MainStep DEF Next

(***************************************************************************)
(* In every network, however often its routers are stopped and started:    *)
(* a thread holds a connection exactly when it connected or accepted one,  *)
(* the connection was made by the end that connected, and a process that   *)
(* is down leaves nothing behind.                                          *)
(***************************************************************************)
THEOREM StartupTypeCorrect == Spec => []TypeOK
<1>1. StartupInv => TypeOK
  BY DEF StartupInv
<1> QED BY <1>1, StartupInit, StartupStep, PTL DEF Spec

(***************************************************************************)
(* No link ever carries a connection from either side: listen_connect is   *)
(* reached only after the single attempt to connect, and connect succeeds  *)
(* only while the other end listens.                                       *)
(***************************************************************************)
THEOREM LinksNeverCross == Spec => []NeverCrossed
<1>1. StartupInv => NeverCrossed
  BY DEF StartupInv
<1> QED BY <1>1, StartupInit, StartupStep, PTL DEF Spec
=============================================================================
