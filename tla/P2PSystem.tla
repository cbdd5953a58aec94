------------------------------ MODULE P2PSystem ------------------------------
(***************************************************************************)
(* The index server of PA4 with its clients.                               *)
(***************************************************************************)
EXTENDS P2PServer, P2PClient

vars == <<connvars, servervars, clientvars>>

Init == ConnInit /\ ServerInit /\ ClientInit

ServerStep(c) == connection_callback(c) /\ UNCHANGED clientvars

Next ==
  \E c \in Clients :
    \/ ServerStep(c)
    \/ ClientStep(c) /\ UNCHANGED servervars
    \/ UserStep(c) /\ UNCHANGED servervars

Spec == Init /\ [][Next]_vars

(***************************************************************************)
(* Every thread of the server runs, and so does every client; a user is    *)
(* not obliged to anything.  pthread mutexes are not fair, but a thread    *)
(* that waits for one here contends with a bounded number of requests.     *)
(***************************************************************************)
FairSpec ==
  /\ Spec
  /\ \A c \in Clients :
       WF_vars(ServerStep(c)) /\ WF_vars(ClientStep(c) /\ UNCHANGED servervars)
-----------------------------------------------------------------------------
\* The index as a client is told of it: records lie over earlier ones.
Laid(lines) ==
  LET records == {lines[i] : i \in {j \in DOMAIN lines : lines[j].type = "file_stat"}}
  IN [f \in {r.file : r \in records} |-> (CHOOSE r \in records : r.file = f).stat]

(***************************************************************************)
(* Type invariant of server, clients and connections; in particular "." and *)
(* ".." are never offered.                                                 *)
(***************************************************************************)
TypeOK ==
  /\ g_client_set \subseteq Names
  /\ DOMAIN g_file_map \subseteq Files \ DotFiles
  /\ \A f \in DOMAIN g_file_map : g_file_map[f] \in Stats
  /\ thread \in [Clients -> {"loop", "insert", "newfile", "list", "end",
                             "remove", "closed", "ended"}]
  /\ tosend \in [Clients -> SUBSET Files]
  /\ serverup \in BOOLEAN
  /\ state \in [Clients -> States]
  /\ unposted \in [Clients -> SUBSET Files]
  /\ \A c \in Clients : lscount[c] \in 0 .. MaxLs[c]
  /\ \A c \in Clients :
       /\ Len(tocli[c]) <= SockBuf
       /\ \A f \in DOMAIN cli_files[c] : cli_files[c][f] \in Stats

(***************************************************************************)
(* Nothing is offered under a name that is not registered, however the     *)
(* lines of a client that goes and of one that stays fall together: while  *)
(* a file is listed, a second client of its owner's name is refused.  Of a *)
(* name that was given to two clients it is not true: both may pass the    *)
(* test before either is inserted, and the first to leave takes the name.  *)
(***************************************************************************)
ListedIsRegistered ==
  \A f \in DOMAIN g_file_map :
    Lone(g_file_map[f].owner) => g_file_map[f].owner \in g_client_set

(***************************************************************************)
(* What others do to the index does not touch a client that stays: a file  *)
(* that it has offered, and nobody else has, is listed as its own.         *)
(***************************************************************************)
OthersUntouched ==
  \A c \in Clients :
    state[c] \notin Ended /\ serverup /\ Lone(NameOf[c]) =>
      LET heard == FilesOf[c] \ (unposted[c] \cup DotFiles \cup
                     {tosrv[c][i].file :
                        i \in {j \in DOMAIN tosrv[c] : tosrv[c][j].type = "file_stat"}})
          alone == {f \in heard : \A d \in Clients \ {c} : f \notin FilesOf[d] \ unposted[d]}
      IN \A f \in alone : f \in DOMAIN g_file_map /\ g_file_map[f] = Stat(c)

(***************************************************************************)
(* The server and its connections implement the index.  A listing takes    *)
(* effect when the mutex is taken; what is still to be sent or on its way  *)
(* belongs to it.                                                          *)
(***************************************************************************)
Answer(c) ==
  IF ~cliopen[c] THEN <<>>
  ELSE Over([f \in tosend[c] |-> g_file_map[f]], Over(Laid(tocli[c]), cli_files[c]))

Index == INSTANCE FileIndex WITH
  names <- g_client_set, map <- g_file_map,
  answer <- [c \in Clients |-> Answer(c)]

ImplementsIndex == Index!Spec

(***************************************************************************)
(* A client that exits is forgotten: once it has said DEREGISTER, its name *)
(* and its files go, unless the server goes first.  (It does not come      *)
(* back, so leading to this is the same as coming to it again and again.)  *)
(***************************************************************************)
Forgotten(c) ==
  /\ NameOf[c] \notin g_client_set
  /\ \A f \in DOMAIN g_file_map : g_file_map[f].owner # NameOf[c]

LeaversForgotten ==
  \A c \in Clients :
    Lone(NameOf[c]) => []<>(state[c] = "left" => Forgotten(c) \/ ~serverup)

(***************************************************************************)
(* ls returns: whatever becomes of the other clients and of the server, a  *)
(* client does not wait for the rest of a listing for ever.                *)
(***************************************************************************)
LsReturns ==
  \A c \in Clients : []<>(state[c] # "list_files")
=============================================================================
