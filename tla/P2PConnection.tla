---------------------------- MODULE P2PConnection ----------------------------
(***************************************************************************)
(* The TCP connections between the clients of PA4 and the index server,    *)
(* and the lines that travel on them.                                      *)
(***************************************************************************)
EXTENDS Maps, Integers, Sequences

CONSTANTS
  Clients,  \* the client processes
  Names,    \* the names they register
  NameOf,   \* the name each was started with; two may be given the same one
  Files,    \* file names
  FilesOf,  \* the entries each finds in its directory
  DotFiles, \* "." and "..", which are entries too
  SockBuf   \* bound: records the server can send before the client reads

ASSUME ConnectionConstants ==
  /\ NameOf \in [Clients -> Names]
  /\ FilesOf \in [Clients -> SUBSET Files]
  /\ DotFiles \subseteq Files
  /\ SockBuf \in Nat \ {0}

VARIABLES
  tosrv, tocli,     \* what is on its way in each direction
  cliopen, srvopen  \* which ends of the connection are still open

connvars == <<tosrv, tocli, cliopen, srvopen>>

(***************************************************************************)
(* A command word with its argument, and the line of write_file_stat.  A   *)
(* client leaves the host empty; the server fills it in from the address   *)
(* the connection comes from.                                              *)
(***************************************************************************)
Command(word) == [type |-> word]
FileStat(f, s) == [type |-> "file_stat", file |-> f, stat |-> s]

\* The host stands for the address and the port of the client's listener.
Stat(c) == [owner |-> NameOf[c], host |-> c]
Stats == {Stat(c) : c \in Clients}

ConnInit ==
  /\ tosrv = [c \in Clients |-> <<>>]
  /\ tocli = [c \in Clients |-> <<>>]
  /\ cliopen = [c \in Clients |-> TRUE]
  /\ srvopen = [c \in Clients |-> TRUE]

\* The names that one client alone was started with.
Lone(n) == \A c, d \in Clients : NameOf[c] = n /\ NameOf[d] = n => c = d
=============================================================================
