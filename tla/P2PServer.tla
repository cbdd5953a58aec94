------------------------------ MODULE P2PServer ------------------------------
(***************************************************************************)
(* The index server of PA4: one thread per connection runs                 *)
(* connection_callback over a set of names and a map of files, each under  *)
(* a mutex of its own.                                                     *)
(*                                                                         *)
(* An operation under one of the mutexes is a step, except a listing,      *)
(* which writes to the client record by record while it holds the map's.   *)
(***************************************************************************)
EXTENDS P2PConnection

VARIABLES
  g_client_set,  \* the registered names
  g_file_map,    \* the files offered, as a function on their names
  thread,        \* the place of each connection's thread
  tosend,        \* the records its listing has yet to write
  serverup       \* the process has not been killed

servervars == <<g_client_set, g_file_map, thread, tosend, serverup>>

ServerInit ==
  /\ g_client_set = {}
  /\ g_file_map = <<>>
  /\ thread = [c \in Clients |-> "loop"]
  /\ tosend = [c \in Clients |-> {}]
  /\ serverup = TRUE

Goes(c, from, to) ==
  /\ serverup
  /\ thread[c] = from
  /\ thread' = [thread EXCEPT ![c] = to]

\* The thread reads a line of the given type from its connection.
Reads(c, type) ==
  /\ tosrv[c] # <<>> /\ Head(tosrv[c]).type = type
  /\ tosrv' = [tosrv EXCEPT ![c] = Tail(@)]

ServerDies ==
  /\ serverup' = FALSE
  /\ srvopen' = [c \in Clients |-> FALSE]
  /\ thread' = [c \in Clients |-> "ended"]
  /\ tosrv' = [c \in Clients |-> <<>>]
  /\ UNCHANGED <<g_client_set, g_file_map, tosend, tocli, cliopen>>

\* g_trie_mutex: only a listing holds it for more than a step.
TrieMutexFree == \A c \in Clients : thread[c] # "list"
-----------------------------------------------------------------------------
(***************************************************************************)
(* REGISTER: the name is looked up under g_set_mutex and, if it is free,   *)
(* inserted after the mutex has been released and taken again.  A client   *)
(* whose name is taken is cut off.                                         *)
(***************************************************************************)
RegisterRefused(c) ==
  /\ Goes(c, "loop", "ended")
  /\ Reads(c, "REGISTER")
  /\ NameOf[c] \in g_client_set
  /\ srvopen' = [srvopen EXCEPT ![c] = FALSE]
  /\ UNCHANGED <<g_client_set, g_file_map, tosend, serverup, tocli, cliopen>>

RegisterTest(c) ==
  /\ Goes(c, "loop", "insert")
  /\ Reads(c, "REGISTER")
  /\ NameOf[c] \notin g_client_set
  /\ UNCHANGED <<g_client_set, g_file_map, tosend, serverup, tocli, cliopen, srvopen>>

RegisterInsert(c) ==
  /\ Goes(c, "insert", "loop")
  /\ g_client_set' = g_client_set \cup {NameOf[c]}
  /\ UNCHANGED <<g_file_map, tosend, serverup, connvars>>

(***************************************************************************)
(* NEWFILE: the rest of the line is parsed as a record.  Whatever line     *)
(* stands there instead is consumed, and so is the end of the stream.  The *)
(* entries "." and ".." of a directory are not taken.                      *)
(***************************************************************************)
NewFile(c) ==
  /\ Goes(c, "loop", "newfile")
  /\ Reads(c, "NEWFILE")
  /\ UNCHANGED <<g_client_set, g_file_map, tosend, serverup, tocli, cliopen, srvopen>>

\* Mutant of read_file_stat: "." and ".." are taken.
NewFileAnyEntry(c) ==
  /\ Goes(c, "newfile", "loop")
  /\ TrieMutexFree
  /\ Reads(c, "file_stat")
  /\ g_file_map' = WithEntry(g_file_map, Head(tosrv[c]).file, Stat(c))
  /\ UNCHANGED <<g_client_set, tosend, serverup, tocli, cliopen, srvopen>>

\* Mutant of read_file_stat: the record is inserted without the mutex.
NewFileWithoutMutex(c) ==
  /\ Goes(c, "newfile", "loop")
  /\ Reads(c, "file_stat")
  /\ LET f == Head(tosrv[c]).file
     IN g_file_map' = IF f \in DotFiles THEN g_file_map
                      ELSE WithEntry(g_file_map, f, Stat(c))
  /\ UNCHANGED <<g_client_set, tosend, serverup, tocli, cliopen, srvopen>>

read_file_stat(c) ==
  /\ Goes(c, "newfile", "loop")
  /\ TrieMutexFree
  /\ Reads(c, "file_stat")
  /\ LET f == Head(tosrv[c]).file
     IN g_file_map' = IF f \in DotFiles THEN g_file_map
                      ELSE WithEntry(g_file_map, f, Stat(c))
  /\ UNCHANGED <<g_client_set, tosend, serverup, tocli, cliopen, srvopen>>

read_file_stat_fails(c) ==
  /\ Goes(c, "newfile", "loop")
  /\ \/ Reads(c, "DEREGISTER")
     \/ tosrv[c] = <<>> /\ ~cliopen[c] /\ UNCHANGED tosrv
  /\ UNCHANGED <<g_client_set, g_file_map, tosend, serverup, tocli, cliopen, srvopen>>
-----------------------------------------------------------------------------
(***************************************************************************)
(* LIST: every record is written while g_trie_mutex is held.  A write      *)
(* blocks while the connection is full; one to a client that is gone is    *)
(* lost, or raises SIGPIPE and ends the process.                           *)
(***************************************************************************)
ServerWrite(c, line) ==
  \/ /\ cliopen[c] /\ Len(tocli[c]) < SockBuf
     /\ tocli' = [tocli EXCEPT ![c] = Append(@, line)]
  \/ ~cliopen[c] /\ UNCHANGED tocli

ListLock(c) ==
  /\ Goes(c, "loop", "list")
  /\ TrieMutexFree
  /\ Reads(c, "LIST")
  /\ tosend' = [tosend EXCEPT ![c] = DOMAIN g_file_map]
  /\ UNCHANGED <<g_client_set, g_file_map, serverup, tocli, cliopen, srvopen>>

\* trie_iterate calls printitr in the fixed order of the trie.
printitr(c) ==
  /\ Goes(c, "list", "list")
  /\ tosend[c] # {}
  /\ LET f == CHOOSE g \in tosend[c] : TRUE
     IN /\ ServerWrite(c, FileStat(f, g_file_map[f]))
        /\ tosend' = [tosend EXCEPT ![c] = @ \ {f}]
  /\ UNCHANGED <<g_client_set, g_file_map, serverup, tosrv, cliopen, srvopen>>

ListUnlock(c) ==
  /\ Goes(c, "list", "end")
  /\ tosend[c] = {}
  /\ UNCHANGED <<g_client_set, g_file_map, tosend, serverup, connvars>>

ListEnd(c) ==
  /\ Goes(c, "end", "loop")
  /\ ServerWrite(c, Command("END"))
  /\ UNCHANGED <<g_client_set, g_file_map, tosend, serverup, tosrv, cliopen, srvopen>>

SigPipe(c) ==
  /\ serverup /\ ~cliopen[c]
  /\ \/ thread[c] = "list" /\ tosend[c] # {}
     \/ thread[c] = "end"
  /\ ServerDies
-----------------------------------------------------------------------------
\* deregister_itr: the files of name n go.  Mutants: the owners are not
\* compared and every file goes; the iteration does not look at the map.
AllWithdrawn(n) == <<>>
NoneWithdrawn(n) == g_file_map
Withdrawn(n) ==
  [f \in {g \in DOMAIN g_file_map : g_file_map[g].owner # n} |-> g_file_map[f]]

(***************************************************************************)
(* DEREGISTER: first the files, then the name, and the stream is closed.   *)
(***************************************************************************)
\* Mutant of Deregister: the name goes first.
DeregisterNameFirst(c) ==
  /\ Goes(c, "loop", "remove")
  /\ TrieMutexFree
  /\ Reads(c, "DEREGISTER")
  /\ g_client_set' = g_client_set \ {NameOf[c]}
  /\ UNCHANGED <<g_file_map, tosend, serverup, tocli, cliopen, srvopen>>

Deregister(c) ==
  /\ Goes(c, "loop", "remove")
  /\ TrieMutexFree
  /\ Reads(c, "DEREGISTER")
  /\ g_file_map' = Withdrawn(NameOf[c])
  /\ UNCHANGED <<g_client_set, tosend, serverup, tocli, cliopen, srvopen>>

DeregisterRemove(c) ==
  /\ Goes(c, "remove", "closed")
  /\ g_client_set' = g_client_set \ {NameOf[c]}
  /\ srvopen' = [srvopen EXCEPT ![c] = FALSE]
  /\ UNCHANGED <<g_file_map, tosend, serverup, tosrv, tocli, cliopen>>

(***************************************************************************)
(* The loop goes on to test feof of the stream it has closed, which is     *)
(* undefined: the thread ends, or spins on a stream that yields nothing    *)
(* (which comes to the same), or takes the process down.                   *)
(***************************************************************************)
FeofOfClosed(c) ==
  \/ /\ Goes(c, "closed", "ended")
     /\ UNCHANGED <<g_client_set, g_file_map, tosend, serverup, connvars>>
  \/ serverup /\ thread[c] = "closed" /\ ServerDies

(***************************************************************************)
(* The end of the stream ends the loop, and nothing is cleaned up.         *)
(***************************************************************************)
EndOfStream(c) ==
  /\ Goes(c, "loop", "ended")
  /\ tosrv[c] = <<>> /\ ~cliopen[c]
  /\ UNCHANGED <<g_client_set, g_file_map, tosend, serverup, connvars>>

connection_callback(c) ==
  \/ RegisterRefused(c) \/ RegisterTest(c) \/ RegisterInsert(c)
  \/ NewFile(c) \/ read_file_stat(c) \/ read_file_stat_fails(c)
  \/ ListLock(c) \/ printitr(c) \/ ListUnlock(c) \/ ListEnd(c) \/ SigPipe(c)
  \/ Deregister(c) \/ DeregisterRemove(c) \/ FeofOfClosed(c) \/ EndOfStream(c)
=============================================================================
