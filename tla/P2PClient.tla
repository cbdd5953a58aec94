------------------------------ MODULE P2PClient ------------------------------
(***************************************************************************)
(* The client of PA4 as the index server sees it: the state machine of     *)
(* run_client, the SIGINT handler, and the ways a process can end.  The    *)
(* download of a file is the subject of module P2PGet.                     *)
(***************************************************************************)
EXTENDS P2PConnection

CONSTANTS
  MaxLs,    \* bound: listings each client asks for
  MayCrash  \* clients that may be killed without a chance to deregister

ASSUME ClientConstants == MaxLs \in [Clients -> Nat] /\ MayCrash \subseteq Clients

VARIABLES
  state,      \* the state function each client is in, or how it ended
  unposted,   \* directory entries it has not offered yet
  cli_files,  \* cli->files: what listings have told it, the latest on top
  lscount     \* listings asked for

clientvars == <<state, unposted, cli_files, lscount>>

(***************************************************************************)
(* "left": it said DEREGISTER.  "cut": it said so in the middle of a       *)
(* NEWFILE line.  "gone": it ended without the server hearing of it.       *)
(***************************************************************************)
Ended == {"left", "cut", "gone"}
States == Ended \cup {"init_state", "post_files", "record", "wait_for_input",
                      "list_files"}

ClientInit ==
  /\ state = [c \in Clients |-> "init_state"]
  /\ unposted = FilesOf
  /\ cli_files = [c \in Clients |-> <<>>]
  /\ lscount = [c \in Clients |-> 0]

At(c, from, to) == state[c] = from /\ state' = [state EXCEPT ![c] = to]

\* A line written to a connection the server has closed is lost.
ClientWrite(c, line) ==
  tosrv' = IF srvopen[c] THEN [tosrv EXCEPT ![c] = Append(@, line)] ELSE tosrv

\* The process ends, and with it its side of the connection.
Ends(c, how) ==
  /\ state' = [state EXCEPT ![c] = how]
  /\ cliopen' = [cliopen EXCEPT ![c] = FALSE]
  /\ tocli' = [tocli EXCEPT ![c] = <<>>]
  /\ cli_files' = [cli_files EXCEPT ![c] = <<>>]
  /\ unposted' = [unposted EXCEPT ![c] = {}]
  /\ UNCHANGED <<lscount, srvopen>>
-----------------------------------------------------------------------------
Posting(rest) == IF rest = {} THEN "wait_for_input" ELSE "post_files"

init_state(c) ==
  /\ At(c, "init_state", Posting(unposted[c]))
  /\ ClientWrite(c, Command("REGISTER"))
  /\ UNCHANGED <<unposted, cli_files, lscount, tocli, cliopen, srvopen>>

\* write_stats writes the word and the record separately; readdir returns
\* the entries in any order.
post_files(c) ==
  /\ At(c, "post_files", "record")
  /\ ClientWrite(c, Command("NEWFILE"))
  /\ UNCHANGED <<unposted, cli_files, lscount, tocli, cliopen, srvopen>>

write_file_stat(c) ==
  \E f \in unposted[c] :
    /\ At(c, "record", Posting(unposted[c] \ {f}))
    /\ ClientWrite(c, FileStat(f, Stat(c)))
    /\ unposted' = [unposted EXCEPT ![c] = @ \ {f}]
    /\ UNCHANGED <<cli_files, lscount, tocli, cliopen, srvopen>>
-----------------------------------------------------------------------------
(***************************************************************************)
(* The user's ls and exit.                                                 *)
(***************************************************************************)
list_files(c) ==
  /\ At(c, "wait_for_input", "list_files")
  /\ lscount[c] < MaxLs[c]
  /\ lscount' = [lscount EXCEPT ![c] = @ + 1]
  /\ ClientWrite(c, Command("LIST"))
  /\ UNCHANGED <<unposted, cli_files, tocli, cliopen, srvopen>>

\* Mutant of list_end: the end of the stream is not looked for.
ListEndsOnEND(c) ==
  /\ At(c, "list_files", "wait_for_input")
  /\ tocli[c] # <<>> /\ Head(tocli[c]).type = "END"
  /\ tocli' = [tocli EXCEPT ![c] = Tail(@)]
  /\ UNCHANGED <<unposted, cli_files, lscount, tosrv, cliopen, srvopen>>

list_record(c) ==
  /\ At(c, "list_files", "list_files")
  /\ tocli[c] # <<>> /\ Head(tocli[c]).type = "file_stat"
  /\ cli_files' = [cli_files EXCEPT
                     ![c] = WithEntry(@, Head(tocli[c]).file, Head(tocli[c]).stat)]
  /\ tocli' = [tocli EXCEPT ![c] = Tail(@)]
  /\ UNCHANGED <<unposted, lscount, tosrv, cliopen, srvopen>>

\* Without a record: an END line, or the end of the stream.
list_end(c) ==
  /\ At(c, "list_files", "wait_for_input")
  /\ \/ /\ tocli[c] # <<>> /\ Head(tocli[c]).type = "END"
        /\ tocli' = [tocli EXCEPT ![c] = Tail(@)]
     \/ tocli[c] = <<>> /\ ~srvopen[c] /\ UNCHANGED tocli
  /\ UNCHANGED <<unposted, cli_files, lscount, tosrv, cliopen, srvopen>>

exit_client(c) ==
  /\ state[c] = "wait_for_input"
  /\ Ends(c, IF srvopen[c] THEN "left" ELSE "gone")
  /\ ClientWrite(c, Command("DEREGISTER"))
-----------------------------------------------------------------------------
(***************************************************************************)
(* Ctrl-C, whatever the client is doing.                                   *)
(***************************************************************************)
sigint_handler(c) ==
  /\ state[c] \notin Ended
  /\ Ends(c, IF ~srvopen[c] THEN "gone" ELSE IF state[c] = "record" THEN "cut" ELSE "left")
  /\ ClientWrite(c, Command("DEREGISTER"))

\* SIGPIPE: a write to a connection that the server has closed.
BrokenPipe(c) ==
  /\ ~srvopen[c]
  /\ state[c] \in {"init_state", "post_files", "record", "wait_for_input"}
  /\ Ends(c, "gone")
  /\ UNCHANGED tosrv

Crash(c) ==
  /\ c \in MayCrash /\ state[c] \notin Ended
  /\ Ends(c, "gone")
  /\ UNCHANGED tosrv

\* What a client does by itself, and what befalls it.
ClientStep(c) ==
  \/ init_state(c) \/ post_files(c) \/ write_file_stat(c)
  \/ list_record(c) \/ list_end(c)
UserStep(c) ==
  \/ list_files(c) \/ exit_client(c)
  \/ sigint_handler(c) \/ BrokenPipe(c) \/ Crash(c)
=============================================================================
