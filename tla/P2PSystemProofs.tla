--------------------------- MODULE P2PSystemProofs ---------------------------
(***************************************************************************)
(* What holds of the index server for any number of clients, names and     *)
(* files, whoever is killed and however their lines interleave.            *)
(***************************************************************************)
EXTENDS P2PSystem, SequenceTheorems, TLAPS

\* The lines that travel on a connection.
Words == {"REGISTER", "NEWFILE", "LIST", "DEREGISTER", "END"}
Line == [type : Words] \cup [type : {"file_stat"}, file : Files, stat : Stats]

Wire ==
  /\ tosrv \in [Clients -> Seq(Line)] /\ tocli \in [Clients -> Seq(Line)]
  /\ cliopen \in [Clients -> BOOLEAN] /\ srvopen \in [Clients -> BOOLEAN]
  /\ lscount \in [Clients -> Nat]
  /\ DOMAIN cli_files = Clients /\ cli_files = [c \in Clients |-> cli_files[c]]

\* The map stays as it is while there are records of it to be written: the
\* thread that writes them holds g_trie_mutex, or the process has ended.
Listing ==
  \A c \in Clients :
    /\ tosend[c] \subseteq DOMAIN g_file_map
    /\ serverup /\ tosend[c] # {} => thread[c] = "list"

\* What the type invariant needs to be inductive.
Typed == Wire /\ TypeOK /\ Listing

\* The server has not come to the REGISTER of c, or there will be none.
Unheard(c) ==
  \/ tosrv[c] # <<>> /\ Head(tosrv[c]).type = "REGISTER"
  \/ state[c] = "init_state" /\ tosrv[c] = <<>>
  \/ state[c] \in Ended /\ \A i \in DOMAIN tosrv[c] : tosrv[c][i].type = "DEREGISTER"

\* A connection is closed last.
ClosedLast == \A c \in Clients : ~srvopen[c] => thread[c] \in {"closed", "ended"}

\* While the name of c is not in the set its thread is at a place from which
\* no file is entered, and when the name is about to go its files are gone.
Registers(c) ==
  /\ NameOf[c] \notin g_client_set =>
       \/ thread[c] \in {"insert", "remove", "closed", "ended"}
       \/ thread[c] = "loop" /\ Unheard(c)
  /\ thread[c] = "remove" =>
       \A f \in DOMAIN g_file_map : g_file_map[f].owner # NameOf[c]

\* So it is for a client that shares its name with nobody.
Registration == \A c \in Clients : Lone(NameOf[c]) => Registers(c)

\* The inductive invariant of ListedIsRegistered.
RegisterInv == Typed /\ ClosedLast /\ Registration /\ ListedIsRegistered

\* The files that the lines of a connection speak of.
FilesIn(lines) == {lines[i].file : i \in {j \in DOMAIN lines : lines[j].type = "file_stat"}}

\* What a client has written to the server of is no longer unposted.
Posted ==
  \A c \in Clients :
    /\ unposted[c] \subseteq FilesOf[c]
    /\ FilesIn(tosrv[c]) \subseteq FilesOf[c] \ unposted[c]

\* A client that runs, as does the server, under a name of its own.
Live(c) == state[c] \notin Ended /\ serverup /\ Lone(NameOf[c])

\* A client that shares its name with nobody is neither refused nor forgotten
\* while it runs.
Stands(c) ==
  /\ srvopen[c] /\ cliopen[c] /\ thread[c] \notin {"remove", "closed", "ended"}
  /\ state[c] = "init_state" => tosrv[c] = <<>>
  /\ \A i \in DOMAIN tosrv[c] :
       /\ tosrv[c][i].type # "DEREGISTER"
       /\ tosrv[c][i].type = "REGISTER" => i = 1
  /\ (state[c] = "init_state" \/ (tosrv[c] # <<>> /\ tosrv[c][1].type = "REGISTER"))
       => thread[c] = "loop" /\ NameOf[c] \notin g_client_set

Standing == \A c \in Clients : Live(c) => Stands(c)

\* OthersUntouched, of one client.
Alone(c, f) ==
  /\ f \in FilesOf[c] /\ f \notin unposted[c] /\ f \notin DotFiles
  /\ f \notin FilesIn(tosrv[c])
  /\ \A d \in Clients : d # c => f \notin FilesOf[d] \/ f \in unposted[d]
Keeps(c) == \A f : Alone(c, f) => f \in DOMAIN g_file_map /\ g_file_map[f] = Stat(c)

\* The inductive invariant of OthersUntouched.
UntouchedInv == Typed /\ Standing /\ Posted /\ OthersUntouched

\* No line of the given type; no two records that tell of a file differently.
Lacks(lines, type) == \A i \in DOMAIN lines : lines[i].type # type
OneStat(lines) ==
  \A i, j \in DOMAIN lines :
    lines[i].type = "file_stat" /\ lines[j].type = "file_stat" /\ lines[i].file = lines[j].file
      => lines[i].stat = lines[j].stat

\* A client asks for one listing at a time, and what is on its way to it is a
\* part of that listing: records of the map as it is while the mutex is held,
\* and END at the end.
Converses(c) ==
  /\ OneStat(tocli[c])
  /\ thread[c] \in {"list", "end"} =>
       state[c] = "list_files" /\ Lacks(tosrv[c], "LIST") /\ Lacks(tocli[c], "END")
  /\ thread[c] = "list" =>
       \A i \in DOMAIN tocli[c] :
         tocli[c][i].type = "file_stat" =>
           /\ tocli[c][i].file \in DOMAIN g_file_map
           /\ tocli[c][i].stat = g_file_map[tocli[c][i].file]
  /\ thread[c] \notin {"closed", "ended"} =>
       \A i \in DOMAIN tosrv[c] :
         tosrv[c][i].type = "LIST" =>
           /\ state[c] = "list_files" /\ tocli[c] = <<>>
           /\ \A j \in DOMAIN tosrv[c] : tosrv[c][j].type = "LIST" => j = i
  /\ state[c] # "list_files" => tocli[c] = <<>>
  /\ \A i \in DOMAIN tocli[c] : tocli[c][i].type = "END" => i = Len(tocli[c])

Dialogue == \A c \in Clients : cliopen[c] => Converses(c)

\* The invariant that the refinement of the index rests on.
IndexInv == RegisterInv /\ Dialogue

\* The answer of a client, file by file.
Known(c) == tosend[c] \cup DOMAIN Laid(tocli[c]) \cup DOMAIN cli_files[c]
Told(c, f) ==
  IF f \in tosend[c] THEN g_file_map[f]
  ELSE IF f \in DOMAIN Laid(tocli[c]) THEN Laid(tocli[c])[f] ELSE cli_files[c][f]
-----------------------------------------------------------------------------
(***************************************************************************)
(* What a line is: a word, or a record of a file.                          *)
(***************************************************************************)
LEMMA LineWord == ASSUME NEW w \in Words PROVE Command(w) \in Line /\ Command(w).type = w
BY DEF Command, Line

(***************************************************************************)
(* A line of type file_stat has a file and where it can be had.            *)
(***************************************************************************)
LEMMA LineRecord ==
  /\ \A f \in Files, s \in Stats :
       /\ FileStat(f, s) \in Line /\ FileStat(f, s).type = "file_stat"
       /\ FileStat(f, s).file = f /\ FileStat(f, s).stat = s
  /\ \A e \in Line : e.type = "file_stat" => e.file \in Files /\ e.stat \in Stats
BY DEF FileStat, Line, Words

(***************************************************************************)
(* A thread of the server takes a line from its connection.                *)
(***************************************************************************)
LEMMA ReadsLine ==
  ASSUME Wire, NEW c \in Clients, NEW type, Reads(c, type)
  PROVE  /\ tosrv' \in [Clients -> Seq(Line)]
         /\ tosrv[c] \in Seq(Line) /\ tosrv[c] # <<>>
         /\ Head(tosrv[c]) \in Line /\ Head(tosrv[c]).type = type
         /\ tosrv'[c] = Tail(tosrv[c])
         /\ \A d \in Clients : d # c => tosrv'[d] = tosrv[d]
<1>1. tosrv[c] \in Seq(Line) /\ tosrv[c] # <<>>
  BY DEF Wire, Reads
<1>2. Head(tosrv[c]) \in Line /\ Tail(tosrv[c]) \in Seq(Line)
  BY <1>1
<1> QED BY <1>1, <1>2 DEF Wire, Reads

(***************************************************************************)
(* A client writes a line to a connection that the server has open.        *)
(***************************************************************************)
LEMMA WritesLine ==
  ASSUME Wire, NEW c \in Clients, NEW line \in Line, ClientWrite(c, line)
  PROVE  /\ tosrv' \in [Clients -> Seq(Line)]
         /\ tosrv[c] \in Seq(Line)
         /\ tosrv'[c] = IF srvopen[c] THEN Append(tosrv[c], line) ELSE tosrv[c]
         /\ \A d \in Clients : d # c => tosrv'[d] = tosrv[d]
<1>1. tosrv[c] \in Seq(Line)
  BY DEF Wire
<1>2. Append(tosrv[c], line) \in Seq(Line)
  BY <1>1
<1> QED BY <1>1, <1>2 DEF Wire, ClientWrite

(***************************************************************************)
(* The server answers on a connection that has room.                       *)
(***************************************************************************)
LEMMA AnswersLine ==
  ASSUME Wire, NEW c \in Clients, NEW line \in Line, ServerWrite(c, line),
         \A d \in Clients : Len(tocli[d]) <= SockBuf
  PROVE  /\ tocli' \in [Clients -> Seq(Line)]
         /\ \A d \in Clients : Len(tocli'[d]) <= SockBuf
         /\ tocli[c] \in Seq(Line)
         /\ tocli'[c] = IF cliopen[c] THEN Append(tocli[c], line) ELSE tocli[c]
         /\ \A d \in Clients : d # c => tocli'[d] = tocli[d]
<1>1. tocli[c] \in Seq(Line) /\ Len(tocli[c]) \in Nat
  BY DEF Wire
<1>2. Append(tocli[c], line) \in Seq(Line) /\ Len(Append(tocli[c], line)) = Len(tocli[c]) + 1
  BY <1>1
<1>3. CASE cliopen[c] /\ Len(tocli[c]) < SockBuf
           /\ tocli' = [tocli EXCEPT ![c] = Append(@, line)]
  BY <1>1, <1>2, <1>3, ConnectionConstants DEF Wire
<1>4. CASE ~cliopen[c] /\ UNCHANGED tocli
  BY <1>1, <1>4 DEF Wire
<1> QED BY <1>3, <1>4 DEF ServerWrite

(***************************************************************************)
(* A client takes a line of its listing.                                   *)
(***************************************************************************)
LEMMA TakesLine ==
  ASSUME Wire, NEW c \in Clients, tocli[c] # <<>>, tocli' = [tocli EXCEPT ![c] = Tail(@)],
         \A d \in Clients : Len(tocli[d]) <= SockBuf
  PROVE  /\ tocli' \in [Clients -> Seq(Line)]
         /\ \A d \in Clients : Len(tocli'[d]) <= SockBuf
         /\ tocli[c] \in Seq(Line) /\ Head(tocli[c]) \in Line
         /\ tocli'[c] = Tail(tocli[c])
         /\ \A d \in Clients : d # c => tocli'[d] = tocli[d]
<1>1. tocli[c] \in Seq(Line)
  BY DEF Wire
<1>2. Head(tocli[c]) \in Line /\ Tail(tocli[c]) \in Seq(Line)
      /\ Len(Tail(tocli[c])) = Len(tocli[c]) - 1 /\ Len(tocli[c]) \in Nat
  BY <1>1
<1> QED BY <1>1, <1>2, ConnectionConstants DEF Wire
-----------------------------------------------------------------------------
(***************************************************************************)
(* The types hold before anyone connects.                                  *)
(***************************************************************************)
LEMMA TypedInit == Init => Typed
<1> SUFFICES ASSUME Init PROVE Typed
  OBVIOUS
<1> USE ConnectionConstants, ClientConstants
<1>1. Wire
  BY DEF Init, ConnInit, ServerInit, ClientInit, Wire
<1>2. TypeOK
  BY DEF Init, ConnInit, ServerInit, ClientInit, TypeOK, States
<1>3. Listing
  BY DEF Init, ServerInit, Listing
<1> QED BY <1>1, <1>2, <1>3 DEF Typed

(***************************************************************************)
(* The threads of the server keep the types.                               *)
(***************************************************************************)
LEMMA TypedServer ==
  ASSUME Typed, NEW c \in Clients, ServerStep(c)
  PROVE  Typed'
<1> USE ConnectionConstants, ClientConstants DEF Typed
<1>1. UNCHANGED clientvars
  BY DEF ServerStep
<1>2. Stat(c) \in Stats
  BY DEF Stats
<1>3. NameOf[c] \in Names
  OBVIOUS
<1>4. CASE RegisterRefused(c) \/ RegisterTest(c) \/ NewFile(c)
  <2>1. tosrv' \in [Clients -> Seq(Line)]
    BY <1>4, ReadsLine DEF RegisterRefused, RegisterTest, NewFile
  <2>2. Wire'
    BY <1>1, <1>4, <2>1 DEF RegisterRefused, RegisterTest, NewFile, clientvars, Wire
  <2>3. TypeOK'
    BY <1>1, <1>4 DEF RegisterRefused, RegisterTest, NewFile, Goes, clientvars, TypeOK
  <2>4. Listing'
    BY <1>4 DEF RegisterRefused, RegisterTest, NewFile, Goes, TypeOK, Listing
  <2> QED BY <2>2, <2>3, <2>4
<1>5. CASE RegisterInsert(c)
  <2>1. Wire'
    BY <1>1, <1>5 DEF RegisterInsert, clientvars, connvars, Wire
  <2>2. TypeOK'
    BY <1>1, <1>3, <1>5 DEF RegisterInsert, Goes, clientvars, connvars, TypeOK
  <2>3. Listing'
    BY <1>5 DEF RegisterInsert, Goes, TypeOK, Listing
  <2> QED BY <2>1, <2>2, <2>3
<1>6. CASE read_file_stat(c)
  <2> DEFINE f == Head(tosrv[c]).file
  <2>1. tosrv' \in [Clients -> Seq(Line)] /\ f \in Files
    BY <1>6, ReadsLine, LineRecord DEF read_file_stat
  <2>2. Wire'
    BY <1>1, <1>6, <2>1 DEF read_file_stat, clientvars, Wire
  <2>3. /\ DOMAIN g_file_map' \subseteq Files \ DotFiles
        /\ \A g \in DOMAIN g_file_map' : g_file_map'[g] \in Stats
    <3>1. CASE f \in DotFiles
      BY <1>6, <3>1 DEF read_file_stat, TypeOK
    <3>2. CASE f \notin DotFiles
      <4>1. g_file_map' = WithEntry(g_file_map, f, Stat(c))
        BY <1>6, <3>2 DEF read_file_stat
      <4> HIDE DEF f
      <4>2. /\ DOMAIN g_file_map' = DOMAIN g_file_map \cup {f}
            /\ g_file_map'[f] = Stat(c)
            /\ \A g \in DOMAIN g_file_map : g # f => g_file_map'[g] = g_file_map[g]
        BY <4>1 DEF WithEntry
      <4> QED BY <1>2, <2>1, <3>2, <4>2 DEF TypeOK
    <3> QED BY <3>1, <3>2
  <2>4. TypeOK'
    BY <1>1, <1>6, <2>3 DEF read_file_stat, Goes, clientvars, TypeOK
  <2>5. \A d \in Clients : tosend[d] = {}
    BY <1>6 DEF read_file_stat, Goes, TrieMutexFree, Listing
  <2>6. Listing'
    BY <1>6, <2>5 DEF read_file_stat, Listing
  <2> QED BY <2>2, <2>4, <2>6
<1>7. CASE read_file_stat_fails(c)
  <2>1. tosrv' \in [Clients -> Seq(Line)]
    BY <1>7, ReadsLine DEF read_file_stat_fails, Wire
  <2>2. Wire'
    BY <1>1, <1>7, <2>1 DEF read_file_stat_fails, clientvars, Wire
  <2>3. TypeOK'
    BY <1>1, <1>7 DEF read_file_stat_fails, Goes, clientvars, TypeOK
  <2>4. Listing'
    BY <1>7 DEF read_file_stat_fails, Goes, TypeOK, Listing
  <2> QED BY <2>2, <2>3, <2>4
<1>8. CASE ListLock(c)
  <2>1. tosrv' \in [Clients -> Seq(Line)]
    BY <1>8, ReadsLine DEF ListLock
  <2>2. Wire'
    BY <1>1, <1>8, <2>1 DEF ListLock, clientvars, Wire
  <2>3. TypeOK'
    BY <1>1, <1>8 DEF ListLock, Goes, clientvars, TypeOK
  <2>4. Listing'
    BY <1>8 DEF ListLock, Goes, TypeOK, Listing
  <2> QED BY <2>2, <2>3, <2>4
<1>9. CASE printitr(c)
  <2> DEFINE f == CHOOSE g \in tosend[c] : TRUE
  <2>1. f \in tosend[c]
    BY <1>9 DEF printitr
  <2>2. f \in Files /\ g_file_map[f] \in Stats
    BY <2>1 DEF TypeOK, Listing
  <2> DEFINE line == FileStat(f, g_file_map[f])
  <2>3. line \in Line
    <3> HIDE DEF f
    <3> QED BY <2>2, LineRecord
  <2>4. ServerWrite(c, line) /\ tosend' = [tosend EXCEPT ![c] = @ \ {f}]
    BY <1>9 DEF printitr
  <2> HIDE DEF f, line
  <2>5. /\ tocli' \in [Clients -> Seq(Line)]
        /\ \A d \in Clients : Len(tocli'[d]) <= SockBuf
    BY <2>3, <2>4, AnswersLine DEF TypeOK
  <2>6. Wire'
    BY <1>1, <1>9, <2>5 DEF printitr, clientvars, Wire
  <2>7. TypeOK'
    BY <1>1, <1>9, <2>4, <2>5 DEF printitr, Goes, clientvars, TypeOK
  <2>8. Listing'
    BY <1>9, <2>4 DEF printitr, Goes, TypeOK, Listing
  <2> QED BY <2>6, <2>7, <2>8
<1>10. CASE ListUnlock(c) \/ EndOfStream(c)
  <2>1. Wire'
    BY <1>1, <1>10 DEF ListUnlock, EndOfStream, clientvars, connvars, Wire
  <2>2. TypeOK'
    BY <1>1, <1>10 DEF ListUnlock, EndOfStream, Goes, clientvars, connvars, TypeOK
  <2>3. Listing'
    BY <1>10 DEF ListUnlock, EndOfStream, Goes, TypeOK, Listing
  <2> QED BY <2>1, <2>2, <2>3
<1>11. CASE ListEnd(c)
  <2>1. /\ tocli' \in [Clients -> Seq(Line)]
        /\ \A d \in Clients : Len(tocli'[d]) <= SockBuf
    <3>1. Command("END") \in Line
      BY LineWord DEF Words
    <3> HIDE DEF Typed
    <3> QED BY <1>11, <3>1, AnswersLine DEF ListEnd, Typed, TypeOK
  <2>2. Wire'
    BY <1>1, <1>11, <2>1 DEF ListEnd, clientvars, Wire
  <2>3. TypeOK'
    BY <1>1, <1>11, <2>1 DEF ListEnd, Goes, clientvars, TypeOK
  <2>4. Listing'
    BY <1>11 DEF ListEnd, Goes, TypeOK, Listing
  <2> QED BY <2>2, <2>3, <2>4
<1>12. ASSUME ServerDies PROVE Typed'
  <2>1. Wire'
    BY <1>1, <1>12 DEF ServerDies, clientvars, Wire
  <2>2. TypeOK'
    BY <1>1, <1>12 DEF ServerDies, clientvars, TypeOK
  <2>3. Listing'
    BY <1>12 DEF ServerDies, Listing
  <2> QED BY <2>1, <2>2, <2>3
<1>13. CASE Deregister(c)
  <2>1. tosrv' \in [Clients -> Seq(Line)]
    BY <1>13, ReadsLine DEF Deregister
  <2>2. Wire'
    BY <1>1, <1>13, <2>1 DEF Deregister, clientvars, Wire
  <2>3. /\ DOMAIN g_file_map' \subseteq Files \ DotFiles
        /\ \A g \in DOMAIN g_file_map' : g_file_map'[g] \in Stats
    BY <1>13 DEF Deregister, Withdrawn, TypeOK
  <2>4. TypeOK'
    BY <1>1, <1>13, <2>3 DEF Deregister, Goes, clientvars, TypeOK
  <2>5. \A d \in Clients : tosend[d] = {}
    BY <1>13 DEF Deregister, Goes, TrieMutexFree, Listing
  <2>6. Listing'
    BY <1>13, <2>5 DEF Deregister, Listing
  <2> QED BY <2>2, <2>4, <2>6
<1>14. CASE DeregisterRemove(c)
  <2>1. Wire'
    BY <1>1, <1>14 DEF DeregisterRemove, clientvars, Wire
  <2>2. TypeOK'
    BY <1>1, <1>14 DEF DeregisterRemove, Goes, clientvars, TypeOK
  <2>3. Listing'
    BY <1>14 DEF DeregisterRemove, Goes, TypeOK, Listing
  <2> QED BY <2>1, <2>2, <2>3
<1>15. CASE SigPipe(c)
  BY <1>12, <1>15 DEF SigPipe
<1>16. CASE FeofOfClosed(c)
  <2>1. CASE ServerDies
    BY <1>12, <2>1
  <2>2. CASE Goes(c, "closed", "ended")
             /\ UNCHANGED <<g_client_set, g_file_map, tosend, serverup, connvars>>
    <3>1. Wire'
      BY <1>1, <2>2 DEF clientvars, connvars, Wire
    <3>2. TypeOK'
      BY <1>1, <2>2 DEF Goes, clientvars, connvars, TypeOK
    <3>3. Listing'
      BY <2>2 DEF Goes, TypeOK, Listing
    <3> QED BY <3>1, <3>2, <3>3
  <2> QED BY <1>16, <2>1, <2>2 DEF FeofOfClosed
<1> QED
  BY <1>4, <1>5, <1>6, <1>7, <1>8, <1>9, <1>10, <1>11, <1>13, <1>14, <1>15, <1>16
  DEF ServerStep, connection_callback

(***************************************************************************)
(* A client that ends takes with it what was on its way to it.             *)
(***************************************************************************)
LEMMA TypedEnds ==
  ASSUME Typed, NEW c \in Clients, NEW how \in Ended, Ends(c, how),
         UNCHANGED servervars, tosrv' \in [Clients -> Seq(Line)]
  PROVE  Typed'
<1> USE ConnectionConstants, ClientConstants DEF Typed
<1>1. Wire'
  <2>1. <<>> \in Seq(Line)
    OBVIOUS
  <2>2. tocli' \in [Clients -> Seq(Line)]
    BY <2>1 DEF Ends, Wire
  <2>3. DOMAIN cli_files' = Clients /\ cli_files' = [d \in Clients |-> cli_files'[d]]
    BY DEF Ends, Wire
  <2> QED BY <2>2, <2>3 DEF Ends, Wire
<1>2. TypeOK'
  <2>1. Len(<<>>) <= SockBuf
    OBVIOUS
  <2>2. \A d \in Clients : Len(tocli'[d]) <= SockBuf
    BY <2>1 DEF Ends, Wire, TypeOK
  <2>3. \A d \in Clients : \A f \in DOMAIN cli_files'[d] : cli_files'[d][f] \in Stats
    BY DEF Ends, Wire, TypeOK
  <2>4. state' \in [Clients -> States] /\ unposted' \in [Clients -> SUBSET Files]
    BY DEF Ends, TypeOK, States
  <2>5. UNCHANGED <<g_client_set, g_file_map, thread, tosend, serverup, lscount>>
    BY DEF Ends, servervars
  <2> QED BY <2>2, <2>3, <2>4, <2>5 DEF TypeOK
<1>3. Listing'
  BY DEF servervars, Listing
<1> QED BY <1>1, <1>2, <1>3

(***************************************************************************)
(* What a client does, and what befalls it, keeps the types.               *)
(***************************************************************************)
LEMMA TypedClient ==
  ASSUME Typed, NEW c \in Clients, ClientStep(c) \/ UserStep(c), UNCHANGED servervars
  PROVE  Typed'
<1> USE ConnectionConstants, ClientConstants DEF Typed
<1>1. UNCHANGED <<g_client_set, g_file_map, thread, tosend, serverup>>
  BY DEF servervars
<1>2. Listing'
  BY <1>1 DEF Listing
<1>3. ASSUME NEW line \in Line, ClientWrite(c, line)
      PROVE  tosrv' \in [Clients -> Seq(Line)]
  BY <1>3, WritesLine
<1>4. /\ Command("REGISTER") \in Line /\ Command("NEWFILE") \in Line
      /\ Command("LIST") \in Line /\ Command("DEREGISTER") \in Line
  BY LineWord DEF Words
<1>5. Posting(unposted[c]) \in States /\ \A f : Posting(unposted[c] \ {f}) \in States
  BY DEF Posting, States
<1>6. CASE init_state(c) \/ post_files(c)
  <2>1. tosrv' \in [Clients -> Seq(Line)]
    BY <1>3, <1>4, <1>6 DEF init_state, post_files
  <2>2. Wire'
    BY <1>6, <2>1 DEF init_state, post_files, Wire
  <2>3. state' \in [Clients -> States]
    BY <1>5, <1>6 DEF init_state, post_files, At, States, TypeOK
  <2>4. TypeOK'
    BY <1>1, <1>6, <2>3 DEF init_state, post_files, TypeOK
  <2> QED BY <1>2, <2>2, <2>4
<1>7. CASE write_file_stat(c)
  <2>1. PICK f \in unposted[c] :
          /\ At(c, "record", Posting(unposted[c] \ {f}))
          /\ ClientWrite(c, FileStat(f, Stat(c)))
          /\ unposted' = [unposted EXCEPT ![c] = @ \ {f}]
          /\ UNCHANGED <<cli_files, lscount, tocli, cliopen, srvopen>>
    BY <1>7 DEF write_file_stat
  <2>2. f \in Files /\ Stat(c) \in Stats
    BY DEF TypeOK, Stats
  <2>3. FileStat(f, Stat(c)) \in Line
    BY <2>2, LineRecord
  <2>4. tosrv' \in [Clients -> Seq(Line)]
    BY <1>3, <2>1, <2>3
  <2>5. Wire'
    BY <2>1, <2>4 DEF Wire
  <2>6. state' \in [Clients -> States] /\ unposted' \in [Clients -> SUBSET Files]
    BY <1>5, <2>1 DEF At, TypeOK
  <2>7. TypeOK'
    BY <1>1, <2>1, <2>6 DEF TypeOK
  <2> QED BY <1>2, <2>5, <2>7
<1>8. CASE list_record(c)
  <2> DEFINE e == Head(tocli[c])
  <2>1. tocli[c] # <<>> /\ tocli' = [tocli EXCEPT ![c] = Tail(@)] /\ e.type = "file_stat"
    BY <1>8 DEF list_record
  <2>2. /\ tocli' \in [Clients -> Seq(Line)]
        /\ \A d \in Clients : Len(tocli'[d]) <= SockBuf
        /\ e \in Line
    BY <2>1, TakesLine DEF TypeOK
  <2>3. e.stat \in Stats
    BY <2>1, <2>2, LineRecord
  <2>4. cli_files' = [cli_files EXCEPT ![c] = WithEntry(cli_files[c], e.file, e.stat)]
    BY <1>8 DEF list_record
  <2> HIDE DEF e
  <2>5. Wire'
    BY <1>8, <2>2, <2>4 DEF list_record, Wire
  <2>6. \A d \in Clients : \A f \in DOMAIN cli_files'[d] : cli_files'[d][f] \in Stats
    <3>1. \A f \in DOMAIN WithEntry(cli_files[c], e.file, e.stat) :
            WithEntry(cli_files[c], e.file, e.stat)[f] \in Stats
      BY <2>3 DEF WithEntry, TypeOK
    <3>2. cli_files'[c] = WithEntry(cli_files[c], e.file, e.stat)
      BY <2>4 DEF Wire
    <3>3. \A d \in Clients : d # c => cli_files'[d] = cli_files[d]
      BY <2>4 DEF Wire
    <3> QED BY <3>1, <3>2, <3>3 DEF TypeOK
  <2>7. TypeOK'
    BY <1>1, <1>8, <2>2, <2>6 DEF list_record, At, States, TypeOK
  <2> QED BY <1>2, <2>5, <2>7
<1>9. CASE list_end(c)
  <2>1. /\ tocli' \in [Clients -> Seq(Line)]
        /\ \A d \in Clients : Len(tocli'[d]) <= SockBuf
    BY <1>9, TakesLine DEF list_end, TypeOK, Wire
  <2>2. Wire'
    BY <1>9, <2>1 DEF list_end, Wire
  <2>3. TypeOK'
    BY <1>1, <1>9, <2>1 DEF list_end, At, States, TypeOK
  <2> QED BY <1>2, <2>2, <2>3
<1>10. CASE list_files(c)
  <2>1. tosrv' \in [Clients -> Seq(Line)]
    BY <1>3, <1>4, <1>10 DEF list_files
  <2>2. lscount' \in [Clients -> Nat] /\ \A d \in Clients : lscount'[d] \in 0 .. MaxLs[d]
    <3>1. lscount \in [Clients -> Nat] /\ \A d \in Clients : lscount[d] \in 0 .. MaxLs[d]
      BY DEF Wire, TypeOK
    <3>2. lscount' = [lscount EXCEPT ![c] = lscount[c] + 1] /\ lscount[c] < MaxLs[c]
      BY <1>10 DEF list_files
    <3>3. \A d \in Clients : MaxLs[d] \in Nat
      OBVIOUS
    <3> QED BY <3>1, <3>2, <3>3
  <2>3. Wire'
    BY <1>10, <2>1, <2>2 DEF list_files, Wire
  <2>4. TypeOK'
    BY <1>1, <1>10, <2>2 DEF list_files, At, States, TypeOK
  <2> QED BY <1>2, <2>3, <2>4
<1>11. CASE exit_client(c) \/ sigint_handler(c) \/ BrokenPipe(c) \/ Crash(c)
  <2>1. tosrv' \in [Clients -> Seq(Line)]
    BY <1>3, <1>4, <1>11 DEF exit_client, sigint_handler, BrokenPipe, Crash, Wire
  <2>2. \E how \in Ended : Ends(c, how)
    BY <1>11 DEF exit_client, sigint_handler, BrokenPipe, Crash, Ended
  <2> HIDE DEF Typed
  <2> QED BY <2>1, <2>2, TypedEnds
<1> QED BY <1>6, <1>7, <1>8, <1>9, <1>10, <1>11 DEF ClientStep, UserStep

(***************************************************************************)
(* Every step keeps the types.                                             *)
(***************************************************************************)
LEMMA TypedStep == Typed /\ [Next]_vars => Typed'
<1> SUFFICES ASSUME Typed, [Next]_vars PROVE Typed'
  OBVIOUS
<1>1. CASE UNCHANGED vars
  BY <1>1 DEF vars, connvars, servervars, clientvars, Typed, Wire, TypeOK, Listing
<1> QED BY <1>1, TypedServer, TypedClient DEF Next

(***************************************************************************)
(* Whatever the clients do: only files of the directories are offered,     *)
(* never "." and "..", each under the name and host of a client; and no    *)
(* listing fills a connection beyond its buffer.  A record is written from *)
(* the map as long as it is in the map, because deregister_itr waits for   *)
(* the mutex.                                                              *)
(***************************************************************************)
THEOREM IndexTypeCorrect == Spec => []TypeOK
<1>1. Typed => TypeOK
  BY DEF Typed
<1> QED BY <1>1, TypedInit, TypedStep, PTL DEF Spec
-----------------------------------------------------------------------------
(***************************************************************************)
(* A step of one client, or of its thread, touches nothing of a client     *)
(* with another name: what has to be shown is that the client's own name   *)
(* and files stay in order.                                                *)
(***************************************************************************)
LEMMA OwnRegistration ==
  ASSUME RegisterInv, TypeOK', NEW a \in Clients,
         \A c \in Clients : c # a => /\ thread'[c] = thread[c] /\ tosrv'[c] = tosrv[c]
                                     /\ state'[c] = state[c],
         \A n : n # NameOf[a] => (n \in g_client_set' <=> n \in g_client_set),
         \A f \in DOMAIN g_file_map' :
           g_file_map'[f].owner # NameOf[a] =>
             f \in DOMAIN g_file_map /\ g_file_map'[f] = g_file_map[f],
         Lone(NameOf[a]) =>
           /\ Registers(a)'
           /\ \A f \in DOMAIN g_file_map' :
                g_file_map'[f].owner = NameOf[a] => NameOf[a] \in g_client_set'
  PROVE  Registration' /\ ListedIsRegistered'
<1>1. ASSUME NEW c \in Clients, Lone(NameOf[c]), c # a PROVE Registers(c)'
  <2>1. NameOf[c] # NameOf[a]
    BY <1>1 DEF Lone
  <2>2. Registers(c)
    BY <1>1 DEF RegisterInv, Registration
  <2>3. UNCHANGED <<thread[c], tosrv[c], state[c]>>
    BY <1>1
  <2>4. Unheard(c) => Unheard(c)'
    BY <2>3 DEF Unheard
  <2>5. NameOf[c] \in g_client_set' <=> NameOf[c] \in g_client_set
    BY <2>1
  <2>6. ASSUME NEW f \in DOMAIN g_file_map', g_file_map'[f].owner = NameOf[c]
        PROVE  f \in DOMAIN g_file_map /\ g_file_map[f].owner = NameOf[c]
    BY <2>1, <2>6
  <2> QED BY <2>2, <2>3, <2>4, <2>5, <2>6 DEF Registers
<1>2. ASSUME NEW f \in DOMAIN g_file_map', Lone(g_file_map'[f].owner)
      PROVE  g_file_map'[f].owner \in g_client_set'
  <2>1. CASE g_file_map'[f].owner = NameOf[a]
    BY <1>2, <2>1
  <2>2. CASE g_file_map'[f].owner # NameOf[a]
    BY <1>2, <2>2 DEF RegisterInv, ListedIsRegistered
  <2> QED BY <2>1, <2>2
<1> QED BY <1>1, <1>2 DEF Registration, ListedIsRegistered, Lone

(***************************************************************************)
(* A line that waits at the server, other than DEREGISTER, means that the  *)
(* REGISTER before it was handled.                                         *)
(***************************************************************************)
LEMMA HeardFrom ==
  ASSUME RegisterInv, NEW c \in Clients, Lone(NameOf[c]), thread[c] = "loop",
         tosrv[c] # <<>>, Head(tosrv[c]).type \notin {"REGISTER", "DEREGISTER"}
  PROVE  NameOf[c] \in g_client_set
<1>1. tosrv[c] \in Seq(Line)
  BY DEF RegisterInv, Typed, Wire
<1>2. 1 \in DOMAIN tosrv[c] /\ Head(tosrv[c]) = tosrv[c][1]
  BY <1>1
<1>3. ~Unheard(c)
  BY <1>2 DEF Unheard
<1> QED BY <1>3 DEF RegisterInv, Registration, Registers

(***************************************************************************)
(* A thread enters files only under a name it has registered, and takes    *)
(* the name away only when the files are gone.                             *)
(***************************************************************************)
LEMMA RegisterServer ==
  ASSUME RegisterInv, TypeOK', NEW a \in Clients, ServerStep(a)
  PROVE  ClosedLast' /\ Registration' /\ ListedIsRegistered'
<1> USE DEF RegisterInv, Typed
<1>1. UNCHANGED state
  BY DEF ServerStep, clientvars
<1>2. /\ DOMAIN thread = Clients /\ thread = [c \in Clients |-> thread[c]]
      /\ DOMAIN tosrv = Clients /\ DOMAIN srvopen = Clients
  BY DEF TypeOK, Wire
<1>3. ASSUME NEW from, NEW to, Goes(a, from, to)
      PROVE  /\ thread[a] = from /\ thread'[a] = to
             /\ \A c \in Clients : c # a => thread'[c] = thread[c]
  BY <1>2, <1>3 DEF Goes
<1>4. ASSUME NEW type, Reads(a, type)
      PROVE  /\ tosrv[a] # <<>> /\ Head(tosrv[a]).type = type
             /\ \A c \in Clients : c # a => tosrv'[c] = tosrv[c]
  BY <1>4, ReadsLine
<1>5. ASSUME Lone(NameOf[a]) PROVE Registers(a)
  BY <1>5 DEF Registration
<1>6. ASSUME Lone(NameOf[a])
      PROVE  \A f \in DOMAIN g_file_map :
               g_file_map[f].owner = NameOf[a] => NameOf[a] \in g_client_set
  BY <1>6 DEF ListedIsRegistered
<1>7. CASE RegisterRefused(a) \/ RegisterTest(a) \/ EndOfStream(a)
  <2>1. /\ thread'[a] \in {"ended", "insert"} /\ thread[a] = "loop"
        /\ \A c \in Clients : c # a => thread'[c] = thread[c]
    BY <1>3, <1>7 DEF RegisterRefused, RegisterTest, EndOfStream
  <2>2. \A c \in Clients : c # a => tosrv'[c] = tosrv[c]
    BY <1>4, <1>7 DEF RegisterRefused, RegisterTest, EndOfStream, connvars
  <2>3. UNCHANGED <<g_client_set, g_file_map>>
    BY <1>7 DEF RegisterRefused, RegisterTest, EndOfStream
  <2>4. Registers(a)'
    BY <2>1 DEF Registers
  <2>5. ClosedLast'
    BY <1>2, <1>3, <1>7, <2>1 DEF RegisterRefused, RegisterTest, EndOfStream, connvars, ClosedLast
  <2> HIDE DEF RegisterInv
  <2> QED BY <1>1, <1>6, <2>1, <2>2, <2>3, <2>4, <2>5, OwnRegistration
<1>8. CASE RegisterInsert(a)
  <2>1. /\ thread'[a] = "loop" /\ thread[a] = "insert"
        /\ \A c \in Clients : c # a => thread'[c] = thread[c]
    BY <1>3, <1>8 DEF RegisterInsert
  <2>2. /\ g_client_set' = g_client_set \cup {NameOf[a]}
        /\ UNCHANGED <<g_file_map, tosrv, srvopen>>
    BY <1>8 DEF RegisterInsert, connvars
  <2>3. Registers(a)'
    BY <2>1, <2>2 DEF Registers
  <2>4. ClosedLast'
    BY <2>1, <2>2 DEF ClosedLast
  <2> HIDE DEF RegisterInv
  <2> QED BY <1>1, <2>1, <2>2, <2>3, <2>4, OwnRegistration
<1>9. CASE NewFile(a) \/ ListLock(a)
  <2>1. /\ thread'[a] \in {"newfile", "list"} /\ thread[a] = "loop"
        /\ \A c \in Clients : c # a => thread'[c] = thread[c]
    BY <1>3, <1>9 DEF NewFile, ListLock
  <2>2. /\ tosrv[a] # <<>> /\ Head(tosrv[a]).type \notin {"REGISTER", "DEREGISTER"}
        /\ \A c \in Clients : c # a => tosrv'[c] = tosrv[c]
    BY <1>4, <1>9 DEF NewFile, ListLock
  <2>3. UNCHANGED <<g_client_set, g_file_map, srvopen>>
    BY <1>9 DEF NewFile, ListLock
  <2>4. ASSUME Lone(NameOf[a]) PROVE NameOf[a] \in g_client_set
    BY <2>1, <2>2, <2>4, HeardFrom
  <2>5. ASSUME Lone(NameOf[a]) PROVE Registers(a)'
    BY <2>1, <2>3, <2>4, <2>5 DEF Registers
  <2>6. ClosedLast'
    BY <2>1, <2>3 DEF ClosedLast
  <2> HIDE DEF RegisterInv
  <2> QED BY <1>1, <1>6, <2>1, <2>2, <2>3, <2>5, <2>6, OwnRegistration
<1>10. CASE read_file_stat(a)
  <2> DEFINE f == Head(tosrv[a]).file
  <2>1. /\ thread'[a] = "loop" /\ thread[a] = "newfile"
        /\ \A c \in Clients : c # a => thread'[c] = thread[c]
    BY <1>3, <1>10 DEF read_file_stat
  <2>2. \A c \in Clients : c # a => tosrv'[c] = tosrv[c]
    BY <1>4, <1>10 DEF read_file_stat
  <2>3. UNCHANGED <<g_client_set, srvopen>>
    BY <1>10 DEF read_file_stat
  <2>4. \A g \in DOMAIN g_file_map' :
          g_file_map'[g].owner # NameOf[a] =>
            g \in DOMAIN g_file_map /\ g_file_map'[g] = g_file_map[g]
    <3>1. g_file_map' = g_file_map \/ g_file_map' = WithEntry(g_file_map, f, Stat(a))
      BY <1>10 DEF read_file_stat
    <3> HIDE DEF f
    <3> QED BY <3>1 DEF WithEntry, Stat
  <2>5. ASSUME Lone(NameOf[a]) PROVE NameOf[a] \in g_client_set
    BY <1>5, <2>1, <2>5 DEF Registers
  <2>6. ASSUME Lone(NameOf[a]) PROVE Registers(a)'
    BY <2>1, <2>3, <2>5, <2>6 DEF Registers
  <2>7. ClosedLast'
    BY <2>1, <2>3 DEF ClosedLast
  <2> HIDE DEF RegisterInv
  <2> QED BY <1>1, <2>1, <2>2, <2>3, <2>4, <2>5, <2>6, <2>7, OwnRegistration
<1>11. CASE read_file_stat_fails(a) \/ printitr(a) \/ ListUnlock(a) \/ ListEnd(a)
  <2>1. /\ thread'[a] \in {"loop", "list", "end"} /\ thread[a] \in {"newfile", "list", "end"}
        /\ \A c \in Clients : c # a => thread'[c] = thread[c]
    BY <1>3, <1>11 DEF read_file_stat_fails, printitr, ListUnlock, ListEnd
  <2>2. \A c \in Clients : c # a => tosrv'[c] = tosrv[c]
    BY <1>4, <1>11 DEF read_file_stat_fails, printitr, ListUnlock, ListEnd, connvars
  <2>3. UNCHANGED <<g_client_set, g_file_map, srvopen>>
    BY <1>11 DEF read_file_stat_fails, printitr, ListUnlock, ListEnd, connvars
  <2>4. ASSUME Lone(NameOf[a]) PROVE Registers(a)'
    BY <1>5, <2>1, <2>3, <2>4 DEF Registers
  <2>5. ClosedLast'
    BY <2>1, <2>3 DEF ClosedLast
  <2> HIDE DEF RegisterInv
  <2> QED BY <1>1, <1>6, <2>1, <2>2, <2>3, <2>4, <2>5, OwnRegistration
<1>12. CASE Deregister(a)
  <2>1. /\ thread'[a] = "remove" /\ thread[a] = "loop"
        /\ \A c \in Clients : c # a => thread'[c] = thread[c]
    BY <1>3, <1>12 DEF Deregister
  <2>2. \A c \in Clients : c # a => tosrv'[c] = tosrv[c]
    BY <1>4, <1>12 DEF Deregister
  <2>3. UNCHANGED <<g_client_set, srvopen>>
    BY <1>12 DEF Deregister
  <2>4. \A g \in DOMAIN g_file_map' :
          /\ g_file_map'[g].owner # NameOf[a]
          /\ g \in DOMAIN g_file_map /\ g_file_map'[g] = g_file_map[g]
    BY <1>12 DEF Deregister, Withdrawn
  <2>5. Registers(a)'
    BY <2>1, <2>4 DEF Registers
  <2>6. ClosedLast'
    BY <2>1, <2>3 DEF ClosedLast
  <2> HIDE DEF RegisterInv
  <2> QED BY <1>1, <2>1, <2>2, <2>3, <2>4, <2>5, <2>6, OwnRegistration
<1>13. CASE DeregisterRemove(a)
  <2>1. /\ thread'[a] = "closed" /\ thread[a] = "remove"
        /\ \A c \in Clients : c # a => thread'[c] = thread[c]
    BY <1>3, <1>13 DEF DeregisterRemove
  <2>2. g_client_set' = g_client_set \ {NameOf[a]} /\ UNCHANGED <<g_file_map, tosrv>>
    BY <1>13 DEF DeregisterRemove
  <2>3. ASSUME Lone(NameOf[a]), NEW f \in DOMAIN g_file_map
        PROVE  g_file_map[f].owner # NameOf[a]
    BY <1>5, <2>1, <2>3 DEF Registers
  <2>4. Registers(a)'
    BY <2>1 DEF Registers
  <2>5. ClosedLast'
    BY <1>2, <1>13, <2>1 DEF DeregisterRemove, ClosedLast
  <2> HIDE DEF RegisterInv
  <2> QED BY <1>1, <2>1, <2>2, <2>3, <2>4, <2>5, OwnRegistration
<1>14. ASSUME ServerDies PROVE ClosedLast' /\ Registration' /\ ListedIsRegistered'
  BY <1>14 DEF ServerDies, ClosedLast, Registration, Registers, ListedIsRegistered
<1>15. CASE FeofOfClosed(a) \/ SigPipe(a)
  <2>1. CASE ServerDies
    BY <1>14, <2>1
  <2>2. CASE Goes(a, "closed", "ended")
             /\ UNCHANGED <<g_client_set, g_file_map, tosend, serverup, connvars>>
    <3>1. /\ thread'[a] = "ended" /\ thread[a] = "closed"
          /\ \A c \in Clients : c # a => thread'[c] = thread[c]
      BY <1>3, <2>2
    <3>2. UNCHANGED <<g_client_set, g_file_map, tosrv, srvopen>>
      BY <2>2 DEF connvars
    <3>3. Registers(a)'
      BY <3>1 DEF Registers
    <3>4. ClosedLast'
      BY <3>1, <3>2 DEF ClosedLast
    <3> HIDE DEF RegisterInv
    <3> QED BY <1>1, <1>6, <3>1, <3>2, <3>3, <3>4, OwnRegistration
  <2> QED BY <1>15, <2>1, <2>2 DEF FeofOfClosed, SigPipe
<1> QED
  BY <1>7, <1>8, <1>9, <1>10, <1>11, <1>12, <1>13, <1>15
  DEF ServerStep, connection_callback

(***************************************************************************)
(* What a client writes comes after its REGISTER, which it writes first;   *)
(* a client that ends before has nothing to write but DEREGISTER.          *)
(***************************************************************************)
LEMMA StaysUnheard ==
  ASSUME RegisterInv, NEW a \in Clients, ClientStep(a) \/ UserStep(a),
         thread[a] = "loop", Unheard(a)
  PROVE  Unheard(a)'
<1>1. tosrv[a] \in Seq(Line) /\ DOMAIN tosrv = Clients
  BY DEF RegisterInv, Typed, Wire
<1>2. srvopen[a]
  BY DEF RegisterInv, ClosedLast
<1>3. DOMAIN state = Clients
  BY DEF RegisterInv, Typed, TypeOK
<1>4. ASSUME NEW line, ClientWrite(a, line)
      PROVE  tosrv'[a] = Append(tosrv[a], line)
  BY <1>1, <1>2, <1>4 DEF ClientWrite
<1>5. ASSUME NEW line, tosrv[a] # <<>>
      PROVE  Append(tosrv[a], line) # <<>> /\ Head(Append(tosrv[a], line)) = Head(tosrv[a])
  BY <1>1, <1>5
<1>6. CASE tosrv[a] # <<>> /\ Head(tosrv[a]).type = "REGISTER"
  <2>1. \/ UNCHANGED tosrv
        \/ \E line : ClientWrite(a, line)
    BY DEF ClientStep, UserStep, init_state, post_files, write_file_stat, list_record,
           list_end, list_files, exit_client, sigint_handler, BrokenPipe, Crash
  <2>2. tosrv'[a] # <<>> /\ Head(tosrv'[a]) = Head(tosrv[a])
    BY <1>4, <1>5, <1>6, <2>1
  <2> QED BY <1>6, <2>2 DEF Unheard
<1>7. CASE state[a] = "init_state" /\ tosrv[a] = <<>>
  <2>1. CASE init_state(a)
    <3>1. tosrv'[a] = Append(tosrv[a], Command("REGISTER"))
      BY <1>4, <2>1 DEF init_state
    <3>2. tosrv'[a] # <<>> /\ Head(tosrv'[a]) = Command("REGISTER")
      BY <1>7, <3>1
    <3> QED BY <3>2 DEF Unheard, Command
  <2>2. CASE sigint_handler(a)
    <3>1. tosrv'[a] = Append(tosrv[a], Command("DEREGISTER"))
      BY <1>4, <2>2 DEF sigint_handler
    <3>2. DOMAIN tosrv'[a] = 1 .. 1 /\ tosrv'[a][1] = Command("DEREGISTER")
      BY <1>7, <3>1
    <3>3. state'[a] \in Ended
      BY <1>3, <2>2 DEF sigint_handler, Ends, Ended
    <3> QED BY <3>2, <3>3 DEF Unheard, Command
  <2>3. CASE Crash(a)
    <3>1. state'[a] \in Ended
      BY <1>3, <2>3 DEF Crash, Ends, Ended
    <3>2. tosrv'[a] = <<>> /\ DOMAIN <<>> = {}
      BY <1>7, <2>3 DEF Crash
    <3> QED BY <3>1, <3>2 DEF Unheard
  <2> QED BY <1>2, <1>7, <2>1, <2>2, <2>3
          DEF ClientStep, UserStep, post_files, write_file_stat, list_record,
              list_end, list_files, exit_client, BrokenPipe, At
<1>8. CASE state[a] \in Ended
  BY <1>2, <1>8
     DEF ClientStep, UserStep, init_state, post_files, write_file_stat, list_record,
         list_end, list_files, exit_client, sigint_handler, BrokenPipe, Crash, At, Ended
<1> QED BY <1>6, <1>7, <1>8 DEF Unheard

(***************************************************************************)
(* Steps of the clients leave the index alone.                             *)
(***************************************************************************)
LEMMA RegisterClient ==
  ASSUME RegisterInv, TypeOK', NEW a \in Clients,
         ClientStep(a) \/ UserStep(a), UNCHANGED servervars
  PROVE  ClosedLast' /\ Registration' /\ ListedIsRegistered'
<1>1. UNCHANGED <<g_client_set, g_file_map, thread, srvopen>>
  BY DEF servervars, ClientStep, UserStep, init_state, post_files, write_file_stat,
         list_record, list_end, list_files, exit_client, sigint_handler, BrokenPipe,
         Crash, Ends
<1>2. DOMAIN tosrv = Clients /\ DOMAIN state = Clients
  BY DEF RegisterInv, Typed, TypeOK, Wire
<1>3. \A c \in Clients : c # a => tosrv'[c] = tosrv[c]
  <2>1. \/ UNCHANGED tosrv
        \/ \E line : ClientWrite(a, line)
    BY DEF ClientStep, UserStep, init_state, post_files, write_file_stat, list_record,
           list_end, list_files, exit_client, sigint_handler, BrokenPipe, Crash
  <2> QED BY <1>2, <2>1 DEF ClientWrite
<1>4. \A c \in Clients : c # a => state'[c] = state[c]
  BY <1>2 DEF ClientStep, UserStep, init_state, post_files, write_file_stat, list_record,
         list_end, list_files, exit_client, sigint_handler, BrokenPipe, Crash, Ends, At
<1>5. ASSUME Lone(NameOf[a]) PROVE Registers(a)'
  <2>1. Registers(a)
    BY <1>5 DEF RegisterInv, Registration
  <2> QED BY <1>1, <2>1, StaysUnheard DEF Registers
<1>6. ASSUME Lone(NameOf[a])
      PROVE  \A f \in DOMAIN g_file_map :
               g_file_map[f].owner = NameOf[a] => NameOf[a] \in g_client_set
  BY <1>6 DEF RegisterInv, ListedIsRegistered
<1>7. ClosedLast'
  BY <1>1 DEF RegisterInv, ClosedLast
<1> QED BY <1>1, <1>3, <1>4, <1>5, <1>6, <1>7, OwnRegistration

(***************************************************************************)
(* Every step keeps names and files together.                              *)
(***************************************************************************)
LEMMA RegisterStep == RegisterInv /\ [Next]_vars => RegisterInv'
<1> SUFFICES ASSUME RegisterInv, [Next]_vars PROVE RegisterInv'
  OBVIOUS
<1>1. Typed' /\ TypeOK'
  BY TypedStep DEF RegisterInv, Typed
<1>2. CASE UNCHANGED vars
  <2>1. UNCHANGED <<tosrv, srvopen, state, thread, g_client_set, g_file_map>>
    BY <1>2 DEF vars, connvars, servervars, clientvars
  <2> QED BY <1>1, <2>1 DEF RegisterInv, ClosedLast, Registration, Registers, Unheard,
                            ListedIsRegistered
<1> QED BY <1>1, <1>2, RegisterServer, RegisterClient DEF Next, RegisterInv

(***************************************************************************)
(* No file is ever listed under a name that is not registered, for any     *)
(* number of clients: a NEWFILE is entered only after the REGISTER before  *)
(* it, and DEREGISTER removes the files before it removes the name.  It is *)
(* claimed of names that one client alone was started with.                *)
(***************************************************************************)
THEOREM ListedStaysRegistered == Spec => []ListedIsRegistered
<1>1. Init => RegisterInv
  <2> SUFFICES ASSUME Init PROVE RegisterInv
    OBVIOUS
  <2>1. Typed
    BY TypedInit
  <2>2. ClosedLast /\ Registration /\ ListedIsRegistered
    BY DEF Init, ConnInit, ServerInit, ClientInit, ClosedLast, Registration, Registers,
           Unheard, ListedIsRegistered
  <2> QED BY <2>1, <2>2 DEF RegisterInv
<1>2. RegisterInv => ListedIsRegistered
  BY DEF RegisterInv
<1> QED BY <1>1, <1>2, RegisterStep, PTL DEF Spec
-----------------------------------------------------------------------------
(***************************************************************************)
(* Taking the first line from a connection.                                *)
(***************************************************************************)
LEMMA TailLines ==
  ASSUME NEW s \in Seq(Line), s # <<>>
  PROVE  /\ \A i \in DOMAIN Tail(s) : i + 1 \in DOMAIN s /\ Tail(s)[i] = s[i + 1] /\ i + 1 # 1
         /\ Tail(s) # <<>> => 1 \in DOMAIN Tail(s)
         /\ 1 \in DOMAIN s /\ Head(s) = s[1]
         /\ FilesIn(Tail(s)) \subseteq FilesIn(s)
         /\ Head(s).type = "file_stat" => Head(s).file \in FilesIn(s)
         /\ FilesIn(s) \subseteq FilesIn(Tail(s)) \cup
              (IF Head(s).type = "file_stat" THEN {Head(s).file} ELSE {})
<1>1. /\ Tail(s) \in Seq(Line) /\ Len(s) \in Nat /\ Len(s) # 0 /\ Len(Tail(s)) = Len(s) - 1
      /\ DOMAIN s = 1 .. Len(s) /\ DOMAIN Tail(s) = 1 .. Len(Tail(s))
      /\ \A i \in 1 .. Len(Tail(s)) : Tail(s)[i] = s[i + 1]
      /\ Head(s) = s[1]
  OBVIOUS
<1>2. \A i \in DOMAIN Tail(s) : i + 1 \in DOMAIN s /\ Tail(s)[i] = s[i + 1] /\ i + 1 # 1
  BY <1>1
<1>3. \A i \in DOMAIN s : i # 1 => i - 1 \in DOMAIN Tail(s) /\ Tail(s)[i - 1] = s[i]
  BY <1>1
<1>4. Tail(s) # <<>> => 1 \in DOMAIN Tail(s)
  BY <1>1
<1>5. 1 \in DOMAIN s
  BY <1>1
<1>6. FilesIn(Tail(s)) \subseteq FilesIn(s)
  BY <1>2 DEF FilesIn
<1>7. FilesIn(s) \subseteq FilesIn(Tail(s)) \cup
        (IF Head(s).type = "file_stat" THEN {Head(s).file} ELSE {})
  <2> SUFFICES ASSUME NEW i \in DOMAIN s, s[i].type = "file_stat"
               PROVE  s[i].file \in FilesIn(Tail(s)) \cup
                        (IF Head(s).type = "file_stat" THEN {Head(s).file} ELSE {})
    BY DEF FilesIn
  <2>1. CASE i = 1
    BY <1>1, <2>1
  <2>2. CASE i # 1
    BY <1>3, <2>2 DEF FilesIn
  <2> QED BY <2>1, <2>2
<1>8. Head(s).type = "file_stat" => Head(s).file \in FilesIn(s)
  BY <1>1, <1>5 DEF FilesIn
<1> QED BY <1>1, <1>2, <1>4, <1>5, <1>6, <1>7, <1>8

(***************************************************************************)
(* Adding a line to a connection.                                          *)
(***************************************************************************)
LEMMA AppendLine ==
  ASSUME NEW s \in Seq(Line), NEW e \in Line
  PROVE  /\ \A i \in DOMAIN Append(s, e) :
              \/ i \in DOMAIN s /\ Append(s, e)[i] = s[i]
              \/ i = Len(s) + 1 /\ Append(s, e)[i] = e
         /\ \A i \in DOMAIN s : i \in DOMAIN Append(s, e) /\ Append(s, e)[i] = s[i]
         /\ Len(s) + 1 \in DOMAIN Append(s, e) /\ Append(s, e)[Len(s) + 1] = e
         /\ s # <<>> => 1 \in DOMAIN s /\ Append(s, e)[1] = s[1]
         /\ s = <<>> => Append(s, e)[1] = e
         /\ Append(s, e) # <<>>
         /\ FilesIn(Append(s, e)) = FilesIn(s) \cup
              (IF e.type = "file_stat" THEN {e.file} ELSE {})
<1> DEFINE t == Append(s, e)
<1>1. /\ Len(s) \in Nat /\ DOMAIN s = 1 .. Len(s)
      /\ DOMAIN t = 1 .. Len(s) + 1 /\ t # <<>>
      /\ \A i \in 1 .. Len(s) : t[i] = s[i]
      /\ t[Len(s) + 1] = e
      /\ s # <<>> => Len(s) # 0
      /\ s = <<>> => Len(s) = 0
  OBVIOUS
<1> HIDE DEF t
<1>2. \A i \in DOMAIN t : \/ i \in DOMAIN s /\ t[i] = s[i]
                          \/ i = Len(s) + 1 /\ t[i] = e
  BY <1>1
<1>3. \A i \in DOMAIN s : i \in DOMAIN t /\ t[i] = s[i]
  BY <1>1
<1>4. Len(s) + 1 \in DOMAIN t
  BY <1>1
<1>5. FilesIn(t) \subseteq FilesIn(s) \cup (IF e.type = "file_stat" THEN {e.file} ELSE {})
  BY <1>2 DEF FilesIn
<1>6. FilesIn(s) \subseteq FilesIn(t)
  BY <1>1, <1>3 DEF FilesIn
<1>7. (IF e.type = "file_stat" THEN {e.file} ELSE {}) \subseteq FilesIn(t)
  BY <1>1, <1>4 DEF FilesIn
<1>8. s # <<>> => 1 \in DOMAIN s /\ t[1] = s[1]
  BY <1>1
<1>9. s = <<>> => t[1] = e
  BY <1>1
<1> QED BY <1>1, <1>2, <1>3, <1>4, <1>5, <1>6, <1>7, <1>8, <1>9 DEF t

(***************************************************************************)
(* OthersUntouched says that every running client keeps its files.         *)
(***************************************************************************)
LEMMA UntouchedKeeps ==
  OthersUntouched <=> \A c \in Clients : Live(c) => Keeps(c)
<1>1. ASSUME NEW c \in Clients
      PROVE  Keeps(c) <=>
        LET heard == FilesOf[c] \ (unposted[c] \cup DotFiles \cup FilesIn(tosrv[c]))
            alone == {f \in heard : \A d \in Clients \ {c} : f \notin FilesOf[d] \ unposted[d]}
        IN \A f \in alone : f \in DOMAIN g_file_map /\ g_file_map[f] = Stat(c)
  BY DEF Keeps, Alone
<1> QED BY <1>1 DEF OthersUntouched, Live, FilesIn

(***************************************************************************)
(* A client that stands keeps its standing when a line of it, which cannot *)
(* be DEREGISTER, is read.                                                 *)
(***************************************************************************)
LEMMA StandsAfterRead ==
  ASSUME Typed, NEW c \in Clients, Stands(c), NEW type, Reads(c, type),
         UNCHANGED <<state, cliopen, srvopen>>,
         thread'[c] \in {"insert", "newfile", "list", "loop"}
  PROVE  Stands(c)'
<1>1. tosrv[c] \in Seq(Line) /\ tosrv[c] # <<>> /\ tosrv'[c] = Tail(tosrv[c])
  BY ReadsLine DEF Typed
<1>2. /\ \A i \in DOMAIN tosrv'[c] :
           i + 1 \in DOMAIN tosrv[c] /\ tosrv'[c][i] = tosrv[c][i + 1] /\ i + 1 # 1
      /\ tosrv'[c] # <<>> => 1 \in DOMAIN tosrv'[c]
  BY <1>1, TailLines
<1>3. \A i \in DOMAIN tosrv'[c] :
        tosrv'[c][i].type # "DEREGISTER" /\ tosrv'[c][i].type # "REGISTER"
  BY <1>2 DEF Stands
<1>4. state[c] # "init_state"
  BY <1>1 DEF Stands
<1> QED BY <1>2, <1>3, <1>4 DEF Stands

(***************************************************************************)
(* No thread of the server takes the standing of a running client away.    *)
(***************************************************************************)
LEMMA StandingServer ==
  ASSUME Typed, Standing, NEW a \in Clients, ServerStep(a)
  PROVE  Standing'
<1> SUFFICES ASSUME NEW c \in Clients, Live(c)' PROVE Stands(c)'
  BY DEF Standing
<1> USE DEF Typed
<1>1. UNCHANGED state
  BY DEF ServerStep, clientvars
<1>2. ~ServerDies
  BY DEF Live, ServerDies
<1>3. serverup
  BY <1>2 DEF ServerStep, connection_callback, RegisterRefused, RegisterTest, RegisterInsert,
              NewFile, read_file_stat, read_file_stat_fails, ListLock, printitr, ListUnlock,
              ListEnd, SigPipe, Deregister, DeregisterRemove, FeofOfClosed, EndOfStream, Goes
<1>4. Stands(c) /\ Lone(NameOf[c])
  BY <1>1, <1>3 DEF Live, Standing
<1>5. /\ DOMAIN thread = Clients /\ thread = [d \in Clients |-> thread[d]]
      /\ DOMAIN tosrv = Clients /\ DOMAIN srvopen = Clients
  BY DEF TypeOK, Wire
<1>6. UNCHANGED cliopen
  BY <1>2 DEF ServerStep, connection_callback, RegisterRefused, RegisterTest, RegisterInsert,
              NewFile, read_file_stat, read_file_stat_fails, ListLock, printitr, ListUnlock,
              ListEnd, SigPipe, Deregister, DeregisterRemove, FeofOfClosed, EndOfStream,
              connvars
<1>7. CASE c # a
  <2>1. NameOf[c] # NameOf[a]
    BY <1>4, <1>7 DEF Lone
  <2>2. thread'[c] = thread[c]
    BY <1>2, <1>5, <1>7
       DEF ServerStep, connection_callback, RegisterRefused, RegisterTest, RegisterInsert,
           NewFile, read_file_stat, read_file_stat_fails, ListLock, printitr, ListUnlock,
           ListEnd, SigPipe, Deregister, DeregisterRemove, FeofOfClosed, EndOfStream, Goes
  <2>3. tosrv'[c] = tosrv[c]
    BY <1>2, <1>5, <1>7
       DEF ServerStep, connection_callback, RegisterRefused, RegisterTest, RegisterInsert,
           NewFile, read_file_stat, read_file_stat_fails, ListLock, printitr, ListUnlock,
           ListEnd, SigPipe, Deregister, DeregisterRemove, FeofOfClosed, EndOfStream, Reads,
           connvars
  <2>4. srvopen'[c] = srvopen[c]
    BY <1>2, <1>5, <1>7
       DEF ServerStep, connection_callback, RegisterRefused, RegisterTest, RegisterInsert,
           NewFile, read_file_stat, read_file_stat_fails, ListLock, printitr, ListUnlock,
           ListEnd, SigPipe, Deregister, DeregisterRemove, FeofOfClosed, EndOfStream, connvars
  <2>5. NameOf[c] \notin g_client_set => NameOf[c] \notin g_client_set'
    BY <1>2, <2>1
       DEF ServerStep, connection_callback, RegisterRefused, RegisterTest, RegisterInsert,
           NewFile, read_file_stat, read_file_stat_fails, ListLock, printitr, ListUnlock,
           ListEnd, SigPipe, Deregister, DeregisterRemove, FeofOfClosed, EndOfStream
  <2> QED BY <1>1, <1>4, <1>6, <2>2, <2>3, <2>4, <2>5 DEF Stands
<1>8. CASE c = a
  <2>1. ASSUME NEW type, Reads(c, type)
        PROVE  /\ tosrv[c] # <<>> /\ 1 \in DOMAIN tosrv[c] /\ tosrv[c][1].type = type
               /\ type # "DEREGISTER"
               /\ type = "REGISTER" => NameOf[c] \notin g_client_set
    <3>1. tosrv[c] \in Seq(Line) /\ tosrv[c] # <<>> /\ Head(tosrv[c]).type = type
      BY <2>1, ReadsLine
    <3>2. 1 \in DOMAIN tosrv[c] /\ Head(tosrv[c]) = tosrv[c][1]
      BY <3>1, TailLines
    <3> QED BY <1>4, <3>1, <3>2 DEF Stands
  <2>2. ASSUME NEW from, NEW to, Goes(c, from, to)
        PROVE  thread[c] = from /\ thread'[c] = to
    BY <1>5, <2>2 DEF Goes
  <2>3. CASE RegisterRefused(a)
    BY <1>8, <2>1, <2>3 DEF RegisterRefused
  <2>4. CASE RegisterTest(a) \/ NewFile(a) \/ read_file_stat(a) \/ ListLock(a)
    <3>1. thread'[c] \in {"insert", "newfile", "list", "loop"}
      BY <1>8, <2>2, <2>4 DEF RegisterTest, NewFile, read_file_stat, ListLock
    <3>2. UNCHANGED srvopen
      BY <2>4 DEF RegisterTest, NewFile, read_file_stat, ListLock
    <3>3. \E type : Reads(c, type)
      BY <1>8, <2>4 DEF RegisterTest, NewFile, read_file_stat, ListLock
    <3> HIDE DEF Typed
    <3> QED BY <1>1, <1>4, <1>6, <3>1, <3>2, <3>3, StandsAfterRead
  <2>5. CASE RegisterInsert(a) \/ printitr(a) \/ ListUnlock(a) \/ ListEnd(a)
    <3>1. /\ thread[c] \in {"insert", "list", "end"}
          /\ thread'[c] \in {"loop", "list", "end"}
      BY <1>8, <2>2, <2>5 DEF RegisterInsert, printitr, ListUnlock, ListEnd
    <3>2. UNCHANGED <<tosrv, srvopen>>
      BY <2>5 DEF RegisterInsert, printitr, ListUnlock, ListEnd, connvars
    <3> QED BY <1>1, <1>4, <1>6, <3>1, <3>2 DEF Stands
  <2>6. CASE read_file_stat_fails(a) \/ Deregister(a) \/ EndOfStream(a) \/ SigPipe(a)
    BY <1>4, <1>8, <2>1, <2>6
       DEF read_file_stat_fails, Deregister, EndOfStream, SigPipe, Stands
  <2>7. CASE DeregisterRemove(a) \/ FeofOfClosed(a)
    BY <1>4, <1>8, <2>2, <2>7 DEF DeregisterRemove, FeofOfClosed, Stands
  <2> QED BY <2>3, <2>4, <2>5, <2>6, <2>7 DEF ServerStep, connection_callback
<1> QED BY <1>7, <1>8

(***************************************************************************)
(* Nor does a client: REGISTER is the first line it writes and it writes   *)
(* it once.                                                                *)
(***************************************************************************)
LEMMA StandingClient ==
  ASSUME Typed, Standing, NEW a \in Clients, ClientStep(a) \/ UserStep(a),
         UNCHANGED servervars
  PROVE  Standing'
<1> SUFFICES ASSUME NEW c \in Clients, Live(c)' PROVE Stands(c)'
  BY DEF Standing
<1> USE DEF Typed
<1>1. UNCHANGED <<g_client_set, thread, serverup, srvopen>>
  BY DEF servervars, ClientStep, UserStep, init_state, post_files, write_file_stat,
         list_record, list_end, list_files, exit_client, sigint_handler, BrokenPipe,
         Crash, Ends
<1>2. DOMAIN tosrv = Clients /\ DOMAIN state = Clients /\ DOMAIN cliopen = Clients
  BY DEF TypeOK, Wire
<1>3. CASE c # a
  <2>1. state'[c] = state[c] /\ cliopen'[c] = cliopen[c]
    BY <1>2, <1>3
       DEF ClientStep, UserStep, init_state, post_files, write_file_stat, list_record,
           list_end, list_files, exit_client, sigint_handler, BrokenPipe, Crash, Ends, At
  <2>2. tosrv'[c] = tosrv[c]
    <3>1. \/ UNCHANGED tosrv
          \/ \E line : ClientWrite(a, line)
      BY DEF ClientStep, UserStep, init_state, post_files, write_file_stat, list_record,
             list_end, list_files, exit_client, sigint_handler, BrokenPipe, Crash
    <3> QED BY <1>2, <1>3, <3>1 DEF ClientWrite
  <2>3. Live(c)
    BY <1>1, <2>1 DEF Live
  <2> QED BY <1>1, <2>1, <2>2, <2>3 DEF Standing, Stands
<1>4. CASE c = a
  <2>1. ~\E how \in Ended : Ends(a, how)
    BY <1>2, <1>4 DEF Live, Ends
  <2>2. ~(exit_client(a) \/ sigint_handler(a) \/ BrokenPipe(a) \/ Crash(a))
    BY <2>1 DEF exit_client, sigint_handler, BrokenPipe, Crash, Ended
  <2>3. state[c] \notin Ended
    BY <1>4, <2>2
       DEF ClientStep, UserStep, init_state, post_files, write_file_stat, list_record,
           list_end, list_files, At, Ended
  <2>4. Stands(c)
    BY <1>1, <2>3 DEF Live, Standing
  <2>5. state'[c] # "init_state" /\ UNCHANGED cliopen
    BY <1>2, <1>4, <2>2
       DEF ClientStep, UserStep, init_state, post_files, write_file_stat, list_record,
           list_end, list_files, At, Posting
  <2>6. CASE list_record(a) \/ list_end(a)
    BY <1>1, <2>4, <2>5, <2>6 DEF list_record, list_end, Stands
  <2>7. ASSUME NEW line \in Line, ClientWrite(a, line), line.type # "DEREGISTER",
               line.type = "REGISTER" => state[c] = "init_state"
        PROVE  Stands(c)'
    <3>1. tosrv[c] \in Seq(Line) /\ tosrv'[c] = Append(tosrv[c], line)
      BY <1>4, <2>4, <2>7, WritesLine DEF Stands
    <3>2. /\ \A i \in DOMAIN tosrv'[c] :
               \/ i \in DOMAIN tosrv[c] /\ tosrv'[c][i] = tosrv[c][i]
               \/ i = Len(tosrv[c]) + 1 /\ tosrv'[c][i] = line
          /\ tosrv[c] # <<>> => 1 \in DOMAIN tosrv[c] /\ tosrv'[c][1] = tosrv[c][1]
          /\ tosrv[c] = <<>> => tosrv'[c][1] = line
      BY <3>1, AppendLine
    <3>3. line.type = "REGISTER" => tosrv[c] = <<>> /\ Len(tosrv[c]) = 0
      BY <2>4, <2>7 DEF Stands
    <3>4. \A i \in DOMAIN tosrv'[c] :
            /\ tosrv'[c][i].type # "DEREGISTER"
            /\ tosrv'[c][i].type = "REGISTER" => i = 1
      BY <2>4, <2>7, <3>2, <3>3 DEF Stands
    <3>5. tosrv'[c][1].type = "REGISTER" => thread[c] = "loop" /\ NameOf[c] \notin g_client_set
      BY <2>4, <2>7, <3>2 DEF Stands
    <3> QED BY <1>1, <2>4, <2>5, <3>4, <3>5 DEF Stands
  <2>8. CASE init_state(a)
    <3>1. ClientWrite(a, Command("REGISTER")) /\ state[c] = "init_state"
      BY <1>4, <2>8 DEF init_state, At
    <3>2. Command("REGISTER") \in Line /\ Command("REGISTER").type = "REGISTER"
      BY LineWord DEF Words
    <3> QED BY <2>7, <3>1, <3>2
  <2>9. CASE post_files(a) \/ list_files(a)
    <3>1. PICK w \in {"NEWFILE", "LIST"} : ClientWrite(a, Command(w))
      BY <2>9 DEF post_files, list_files
    <3>2. Command(w) \in Line /\ Command(w).type = w
      BY LineWord DEF Words
    <3> QED BY <2>7, <3>1, <3>2
  <2>10. CASE write_file_stat(a)
    <3>1. PICK f \in unposted[a] : ClientWrite(a, FileStat(f, Stat(a)))
      BY <2>10 DEF write_file_stat
    <3>2. f \in Files /\ Stat(a) \in Stats
      BY DEF TypeOK, Stats
    <3>3. FileStat(f, Stat(a)) \in Line /\ FileStat(f, Stat(a)).type = "file_stat"
      BY <3>2, LineRecord
    <3> QED BY <2>7, <3>1, <3>3
  <2> QED BY <2>2, <2>6, <2>8, <2>9, <2>10 DEF ClientStep, UserStep
<1> QED BY <1>3, <1>4

(***************************************************************************)
(* What a thread of the server does to the lines of its client: it takes   *)
(* the first, or none, or the process ends and all are lost.               *)
(***************************************************************************)
LEMMA ServerTakes ==
  ASSUME Typed, NEW a \in Clients, ServerStep(a)
  PROVE  /\ UNCHANGED <<state, unposted>>
         /\ serverup' => serverup
         /\ \A c \in Clients : c # a /\ serverup' => tosrv'[c] = tosrv[c]
         /\ \/ \A c \in Clients : ~serverup' /\ tosrv'[c] = <<>>
            \/ tosrv' = tosrv
            \/ \E type : Reads(a, type)
<1>1. UNCHANGED <<state, unposted>>
  BY DEF ServerStep, clientvars
<1>2. /\ serverup' => serverup
      /\ \/ ServerDies
         \/ tosrv' = tosrv
         \/ \E type : Reads(a, type)
  BY DEF ServerStep, connection_callback, RegisterRefused, RegisterTest, RegisterInsert,
         NewFile, read_file_stat, read_file_stat_fails, ListLock, printitr, ListUnlock,
         ListEnd, SigPipe, Deregister, DeregisterRemove, FeofOfClosed, EndOfStream, Goes,
         connvars, ServerDies
<1>3. CASE ServerDies
  BY <1>1, <1>2, <1>3 DEF ServerDies
<1>4. CASE ~ServerDies
  BY <1>1, <1>2, <1>4, ReadsLine DEF Typed
<1> QED BY <1>3, <1>4

(***************************************************************************)
(* What a step of a client does: it may write one line, and if the line is *)
(* a record its file is no longer unposted.                                *)
(***************************************************************************)
LEMMA ClientGives ==
  ASSUME Typed, NEW a \in Clients, ClientStep(a) \/ UserStep(a)
  PROVE  /\ \A c \in Clients : c # a => UNCHANGED <<state[c], unposted[c], tosrv[c]>>
         /\ unposted'[a] \subseteq unposted[a]
         /\ state[a] \in Ended => state'[a] \in Ended
         /\ \/ FilesIn(tosrv'[a]) = FilesIn(tosrv[a])
                 /\ (unposted'[a] = unposted[a] \/ state'[a] \in Ended)
            \/ \E f \in unposted[a] :
                 /\ unposted'[a] = unposted[a] \ {f}
                 /\ FilesIn(tosrv'[a]) = IF srvopen[a] THEN FilesIn(tosrv[a]) \cup {f}
                                         ELSE FilesIn(tosrv[a])
<1> USE DEF Typed
<1>1. DOMAIN tosrv = Clients /\ DOMAIN state = Clients /\ DOMAIN unposted = Clients
  BY DEF TypeOK, Wire
<1>2. \A c \in Clients : c # a => UNCHANGED <<state[c], unposted[c]>>
  BY <1>1
     DEF ClientStep, UserStep, init_state, post_files, write_file_stat, list_record,
         list_end, list_files, exit_client, sigint_handler, BrokenPipe, Crash, Ends, At
<1>3. \A c \in Clients : c # a => UNCHANGED tosrv[c]
  <2>1. \/ UNCHANGED tosrv
        \/ \E line : ClientWrite(a, line)
    BY DEF ClientStep, UserStep, init_state, post_files, write_file_stat, list_record,
           list_end, list_files, exit_client, sigint_handler, BrokenPipe, Crash
  <2> QED BY <1>1, <2>1 DEF ClientWrite
<1>4. unposted'[a] \subseteq unposted[a] /\ (state[a] \in Ended => state'[a] \in Ended)
  BY <1>1
     DEF ClientStep, UserStep, init_state, post_files, write_file_stat, list_record,
         list_end, list_files, exit_client, sigint_handler, BrokenPipe, Crash, Ends, At, Ended
<1>5. ASSUME NEW line \in Line, ClientWrite(a, line)
      PROVE  FilesIn(tosrv'[a]) =
               IF srvopen[a] /\ line.type = "file_stat" THEN FilesIn(tosrv[a]) \cup {line.file}
               ELSE FilesIn(tosrv[a])
  <2>1. /\ tosrv[a] \in Seq(Line)
        /\ tosrv'[a] = IF srvopen[a] THEN Append(tosrv[a], line) ELSE tosrv[a]
    BY <1>5, WritesLine
  <2>2. FilesIn(Append(tosrv[a], line)) =
          FilesIn(tosrv[a]) \cup (IF line.type = "file_stat" THEN {line.file} ELSE {})
    BY <2>1, AppendLine
  <2> QED BY <2>1, <2>2
<1>6. CASE write_file_stat(a)
  <2>1. PICK f \in unposted[a] :
          /\ ClientWrite(a, FileStat(f, Stat(a)))
          /\ unposted' = [unposted EXCEPT ![a] = @ \ {f}]
    BY <1>6 DEF write_file_stat
  <2>2. f \in Files /\ Stat(a) \in Stats
    BY DEF TypeOK, Stats
  <2>3. /\ FileStat(f, Stat(a)) \in Line /\ FileStat(f, Stat(a)).type = "file_stat"
        /\ FileStat(f, Stat(a)).file = f
    BY <2>2, LineRecord
  <2>4. unposted'[a] = unposted[a] \ {f}
    BY <1>1, <2>1
  <2>5. FilesIn(tosrv'[a]) = IF srvopen[a] THEN FilesIn(tosrv[a]) \cup {f}
                             ELSE FilesIn(tosrv[a])
    BY <1>5, <2>1, <2>3
  <2> QED BY <1>2, <1>3, <1>4, <2>4, <2>5
<1>7. CASE ~write_file_stat(a)
  <2>1. \/ UNCHANGED tosrv
        \/ \E w \in {"REGISTER", "NEWFILE", "LIST", "DEREGISTER"} : ClientWrite(a, Command(w))
    BY <1>7
       DEF ClientStep, UserStep, init_state, post_files, list_record,
           list_end, list_files, exit_client, sigint_handler, BrokenPipe, Crash
  <2>2. \A w \in {"REGISTER", "NEWFILE", "LIST", "DEREGISTER"} :
          Command(w) \in Line /\ Command(w).type = w
    BY LineWord DEF Words
  <2>3. FilesIn(tosrv'[a]) = FilesIn(tosrv[a])
    BY <1>5, <2>1, <2>2
  <2>4. unposted'[a] = unposted[a] \/ state'[a] \in Ended
    BY <1>1, <1>7
       DEF ClientStep, UserStep, init_state, post_files, list_record, list_end,
           list_files, exit_client, sigint_handler, BrokenPipe, Crash, Ends, Ended
  <2> QED BY <1>2, <1>3, <1>4, <2>3, <2>4
<1> QED BY <1>6, <1>7

(***************************************************************************)
(* The records on a connection are of files that were to be offered and    *)
(* are no longer to be.                                                    *)
(***************************************************************************)
LEMMA PostedStep ==
  ASSUME Typed, Posted, NEW a \in Clients,
         ServerStep(a) \/ ClientStep(a) \/ UserStep(a)
  PROVE  Posted'
<1>1. CASE ServerStep(a)
  <2>1. \A c \in Clients : FilesIn(tosrv'[c]) \subseteq FilesIn(tosrv[c])
    <3>1. FilesIn(<<>>) = {}
      BY DEF FilesIn
    <3>2. ASSUME NEW type, Reads(a, type)
          PROVE  FilesIn(tosrv'[a]) \subseteq FilesIn(tosrv[a])
      <4>1. tosrv[a] \in Seq(Line) /\ tosrv[a] # <<>> /\ tosrv'[a] = Tail(tosrv[a])
        BY <3>2, ReadsLine DEF Typed
      <4> QED BY <4>1, TailLines
    <3>3. ASSUME NEW type, Reads(a, type), NEW c \in Clients, c # a
          PROVE  tosrv'[c] = tosrv[c]
      BY <3>3, ReadsLine DEF Typed
    <3>4. \/ \A c \in Clients : tosrv'[c] = <<>>
          \/ tosrv' = tosrv
          \/ \E type : Reads(a, type)
      BY <1>1, ServerTakes
    <3> QED BY <3>1, <3>2, <3>3, <3>4
  <2>2. UNCHANGED unposted
    BY <1>1, ServerTakes
  <2> QED BY <2>1, <2>2 DEF Posted
<1>2. CASE ClientStep(a) \/ UserStep(a)
  <2>1. /\ \A c \in Clients : c # a => UNCHANGED <<unposted[c], tosrv[c]>>
        /\ unposted'[a] \subseteq unposted[a]
        /\ \/ FilesIn(tosrv'[a]) = FilesIn(tosrv[a])
           \/ \E f \in unposted[a] : /\ unposted'[a] = unposted[a] \ {f}
                                     /\ FilesIn(tosrv'[a]) \subseteq FilesIn(tosrv[a]) \cup {f}
    BY <1>2, ClientGives
  <2>2. ASSUME NEW c \in Clients, c # a
        PROVE  /\ unposted'[c] \subseteq FilesOf[c]
               /\ FilesIn(tosrv'[c]) \subseteq FilesOf[c] \ unposted'[c]
    BY <2>1, <2>2 DEF Posted
  <2>3. /\ unposted'[a] \subseteq FilesOf[a]
        /\ FilesIn(tosrv'[a]) \subseteq FilesOf[a] \ unposted'[a]
    BY <2>1 DEF Posted
  <2> QED BY <2>2, <2>3 DEF Posted
<1> QED BY <1>1, <1>2

(***************************************************************************)
(* A thread of the server leaves the files of the other clients that run,  *)
(* and enters what its own client has written.                             *)
(***************************************************************************)
LEMMA KeepsServer ==
  ASSUME UntouchedInv, NEW a \in Clients, ServerStep(a), NEW c \in Clients, Live(c)'
  PROVE  Keeps(c)'
<1> USE DEF UntouchedInv
<1>1. UNCHANGED <<state, unposted>> /\ serverup /\ serverup'
  BY ServerTakes DEF Live
<1>2. Live(c) /\ Keeps(c) /\ Stands(c)
  BY <1>1, UntouchedKeeps DEF Live, Standing
<1>3. \A d \in Clients : d # a => tosrv'[d] = tosrv[d]
  BY <1>1, ServerTakes
<1>4. SUFFICES ASSUME NEW f, Alone(c, f)'
               PROVE  f \in DOMAIN g_file_map' /\ g_file_map'[f] = Stat(c)
  BY DEF Keeps
<1>5. f \notin FilesIn(tosrv[c]) => f \in DOMAIN g_file_map /\ g_file_map[f] = Stat(c)
  BY <1>1, <1>2, <1>4 DEF Keeps, Alone
<1>6. ASSUME NEW type, Reads(a, type), type # "file_stat"
      PROVE  FilesIn(tosrv[a]) \subseteq FilesIn(tosrv'[a])
  <2>1. /\ tosrv[a] \in Seq(Line) /\ tosrv[a] # <<>> /\ tosrv'[a] = Tail(tosrv[a])
        /\ Head(tosrv[a]).type # "file_stat"
    BY <1>6, ReadsLine DEF Typed
  <2> QED BY <2>1, TailLines
<1>7. CASE read_file_stat(a)
  <2> DEFINE g == Head(tosrv[a]).file
  <2>1. /\ tosrv[a] \in Seq(Line) /\ tosrv[a] # <<>> /\ tosrv'[a] = Tail(tosrv[a])
        /\ Head(tosrv[a]).type = "file_stat"
    BY <1>7, ReadsLine DEF read_file_stat, Typed
  <2>2. FilesIn(tosrv[a]) \subseteq FilesIn(tosrv'[a]) \cup {g} /\ g \in FilesIn(tosrv[a])
    BY <2>1, TailLines
  <2>3. g_file_map' = IF g \in DotFiles THEN g_file_map ELSE WithEntry(g_file_map, g, Stat(a))
    BY <1>7 DEF read_file_stat
  <2> HIDE DEF g
  <2>4. CASE c = a /\ f = g
    <3>1. g_file_map' = WithEntry(g_file_map, f, Stat(c))
      BY <1>4, <2>3, <2>4 DEF Alone
    <3> QED BY <3>1 DEF WithEntry
  <2>5. CASE f # g
    <3>1. f \notin FilesIn(tosrv[c])
      BY <1>3, <1>4, <2>2, <2>5 DEF Alone
    <3>2. f \in DOMAIN g_file_map /\ g_file_map[f] = Stat(c)
      BY <1>5, <3>1
    <3> QED BY <2>3, <2>5, <3>2 DEF WithEntry
  <2>6. CASE c # a /\ f = g
    <3>1. f \in FilesOf[a] \ unposted[a]
      BY <2>2, <2>6 DEF Posted
    <3> QED BY <1>1, <1>4, <2>6, <3>1 DEF Alone
  <2> QED BY <2>4, <2>5, <2>6
<1>8. CASE Deregister(a)
  <2>1. c # a
    <3>1. /\ tosrv[a] \in Seq(Line) /\ tosrv[a] # <<>> /\ Head(tosrv[a]).type = "DEREGISTER"
      BY <1>8, ReadsLine DEF Deregister, Typed
    <3>2. 1 \in DOMAIN tosrv[a] /\ Head(tosrv[a]) = tosrv[a][1]
      BY <3>1, TailLines
    <3> QED BY <1>2, <3>1, <3>2 DEF Stands
  <2>2. NameOf[c] # NameOf[a]
    BY <1>2, <2>1 DEF Live, Lone
  <2>3. f \in DOMAIN g_file_map /\ g_file_map[f] = Stat(c)
    BY <1>3, <1>4, <1>5, <2>1 DEF Alone
  <2>4. g_file_map[f].owner # NameOf[a]
    BY <2>2, <2>3 DEF Stat
  <2> QED BY <1>8, <2>3, <2>4 DEF Deregister, Withdrawn
<1>9. CASE ~read_file_stat(a) /\ ~Deregister(a)
  <2>1. UNCHANGED g_file_map
    BY <1>9
       DEF ServerStep, connection_callback, RegisterRefused, RegisterTest, RegisterInsert,
           NewFile, read_file_stat_fails, ListLock, printitr, ListUnlock,
           ListEnd, SigPipe, DeregisterRemove, FeofOfClosed, EndOfStream, ServerDies
  <2>2. FilesIn(tosrv[a]) \subseteq FilesIn(tosrv'[a])
    <3>1. ~ServerDies
      BY <1>1 DEF ServerDies
    <3>2. \/ tosrv' = tosrv
          \/ \E type \in {"REGISTER", "NEWFILE", "LIST", "DEREGISTER"} : Reads(a, type)
      BY <1>9, <3>1
         DEF ServerStep, connection_callback, RegisterRefused, RegisterTest, RegisterInsert,
             NewFile, read_file_stat_fails, ListLock, printitr, ListUnlock,
             ListEnd, SigPipe, DeregisterRemove, FeofOfClosed, EndOfStream, connvars
    <3> QED BY <1>6, <3>2
  <2>3. f \notin FilesIn(tosrv[c])
    BY <1>3, <1>4, <2>2 DEF Alone
  <2> QED BY <1>5, <2>1, <2>3
<1> QED BY <1>7, <1>8, <1>9

(***************************************************************************)
(* A file that a client writes of is on its way until the server has it.   *)
(***************************************************************************)
LEMMA KeepsClient ==
  ASSUME UntouchedInv, NEW a \in Clients, ClientStep(a) \/ UserStep(a),
         UNCHANGED servervars, NEW c \in Clients, Live(c)'
  PROVE  Keeps(c)'
<1> USE DEF UntouchedInv
<1>1. UNCHANGED <<g_file_map, serverup>>
  BY DEF servervars
<1>2. /\ \A d \in Clients : d # a => UNCHANGED <<state[d], unposted[d], tosrv[d]>>
      /\ unposted'[a] \subseteq unposted[a]
      /\ state[a] \in Ended => state'[a] \in Ended
      /\ \/ FilesIn(tosrv'[a]) = FilesIn(tosrv[a])
              /\ (unposted'[a] = unposted[a] \/ state'[a] \in Ended)
         \/ \E f \in unposted[a] :
              /\ unposted'[a] = unposted[a] \ {f}
              /\ FilesIn(tosrv'[a]) = IF srvopen[a] THEN FilesIn(tosrv[a]) \cup {f}
                                      ELSE FilesIn(tosrv[a])
  BY ClientGives
<1>3. Live(c) /\ Keeps(c) /\ Stands(c)
  BY <1>1, <1>2, UntouchedKeeps DEF Live, Standing
<1>4. ASSUME NEW f, Alone(c, f)' PROVE Alone(c, f)
  <2>1. \A d \in Clients : d # c => f \notin FilesOf[d] \/ f \in unposted[d]
    BY <1>2, <1>4 DEF Alone
  <2>2. CASE c # a
    BY <1>2, <1>4, <2>1, <2>2 DEF Alone
  <2>3. CASE c = a
    <3>1. srvopen[a] /\ state'[a] \notin Ended
      BY <1>3, <2>3 DEF Stands, Live
    <3>2. f \notin unposted[a] /\ f \notin FilesIn(tosrv[a])
      BY <1>2, <1>4, <2>3, <3>1 DEF Alone
    <3> QED BY <1>4, <2>1, <2>3, <3>2 DEF Alone
  <2> QED BY <2>2, <2>3
<1> QED BY <1>1, <1>3, <1>4 DEF Keeps

(***************************************************************************)
(* Every step keeps the files of the clients that run.                     *)
(***************************************************************************)
LEMMA UntouchedStep == UntouchedInv /\ [Next]_vars => UntouchedInv'
<1> SUFFICES ASSUME UntouchedInv, [Next]_vars PROVE UntouchedInv'
  OBVIOUS
<1>1. Typed /\ Standing /\ Posted /\ Typed'
  BY TypedStep DEF UntouchedInv
<1>2. CASE UNCHANGED vars
  <2>1. UNCHANGED <<tosrv, srvopen, cliopen, state, unposted, serverup, thread,
                    g_client_set, g_file_map>>
    BY <1>2 DEF vars, connvars, servervars, clientvars
  <2>2. Standing' /\ Posted'
    BY <1>1, <2>1 DEF Standing, Live, Stands, Posted
  <2>3. OthersUntouched'
    BY <2>1 DEF UntouchedInv, OthersUntouched
  <2> QED BY <1>1, <2>2, <2>3 DEF UntouchedInv
<1>3. ASSUME NEW a \in Clients,
             ServerStep(a) \/ ((ClientStep(a) \/ UserStep(a)) /\ UNCHANGED servervars)
      PROVE  UntouchedInv'
  <2>1. Standing' /\ Posted'
    BY <1>1, <1>3, StandingServer, StandingClient, PostedStep
  <2>2. (\A c \in Clients : Live(c) => Keeps(c))'
    BY <1>3, KeepsServer, KeepsClient
  <2>3. OthersUntouched'
    BY <2>2, UntouchedKeeps, PTL
  <2> QED BY <1>1, <2>1, <2>3 DEF UntouchedInv
<1> QED BY <1>2, <1>3 DEF Next

(***************************************************************************)
(* What the other clients do, and what becomes of them, never touches the  *)
(* entries of a client that runs: a file that it has offered and nobody    *)
(* else has is listed as its own, in every interleaving of NEWFILE and     *)
(* DEREGISTER lines of any number of clients.                              *)
(***************************************************************************)
THEOREM OthersStayUntouched == Spec => []OthersUntouched
<1>1. Init => UntouchedInv
  <2> SUFFICES ASSUME Init PROVE UntouchedInv
    OBVIOUS
  <2>1. Typed
    BY TypedInit
  <2>2. Standing
    BY DEF Init, ConnInit, ServerInit, ClientInit, Standing, Stands
  <2>3. Posted
    BY DEF Init, ConnInit, ClientInit, Posted, FilesIn
  <2>4. OthersUntouched
    BY DEF Init, ClientInit, OthersUntouched
  <2> QED BY <2>1, <2>2, <2>3, <2>4 DEF UntouchedInv
<1>2. UntouchedInv => OthersUntouched
  BY DEF UntouchedInv
<1> QED BY <1>1, <1>2, UntouchedStep, PTL DEF Spec
-----------------------------------------------------------------------------
(***************************************************************************)
(* The threads of the server keep the order of question and answer.        *)
(***************************************************************************)
LEMMA DialogueServer ==
  ASSUME IndexInv, NEW a \in Clients, ServerStep(a)
  PROVE  Dialogue'
<1> SUFFICES ASSUME NEW c \in Clients, cliopen'[c] PROVE Converses(c)'
  BY DEF Dialogue
<1> USE DEF IndexInv, RegisterInv, Typed
<1>1. UNCHANGED <<state, cliopen>>
  BY DEF ServerStep, clientvars, connection_callback, RegisterRefused, RegisterTest,
         RegisterInsert, NewFile, read_file_stat, read_file_stat_fails, ListLock, printitr,
         ListUnlock, ListEnd, SigPipe, Deregister, DeregisterRemove, FeofOfClosed,
         EndOfStream, connvars, ServerDies
<1>2. Converses(c)
  BY <1>1 DEF Dialogue
<1>3. /\ DOMAIN thread = Clients /\ thread = [d \in Clients |-> thread[d]]
      /\ DOMAIN tosrv = Clients /\ DOMAIN tocli = Clients
  BY DEF TypeOK, Wire
<1>4. CASE ServerDies
  <2>1. UNCHANGED tocli /\ tosrv'[c] = <<>> /\ thread'[c] = "ended"
    BY <1>4 DEF ServerDies
  <2> QED BY <1>1, <1>2, <2>1 DEF Converses
<1>5. CASE c # a /\ ~ServerDies
  <2>1. thread'[c] = thread[c]
    BY <1>3, <1>5
       DEF ServerStep, connection_callback, RegisterRefused, RegisterTest, RegisterInsert,
           NewFile, read_file_stat, read_file_stat_fails, ListLock, printitr, ListUnlock,
           ListEnd, SigPipe, Deregister, DeregisterRemove, FeofOfClosed, EndOfStream, Goes
  <2>2. tosrv'[c] = tosrv[c]
    BY <1>3, <1>5
       DEF ServerStep, connection_callback, RegisterRefused, RegisterTest, RegisterInsert,
           NewFile, read_file_stat, read_file_stat_fails, ListLock, printitr, ListUnlock,
           ListEnd, SigPipe, Deregister, DeregisterRemove, FeofOfClosed, EndOfStream, Reads,
           connvars
  <2>3. tocli'[c] = tocli[c]
    BY <1>3, <1>5
       DEF ServerStep, connection_callback, RegisterRefused, RegisterTest, RegisterInsert,
           NewFile, read_file_stat, read_file_stat_fails, ListLock, printitr, ListUnlock,
           ListEnd, SigPipe, Deregister, DeregisterRemove, FeofOfClosed, EndOfStream,
           ServerWrite, connvars
  <2>4. thread[c] = "list" => UNCHANGED g_file_map
    BY <1>5
       DEF ServerStep, connection_callback, RegisterRefused, RegisterTest, RegisterInsert,
           NewFile, read_file_stat, read_file_stat_fails, ListLock, printitr, ListUnlock,
           ListEnd, SigPipe, Deregister, DeregisterRemove, FeofOfClosed, EndOfStream,
           TrieMutexFree
  <2> QED BY <1>1, <1>2, <2>1, <2>2, <2>3, <2>4 DEF Converses
<1>6. CASE c = a /\ ~ServerDies
  <2>1. ASSUME NEW from, NEW to, Goes(c, from, to)
        PROVE  thread[c] = from /\ thread'[c] = to
    BY <1>3, <2>1 DEF Goes
  <2>2. ASSUME NEW type, Reads(c, type)
        PROVE  /\ 1 \in DOMAIN tosrv[c] /\ tosrv[c][1].type = type
               /\ \A i \in DOMAIN tosrv'[c] :
                    i + 1 \in DOMAIN tosrv[c] /\ tosrv'[c][i] = tosrv[c][i + 1] /\ i + 1 # 1
    <3>1. /\ tosrv[c] \in Seq(Line) /\ tosrv[c] # <<>> /\ tosrv'[c] = Tail(tosrv[c])
          /\ Head(tosrv[c]).type = type
      BY <2>2, ReadsLine
    <3> QED BY <3>1, TailLines
  <2>3. ASSUME NEW type, Reads(c, type), thread[c] \notin {"closed", "ended"},
               NEW i \in DOMAIN tosrv'[c], tosrv'[c][i].type = "LIST"
        PROVE  /\ state[c] = "list_files" /\ tocli[c] = <<>> /\ type # "LIST"
               /\ \A j \in DOMAIN tosrv'[c] : tosrv'[c][j].type = "LIST" => j = i
    <3>1. i + 1 \in DOMAIN tosrv[c] /\ tosrv[c][i + 1].type = "LIST"
      BY <2>2, <2>3
    <3>2. /\ state[c] = "list_files" /\ tocli[c] = <<>>
          /\ \A j \in DOMAIN tosrv[c] : tosrv[c][j].type = "LIST" => j = i + 1
      BY <1>2, <2>3, <3>1 DEF Converses
    <3>3. tosrv' \in [Clients -> Seq(Line)]
      BY <2>3, ReadsLine
    <3>4. DOMAIN tosrv'[c] \subseteq Int
      BY <3>3
    <3>5. ASSUME NEW j \in DOMAIN tosrv'[c], tosrv'[c][j].type = "LIST" PROVE j = i
      <4>1. j + 1 = i + 1
        BY <2>2, <2>3, <3>2, <3>5
      <4> QED BY <3>4, <4>1
    <3> QED BY <2>2, <2>3, <3>2, <3>5
  <2>4. CASE RegisterRefused(a) \/ RegisterTest(a) \/ NewFile(a) \/ read_file_stat(a)
              \/ Deregister(a)
    <3>1. /\ thread[c] \in {"loop", "newfile"}
          /\ thread'[c] \in {"ended", "insert", "newfile", "loop", "remove"}
      BY <1>6, <2>1, <2>4 DEF RegisterRefused, RegisterTest, NewFile, read_file_stat, Deregister
    <3>2. PICK type : Reads(c, type)
      BY <1>6, <2>4 DEF RegisterRefused, RegisterTest, NewFile, read_file_stat, Deregister
    <3>3. UNCHANGED tocli
      BY <2>4 DEF RegisterRefused, RegisterTest, NewFile, read_file_stat, Deregister
    <3> QED BY <1>1, <1>2, <2>3, <3>1, <3>2, <3>3 DEF Converses
  <2>5. CASE RegisterInsert(a) \/ DeregisterRemove(a) \/ EndOfStream(a) \/ FeofOfClosed(a)
    <3>1. /\ thread[c] \in {"insert", "remove", "loop", "closed"}
          /\ thread'[c] \in {"loop", "closed", "ended"}
          /\ thread[c] = "closed" => thread'[c] = "ended"
      BY <1>6, <2>1, <2>5 DEF RegisterInsert, DeregisterRemove, EndOfStream, FeofOfClosed
    <3>2. UNCHANGED <<tosrv, tocli>>
      BY <1>6, <2>5
         DEF RegisterInsert, DeregisterRemove, EndOfStream, FeofOfClosed, connvars
    <3> QED BY <1>1, <1>2, <3>1, <3>2 DEF Converses
  <2>6. CASE read_file_stat_fails(a)
    <3>1. thread[c] = "newfile" /\ thread'[c] = "loop" /\ UNCHANGED tocli
      BY <1>6, <2>1, <2>6 DEF read_file_stat_fails
    <3>2. Reads(c, "DEREGISTER") \/ UNCHANGED tosrv
      BY <1>6, <2>6 DEF read_file_stat_fails
    <3> QED BY <1>1, <1>2, <2>3, <3>1, <3>2 DEF Converses
  <2>7. CASE ListLock(a)
    <3>1. /\ thread[c] = "loop" /\ thread'[c] = "list" /\ UNCHANGED tocli
          /\ Reads(c, "LIST")
      BY <1>6, <2>1, <2>7 DEF ListLock
    <3>2. state[c] = "list_files" /\ tocli[c] = <<>>
      BY <1>2, <2>2, <3>1 DEF Converses
    <3>3. Lacks(tosrv'[c], "LIST")
      BY <2>3, <3>1 DEF Lacks
    <3>4. DOMAIN tocli'[c] = {}
      BY <3>1, <3>2
    <3> QED BY <1>1, <3>1, <3>2, <3>3, <3>4 DEF Converses, OneStat, Lacks
  <2>8. ASSUME NEW line \in Line, ServerWrite(c, line)
         PROVE  /\ tocli[c] \in Seq(Line) /\ tocli'[c] = Append(tocli[c], line)
                /\ \A i \in DOMAIN tocli'[c] :
                     \/ i \in DOMAIN tocli[c] /\ tocli'[c][i] = tocli[c][i]
                     \/ i = Len(tocli[c]) + 1 /\ tocli'[c][i] = line
                /\ Len(tocli'[c]) = Len(tocli[c]) + 1
    <3>1. tocli[c] \in Seq(Line) /\ tocli'[c] = Append(tocli[c], line)
      BY <1>1, <2>8, AnswersLine DEF TypeOK
    <3> QED BY <3>1, AppendLine
  <2>9. CASE printitr(a)
    <3> DEFINE f == CHOOSE g \in tosend[c] : TRUE
               line == FileStat(f, g_file_map[f])
    <3>1. thread[c] = "list" /\ thread'[c] = "list" /\ UNCHANGED <<tosrv, g_file_map>>
      BY <1>6, <2>1, <2>9 DEF printitr
    <3>2. f \in tosend[c] /\ ServerWrite(c, line)
      BY <1>6, <2>9 DEF printitr
    <3>3. f \in Files /\ f \in DOMAIN g_file_map /\ g_file_map[f] \in Stats
      BY <3>2 DEF TypeOK, Listing
    <3>4. /\ line \in Line /\ line.type = "file_stat" /\ line.file = f
          /\ line.stat = g_file_map[f]
      <4> HIDE DEF f
      <4> QED BY <3>3, LineRecord
    <3> HIDE DEF f, line
    <3>5. \A i \in DOMAIN tocli'[c] :
            /\ tocli'[c][i].type # "END"
            /\ tocli'[c][i].type = "file_stat" =>
                 /\ tocli'[c][i].file \in DOMAIN g_file_map
                 /\ tocli'[c][i].stat = g_file_map[tocli'[c][i].file]
      BY <1>2, <2>8, <3>1, <3>2, <3>3, <3>4 DEF Converses, Lacks
    <3>6. state[c] = "list_files" /\ Lacks(tosrv[c], "LIST")
      BY <1>2, <3>1 DEF Converses
    <3> QED BY <1>1, <3>1, <3>5, <3>6 DEF Converses, OneStat, Lacks
  <2>10. CASE ListUnlock(a)
    <3>1. thread[c] = "list" /\ thread'[c] = "end" /\ UNCHANGED <<tosrv, tocli>>
      BY <1>6, <2>1, <2>10 DEF ListUnlock, connvars
    <3> QED BY <1>1, <1>2, <3>1 DEF Converses
  <2>11. CASE ListEnd(a)
    <3>1. /\ thread[c] = "end" /\ thread'[c] = "loop" /\ UNCHANGED tosrv
          /\ ServerWrite(c, Command("END"))
      BY <1>6, <2>1, <2>11 DEF ListEnd
    <3>2. Command("END") \in Line /\ Command("END").type = "END"
      BY LineWord DEF Words
    <3>3. state[c] = "list_files" /\ Lacks(tosrv[c], "LIST") /\ Lacks(tocli[c], "END")
      BY <1>2, <3>1 DEF Converses
    <3>4. \A i \in DOMAIN tocli'[c] : tocli'[c][i].type = "END" => i = Len(tocli'[c])
      BY <2>8, <3>1, <3>2, <3>3 DEF Lacks
    <3>5. \A i \in DOMAIN tocli'[c] :
            tocli'[c][i].type = "file_stat" => i \in DOMAIN tocli[c] /\ tocli'[c][i] = tocli[c][i]
      BY <2>8, <3>1, <3>2
    <3>6. OneStat(tocli'[c])
      BY <1>2, <3>5 DEF Converses, OneStat
    <3> QED BY <1>1, <3>1, <3>3, <3>4, <3>6 DEF Converses, Lacks
  <2> QED BY <1>6, <2>4, <2>5, <2>6, <2>7, <2>9, <2>10, <2>11
          DEF ServerStep, connection_callback, SigPipe
<1> QED BY <1>4, <1>5, <1>6

(***************************************************************************)
(* So do the clients: ls asks, and returns on END or when the server has   *)
(* closed the connection.                                                  *)
(***************************************************************************)
LEMMA DialogueClient ==
  ASSUME IndexInv, NEW a \in Clients, ClientStep(a) \/ UserStep(a), UNCHANGED servervars
  PROVE  Dialogue'
<1> SUFFICES ASSUME NEW c \in Clients, cliopen'[c] PROVE Converses(c)'
  BY DEF Dialogue
<1> USE DEF IndexInv, RegisterInv, Typed
<1>1. UNCHANGED <<g_file_map, thread, srvopen>>
  BY DEF servervars, ClientStep, UserStep, init_state, post_files, write_file_stat,
         list_record, list_end, list_files, exit_client, sigint_handler, BrokenPipe,
         Crash, Ends
<1>2. /\ DOMAIN tosrv = Clients /\ DOMAIN state = Clients /\ DOMAIN cliopen = Clients
      /\ DOMAIN tocli = Clients
  BY DEF TypeOK, Wire
<1>3. CASE c # a
  <2>1. UNCHANGED <<state[c], cliopen[c], tocli[c]>>
    BY <1>2, <1>3
       DEF ClientStep, UserStep, init_state, post_files, write_file_stat, list_record,
           list_end, list_files, exit_client, sigint_handler, BrokenPipe, Crash, Ends, At
  <2>2. UNCHANGED tosrv[c]
    BY <1>3, ClientGives
  <2> QED BY <1>1, <2>1, <2>2 DEF Dialogue, Converses
<1>4. CASE c = a
  <2>1. ~\E how : Ends(a, how)
    BY <1>2, <1>4 DEF Ends
  <2>2. ~(exit_client(a) \/ sigint_handler(a) \/ BrokenPipe(a) \/ Crash(a))
    BY <2>1 DEF exit_client, sigint_handler, BrokenPipe, Crash
  <2>3. UNCHANGED cliopen
    BY <2>2
       DEF ClientStep, UserStep, init_state, post_files, write_file_stat, list_record,
           list_end, list_files
  <2>4. Converses(c)
    BY <2>3 DEF Dialogue
  <2>5. tosrv[c] \in Seq(Line) /\ tocli[c] \in Seq(Line)
    BY DEF Wire
  <2>6. ASSUME NEW line \in Line, ClientWrite(a, line)
        PROVE  \/ tosrv'[c] = tosrv[c]
               \/ \A i \in DOMAIN tosrv'[c] :
                    \/ i \in DOMAIN tosrv[c] /\ tosrv'[c][i] = tosrv[c][i]
                    \/ i = Len(tosrv[c]) + 1 /\ tosrv'[c][i] = line
    <3>1. tosrv'[c] = Append(tosrv[c], line) \/ tosrv'[c] = tosrv[c]
      BY <1>4, <2>6, WritesLine
    <3> QED BY <2>5, <3>1, AppendLine
  <2>7. ASSUME NEW line \in Line, ClientWrite(a, line), line.type # "LIST", UNCHANGED tocli,
               state[c] # "list_files", state'[c] # "list_files"
        PROVE  Converses(c)'
    <3>1. thread[c] \notin {"list", "end"} /\ tocli[c] = <<>>
      BY <2>4, <2>7 DEF Converses
    <3>2. \A i \in DOMAIN tosrv'[c] :
            tosrv'[c][i].type = "LIST" =>
              i \in DOMAIN tosrv[c] /\ tosrv'[c][i] = tosrv[c][i]
      BY <2>6, <2>7
    <3>3. thread[c] \notin {"closed", "ended"} => Lacks(tosrv'[c], "LIST")
      BY <2>4, <2>7, <3>2 DEF Converses, Lacks
    <3> QED BY <1>1, <2>4, <2>7, <3>1, <3>3 DEF Converses, Lacks
  <2>8. CASE init_state(a) \/ post_files(a)
    <3>1. PICK w \in {"REGISTER", "NEWFILE"} : ClientWrite(a, Command(w))
      BY <2>8 DEF init_state, post_files
    <3>2. Command(w) \in Line /\ Command(w).type = w
      BY LineWord DEF Words
    <3>3. UNCHANGED tocli /\ state[c] # "list_files" /\ state'[c] # "list_files"
      BY <1>2, <1>4, <2>8 DEF init_state, post_files, At, Posting
    <3> QED BY <2>7, <3>1, <3>2, <3>3
  <2>9. CASE write_file_stat(a)
    <3>1. PICK f \in unposted[a] : ClientWrite(a, FileStat(f, Stat(a)))
      BY <2>9 DEF write_file_stat
    <3>2. f \in Files /\ Stat(a) \in Stats
      BY DEF TypeOK, Stats
    <3>3. FileStat(f, Stat(a)) \in Line /\ FileStat(f, Stat(a)).type = "file_stat"
      BY <3>2, LineRecord
    <3>4. UNCHANGED tocli /\ state[c] # "list_files" /\ state'[c] # "list_files"
      BY <1>2, <1>4, <2>9 DEF write_file_stat, At, Posting
    <3> QED BY <2>7, <3>1, <3>3, <3>4
  <2>10. CASE list_files(a)
    <3>1. /\ state[c] = "wait_for_input" /\ state'[c] = "list_files" /\ UNCHANGED tocli
          /\ ClientWrite(a, Command("LIST"))
      BY <1>2, <1>4, <2>10 DEF list_files, At
    <3>2. Command("LIST") \in Line /\ Command("LIST").type = "LIST"
      BY LineWord DEF Words
    <3>3. thread[c] \notin {"list", "end"} /\ tocli[c] = <<>>
      BY <2>4, <3>1 DEF Converses
    <3>4. thread[c] \notin {"closed", "ended"} => Lacks(tosrv[c], "LIST")
      BY <2>4, <3>1 DEF Converses, Lacks
    <3>5. thread[c] \notin {"closed", "ended"} =>
            \A i \in DOMAIN tosrv'[c] : tosrv'[c][i].type = "LIST" => i = Len(tosrv[c]) + 1
      BY <2>6, <3>1, <3>2, <3>4 DEF Lacks
    <3> QED BY <1>1, <2>4, <3>1, <3>3, <3>5 DEF Converses
  <2>11. ASSUME tocli[c] # <<>>, tocli' = [tocli EXCEPT ![c] = Tail(@)]
         PROVE  /\ Len(tocli'[c]) = Len(tocli[c]) - 1 /\ Len(tocli[c]) \in Nat
                /\ 1 \in DOMAIN tocli[c] /\ Head(tocli[c]) = tocli[c][1]
                /\ \A i \in DOMAIN tocli'[c] :
                     i + 1 \in DOMAIN tocli[c] /\ tocli'[c][i] = tocli[c][i + 1] /\ i + 1 # 1
    <3>1. tocli'[c] = Tail(tocli[c])
      BY <1>2, <2>11
    <3>2. /\ Tail(tocli[c]) \in Seq(Line) /\ Len(Tail(tocli[c])) = Len(tocli[c]) - 1
          /\ Len(tocli[c]) \in Nat
      BY <2>5, <2>11
    <3> QED BY <2>5, <2>11, <3>1, <3>2, TailLines
  <2>12. CASE list_record(a)
    <3>1. /\ state[c] = "list_files" /\ state'[c] = "list_files" /\ UNCHANGED tosrv
          /\ tocli[c] # <<>> /\ tocli' = [tocli EXCEPT ![c] = Tail(@)]
      BY <1>2, <1>4, <2>12 DEF list_record, At
    <3>2. thread[c] \notin {"closed", "ended"} => Lacks(tosrv[c], "LIST")
      BY <2>4, <3>1 DEF Converses, Lacks
    <3>3. OneStat(tocli'[c])
      BY <2>4, <2>11, <3>1 DEF Converses, OneStat
    <3>4. Lacks(tocli[c], "END") => Lacks(tocli'[c], "END")
      BY <2>11, <3>1 DEF Lacks
    <3>5. \A i \in DOMAIN tocli'[c] : tocli'[c][i].type = "END" => i = Len(tocli'[c])
      BY <2>4, <2>11, <3>1 DEF Converses
    <3>6. thread[c] = "list" =>
            \A i \in DOMAIN tocli'[c] :
              tocli'[c][i].type = "file_stat" =>
                /\ tocli'[c][i].file \in DOMAIN g_file_map
                /\ tocli'[c][i].stat = g_file_map[tocli'[c][i].file]
      BY <2>4, <2>11, <3>1 DEF Converses
    <3> QED BY <1>1, <2>4, <3>1, <3>2, <3>3, <3>4, <3>5, <3>6 DEF Converses, Lacks
  <2>13. CASE list_end(a)
    <3>1. /\ state[c] = "list_files" /\ state'[c] = "wait_for_input" /\ UNCHANGED tosrv
          /\ \/ /\ tocli[c] # <<>> /\ Head(tocli[c]).type = "END"
                /\ tocli' = [tocli EXCEPT ![c] = Tail(@)]
             \/ tocli[c] = <<>> /\ ~srvopen[c] /\ UNCHANGED tocli
      BY <1>2, <1>4, <2>13 DEF list_end, At
    <3>2. CASE tocli[c] = <<>> /\ ~srvopen[c] /\ UNCHANGED tocli
      BY <1>1, <2>4, <3>1, <3>2 DEF Converses, ClosedLast
    <3>3. CASE /\ tocli[c] # <<>> /\ Head(tocli[c]).type = "END"
               /\ tocli' = [tocli EXCEPT ![c] = Tail(@)]
      <4>1. 1 \in DOMAIN tocli[c] /\ tocli[c][1].type = "END"
        BY <2>11, <3>3
      <4>2. Len(tocli[c]) = 1
        BY <2>4, <4>1 DEF Converses
      <4>3. tocli'[c] = <<>> /\ DOMAIN tocli'[c] = {}
        <5>1. tocli'[c] = Tail(tocli[c])
          BY <1>2, <3>3
        <5>2. Tail(tocli[c]) \in Seq(Line) /\ Len(Tail(tocli[c])) = 0
          BY <2>5, <3>3, <4>2
        <5>3. \A seq \in Seq(Line) : seq # <<>> => Len(seq) \in Nat \ {0}
          BY EmptySeq
        <5>4. Tail(tocli[c]) = <<>>
          BY <5>2, <5>3
        <5> QED BY <5>1, <5>4
      <4>4. thread[c] \notin {"list", "end"}
        BY <2>4, <4>1 DEF Converses, Lacks
      <4>5. thread[c] \notin {"closed", "ended"} => Lacks(tosrv[c], "LIST")
        BY <2>4, <3>3 DEF Converses, Lacks
      <4> QED BY <1>1, <3>1, <4>3, <4>4, <4>5 DEF Converses, OneStat, Lacks
    <3> QED BY <3>1, <3>2, <3>3
  <2> QED BY <2>2, <2>8, <2>9, <2>10, <2>12, <2>13 DEF ClientStep, UserStep
<1> QED BY <1>3, <1>4

(***************************************************************************)
(* Every step keeps the invariant of the refinement.                       *)
(***************************************************************************)
LEMMA IndexInvStep == IndexInv /\ [Next]_vars => IndexInv'
<1> SUFFICES ASSUME IndexInv, [Next]_vars PROVE IndexInv'
  OBVIOUS
<1>1. RegisterInv'
  BY RegisterStep DEF IndexInv
<1>2. CASE UNCHANGED vars
  <2>1. UNCHANGED <<tosrv, tocli, cliopen, state, thread, g_file_map>>
    BY <1>2 DEF vars, connvars, servervars, clientvars
  <2>2. Dialogue'
    BY <2>1 DEF IndexInv, Dialogue, Converses, OneStat, Lacks
  <2> QED BY <1>1, <2>2 DEF IndexInv
<1> QED BY <1>1, <1>2, DialogueServer, DialogueClient DEF Next, IndexInv

(***************************************************************************)
(* Laying the records of a connection over each other: where no two of     *)
(* them differ on a file, the order does not matter.                       *)
(***************************************************************************)
LEMMA LaidOf ==
  ASSUME NEW lines, OneStat(lines)
  PROVE  /\ DOMAIN Laid(lines) = FilesIn(lines)
         /\ \A i \in DOMAIN lines :
              lines[i].type = "file_stat" => Laid(lines)[lines[i].file] = lines[i].stat
<1> DEFINE records == {lines[i] : i \in {j \in DOMAIN lines : lines[j].type = "file_stat"}}
<1>1. Laid(lines) = [f \in {r.file : r \in records} |-> (CHOOSE r \in records : r.file = f).stat]
  BY DEF Laid
<1>2. FilesIn(lines) = {r.file : r \in records}
  BY DEF FilesIn
<1>3. ASSUME NEW i \in DOMAIN lines, lines[i].type = "file_stat"
      PROVE  Laid(lines)[lines[i].file] = lines[i].stat
  <2> DEFINE chosen == CHOOSE r \in records : r.file = lines[i].file
  <2>1. lines[i] \in records
    BY <1>3
  <2>2. chosen \in records /\ chosen.file = lines[i].file
    BY <2>1
  <2>3. PICK j \in DOMAIN lines : lines[j].type = "file_stat" /\ lines[j] = chosen
    BY <2>2
  <2>4. chosen.stat = lines[i].stat
    <3> HIDE DEF chosen, records
    <3> QED BY <1>3, <2>2, <2>3 DEF OneStat
  <2>5. lines[i].file \in {r.file : r \in records}
    BY <2>1
  <2> QED BY <1>1, <2>4, <2>5
<1> QED BY <1>1, <1>2, <1>3

(***************************************************************************)
(* The answer of a client that runs is a map from the files it knows of.   *)
(***************************************************************************)
LEMMA AnswerIs ==
  ASSUME NEW c, cliopen[c]
  PROVE  Answer(c) = [f \in Known(c) |-> Told(c, f)]
BY DEF Answer, Over, Known, Told

(***************************************************************************)
(* What the answer of a client depends on.                                 *)
(***************************************************************************)
LEMMA AnswerKept ==
  ASSUME NEW c, UNCHANGED <<cliopen[c], tosend[c], tocli[c], cli_files[c]>>,
         tosend[c] = {} \/ UNCHANGED g_file_map
  PROVE  Answer(c)' = Answer(c)
<1>1. CASE ~cliopen[c]
  BY <1>1 DEF Answer
<1>2. CASE cliopen[c]
  <2>1. [f \in tosend'[c] |-> g_file_map'[f]] = [f \in tosend[c] |-> g_file_map[f]]
    OBVIOUS
  <2>2. Laid(tocli'[c]) = Laid(tocli[c])
    BY DEF Laid
  <2> QED BY <1>2, <2>1, <2>2 DEF Answer
<1> QED BY <1>1, <1>2

(***************************************************************************)
(* And when it is the same although something moved.                       *)
(***************************************************************************)
LEMMA AnswerMoved ==
  ASSUME NEW c, cliopen[c], cliopen'[c], Known(c)' = Known(c),
         \A f \in Known(c) : Told(c, f)' = Told(c, f)
  PROVE  Answer(c)' = Answer(c)
<1>1. Answer(c) = [f \in Known(c) |-> Told(c, f)]
  BY AnswerIs
<1>2. Answer(c)' = [f \in Known(c)' |-> Told(c, f)']
  BY DEF Answer, Over, Known, Told
<1> QED BY <1>1, <1>2

(***************************************************************************)
(* A line that is not a record adds nothing to what a client is told.      *)
(***************************************************************************)
LEMMA LaidSame ==
  ASSUME NEW s, NEW t, OneStat(s), OneStat(t), FilesIn(s) = FilesIn(t),
         \A i \in DOMAIN s : s[i].type = "file_stat" =>
            \E j \in DOMAIN t : t[j] = s[i]
  PROVE  DOMAIN Laid(s) = DOMAIN Laid(t) /\ \A f \in DOMAIN Laid(s) : Laid(s)[f] = Laid(t)[f]
<1>1. DOMAIN Laid(s) = FilesIn(s) /\ DOMAIN Laid(t) = FilesIn(t)
  BY LaidOf
<1>2. ASSUME NEW f \in FilesIn(s) PROVE Laid(s)[f] = Laid(t)[f]
  <2>1. PICK i \in DOMAIN s : s[i].type = "file_stat" /\ s[i].file = f
    BY <1>2 DEF FilesIn
  <2>2. PICK j \in DOMAIN t : t[j] = s[i]
    BY <2>1
  <2>3. Laid(s)[s[i].file] = s[i].stat
    BY <2>1, LaidOf
  <2>4. Laid(t)[t[j].file] = t[j].stat
    BY <2>1, <2>2, LaidOf
  <2> QED BY <2>1, <2>2, <2>3, <2>4
<1> QED BY <1>1, <1>2

(***************************************************************************)
(* printitr: a record that is written is no longer to be written, and on   *)
(* its way instead.                                                        *)
(***************************************************************************)
LEMMA PrintedStaysTold ==
  ASSUME IndexInv, IndexInv', NEW c \in Clients, cliopen[c], printitr(c), UNCHANGED cli_files
  PROVE  Answer(c)' = Answer(c)
<1> USE DEF IndexInv, RegisterInv, Typed
<1> DEFINE f == CHOOSE g \in tosend[c] : TRUE
           line == FileStat(f, g_file_map[f])
           s == tocli[c]
           t == tocli'[c]
<1>1. /\ thread[c] = "list" /\ UNCHANGED <<g_file_map, cliopen>>
      /\ f \in tosend[c] /\ ServerWrite(c, line)
      /\ tosend' = [tosend EXCEPT ![c] = @ \ {f}]
  BY DEF printitr, Goes
<1>2. f \in Files /\ g_file_map[f] \in Stats
  BY <1>1 DEF TypeOK, Listing
<1>3. /\ line \in Line /\ line.type = "file_stat" /\ line.file = f
      /\ line.stat = g_file_map[f]
  <2> HIDE DEF f
  <2> QED BY <1>2, LineRecord
<1> HIDE DEF f, line
<1>4. s \in Seq(Line) /\ t = Append(s, line)
  BY <1>1, <1>3, AnswersLine DEF TypeOK
<1>5. OneStat(s) /\ OneStat(t)
  BY <1>1 DEF Dialogue, Converses
<1>6. /\ \A i \in DOMAIN s : i \in DOMAIN t /\ t[i] = s[i]
      /\ Len(s) + 1 \in DOMAIN t /\ t[Len(s) + 1] = line
      /\ FilesIn(t) = FilesIn(s) \cup {f}
  BY <1>3, <1>4, AppendLine
<1>7. tosend'[c] = tosend[c] \ {f}
  BY <1>1 DEF TypeOK
<1> HIDE DEF s, t
<1>8. DOMAIN Laid(s) = FilesIn(s) /\ DOMAIN Laid(t) = FilesIn(t)
  BY <1>5, LaidOf
<1>9. Laid(t)[f] = g_file_map[f]
  BY <1>3, <1>5, <1>6, LaidOf
<1>10. ASSUME NEW g \in FilesIn(s) PROVE Laid(t)[g] = Laid(s)[g]
  <2>1. PICK i \in DOMAIN s : s[i].type = "file_stat" /\ s[i].file = g
    BY <1>10 DEF FilesIn
  <2>2. Laid(s)[s[i].file] = s[i].stat
    BY <1>5, <2>1, LaidOf
  <2>3. Laid(t)[t[i].file] = t[i].stat
    BY <1>5, <1>6, <2>1, LaidOf
  <2> QED BY <1>6, <2>1, <2>2, <2>3
<1>11. Known(c) = tosend[c] \cup FilesIn(s) \cup DOMAIN cli_files[c]
  BY <1>8 DEF Known, s
<1>12. Known(c)' = tosend'[c] \cup FilesIn(t) \cup DOMAIN cli_files[c]
  BY <1>8 DEF Known, t
<1>13. Known(c)' = Known(c)
  BY <1>1, <1>6, <1>7, <1>11, <1>12
<1>14. ASSUME NEW g \in Known(c) PROVE Told(c, g)' = Told(c, g)
  <2>1. Told(c, g) = IF g \in tosend[c] THEN g_file_map[g]
                     ELSE IF g \in FilesIn(s) THEN Laid(s)[g] ELSE cli_files[c][g]
    BY <1>8 DEF Told, s
  <2>2. Told(c, g)' = IF g \in tosend'[c] THEN g_file_map[g]
                      ELSE IF g \in FilesIn(t) THEN Laid(t)[g] ELSE cli_files[c][g]
    BY <1>1, <1>8 DEF Told, t
  <2> QED BY <1>1, <1>6, <1>7, <1>9, <1>10, <2>1, <2>2
<1> QED BY <1>1, <1>13, <1>14, AnswerMoved

(***************************************************************************)
(* list_record: a record that is taken from the connection is entered in   *)
(* what the client keeps.                                                  *)
(***************************************************************************)
LEMMA TakenStaysTold ==
  ASSUME IndexInv, IndexInv', NEW c \in Clients, cliopen[c], list_record(c),
         UNCHANGED servervars
  PROVE  Answer(c)' = Answer(c)
<1> USE DEF IndexInv, RegisterInv, Typed
<1> DEFINE e == Head(tocli[c])
           s == tocli[c]
           t == tocli'[c]
<1>1. UNCHANGED <<g_file_map, tosend, cliopen>>
  BY DEF servervars, list_record
<1>2. /\ s # <<>> /\ tocli' = [tocli EXCEPT ![c] = Tail(@)] /\ e.type = "file_stat"
      /\ cli_files' = [cli_files EXCEPT ![c] = WithEntry(cli_files[c], e.file, e.stat)]
  BY DEF list_record
<1>3. s \in Seq(Line) /\ t = Tail(s)
  BY <1>2, TakesLine DEF TypeOK
<1>4. OneStat(s) /\ OneStat(t)
  BY <1>1 DEF Dialogue, Converses
<1>5. /\ \A i \in DOMAIN t : i + 1 \in DOMAIN s /\ t[i] = s[i + 1]
      /\ 1 \in DOMAIN s /\ e = s[1]
      /\ FilesIn(t) \subseteq FilesIn(s) /\ e.file \in FilesIn(s)
      /\ FilesIn(s) \subseteq FilesIn(t) \cup {e.file}
  BY <1>2, <1>3, TailLines
<1>6. cli_files'[c] = WithEntry(cli_files[c], e.file, e.stat)
  BY <1>2 DEF Wire
<1> HIDE DEF e, s, t
<1>7. /\ DOMAIN cli_files'[c] = DOMAIN cli_files[c] \cup {e.file}
      /\ cli_files'[c][e.file] = e.stat
      /\ \A g \in DOMAIN cli_files[c] : g # e.file => cli_files'[c][g] = cli_files[c][g]
  BY <1>6 DEF WithEntry
<1>8. DOMAIN Laid(s) = FilesIn(s) /\ DOMAIN Laid(t) = FilesIn(t)
  BY <1>4, LaidOf
<1>9. Laid(s)[e.file] = e.stat
  BY <1>2, <1>4, <1>5, LaidOf
<1>10. ASSUME NEW g \in FilesIn(t) PROVE Laid(t)[g] = Laid(s)[g]
  <2>1. PICK i \in DOMAIN t : t[i].type = "file_stat" /\ t[i].file = g
    BY <1>10 DEF FilesIn
  <2>2. Laid(t)[t[i].file] = t[i].stat
    BY <1>4, <2>1, LaidOf
  <2>3. Laid(s)[s[i + 1].file] = s[i + 1].stat
    BY <1>4, <1>5, <2>1, LaidOf
  <2> QED BY <1>5, <2>1, <2>2, <2>3
<1>11. Known(c) = tosend[c] \cup FilesIn(s) \cup DOMAIN cli_files[c]
  BY <1>8 DEF Known, s
<1>12. Known(c)' = tosend[c] \cup FilesIn(t) \cup DOMAIN cli_files'[c]
  BY <1>1, <1>8 DEF Known, t
<1>13. Known(c)' = Known(c)
  BY <1>5, <1>7, <1>11, <1>12
<1>14. ASSUME NEW g \in Known(c) PROVE Told(c, g)' = Told(c, g)
  <2>1. Told(c, g) = IF g \in tosend[c] THEN g_file_map[g]
                     ELSE IF g \in FilesIn(s) THEN Laid(s)[g] ELSE cli_files[c][g]
    BY <1>8 DEF Told, s
  <2>2. Told(c, g)' = IF g \in tosend[c] THEN g_file_map[g]
                      ELSE IF g \in FilesIn(t) THEN Laid(t)[g] ELSE cli_files'[c][g]
    BY <1>1, <1>8 DEF Told, t
  <2>3. CASE g \in tosend[c] \/ g \in FilesIn(t)
    BY <1>5, <1>10, <2>1, <2>2, <2>3
  <2>4. CASE g \notin tosend[c] /\ g \notin FilesIn(t) /\ g = e.file
    BY <1>5, <1>7, <1>9, <2>1, <2>2, <2>4
  <2>5. CASE g \notin tosend[c] /\ g \notin FilesIn(t) /\ g # e.file
    BY <1>5, <1>7, <1>11, <2>1, <2>2, <2>5
  <2> QED BY <2>3, <2>4, <2>5
<1> QED BY <1>1, <1>13, <1>14, AnswerMoved

(***************************************************************************)
(* END, written or taken, tells a client nothing.                          *)
(***************************************************************************)
LEMMA EndTellsNothing ==
  ASSUME IndexInv, IndexInv', NEW c \in Clients, cliopen[c],
         \/ ServerWrite(c, Command("END"))
         \/ /\ tocli[c] # <<>> /\ Head(tocli[c]).type = "END"
            /\ tocli' = [tocli EXCEPT ![c] = Tail(@)],
         UNCHANGED <<g_file_map, tosend, cliopen, cli_files>>
  PROVE  Answer(c)' = Answer(c)
<1> USE DEF IndexInv, RegisterInv, Typed
<1> DEFINE s == tocli[c]
           t == tocli'[c]
<1>1. OneStat(s) /\ OneStat(t)
  BY DEF Dialogue, Converses
<1>2. DOMAIN Laid(s) = DOMAIN Laid(t) /\ \A f \in DOMAIN Laid(s) : Laid(s)[f] = Laid(t)[f]
  <2>1. CASE ServerWrite(c, Command("END"))
    <3>1. Command("END") \in Line /\ Command("END").type = "END"
      BY LineWord DEF Words
    <3>2. s \in Seq(Line) /\ t = Append(s, Command("END"))
      BY <2>1, <3>1, AnswersLine DEF TypeOK
    <3>3. /\ \A i \in DOMAIN s : i \in DOMAIN t /\ t[i] = s[i]
          /\ FilesIn(t) = FilesIn(s) \cup (IF Command("END").type = "file_stat"
                                          THEN {Command("END").file} ELSE {})
      BY <3>1, <3>2, AppendLine
    <3> HIDE DEF s, t
    <3>4. FilesIn(t) = FilesIn(s)
      BY <3>1, <3>3
    <3> QED BY <1>1, <3>3, <3>4, LaidSame
  <2>2. CASE /\ tocli[c] # <<>> /\ Head(tocli[c]).type = "END"
             /\ tocli' = [tocli EXCEPT ![c] = Tail(@)]
    <3>1. s \in Seq(Line) /\ t = Tail(s)
      BY <2>2, TakesLine DEF TypeOK
    <3>2. /\ \A i \in DOMAIN t : i + 1 \in DOMAIN s /\ t[i] = s[i + 1]
          /\ FilesIn(t) \subseteq FilesIn(s)
          /\ FilesIn(s) \subseteq FilesIn(t) \cup
               (IF Head(s).type = "file_stat" THEN {Head(s).file} ELSE {})
      BY <2>2, <3>1, TailLines
    <3>3. Head(s).type = "END"
      BY <2>2
    <3> HIDE DEF s, t
    <3>4. FilesIn(t) = FilesIn(s)
      BY <3>2, <3>3
    <3> QED BY <1>1, <3>2, <3>4, LaidSame
  <2> QED BY <2>1, <2>2
<1>3. Known(c)' = Known(c)
  BY <1>2 DEF Known
<1>4. \A f \in Known(c) : Told(c, f)' = Told(c, f)
  BY <1>2 DEF Told
<1> QED BY <1>3, <1>4, AnswerMoved

(***************************************************************************)
(* A step that moves neither the index nor any answer is none of the       *)
(* index's.                                                                *)
(***************************************************************************)
LEMMA IndexStutters ==
  ASSUME UNCHANGED <<g_client_set, g_file_map>>, \A c \in Clients : Answer(c)' = Answer(c)
  PROVE  UNCHANGED Index!vars
BY DEF Index!vars

(***************************************************************************)
(* What a thread does for one client changes the answer of no other.       *)
(***************************************************************************)
LEMMA OthersAnswers ==
  ASSUME IndexInv, NEW a \in Clients, ServerStep(a), ~ServerDies, NEW c \in Clients, c # a
  PROVE  Answer(c)' = Answer(c)
<1> USE DEF IndexInv, RegisterInv, Typed
<1>1. DOMAIN tosend = Clients /\ DOMAIN tocli = Clients
  BY DEF TypeOK, Wire
<1>2. UNCHANGED <<cliopen, cli_files>> /\ serverup
  BY DEF ServerStep, clientvars, connection_callback, RegisterRefused, RegisterTest,
         RegisterInsert, NewFile, read_file_stat, read_file_stat_fails, ListLock, printitr,
         ListUnlock, ListEnd, SigPipe, Deregister, DeregisterRemove, FeofOfClosed,
         EndOfStream, connvars, Goes
<1>3. UNCHANGED tosend[c]
  BY <1>1
     DEF ServerStep, connection_callback, RegisterRefused, RegisterTest, RegisterInsert,
         NewFile, read_file_stat, read_file_stat_fails, ListLock, printitr, ListUnlock,
         ListEnd, SigPipe, Deregister, DeregisterRemove, FeofOfClosed, EndOfStream
<1>4. UNCHANGED tocli[c]
  BY <1>1
     DEF ServerStep, connection_callback, RegisterRefused, RegisterTest, RegisterInsert,
         NewFile, read_file_stat, read_file_stat_fails, ListLock, printitr, ListUnlock,
         ListEnd, SigPipe, Deregister, DeregisterRemove, FeofOfClosed, EndOfStream,
         ServerWrite, connvars
<1>5. thread[c] # "list" \/ UNCHANGED g_file_map
  BY DEF ServerStep, connection_callback, RegisterRefused, RegisterTest, RegisterInsert,
         NewFile, read_file_stat, read_file_stat_fails, ListLock, printitr, ListUnlock,
         ListEnd, SigPipe, Deregister, DeregisterRemove, FeofOfClosed, EndOfStream,
         TrieMutexFree
<1>6. tosend[c] = {} \/ UNCHANGED g_file_map
  BY <1>2, <1>5 DEF Listing
<1> QED BY <1>2, <1>3, <1>4, <1>6, AnswerKept

(***************************************************************************)
(* A thread that starts no listing leaves its own client's answer as it    *)
(* was.                                                                    *)
(***************************************************************************)
LEMMA OwnAnswer ==
  ASSUME IndexInv, IndexInv', NEW a \in Clients, ServerStep(a), ~ListLock(a), ~ServerDies
  PROVE  Answer(a)' = Answer(a)
<1> USE DEF IndexInv, RegisterInv, Typed
<1>1. UNCHANGED <<cliopen, cli_files>> /\ serverup
  BY DEF ServerStep, clientvars, connection_callback, RegisterRefused, RegisterTest,
         RegisterInsert, NewFile, read_file_stat, read_file_stat_fails, ListLock, printitr,
         ListUnlock, ListEnd, SigPipe, Deregister, DeregisterRemove, FeofOfClosed,
         EndOfStream, connvars, Goes
<1>2. CASE ~cliopen[a]
  BY <1>1, <1>2 DEF Answer
<1>3. CASE cliopen[a] /\ printitr(a)
  BY <1>1, <1>3, PrintedStaysTold
<1>4. CASE cliopen[a] /\ ListEnd(a)
  <2>1. ServerWrite(a, Command("END")) /\ UNCHANGED <<g_file_map, tosend>>
    BY <1>4 DEF ListEnd
  <2> QED BY <1>1, <1>4, <2>1, EndTellsNothing
<1>5. CASE ~printitr(a) /\ ~ListEnd(a)
  <2>1. UNCHANGED <<tosend, tocli>>
    BY <1>5
       DEF ServerStep, connection_callback, RegisterRefused, RegisterTest, RegisterInsert,
           NewFile, read_file_stat, read_file_stat_fails, ListUnlock, SigPipe, Deregister,
           DeregisterRemove, FeofOfClosed, EndOfStream, connvars
  <2>2. thread[a] # "list" \/ UNCHANGED g_file_map
    BY <1>5
       DEF ServerStep, connection_callback, RegisterRefused, RegisterTest, RegisterInsert,
           NewFile, read_file_stat, read_file_stat_fails, ListUnlock, SigPipe, Deregister,
           DeregisterRemove, FeofOfClosed, EndOfStream, TrieMutexFree
  <2>3. tosend[a] = {} \/ UNCHANGED g_file_map
    BY <1>1, <2>2 DEF Listing
  <2> QED BY <1>1, <2>1, <2>3, AnswerKept
<1> QED BY <1>2, <1>3, <1>4, <1>5

(***************************************************************************)
(* ListLock is the moment of a listing: from then on all of the map is     *)
(* told to the client that asked, over what it was told before.            *)
(***************************************************************************)
LEMMA LockedIsTold ==
  ASSUME IndexInv, NEW a \in Clients, ListLock(a), UNCHANGED cli_files, cliopen[a]
  PROVE  Answer(a)' = Over(g_file_map, Answer(a))
<1> USE DEF IndexInv, RegisterInv, Typed
<1>1. /\ thread[a] = "loop" /\ serverup /\ Reads(a, "LIST")
      /\ tosend'[a] = DOMAIN g_file_map
      /\ UNCHANGED <<g_file_map, tocli, cliopen>>
  BY DEF ListLock, Goes, TypeOK
<1>2. tosend[a] = {}
  BY <1>1 DEF Listing
<1>3. tosrv[a] \in Seq(Line) /\ tosrv[a] # <<>> /\ Head(tosrv[a]).type = "LIST"
  BY <1>1 DEF Reads, Wire
<1>4. 1 \in DOMAIN tosrv[a] /\ tosrv[a][1].type = "LIST"
  BY <1>3, TailLines
<1>5. tocli[a] = <<>>
  BY <1>1, <1>4 DEF Dialogue, Converses
<1>6. DOMAIN Laid(tocli[a]) = {}
  BY <1>5 DEF Laid
<1>7. Laid(tocli'[a]) = Laid(tocli[a])
  BY <1>1 DEF Laid
<1>8. Answer(a) = [f \in DOMAIN cli_files[a] |-> cli_files[a][f]]
  BY <1>2, <1>6, AnswerIs DEF Known, Told
<1>9. Answer(a)' = [f \in DOMAIN g_file_map \cup DOMAIN cli_files[a] |->
                      IF f \in DOMAIN g_file_map THEN g_file_map[f] ELSE cli_files[a][f]]
  BY <1>1, <1>6, <1>7 DEF Answer, Over
<1> QED BY <1>8, <1>9 DEF Over

(***************************************************************************)
(* Every step of a server thread is a step of the index, or none.          *)
(***************************************************************************)
LEMMA ServerImplements ==
  ASSUME IndexInv, IndexInv', NEW a \in Clients, ServerStep(a)
  PROVE  [Index!Next]_(Index!vars)
<1> USE DEF IndexInv, RegisterInv, Typed
<1> DEFINE answer == [c \in Clients |-> Answer(c)]
<1>1. NameOf[a] \in Names /\ Stat(a) \in Stats
  BY ConnectionConstants DEF Stats
<1>2. CASE ServerDies
  <2>1. UNCHANGED <<g_client_set, g_file_map, tosend, tocli, cliopen, cli_files>>
    BY <1>2 DEF ServerDies, ServerStep, clientvars
  <2>2. \A c \in Clients : Answer(c)' = Answer(c)
    BY <2>1, AnswerKept
  <2> QED BY <2>1, <2>2, IndexStutters
<1>3. CASE ListLock(a) /\ ~ServerDies
  <2>1. UNCHANGED <<g_client_set, g_file_map, cliopen, cli_files>>
    BY <1>3 DEF ListLock, ServerStep, clientvars
  <2>2. \A c \in Clients : c # a => Answer(c)' = Answer(c)
    BY <1>3, OthersAnswers
  <2>3. CASE cliopen[a]
    <3>1. Answer(a)' = Over(g_file_map, Answer(a))
      BY <1>3, <2>1, <2>3, LockedIsTold
    <3>2. answer' = [answer EXCEPT ![a] = Over(g_file_map, Answer(a))]
      BY <2>2, <3>1
    <3>3. Index!List(a)
      BY <2>1, <3>2 DEF Index!List, Index!Over, Over
    <3> QED BY <3>3 DEF Index!Next
  <2>4. CASE ~cliopen[a]
    <3>1. Answer(a)' = Answer(a)
      BY <2>1, <2>4 DEF Answer
    <3> QED BY <2>1, <2>2, <3>1, IndexStutters
  <2> QED BY <2>3, <2>4
<1>4. CASE ~ListLock(a) /\ ~ServerDies
  <2>1. \A c \in Clients : Answer(c)' = Answer(c)
    BY <1>4, OthersAnswers, OwnAnswer
  <2>2. UNCHANGED answer
    BY <2>1
  <2>3. CASE RegisterInsert(a)
    <3>1. Index!Register(NameOf[a])
      BY <2>2, <2>3 DEF RegisterInsert, Index!Register
    <3> QED BY <1>1, <3>1 DEF Index!Next
  <2>4. CASE DeregisterRemove(a)
    <3>1. Index!Drop(NameOf[a])
      BY <2>2, <2>4 DEF DeregisterRemove, Index!Drop
    <3> QED BY <1>1, <3>1 DEF Index!Next
  <2>5. CASE Deregister(a)
    <3>1. Index!Withdraw(NameOf[a])
      BY <2>2, <2>5 DEF Deregister, Withdrawn, Index!Withdraw
    <3> QED BY <1>1, <3>1 DEF Index!Next
  <2>6. CASE read_file_stat(a)
    <3> DEFINE f == Head(tosrv[a]).file
    <3>1. Reads(a, "file_stat") /\ UNCHANGED g_client_set
          /\ g_file_map' = IF f \in DotFiles THEN g_file_map
                           ELSE WithEntry(g_file_map, f, Stat(a))
      BY <2>6 DEF read_file_stat
    <3>2. f \in Files
      <4>1. Head(tosrv[a]) \in Line /\ Head(tosrv[a]).type = "file_stat"
        BY <3>1, ReadsLine
      <4> QED BY <4>1 DEF Line, Words
    <3> HIDE DEF f
    <3>3. CASE f \in DotFiles
      BY <2>1, <3>1, <3>3, IndexStutters
    <3>4. CASE f \notin DotFiles
      <4>1. Index!Publish(f, Stat(a))
        BY <2>2, <3>1, <3>4 DEF Index!Publish, Index!WithEntry, WithEntry
      <4> QED BY <1>1, <3>2, <4>1 DEF Index!Next
    <3> QED BY <3>3, <3>4
  <2>7. CASE ~(\/ RegisterInsert(a) \/ DeregisterRemove(a) \/ Deregister(a)
               \/ read_file_stat(a))
    <3>1. UNCHANGED <<g_client_set, g_file_map>>
      BY <1>4, <2>7
         DEF ServerStep, connection_callback, RegisterRefused, RegisterTest, NewFile,
             read_file_stat_fails, printitr, ListUnlock, ListEnd, SigPipe, FeofOfClosed,
             EndOfStream
    <3> QED BY <2>1, <3>1, IndexStutters
  <2> QED BY <2>3, <2>4, <2>5, <2>6, <2>7
<1> QED BY <1>2, <1>3, <1>4

(***************************************************************************)
(* A client takes what it was told, and forgets it when it ends.           *)
(***************************************************************************)
LEMMA ClientImplements ==
  ASSUME IndexInv, IndexInv', NEW a \in Clients, ClientStep(a) \/ UserStep(a),
         UNCHANGED servervars
  PROVE  [Index!Next]_(Index!vars)
<1> USE DEF IndexInv, RegisterInv, Typed
<1> DEFINE answer == [c \in Clients |-> Answer(c)]
<1>1. UNCHANGED <<g_client_set, g_file_map, tosend>>
  BY DEF servervars
<1>2. /\ DOMAIN cliopen = Clients /\ DOMAIN tocli = Clients /\ DOMAIN cli_files = Clients
  BY DEF Wire
<1>3. ASSUME NEW c \in Clients, c # a PROVE Answer(c)' = Answer(c)
  <2>1. UNCHANGED <<cliopen[c], tocli[c], cli_files[c]>>
    BY <1>2, <1>3
       DEF ClientStep, UserStep, init_state, post_files, write_file_stat, list_record,
           list_end, list_files, exit_client, sigint_handler, BrokenPipe, Crash, Ends
  <2> QED BY <1>1, <2>1, AnswerKept
<1>4. CASE \E how : Ends(a, how)
  <2>1. cliopen'[a] = FALSE
    BY <1>2, <1>4 DEF Ends
  <2>2. Answer(a)' = <<>>
    BY <2>1 DEF Answer
  <2>3. answer' = [answer EXCEPT ![a] = <<>>]
    BY <1>3, <2>2
  <2>4. Index!Leave(a)
    BY <1>1, <2>3 DEF Index!Leave
  <2> QED BY <2>4 DEF Index!Next
<1>5. CASE ~\E how : Ends(a, how)
  <2>1. ~(exit_client(a) \/ sigint_handler(a) \/ BrokenPipe(a) \/ Crash(a))
    BY <1>5 DEF exit_client, sigint_handler, BrokenPipe, Crash
  <2>2. UNCHANGED cliopen
    BY <2>1
       DEF ClientStep, UserStep, init_state, post_files, write_file_stat, list_record,
           list_end, list_files
  <2>3. Answer(a)' = Answer(a)
    <3>1. CASE ~cliopen[a]
      BY <2>2, <3>1 DEF Answer
    <3>2. CASE cliopen[a] /\ list_record(a)
      BY <3>2, TakenStaysTold
    <3>3. CASE /\ cliopen[a] /\ list_end(a)
               /\ tocli[a] # <<>> /\ Head(tocli[a]).type = "END"
               /\ tocli' = [tocli EXCEPT ![a] = Tail(@)]
      <4>1. UNCHANGED cli_files
        BY <3>3 DEF list_end
      <4> QED BY <1>1, <2>2, <3>3, <4>1, EndTellsNothing
    <3>4. CASE UNCHANGED <<tocli, cli_files>>
      BY <1>1, <2>2, <3>4, AnswerKept
    <3> QED BY <2>1, <3>1, <3>2, <3>3, <3>4
            DEF ClientStep, UserStep, init_state, post_files, write_file_stat, list_end,
                list_files
  <2> QED BY <1>1, <1>3, <2>3, IndexStutters
<1> QED BY <1>4, <1>5

(***************************************************************************)
(* The index server implements the index: whoever asks for a listing is    *)
(* told the map as it was at one moment, whatever the other clients post,  *)
(* withdraw or do while the listing is written, buffered and read, and     *)
(* every other operation takes effect at once.                             *)
(***************************************************************************)
THEOREM ServerIsIndex == Spec => ImplementsIndex
<1>1. Init => IndexInv
  <2> SUFFICES ASSUME Init PROVE IndexInv
    OBVIOUS
  <2>1. Typed
    BY TypedInit
  <2>2. ClosedLast /\ Registration /\ ListedIsRegistered
    BY DEF Init, ConnInit, ServerInit, ClientInit, ClosedLast, Registration, Registers,
           Unheard, ListedIsRegistered
  <2>3. Dialogue
    BY DEF Init, ConnInit, ServerInit, ClientInit, Dialogue, Converses, OneStat, Lacks
  <2> QED BY <2>1, <2>2, <2>3 DEF IndexInv, RegisterInv
<1>2. Init => Index!Init
  <2> SUFFICES ASSUME Init PROVE Index!Init
    OBVIOUS
  <2>1. ASSUME NEW c \in Clients PROVE Answer(c) = <<>>
    <3>1. /\ cliopen[c] /\ tosend[c] = {} /\ tocli[c] = <<>> /\ cli_files[c] = <<>>
      BY DEF Init, ConnInit, ServerInit, ClientInit
    <3>2. Known(c) = {}
      BY <3>1 DEF Known, Laid
    <3>3. Answer(c) = [f \in {} |-> Told(c, f)]
      BY <3>1, <3>2, AnswerIs
    <3> QED BY <3>3
  <2> QED BY <2>1 DEF Init, ServerInit, Index!Init
<1>3. IndexInv /\ IndexInv' /\ [Next]_vars => [Index!Next]_(Index!vars)
  <2> SUFFICES ASSUME IndexInv, IndexInv', [Next]_vars PROVE [Index!Next]_(Index!vars)
    OBVIOUS
  <2>1. CASE UNCHANGED vars
    <3>1. UNCHANGED <<g_client_set, g_file_map, tosend, tocli, cliopen, cli_files>>
      BY <2>1 DEF vars, connvars, servervars, clientvars
    <3>2. \A c \in Clients : Answer(c)' = Answer(c)
      BY <3>1, AnswerKept
    <3> QED BY <3>1, <3>2, IndexStutters
  <2> QED BY <2>1, ServerImplements, ClientImplements DEF Next
<1> QED BY <1>1, <1>2, <1>3, IndexInvStep, PTL DEF Spec, ImplementsIndex, Index!Spec
=============================================================================
