------------------------------ MODULE FileIndex ------------------------------
(***************************************************************************)
(* What the index server of PA4 promises: a set of names and a map from    *)
(* file names to where the file can be had, every operation on which takes *)
(* effect at one moment.  A listing in particular is the map as it was at  *)
(* some moment, laid over what the client was told before.                 *)
(***************************************************************************)
EXTENDS Maps

CONSTANTS
  Clients,  \* the processes that ask for listings
  Names,    \* the names clients register
  Files,    \* the file names
  Stats     \* where a file can be had: its owner's name and host

VARIABLES
  names,   \* the names in use
  map,     \* map[f]: the last word on file f, for the files offered
  answer   \* answer[c]: what c has been told

vars == <<names, map, answer>>

Init ==
  /\ names = {}
  /\ map = <<>>
  /\ answer = [c \in Clients |-> <<>>]

Register(n) == names' = names \cup {n} /\ UNCHANGED <<map, answer>>

Drop(n) == names' = names \ {n} /\ UNCHANGED <<map, answer>>

Publish(f, s) == map' = WithEntry(map, f, s) /\ UNCHANGED <<names, answer>>

Withdraw(n) ==
  /\ map' = [f \in {g \in DOMAIN map : map[g].owner # n} |-> map[f]]
  /\ UNCHANGED <<names, answer>>

List(c) ==
  /\ answer' = [answer EXCEPT ![c] = Over(map, @)]
  /\ UNCHANGED <<names, map>>

Leave(c) ==
  /\ answer' = [answer EXCEPT ![c] = <<>>]
  /\ UNCHANGED <<names, map>>

Next ==
  \/ \E n \in Names : Register(n) \/ Drop(n) \/ Withdraw(n)
  \/ \E f \in Files, s \in Stats : Publish(f, s)
  \/ \E c \in Clients : List(c) \/ Leave(c)

Spec == Init /\ [][Next]_vars
=============================================================================
