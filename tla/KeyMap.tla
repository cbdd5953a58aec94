------------------------------- MODULE KeyMap --------------------------------
(***************************************************************************)
(* What trie.c of PA4 promises to the index server: a map from file names  *)
(* to elements, and an iteration that calls back once for every file that  *)
(* was there when it began, although the callback may remove it.           *)
(***************************************************************************)
CONSTANTS
  Keys,      \* the file names
  Elements,  \* what is kept under a name
  NULL

VARIABLES
  map,   \* map[k]: the element under k, or NULL
  busy,  \* an iteration is going on
  rest   \* the names it has not called back for

vars == <<map, busy, rest>>

Init == map = [k \in Keys |-> NULL] /\ busy = FALSE /\ rest = {}

Put(k, e) ==
  /\ ~busy
  /\ map' = [map EXCEPT ![k] = e]
  /\ UNCHANGED <<busy, rest>>

Begin ==
  /\ ~busy /\ busy' = TRUE
  /\ rest' = {k \in Keys : map[k] # NULL}
  /\ UNCHANGED map

Visit(k) ==
  /\ busy /\ k \in rest
  /\ rest' = rest \ {k}
  /\ map' = map \/ map' = [map EXCEPT ![k] = NULL]
  /\ UNCHANGED busy

Done == busy /\ rest = {} /\ busy' = FALSE /\ UNCHANGED <<map, rest>>

Next ==
  \/ \E k \in Keys, e \in Elements : Put(k, e)
  \/ \E k \in Keys : Visit(k)
  \/ Begin \/ Done

Spec == Init /\ [][Next]_vars
=============================================================================
