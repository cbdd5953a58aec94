-------------------------------- MODULE Trie ---------------------------------
(***************************************************************************)
(* trie.c of PA4, with the operations the index server performs on its     *)
(* file map under g_trie_mutex: NEWFILE puts an element, LIST iterates,    *)
(* DEREGISTER iterates with a callback that removes and frees elements.    *)
(*                                                                         *)
(* A character is two digits of base Radix, and a key a path of digits     *)
(* from the root.  An array of 16 pointers to struct trie (trie_lev2) is   *)
(* reached after an even number of digits, a struct trie after an odd one; *)
(* a value stands where an even number leads.  Nodes are told by their     *)
(* path, as each is allocated once and hangs in one place.                 *)
(***************************************************************************)
EXTENDS Integers, Sequences

CONSTANTS
  Radix,     \* 16
  Keys,      \* file names, as sequences of characters
  Owners,    \* names of clients
  Elements,  \* addresses at which a file_stat_t may be allocated
  NULL

Char == 0 .. Radix * Radix - 1
Digit == 0 .. Radix - 1

\* char is signed.
Signed(ch) == IF ch < (Radix * Radix) \div 2 THEN ch ELSE ch - Radix * Radix

(***************************************************************************)
(* The first character is masked before it is shifted; later ones are not, *)
(* and have to be ASCII.                                                   *)
(***************************************************************************)
ASSUME TrieConstants ==
  /\ Radix \in Nat \ {0, 1}
  /\ Keys \subseteq Seq(Char) \ {<<>>}
  /\ \A key \in Keys : \A i \in 2 .. Len(key) : Signed(key[i]) >= 0
  /\ NULL \notin Elements

UpperIndex(key, i) == IF i = 1 THEN key[i] \div Radix ELSE Signed(key[i]) \div Radix
LowerIndex(key, i) == key[i] % Radix

Path(key) ==
  [n \in 1 .. 2 * Len(key) |->
     IF n % 2 = 1 THEN UpperIndex(key, (n + 1) \div 2) ELSE LowerIndex(key, n \div 2)]

NodesOn(path) == {SubSeq(path, 1, n) : n \in 1 .. Len(path) - 1}

VARIABLES
  nodes,   \* the nodes allocated below the root
  values,  \* the arrays _m_values of them
  stat,    \* the file_stat_t that are allocated
  itr      \* trie_iterate: its callback, and the work it has left

vars == <<nodes, values, stat, itr>>

Idle == [call |-> "none", arg |-> NULL, todo |-> <<>>, rest |-> {}]

Init ==
  /\ nodes = {}
  /\ values = <<>>
  /\ stat = <<>>
  /\ itr = Idle

\* The places for values in the nodes of a set.
Slots(N) == UNION {{Append(p, d) : d \in Digit} : p \in {q \in N : Len(q) % 2 = 1}}

trie_get(key) ==
  IF NodesOn(Path(key)) \subseteq nodes THEN values[Path(key)] ELSE NULL

trie_put(key, val) ==
  LET grown == nodes \cup NodesOn(Path(key))
  IN /\ nodes' = grown
     /\ values' = [s \in Slots(grown) |->
                     IF s = Path(key) THEN val
                     ELSE IF s \in DOMAIN values THEN values[s] ELSE NULL]
-----------------------------------------------------------------------------
(***************************************************************************)
(* NEWFILE.  The element goes under its own name; one that was there is    *)
(* not freed.                                                              *)
(***************************************************************************)
trie_put_safe(e, key, owner) ==
  /\ itr.call = "none" /\ e \notin DOMAIN stat
  /\ stat' = [x \in DOMAIN stat \cup {e} |->
                IF x = e THEN [file |-> key, owner |-> owner] ELSE stat[x]]
  /\ trie_put(key, e)
  /\ UNCHANGED itr

(***************************************************************************)
(* An iteration goes depth first through a list of trees, values and       *)
(* children, and reads each pointer when it gets there.                    *)
(***************************************************************************)
Under(kind, path) == [d \in 1 .. Radix |-> [kind |-> kind, path |-> Append(path, d - 1)]]

\* history: the names it has to call back for.
trie_iterate_safe(call, arg) ==
  /\ itr.call = "none"
  /\ itr' = [call |-> call, arg |-> arg, todo |-> Under("tree", <<>>),
             rest |-> {k \in Keys : trie_get(k) # NULL}]
  /\ UNCHANGED <<nodes, values, stat>>

\* Mutant of Below: a node with values is taken for a leaf.
BelowLeaf(item) ==
  IF item.kind = "value" \/ item.path \notin nodes THEN <<>>
  ELSE CASE item.kind = "tree" ->
              Under("value", item.path) \o
              (IF \E d \in Digit : values[Append(item.path, d)] # NULL THEN <<>>
               ELSE Under("child", item.path))
         [] item.kind = "child" -> Under("tree", item.path)

Below(item) ==
  IF item.kind = "value" \/ item.path \notin nodes THEN <<>>
  ELSE CASE item.kind = "tree" -> Under("value", item.path) \o Under("child", item.path)
         [] item.kind = "child" -> Under("tree", item.path)

Reached(item) == IF item.kind = "value" THEN values[item.path] ELSE NULL

trie_loose_iterate ==
  /\ itr.call # "none" /\ itr.todo # <<>>
  /\ Reached(Head(itr.todo)) = NULL
  /\ itr' = [itr EXCEPT !.todo = Below(Head(@)) \o Tail(@)]
  /\ UNCHANGED <<nodes, values, stat>>

Calls(name) ==
  /\ itr.call = name /\ itr.todo # <<>>
  /\ Reached(Head(itr.todo)) # NULL
  /\ itr' = [itr EXCEPT !.todo = Tail(@),
                        !.rest = @ \ {stat[Reached(Head(itr.todo))].file}]

printitr == Calls("printitr") /\ UNCHANGED <<nodes, values, stat>>

\* Mutant of deregister_itr: the element is freed and stays where it is.
DeregisterFreesOnly ==
  LET e == Reached(Head(itr.todo))
  IN /\ Calls("deregister_itr")
     /\ stat' = IF stat[e].owner # itr.arg THEN stat
                ELSE [x \in DOMAIN stat \ {e} |-> stat[x]]
     /\ UNCHANGED <<nodes, values>>

deregister_itr ==
  LET e == Reached(Head(itr.todo))
  IN /\ Calls("deregister_itr")
     /\ \/ /\ stat[e].owner = itr.arg
           /\ trie_put(stat[e].file, NULL)
           /\ stat' = [x \in DOMAIN stat \ {e} |-> stat[x]]
        \/ /\ stat[e].owner # itr.arg
           /\ UNCHANGED <<nodes, values, stat>>

iterate_returns ==
  /\ itr.call # "none" /\ itr.todo = <<>>
  /\ itr' = Idle
  /\ UNCHANGED <<nodes, values, stat>>

Next ==
  \/ \E e \in Elements, key \in Keys, owner \in Owners : trie_put_safe(e, key, owner)
  \/ trie_iterate_safe("printitr", NULL)
  \/ \E owner \in Owners : trie_iterate_safe("deregister_itr", owner)
  \/ trie_loose_iterate \/ printitr \/ deregister_itr \/ iterate_returns

Spec == Init /\ [][Next]_vars
-----------------------------------------------------------------------------
(***************************************************************************)
(* Every pointer found in the trie leads to an element that has not been   *)
(* freed, and whose own name leads back to where it was found: the element *)
(* that deregister_itr frees is the one whose entry it has just cleared.   *)
(***************************************************************************)
NoDangling ==
  /\ DOMAIN values = Slots(nodes)
  /\ \A s \in DOMAIN values :
       values[s] # NULL => /\ values[s] \in DOMAIN stat
                           /\ Path(stat[values[s]].file) = s

Map == INSTANCE KeyMap
  WITH map <- [k \in Keys |-> trie_get(k)], busy <- itr.call # "none", rest <- itr.rest

(***************************************************************************)
(* The trie is a map: a put changes the entry of its key and no other,     *)
(* whether the key's path extends another's or shares part of it; an       *)
(* iteration calls back once for each entry there was when it began, and   *)
(* misses none, although deregister_itr removes entries as it goes.        *)
(***************************************************************************)
ImplementsMap == Map!Spec
=============================================================================
