----------------------------- MODULE TrieProofs ------------------------------
(***************************************************************************)
(* What holds of the trie for every radix and every set of ASCII names.    *)
(***************************************************************************)
EXTENDS Trie, ModArithmetic, SequenceTheorems

Paths == Seq(Digit)
Items == [kind : {"tree", "child", "value"}, path : Paths]
Calling == {"printitr", "deregister_itr"}

TrieTyped ==
  /\ stat \in [DOMAIN stat -> [file : Keys, owner : Owners]] /\ DOMAIN stat \subseteq Elements
  /\ \/ itr = Idle
     \/ itr \in [call : Calling, arg : Owners \cup {NULL}, todo : Seq(Items), rest : SUBSET Keys]

\* A node hangs below nodes, and the odd ones have places for values.
Closed(N) == \A p \in N : \A n \in 1 .. Len(p) : SubSeq(p, 1, n) \in N
IsTrie(N, V) == N \in SUBSET Paths /\ Closed(N) /\ DOMAIN V = Slots(N)

\* The places an item of the list of work leads to.
Starts(p, s) == Len(p) < Len(s) /\ \A n \in 1 .. Len(p) : s[n] = p[n]
Covers(item, s) == IF item.kind = "value" THEN s = item.path ELSE Starts(item.path, s)

Some(todo, s) == \E i \in 1 .. Len(todo) : Covers(todo[i], s)
Once(todo, s) ==
  \A i, j \in 1 .. Len(todo) : Covers(todo[i], s) /\ Covers(todo[j], s) => i = j

\* Digits come in pairs, and the values read are in nodes that are there.
Fits(item) ==
  /\ item.kind = "tree" => Len(item.path) % 2 = 1
  /\ item.kind = "child" => Len(item.path) % 2 = 0 /\ Len(item.path) >= 1
  /\ item.kind = "value" => item.path \in DOMAIN values

\* The work left leads to each name that is left, once, and to no other that
\* has a value.
Iterating ==
  itr.call # "none" =>
    /\ \A i \in 1 .. Len(itr.todo) : Fits(itr.todo[i])
    /\ \A key \in Keys : Once(itr.todo, Path(key))
    /\ \A key \in Keys : key \in itr.rest <=> trie_get(key) # NULL /\ Some(itr.todo, Path(key))

\* The inductive invariant.
TrieInv == TrieTyped /\ IsTrie(nodes, values) /\ NoDangling /\ Iterating
-----------------------------------------------------------------------------
(***************************************************************************)
(* A character is its two digits.                                          *)
(***************************************************************************)
LEMMA CharDigits ==
  ASSUME NEW ch \in Char
  PROVE  /\ ch \in Int /\ ch \div Radix \in Digit /\ ch % Radix \in Digit
         /\ ch = (ch \div Radix) * Radix + (ch % Radix)
<1> DEFINE R == Radix
           q == ch \div R
           r == ch % R
<1>1. R \in Nat \ {0} /\ R \in Int /\ ch \in Int /\ 0 <= ch /\ ch < R * R /\ R * R \in Int
  BY TrieConstants DEF Char
<1>2. q \in Int /\ ch = q * R + r /\ r \in 0 .. R - 1
  BY <1>1, ModDef, ModRange
<1> HIDE DEF q, r
<1>3. 0 <= q
  <2> SUFFICES ASSUME q <= -1 PROVE FALSE
    BY <1>2
  <2>1. q * R <= (-1) * R
    BY <1>1, <1>2, SMT
  <2> QED BY <1>1, <1>2, <2>1
<1>4. q < R
  <2> SUFFICES ASSUME R <= q PROVE FALSE
    BY <1>1, <1>2
  <2>1. R * R <= q * R
    BY <1>1, <1>2, SMT
  <2> QED BY <1>1, <1>2, <2>1
<1> QED BY <1>1, <1>2, <1>3, <1>4 DEF Digit, q, r

(***************************************************************************)
(* The digits trie_get and trie_put index with: those of the character.    *)
(***************************************************************************)
LEMMA Indices ==
  ASSUME NEW key \in Keys, NEW i \in 1 .. Len(key)
  PROVE  /\ key[i] \in Char
         /\ UpperIndex(key, i) = key[i] \div Radix /\ LowerIndex(key, i) = key[i] % Radix
<1>1. key \in Seq(Char) /\ key[i] \in Char
  BY TrieConstants
<1>2. CASE i = 1
  BY <1>1, <1>2 DEF UpperIndex, LowerIndex
<1>3. CASE i # 1
  <2>1. i \in 2 .. Len(key)
    BY <1>1, <1>3
  <2>2. Signed(key[i]) >= 0
    BY <2>1, TrieConstants
  <2>3. PICK M : M = Radix * Radix
    OBVIOUS
  <2>4. M \in Nat /\ key[i] \in 0 .. M - 1
    BY <1>1, <2>3, TrieConstants DEF Char
  <2>5. Signed(key[i]) = key[i]
    BY <2>2, <2>3, <2>4 DEF Signed
  <2> QED BY <1>1, <1>3, <2>5 DEF UpperIndex, LowerIndex
<1> QED BY <1>2, <1>3

(***************************************************************************)
(* A path has two digits for each character.                               *)
(***************************************************************************)
LEMMA PathDigits ==
  ASSUME NEW key \in Keys
  PROVE  /\ Len(key) \in Nat /\ Len(key) >= 1
         /\ Path(key) \in Paths /\ Len(Path(key)) = 2 * Len(key)
         /\ \A i \in 1 .. Len(key) : /\ Path(key)[2 * i - 1] = key[i] \div Radix
                                     /\ Path(key)[2 * i] = key[i] % Radix
<1> DEFINE Step(n) == IF n % 2 = 1 THEN UpperIndex(key, (n + 1) \div 2)
                      ELSE LowerIndex(key, n \div 2)
<1>1. key \in Seq(Char) /\ Len(key) \in Nat /\ Len(key) >= 1
  BY TrieConstants
<1>2. Path(key) = [n \in 1 .. 2 * Len(key) |-> Step(n)]
  BY DEF Path
<1>3. ASSUME NEW n \in 1 .. 2 * Len(key) PROVE Step(n) \in Digit
  <2>1. CASE n % 2 = 1
    <3>1. (n + 1) \div 2 \in 1 .. Len(key)
      BY <1>1, <2>1
    <3> QED BY <2>1, <3>1, Indices, CharDigits
  <2>2. CASE n % 2 # 1
    <3>1. n \div 2 \in 1 .. Len(key)
      BY <1>1, <2>2
    <3> QED BY <2>2, <3>1, Indices, CharDigits
  <2> QED BY <2>1, <2>2
<1>4. ASSUME NEW i \in 1 .. Len(key)
      PROVE  /\ 2 * i - 1 \in 1 .. 2 * Len(key) /\ 2 * i \in 1 .. 2 * Len(key)
             /\ Step(2 * i - 1) = key[i] \div Radix /\ Step(2 * i) = key[i] % Radix
  <2>1. /\ (2 * i - 1) % 2 = 1 /\ ((2 * i - 1) + 1) \div 2 = i
        /\ (2 * i) % 2 = 0 /\ (2 * i) \div 2 = i
    OBVIOUS
  <2>2. 2 * i - 1 \in 1 .. 2 * Len(key) /\ 2 * i \in 1 .. 2 * Len(key)
    BY <1>1
  <2> QED BY <2>1, <2>2, Indices
<1> HIDE DEF Step
<1>5. 2 * Len(key) \in Nat
  BY <1>1
<1>6. Path(key) \in Paths /\ Len(Path(key)) = 2 * Len(key)
  BY <1>2, <1>3, <1>5 DEF Paths
<1> QED BY <1>1, <1>2, <1>4, <1>6

(***************************************************************************)
(* Different names have different paths.                                   *)
(***************************************************************************)
LEMMA PathInjective ==
  ASSUME NEW k1 \in Keys, NEW k2 \in Keys, Path(k1) = Path(k2)
  PROVE  k1 = k2
<1>1. k1 \in Seq(Char) /\ k2 \in Seq(Char) /\ Len(k1) = Len(k2)
  BY PathDigits, TrieConstants
<1>2. ASSUME NEW i \in 1 .. Len(k1) PROVE k1[i] = k2[i]
  <2>1. k1[i] \div Radix = k2[i] \div Radix /\ k1[i] % Radix = k2[i] % Radix
    BY <1>1, PathDigits
  <2>2. k1[i] \in Char /\ k2[i] \in Char
    BY <1>1
  <2> QED BY <2>1, <2>2, CharDigits
<1> QED BY <1>1, <1>2, SeqEqual
-----------------------------------------------------------------------------
(***************************************************************************)
(* The beginnings of a path.                                               *)
(***************************************************************************)
LEMMA Beginning ==
  ASSUME NEW s \in Paths, NEW n \in 0 .. Len(s)
  PROVE  /\ SubSeq(s, 1, n) \in Paths /\ Len(SubSeq(s, 1, n)) = n
         /\ \A i \in 1 .. n : SubSeq(s, 1, n)[i] = s[i]
BY DEF Paths

(***************************************************************************)
(* A path that agrees with the beginning of another is that beginning.     *)
(***************************************************************************)
LEMMA BeginningIs ==
  ASSUME NEW s \in Paths, NEW p \in Paths, Len(p) <= Len(s),
         \A i \in 1 .. Len(p) : s[i] = p[i]
  PROVE  p = SubSeq(s, 1, Len(p))
<1>1. Len(p) \in 0 .. Len(s)
  BY DEF Paths
<1>2. PICK t : t = SubSeq(s, 1, Len(p))
  OBVIOUS
<1>3. t \in Paths /\ Len(t) = Len(p) /\ \A i \in 1 .. Len(p) : t[i] = p[i]
  BY <1>1, <1>2, Beginning
<1> QED BY <1>2, <1>3, SeqEqual DEF Paths

(***************************************************************************)
(* A path that goes on by a digit.                                         *)
(***************************************************************************)
LEMMA OneMore ==
  ASSUME NEW p \in Paths, NEW d \in Digit
  PROVE  /\ Append(p, d) \in Paths /\ Len(Append(p, d)) = Len(p) + 1 /\ Len(p) \in Nat
         /\ Append(p, d)[Len(p) + 1] = d
         /\ \A i \in 1 .. Len(p) : Append(p, d)[i] = p[i]
BY DEF Paths

(***************************************************************************)
(* A value has a place where its path has one: an odd node and a digit.    *)
(***************************************************************************)
LEMMA SlotIs ==
  ASSUME NEW N \in SUBSET Paths, NEW s \in Paths
  PROVE  s \in Slots(N) <=> /\ Len(s) % 2 = 0 /\ Len(s) >= 2
                            /\ SubSeq(s, 1, Len(s) - 1) \in N
<1>1. Len(s) \in Nat
  BY DEF Paths
<1>2. ASSUME s \in Slots(N)
      PROVE  Len(s) % 2 = 0 /\ Len(s) >= 2 /\ SubSeq(s, 1, Len(s) - 1) \in N
  <2>1. PICK p \in N, d \in Digit : Len(p) % 2 = 1 /\ s = Append(p, d)
    BY <1>2 DEF Slots
  <2>2. p \in Paths /\ s = Append(p, d)
    BY <2>1
  <2>3. Len(s) = Len(p) + 1 /\ Len(p) \in Nat /\ \A i \in 1 .. Len(p) : s[i] = p[i]
    BY <2>2, OneMore
  <2>4. p = SubSeq(s, 1, Len(p))
    BY <2>2, <2>3, BeginningIs
  <2>5. Len(s) - 1 = Len(p) /\ Len(s) % 2 = 0 /\ Len(s) >= 2
    BY <2>1, <2>3
  <2> QED BY <2>1, <2>4, <2>5
<1>3. ASSUME Len(s) % 2 = 0, Len(s) >= 2, SubSeq(s, 1, Len(s) - 1) \in N
      PROVE  s \in Slots(N)
  <2>1. PICK p : p = SubSeq(s, 1, Len(s) - 1)
    OBVIOUS
  <2>2. Len(s) - 1 \in 0 .. Len(s)
    BY <1>1, <1>3
  <2>3. p \in Paths /\ Len(p) = Len(s) - 1 /\ \A i \in 1 .. Len(s) - 1 : p[i] = s[i]
    BY <2>1, <2>2, Beginning
  <2>4. PICK d : d = s[Len(s)]
    OBVIOUS
  <2>5. d \in Digit
    BY <1>3, <2>4 DEF Paths
  <2>6. s = Append(p, d)
    <3>1. PICK t : t = Append(p, d)
      OBVIOUS
    <3>2. t \in Paths /\ Len(t) = Len(s) /\ t[Len(s)] = d
          /\ \A i \in 1 .. Len(s) - 1 : t[i] = p[i]
      <4>1. /\ t \in Paths /\ Len(t) = Len(p) + 1 /\ t[Len(p) + 1] = d
            /\ \A i \in 1 .. Len(p) : t[i] = p[i]
        BY <2>3, <2>5, <3>1, OneMore
      <4> QED BY <1>1, <2>3, <4>1
    <3>3. \A i \in 1 .. Len(s) : s[i] = t[i]
      BY <1>1, <2>3, <2>4, <3>2
    <3> QED BY <3>1, <3>2, <3>3, SeqEqual DEF Paths
  <2>7. Len(p) % 2 = 1
    <3>1. ASSUME NEW a \in Nat, a % 2 = 0 PROVE (a - 1) % 2 = 1
      BY <3>1
    <3> QED BY <1>1, <1>3, <2>3, <3>1
  <2>8. s \in {Append(p, e) : e \in Digit}
    BY <2>5, <2>6
  <2>9. p \in {q \in N : Len(q) % 2 = 1}
    BY <1>3, <2>1, <2>7
  <2> QED BY <2>8, <2>9 DEF Slots
<1> QED BY <1>2, <1>3

(***************************************************************************)
(* A beginning of a beginning is one.                                      *)
(***************************************************************************)
LEMMA BeginningTwice ==
  ASSUME NEW s \in Paths, NEW n \in 0 .. Len(s), NEW m \in 0 .. n
  PROVE  SubSeq(SubSeq(s, 1, n), 1, m) = SubSeq(s, 1, m)
<1>1. Len(s) \in Nat /\ m \in 0 .. Len(s)
  BY DEF Paths
<1>2. PICK p, t : p = SubSeq(s, 1, n) /\ t = SubSeq(p, 1, m)
  OBVIOUS
<1>3. p \in Paths /\ Len(p) = n /\ \A i \in 1 .. n : p[i] = s[i]
  BY <1>2, Beginning
<1>4. t \in Paths /\ Len(t) = m /\ \A i \in 1 .. m : t[i] = p[i]
  BY <1>2, <1>3, Beginning
<1>5. \A i \in 1 .. m : s[i] = t[i]
  BY <1>1, <1>3, <1>4
<1>6. t = SubSeq(s, 1, Len(t))
  BY <1>1, <1>4, <1>5, BeginningIs
<1> QED BY <1>2, <1>4, <1>6

(***************************************************************************)
(* More nodes have more places.                                            *)
(***************************************************************************)
LEMMA SlotsGrow ==
  ASSUME NEW N \in SUBSET Paths, NEW M \in SUBSET Paths, N \subseteq M
  PROVE  Slots(N) \subseteq Slots(M)
<1>1. ASSUME NEW s, s \in Slots(N) PROVE s \in Slots(M)
  <2>1. PICK p \in N, d \in Digit : Len(p) % 2 = 1 /\ s = Append(p, d)
    BY <1>1 DEF Slots
  <2>2. s \in Paths
    BY <2>1, OneMore
  <2> QED BY <1>1, <2>2, SlotIs
<1> QED BY <1>1

(***************************************************************************)
(* trie_put makes the nodes on a path; then it has a place for a value.    *)
(***************************************************************************)
LEMMA NodesGrow ==
  ASSUME NEW N \in SUBSET Paths, Closed(N), NEW s \in Paths
  PROVE  /\ N \cup NodesOn(s) \in SUBSET Paths
         /\ Closed(N \cup NodesOn(s))
<1>1. ASSUME NEW n \in 1 .. Len(s) - 1
      PROVE  /\ SubSeq(s, 1, n) \in Paths /\ Len(SubSeq(s, 1, n)) = n
             /\ \A m \in 1 .. n : SubSeq(SubSeq(s, 1, n), 1, m) = SubSeq(s, 1, m)
  <2>1. n \in 0 .. Len(s) /\ \A m \in 1 .. n : m \in 0 .. n
    BY DEF Paths
  <2> QED BY <2>1, Beginning, BeginningTwice
<1>2. ASSUME NEW p \in NodesOn(s), NEW m \in 1 .. Len(p) PROVE SubSeq(p, 1, m) \in NodesOn(s)
  <2>1. PICK n \in 1 .. Len(s) - 1 : p = SubSeq(s, 1, n)
    BY DEF NodesOn
  <2>2. Len(p) = n /\ SubSeq(p, 1, m) = SubSeq(s, 1, m)
    BY <1>1, <1>2, <2>1
  <2>3. m \in 1 .. Len(s) - 1
    BY <2>2 DEF Paths
  <2> QED BY <2>2, <2>3 DEF NodesOn
<1>3. NodesOn(s) \subseteq Paths
  BY <1>1 DEF NodesOn
<1> QED BY <1>2, <1>3 DEF Closed

(***************************************************************************)
(* All the nodes on the path of a key are there when the last one is.      *)
(***************************************************************************)
LEMMA PlaceIsKnown ==
  ASSUME NEW N \in SUBSET Paths, Closed(N), NEW key \in Keys
  PROVE  NodesOn(Path(key)) \subseteq N <=> Path(key) \in Slots(N)
<1>1. PICK s : s = Path(key)
  OBVIOUS
<1>2. s \in Paths /\ Len(s) \in Nat /\ Len(s) % 2 = 0 /\ Len(s) >= 2
  <2>1. Path(key) \in Paths /\ Len(Path(key)) = 2 * Len(key) /\ Len(key) \in Nat /\ Len(key) >= 1
    BY PathDigits
  <2> QED BY <1>1, <2>1
<1>3. ASSUME NodesOn(s) \subseteq N PROVE s \in Slots(N)
  <2>1. Len(s) - 1 \in 1 .. Len(s) - 1
    BY <1>2
  <2>2. SubSeq(s, 1, Len(s) - 1) \in N
    BY <1>3, <2>1 DEF NodesOn
  <2> QED BY <1>2, <2>2, SlotIs
<1>4. ASSUME s \in Slots(N) PROVE NodesOn(s) \subseteq N
  <2>1. SubSeq(s, 1, Len(s) - 1) \in N
    BY <1>2, <1>4, SlotIs
  <2>2. ASSUME NEW n \in 1 .. Len(s) - 1 PROVE SubSeq(s, 1, n) \in N
    <3>1. Len(s) - 1 \in 0 .. Len(s) /\ n \in 0 .. Len(s) - 1
      BY <1>2
    <3>2. /\ Len(SubSeq(s, 1, Len(s) - 1)) = Len(s) - 1
          /\ SubSeq(SubSeq(s, 1, Len(s) - 1), 1, n) = SubSeq(s, 1, n)
      BY <1>2, <3>1, Beginning, BeginningTwice
    <3> QED BY <2>1, <3>2 DEF Closed
  <2> QED BY <2>2 DEF NodesOn
<1> QED BY <1>1, <1>3, <1>4

(***************************************************************************)
(* trie_get finds what is in the place of its key, if there is one.        *)
(***************************************************************************)
LEMMA GetIs ==
  ASSUME NEW N, NEW V, IsTrie(N, V), NEW key \in Keys
  PROVE  (IF NodesOn(Path(key)) \subseteq N THEN V[Path(key)] ELSE NULL)
           = IF Path(key) \in DOMAIN V THEN V[Path(key)] ELSE NULL
BY PlaceIsKnown DEF IsTrie

(***************************************************************************)
(* trie_put changes the entry of its key and no other.                     *)
(***************************************************************************)
LEMMA PutKeeps ==
  ASSUME IsTrie(nodes, values), NEW key \in Keys, NEW val, trie_put(key, val)
  PROVE  /\ IsTrie(nodes', values')
         /\ DOMAIN values \subseteq DOMAIN values' /\ Path(key) \in DOMAIN values'
         /\ \A s \in DOMAIN values' :
              values'[s] = IF s = Path(key) THEN val
                           ELSE IF s \in DOMAIN values THEN values[s] ELSE NULL
         /\ \A k \in Keys : trie_get(k)' = IF k = key THEN val ELSE trie_get(k)
         /\ Path(key) \in DOMAIN values => nodes' = nodes /\ DOMAIN values' = DOMAIN values
<1>1. Path(key) \in Paths
  BY PathDigits
<1>2. /\ nodes \in SUBSET Paths /\ Closed(nodes) /\ DOMAIN values = Slots(nodes)
  BY DEF IsTrie
<1>3. /\ nodes' = nodes \cup NodesOn(Path(key))
      /\ values' = [s \in Slots(nodes') |-> IF s = Path(key) THEN val
                                            ELSE IF s \in DOMAIN values THEN values[s] ELSE NULL]
  BY DEF trie_put
<1>4. nodes' \in SUBSET Paths /\ Closed(nodes')
  BY <1>1, <1>2, <1>3, NodesGrow
<1>5. DOMAIN values' = Slots(nodes')
  BY <1>3
<1>6. IsTrie(nodes', values')
  BY <1>4, <1>5 DEF IsTrie
<1>7. Slots(nodes) \subseteq Slots(nodes')
  BY <1>2, <1>3, <1>4, SlotsGrow
<1>8. Path(key) \in Slots(nodes')
  BY <1>3, <1>4, PlaceIsKnown
<1>9. \A s \in DOMAIN values' :
        values'[s] = IF s = Path(key) THEN val
                     ELSE IF s \in DOMAIN values THEN values[s] ELSE NULL
  BY <1>3, <1>5
<1>10. ASSUME NEW k \in Keys PROVE trie_get(k)' = IF k = key THEN val ELSE trie_get(k)
  <2>1. trie_get(k) = IF Path(k) \in DOMAIN values THEN values[Path(k)] ELSE NULL
    BY GetIs DEF trie_get
  <2>2. trie_get(k)' = IF Path(k) \in DOMAIN values' THEN values'[Path(k)] ELSE NULL
    <3>1. trie_get(k)' = IF NodesOn(Path(k)) \subseteq nodes' THEN values'[Path(k)] ELSE NULL
      BY DEF trie_get
    <3> QED BY <1>6, <3>1, GetIs
  <2>3. k # key => Path(k) # Path(key)
    BY PathInjective
  <2> QED BY <1>2, <1>5, <1>7, <1>8, <1>9, <2>1, <2>2, <2>3
<1>11. Path(key) \in DOMAIN values => nodes' = nodes /\ DOMAIN values' = DOMAIN values
  BY <1>2, <1>3, <1>5, PlaceIsKnown
<1> QED BY <1>2, <1>5, <1>6, <1>7, <1>8, <1>9, <1>10, <1>11
-----------------------------------------------------------------------------
(***************************************************************************)
(* Parity: a path whose length is odd goes on.                             *)
(***************************************************************************)
LEMMA Parity ==
  ASSUME NEW a \in Nat
  PROVE  /\ a % 2 = 1 => (a + 1) % 2 = 0 /\ a >= 1
         /\ a % 2 = 0 => (a + 1) % 2 = 1
OBVIOUS

(***************************************************************************)
(* An odd node has a place for each digit.                                 *)
(***************************************************************************)
LEMMA SlotOf ==
  ASSUME NEW N \in SUBSET Paths, NEW p \in N, Len(p) % 2 = 1, NEW d \in Digit
  PROVE  Append(p, d) \in Slots(N)
<1>1. p \in {q \in N : Len(q) % 2 = 1}
  OBVIOUS
<1>2. Append(p, d) \in {Append(p, e) : e \in Digit}
  OBVIOUS
<1> QED BY <1>1, <1>2 DEF Slots

(***************************************************************************)
(* What is under a node: an item for each digit.                           *)
(***************************************************************************)
LEMMA UnderIs ==
  ASSUME NEW kind \in {"tree", "child", "value"}, NEW p \in Paths
  PROVE  /\ Radix \in Nat /\ Under(kind, p) \in Seq(Items) /\ Len(Under(kind, p)) = Radix
         /\ \A i \in 1 .. Radix : /\ i - 1 \in Digit
                                  /\ Under(kind, p)[i].kind = kind
                                  /\ Under(kind, p)[i].path = Append(p, i - 1)
<1>1. Radix \in Nat
  BY TrieConstants
<1>2. ASSUME NEW i \in 1 .. Radix
      PROVE  /\ i - 1 \in Digit
             /\ [kind |-> kind, path |-> Append(p, i - 1)] \in Items
  <2>1. i - 1 \in Digit
    BY <1>1 DEF Digit
  <2>2. Append(p, i - 1) \in Paths
    BY <2>1, OneMore
  <2> QED BY <2>1, <2>2 DEF Items
<1> QED BY <1>1, <1>2 DEF Under

(***************************************************************************)
(* Each of them leads to the places that go on with its digit.             *)
(***************************************************************************)
LEMMA UnderCovers ==
  ASSUME NEW kind \in {"tree", "child", "value"}, NEW p \in Paths, NEW s \in Paths,
         NEW i \in 1 .. Radix
  PROVE  Covers(Under(kind, p)[i], s) <=>
           /\ Starts(p, s) /\ s[Len(p) + 1] = i - 1
           /\ IF kind = "value" THEN Len(s) = Len(p) + 1 ELSE Len(s) > Len(p) + 1
<1>1. PICK a : a = Append(p, i - 1)
  OBVIOUS
<1>2. Under(kind, p)[i].kind = kind /\ Under(kind, p)[i].path = a /\ i - 1 \in Digit
  BY <1>1, UnderIs
<1>3. /\ a \in Paths /\ Len(a) = Len(p) + 1 /\ Len(p) \in Nat /\ a[Len(p) + 1] = i - 1
      /\ \A n \in 1 .. Len(p) : a[n] = p[n]
  BY <1>1, <1>2, OneMore
<1>4. Len(s) \in Nat
  BY DEF Paths
<1>5. CASE kind = "value"
  <2>1. Covers(Under(kind, p)[i], s) <=> s = a
    BY <1>2, <1>5 DEF Covers
  <2>2. s = a => Starts(p, s) /\ s[Len(p) + 1] = i - 1 /\ Len(s) = Len(p) + 1
    BY <1>3 DEF Starts
  <2>3. ASSUME Starts(p, s), s[Len(p) + 1] = i - 1, Len(s) = Len(p) + 1 PROVE s = a
    <3>1. \A n \in 1 .. Len(s) : s[n] = a[n]
      BY <1>3, <2>3 DEF Starts
    <3> QED BY <1>3, <2>3, <3>1, SeqEqual DEF Paths
  <2> QED BY <1>5, <2>1, <2>2, <2>3
<1>6. CASE kind # "value"
  <2>1. Covers(Under(kind, p)[i], s) <=> Starts(a, s)
    BY <1>2, <1>6 DEF Covers
  <2>2. Starts(a, s) => Starts(p, s) /\ s[Len(p) + 1] = i - 1 /\ Len(s) > Len(p) + 1
    BY <1>3, <1>4 DEF Starts
  <2>3. Starts(p, s) /\ s[Len(p) + 1] = i - 1 /\ Len(s) > Len(p) + 1 => Starts(a, s)
    BY <1>3, <1>4 DEF Starts
  <2> QED BY <1>6, <2>1, <2>2, <2>3
<1> QED BY <1>5, <1>6

(***************************************************************************)
(* Replacing the first item by others that lead nowhere else.              *)
(***************************************************************************)
LEMMA HeadReplaced ==
  ASSUME NEW todo \in Seq(Items), todo # <<>>, NEW B \in Seq(Items), NEW s,
         Once(todo, s), Once(B, s), Some(B, s) => Covers(Head(todo), s)
  PROVE  /\ B \o Tail(todo) \in Seq(Items) /\ Tail(todo) \in Seq(Items)
         /\ Once(B \o Tail(todo), s)
         /\ Some(B \o Tail(todo), s) <=> Some(B, s) \/ Some(Tail(todo), s)
         /\ Some(todo, s) <=> Covers(Head(todo), s) \/ Some(Tail(todo), s)
         /\ Covers(Head(todo), s) => ~Some(Tail(todo), s)
<1>1. PICK t, T : t = Tail(todo) /\ T = B \o t
  OBVIOUS
<1>2. /\ t \in Seq(Items) /\ Len(todo) \in Nat /\ Len(todo) >= 1 /\ Len(t) = Len(todo) - 1
      /\ \A i \in 1 .. Len(t) : t[i] = todo[i + 1]
      /\ Head(todo) = todo[1]
  BY <1>1
<1>3. /\ T \in Seq(Items) /\ Len(B) \in Nat /\ Len(T) = Len(B) + Len(t)
      /\ \A i \in 1 .. Len(B) : T[i] = B[i]
      /\ \A i \in 1 .. Len(t) : T[Len(B) + i] = t[i]
  <2>1. t \in Seq(Items)
    BY <1>2
  <2> QED BY <1>1, <2>1
<1>4. Some(todo, s) <=> Covers(Head(todo), s) \/ Some(t, s)
  <2>1. ASSUME NEW i \in 1 .. Len(todo), Covers(todo[i], s)
        PROVE  Covers(Head(todo), s) \/ Some(t, s)
    <3>1. CASE i = 1
      BY <1>2, <2>1, <3>1
    <3>2. CASE i # 1
      <4>1. i - 1 \in 1 .. Len(t) /\ (i - 1) + 1 = i
        BY <1>2, <3>2
      <4>2. Covers(t[i - 1], s)
        BY <1>2, <2>1, <4>1
      <4> QED BY <4>1, <4>2 DEF Some
    <3> QED BY <3>1, <3>2
  <2>2. ASSUME NEW i \in 1 .. Len(t), Covers(t[i], s) PROVE Some(todo, s)
    <3>1. i + 1 \in 1 .. Len(todo)
      BY <1>2
    <3> QED BY <1>2, <2>2, <3>1 DEF Some
  <2>3. Covers(Head(todo), s) => Some(todo, s)
    <3>1. 1 \in 1 .. Len(todo)
      BY <1>2
    <3> QED BY <1>2, <3>1 DEF Some
  <2> QED BY <2>1, <2>2, <2>3 DEF Some
<1>5. ASSUME Covers(Head(todo), s), NEW i \in 1 .. Len(t), Covers(t[i], s) PROVE FALSE
  <2>1. 1 \in 1 .. Len(todo) /\ i + 1 \in 1 .. Len(todo) /\ i + 1 # 1
    BY <1>2
  <2>2. Covers(todo[1], s) /\ Covers(todo[i + 1], s)
    BY <1>2, <1>5
  <2> QED BY <2>1, <2>2 DEF Once
<1>6. ASSUME NEW i \in 1 .. Len(T)
      PROVE  \/ i \in 1 .. Len(B) /\ T[i] = B[i]
             \/ /\ i - Len(B) \in 1 .. Len(t) /\ T[i] = t[i - Len(B)]
  <2>1. Len(t) \in Nat
    BY <1>2
  <2>2. CASE i <= Len(B)
    BY <1>3, <2>2
  <2>3. CASE i > Len(B)
    <3>1. i - Len(B) \in 1 .. Len(t) /\ Len(B) + (i - Len(B)) = i
      BY <1>3, <2>1, <2>3
    <3> QED BY <1>3, <3>1
  <2> QED BY <1>3, <2>1, <2>2, <2>3
<1>7. Some(T, s) <=> Some(B, s) \/ Some(t, s)
  <2>1. Some(T, s) => Some(B, s) \/ Some(t, s)
    BY <1>6 DEF Some
  <2>2. Some(B, s) => Some(T, s)
    <3>1. Len(t) \in Nat
      BY <1>2
    <3>2. \A i \in 1 .. Len(B) : i \in 1 .. Len(T)
      BY <1>3, <3>1
    <3> QED BY <1>3, <3>2 DEF Some
  <2>3. ASSUME NEW i \in 1 .. Len(t), Covers(t[i], s) PROVE Some(T, s)
    <3>1. Len(B) + i \in 1 .. Len(T)
      BY <1>2, <1>3
    <3> QED BY <1>3, <2>3, <3>1 DEF Some
  <2> QED BY <2>1, <2>2, <2>3 DEF Some
<1>8. Once(T, s)
  <2> SUFFICES ASSUME NEW i \in 1 .. Len(T), NEW j \in 1 .. Len(T),
                      Covers(T[i], s), Covers(T[j], s)
               PROVE  i = j
    BY DEF Once
  <2>1. CASE i \in 1 .. Len(B) /\ T[i] = B[i] /\ j \in 1 .. Len(B) /\ T[j] = B[j]
    BY <2>1 DEF Once
  <2>2. CASE \E k \in {i, j} : k \in 1 .. Len(B) /\ T[k] = B[k]
    <3>1. Covers(Head(todo), s)
      BY <2>2 DEF Some
    <3> QED BY <1>5, <1>6, <2>1, <3>1
  <2>3. CASE \A k \in {i, j} : k - Len(B) \in 1 .. Len(t) /\ T[k] = t[k - Len(B)]
    <3>1. PICK a, b : a = i - Len(B) /\ b = j - Len(B)
      OBVIOUS
    <3>2. a \in 1 .. Len(t) /\ b \in 1 .. Len(t) /\ Covers(t[a], s) /\ Covers(t[b], s)
      BY <2>3, <3>1
    <3>3. a + 1 \in 1 .. Len(todo) /\ b + 1 \in 1 .. Len(todo)
      BY <1>2, <3>2
    <3>4. Covers(todo[a + 1], s) /\ Covers(todo[b + 1], s)
      BY <1>2, <3>2
    <3>5. a + 1 = b + 1
      BY <3>3, <3>4 DEF Once
    <3>6. i \in Int /\ j \in Int /\ Len(B) \in Int
      BY <1>2, <1>3
    <3> QED BY <3>1, <3>5, <3>6
  <2> QED BY <1>6, <2>2, <2>3
<1> QED BY <1>1, <1>2, <1>3, <1>4, <1>5, <1>7, <1>8 DEF Some

(***************************************************************************)
(* What trie_loose_iterate puts in the place of an item leads where the    *)
(* item leads, as far as there are values there, and nowhere twice.        *)
(***************************************************************************)
BelowCovers(item, B) ==
  /\ B \in Seq(Items) /\ \A i \in 1 .. Len(B) : Fits(B[i])
  /\ \A key \in Keys :
       /\ Once(B, Path(key)) /\ (Some(B, Path(key)) => Covers(item, Path(key)))
       /\ trie_get(key) # NULL /\ Covers(item, Path(key)) => Some(B, Path(key))

(***************************************************************************)
(* Nothing comes of a value that is NULL or of a node that is not there.   *)
(***************************************************************************)
LEMMA NothingBelow ==
  ASSUME IsTrie(nodes, values), NEW item \in Items, Fits(item), Reached(item) = NULL,
         item.kind = "value" \/ item.path \notin nodes
  PROVE  BelowCovers(item, <<>>)
<1> SUFFICES ASSUME NEW key \in Keys, trie_get(key) # NULL, Covers(item, Path(key))
             PROVE  FALSE
  <2>1. <<>> \in Seq(Items) /\ Len(<<>>) = 0
    OBVIOUS
  <2> QED BY <2>1 DEF BelowCovers, Once, Some
<1>1. PICK s : s = Path(key)
  OBVIOUS
<1>2. s \in Paths /\ Len(s) \in Nat
  BY <1>1, PathDigits DEF Paths
<1>3. trie_get(key) = IF s \in DOMAIN values THEN values[s] ELSE NULL
  BY <1>1, GetIs DEF trie_get
<1>4. CASE item.kind = "value"
  BY <1>1, <1>3, <1>4 DEF Covers, Reached
<1>5. CASE item.kind # "value" /\ item.path \notin nodes
  <2>1. Starts(item.path, s) /\ item.path \in Paths
    BY <1>1, <1>5 DEF Covers, Items
  <2>2. Len(item.path) \in 1 .. Len(s) - 1
    <3>1. Len(item.path) \in Nat /\ Len(item.path) < Len(s)
      BY <2>1 DEF Starts, Paths
    <3>2. Len(item.path) >= 1
      BY <1>5, <3>1, Parity DEF Items, Fits
    <3> QED BY <1>2, <3>1, <3>2
  <2>3. item.path = SubSeq(s, 1, Len(item.path))
    BY <1>2, <2>1, <2>2, BeginningIs DEF Starts
  <2>4. NodesOn(s) \subseteq nodes
    BY <1>1 DEF trie_get
  <2> QED BY <1>5, <2>2, <2>3, <2>4 DEF NodesOn
<1> QED BY <1>4, <1>5

(***************************************************************************)
(* An array of trees.                                                      *)
(***************************************************************************)
LEMMA ChildBelow ==
  ASSUME NEW item \in Items, Fits(item), item.kind = "child"
  PROVE  BelowCovers(item, Under("tree", item.path))
<1>1. PICK p, B : p = item.path /\ B = Under("tree", p)
  OBVIOUS
<1>2. p \in Paths /\ Len(p) \in Nat /\ Len(p) % 2 = 0
  BY <1>1 DEF Items, Fits, Paths
<1>3. /\ Radix \in Nat /\ B \in Seq(Items) /\ Len(B) = Radix
      /\ \A i \in 1 .. Radix : i - 1 \in Digit /\ B[i].kind = "tree" /\ B[i].path = Append(p, i - 1)
  BY <1>1, <1>2, UnderIs
<1>4. ASSUME NEW i \in 1 .. Len(B) PROVE Fits(B[i])
  <2>1. B[i].kind = "tree" /\ Len(B[i].path) = Len(p) + 1
    <3>1. B[i].kind = "tree" /\ B[i].path = Append(p, i - 1) /\ i - 1 \in Digit
      BY <1>3
    <3>2. Len(Append(p, i - 1)) = Len(p) + 1
      BY <1>2, <3>1, OneMore
    <3> QED BY <3>1, <3>2
  <2> QED BY <1>2, <2>1, Parity DEF Fits
<1>5. ASSUME NEW key \in Keys
      PROVE  /\ Once(B, Path(key)) /\ (Some(B, Path(key)) => Covers(item, Path(key)))
             /\ Covers(item, Path(key)) => Some(B, Path(key))
  <2>1. PICK s : s = Path(key)
    OBVIOUS
  <2>2. s \in Paths /\ Len(s) \in Nat /\ Len(s) % 2 = 0
    <3>1. s \in Paths /\ Len(s) = 2 * Len(key) /\ Len(key) \in Nat
      BY <2>1, PathDigits
    <3> QED BY <3>1
  <2>3. \A i \in 1 .. Radix : Covers(B[i], s) <=>
          Starts(p, s) /\ s[Len(p) + 1] = i - 1 /\ Len(s) > Len(p) + 1
    BY <1>1, <1>2, <2>2, UnderCovers
  <2>4. Covers(item, s) <=> Starts(p, s)
    BY <1>1 DEF Covers
  <2>5. Once(B, s)
    BY <1>3, <2>3 DEF Once
  <2>6. Some(B, s) => Covers(item, s)
    BY <1>3, <2>3, <2>4 DEF Some
  <2>7. ASSUME Starts(p, s) PROVE Some(B, s)
    <3>1. Len(s) > Len(p) + 1
      <4>1. Len(p) < Len(s)
        BY <2>7 DEF Starts
      <4>2. Len(s) # Len(p) + 1
        BY <1>2, <2>2, Parity
      <4> QED BY <1>2, <2>2, <4>1, <4>2
    <3>2. s[Len(p) + 1] \in Digit
      BY <1>2, <2>2, <3>1 DEF Paths
    <3>3. PICK i : i = s[Len(p) + 1] + 1
      OBVIOUS
    <3>4. i \in 1 .. Radix /\ s[Len(p) + 1] = i - 1
      BY <1>3, <3>2, <3>3 DEF Digit
    <3> QED BY <1>3, <2>3, <2>7, <3>1, <3>4 DEF Some
  <2> QED BY <2>1, <2>4, <2>5, <2>6, <2>7
<1> QED BY <1>1, <1>3, <1>4, <1>5 DEF BelowCovers

(***************************************************************************)
(* A struct trie: its values, then its children.                           *)
(***************************************************************************)
LEMMA TreeBelow ==
  ASSUME IsTrie(nodes, values), NEW item \in Items, Fits(item), item.kind = "tree",
         item.path \in nodes
  PROVE  BelowCovers(item, Under("value", item.path) \o Under("child", item.path))
<1>1. PICK p, U, W, B : /\ p = item.path /\ U = Under("value", p) /\ W = Under("child", p)
                        /\ B = U \o W
  OBVIOUS
<1>2. p \in Paths /\ Len(p) \in Nat /\ Len(p) % 2 = 1
  BY <1>1 DEF Items, Fits, Paths
<1>3. /\ Radix \in Nat /\ U \in Seq(Items) /\ Len(U) = Radix
      /\ \A i \in 1 .. Radix : i - 1 \in Digit /\ U[i].kind = "value" /\ U[i].path = Append(p, i - 1)
  BY <1>1, <1>2, UnderIs
<1>4. /\ W \in Seq(Items) /\ Len(W) = Radix
      /\ \A i \in 1 .. Radix : W[i].kind = "child" /\ W[i].path = Append(p, i - 1)
  BY <1>1, <1>2, UnderIs
<1>5. /\ B \in Seq(Items) /\ Len(B) = Radix + Radix
      /\ \A i \in 1 .. Radix : B[i] = U[i] /\ B[Radix + i] = W[i]
  <2>1. U \in Seq(Items) /\ W \in Seq(Items)
    BY <1>3, <1>4
  <2>2. /\ U \o W \in Seq(Items) /\ Len(U \o W) = Len(U) + Len(W)
        /\ \A i \in 1 .. Len(U) : (U \o W)[i] = U[i]
        /\ \A i \in 1 .. Len(W) : (U \o W)[Len(U) + i] = W[i]
    BY <2>1
  <2> QED BY <1>1, <1>3, <1>4, <2>2
<1>6. ASSUME NEW i \in 1 .. Len(B)
      PROVE  i \in 1 .. Radix \/ \E j \in 1 .. Radix : i = Radix + j
  <2>1. CASE i <= Radix
    BY <1>3, <2>1
  <2>2. CASE i > Radix
    <3>1. i - Radix \in 1 .. Radix /\ i = Radix + (i - Radix)
      BY <1>3, <1>5, <2>2
    <3> QED BY <3>1
  <2> QED BY <1>3, <1>5, <2>1, <2>2
<1>7. ASSUME NEW i \in 1 .. Len(B) PROVE Fits(B[i])
  <2>1. CASE i \in 1 .. Radix
    <3>1. B[i].kind = "value" /\ B[i].path = Append(p, i - 1) /\ i - 1 \in Digit
      BY <1>3, <1>5, <2>1
    <3>2. Append(p, i - 1) \in DOMAIN values
      BY <1>1, <1>2, <3>1, SlotOf DEF IsTrie
    <3> QED BY <3>1, <3>2 DEF Fits
  <2>2. CASE \E j \in 1 .. Radix : i = Radix + j
    <3>1. PICK j \in 1 .. Radix : i = Radix + j
      BY <2>2
    <3>2. B[i].kind = "child" /\ Len(B[i].path) = Len(p) + 1
      <4>1. B[i].kind = "child" /\ B[i].path = Append(p, j - 1) /\ j - 1 \in Digit
        BY <1>3, <1>4, <1>5, <3>1
      <4>2. Len(Append(p, j - 1)) = Len(p) + 1
        BY <1>2, <4>1, OneMore
      <4> QED BY <4>1, <4>2
    <3> QED BY <1>2, <3>2, Parity DEF Fits
  <2> QED BY <1>6, <2>1, <2>2
<1>8. ASSUME NEW key \in Keys
      PROVE  /\ Once(B, Path(key)) /\ (Some(B, Path(key)) => Covers(item, Path(key)))
             /\ Covers(item, Path(key)) => Some(B, Path(key))
  <2>1. PICK s, l : s = Path(key) /\ l = Len(p) + 1
    OBVIOUS
  <2>2. s \in Paths /\ Len(s) \in Nat /\ l \in Nat
    BY <1>2, <2>1, PathDigits DEF Paths
  <2>3. \A i \in 1 .. Radix :
          /\ Covers(B[i], s) <=> Starts(p, s) /\ s[l] = i - 1 /\ Len(s) = l
          /\ Covers(B[Radix + i], s) <=> Starts(p, s) /\ s[l] = i - 1 /\ Len(s) > l
    <3>1. ASSUME NEW i \in 1 .. Radix
          PROVE  /\ Covers(U[i], s) <=> Starts(p, s) /\ s[Len(p) + 1] = i - 1 /\ Len(s) = Len(p) + 1
                 /\ Covers(W[i], s) <=> Starts(p, s) /\ s[Len(p) + 1] = i - 1 /\ Len(s) > Len(p) + 1
      BY <1>1, <1>2, <2>2, UnderCovers
    <3> QED BY <1>5, <2>1, <3>1
  <2>4. Covers(item, s) <=> Starts(p, s)
    BY <1>1 DEF Covers
  <2>5. Once(B, s)
    <3> SUFFICES ASSUME NEW i \in 1 .. Len(B), NEW j \in 1 .. Len(B),
                        Covers(B[i], s), Covers(B[j], s)
                 PROVE  i = j
      BY DEF Once
    <3>1. CASE i \in 1 .. Radix /\ j \in 1 .. Radix
      BY <1>3, <2>3, <3>1
    <3>2. CASE i \in 1 .. Radix /\ j \notin 1 .. Radix
      BY <1>6, <2>2, <2>3, <3>2
    <3>3. CASE i \notin 1 .. Radix /\ j \in 1 .. Radix
      BY <1>6, <2>2, <2>3, <3>3
    <3>4. CASE i \notin 1 .. Radix /\ j \notin 1 .. Radix
      <4>1. PICK a \in 1 .. Radix, b \in 1 .. Radix : i = Radix + a /\ j = Radix + b
        BY <1>6, <3>4
      <4>2. s[l] = a - 1 /\ s[l] = b - 1
        BY <2>3, <4>1
      <4>3. a \in Int /\ b \in Int /\ a - 1 = b - 1
        BY <1>3, <4>2
      <4> QED BY <4>1, <4>3
    <3> QED BY <3>1, <3>2, <3>3, <3>4
  <2>6. Some(B, s) => Covers(item, s)
    BY <1>6, <2>3, <2>4 DEF Some
  <2>7. ASSUME Starts(p, s) PROVE Some(B, s)
    <3>1. Len(s) >= l /\ s[l] \in Digit
      <4>1. Len(s) >= l /\ l \in 1 .. Len(s)
        BY <1>2, <2>1, <2>2, <2>7 DEF Starts
      <4> QED BY <2>2, <4>1 DEF Paths
    <3>2. PICK i : i = s[l] + 1
      OBVIOUS
    <3>3. /\ i \in 1 .. Radix /\ s[l] = i - 1
          /\ i \in 1 .. Len(B) /\ Radix + i \in 1 .. Len(B)
      <4>1. s[l] \in 0 .. Radix - 1
        BY <3>1 DEF Digit
      <4>2. Radix \in Nat /\ Len(B) = Radix + Radix
        BY <1>3, <1>5
      <4>3. i \in 1 .. Radix /\ s[l] = i - 1
        BY <3>2, <4>1, <4>2
      <4>4. i \in 1 .. Len(B) /\ Radix + i \in 1 .. Len(B)
        BY <4>2, <4>3
      <4> QED BY <4>3, <4>4
    <3>4. Covers(B[i], s) \/ Covers(B[Radix + i], s)
      BY <2>2, <2>3, <2>7, <3>1, <3>3
    <3> QED BY <3>3, <3>4 DEF Some
  <2> QED BY <2>1, <2>4, <2>5, <2>6, <2>7
<1> QED BY <1>1, <1>5, <1>7, <1>8 DEF BelowCovers

(***************************************************************************)
(* Whatever the item is.                                                   *)
(***************************************************************************)
LEMMA BelowLeads ==
  ASSUME IsTrie(nodes, values), NEW item \in Items, Fits(item), Reached(item) = NULL
  PROVE  BelowCovers(item, Below(item))
<1>1. CASE item.kind = "value" \/ item.path \notin nodes
  <2>1. Below(item) = <<>>
    BY <1>1 DEF Below
  <2> QED BY <1>1, <2>1, NothingBelow
<1>2. CASE item.kind = "tree" /\ item.path \in nodes
  <2>1. Below(item) = Under("value", item.path) \o Under("child", item.path)
    BY <1>2 DEF Below
  <2> QED BY <1>2, <2>1, TreeBelow
<1>3. CASE item.kind = "child" /\ item.path \in nodes
  <2>1. Below(item) = Under("tree", item.path)
    BY <1>3 DEF Below
  <2> QED BY <1>3, <2>1, ChildBelow
<1> QED BY <1>1, <1>2, <1>3 DEF Items
-----------------------------------------------------------------------------
(***************************************************************************)
(* An iteration that is under way is not the idle one.                     *)
(***************************************************************************)
LEMMA BusyTyped ==
  ASSUME TrieInv, itr.call # "none"
  PROVE  /\ itr.call \in Calling /\ itr.todo \in Seq(Items) /\ itr.rest \in SUBSET Keys
         /\ itr = [call |-> itr.call, arg |-> itr.arg, todo |-> itr.todo, rest |-> itr.rest]
         /\ itr.arg \in Owners \cup {NULL}
<1>1. itr # Idle
  BY DEF Idle
<1>2. itr \in [call : Calling, arg : Owners \cup {NULL}, todo : Seq(Items), rest : SUBSET Keys]
  BY <1>1 DEF TrieInv, TrieTyped
<1> QED BY <1>2

(***************************************************************************)
(* The pointer an iteration has come to is that of an element, and the     *)
(* element's name is the one whose place it is.                            *)
(***************************************************************************)
LEMMA CalledWith ==
  ASSUME TrieInv, itr.call # "none", itr.todo # <<>>, NEW e, e = Reached(Head(itr.todo)), e # NULL
  PROVE  /\ e \in DOMAIN stat /\ stat[e].file \in Keys /\ stat[e].owner \in Owners
         /\ Head(itr.todo).kind = "value" /\ Head(itr.todo).path = Path(stat[e].file)
         /\ Path(stat[e].file) \in DOMAIN values /\ values[Path(stat[e].file)] = e
         /\ trie_get(stat[e].file) = e /\ stat[e].file \in itr.rest
<1>1. PICK h : h = Head(itr.todo)
  OBVIOUS
<1>2. itr.todo \in Seq(Items)
  BY BusyTyped
<1>3. 1 \in 1 .. Len(itr.todo) /\ h = itr.todo[1] /\ h \in Items
  <2>1. PICK s : s = itr.todo
    OBVIOUS
  <2>2. s \in Seq(Items) /\ s # <<>>
    BY <1>2, <2>1
  <2>3. 1 \in 1 .. Len(s) /\ Head(s) = s[1] /\ Head(s) \in Items
    BY <2>2
  <2> QED BY <1>1, <2>1, <2>3
<1>4. Fits(h)
  BY <1>3 DEF TrieInv, Iterating
<1>5. h.kind = "value" /\ e = values[h.path] /\ h.path \in DOMAIN values
  BY <1>1, <1>4 DEF Reached, Fits
<1>6. e \in DOMAIN stat /\ Path(stat[e].file) = h.path
  BY <1>5 DEF TrieInv, NoDangling
<1>7. stat[e].file \in Keys /\ stat[e].owner \in Owners
  <2>1. stat[e] \in [file : Keys, owner : Owners]
    BY <1>6 DEF TrieInv, TrieTyped
  <2> QED BY <2>1
<1>8. trie_get(stat[e].file) = e
  <2>1. IsTrie(nodes, values)
    BY DEF TrieInv
  <2>2. trie_get(stat[e].file)
          = IF Path(stat[e].file) \in DOMAIN values THEN values[Path(stat[e].file)] ELSE NULL
    BY <1>7, <2>1, GetIs DEF trie_get
  <2> QED BY <1>5, <1>6, <2>2
<1>9. Covers(h, Path(stat[e].file))
  BY <1>5, <1>6 DEF Covers
<1>10. Some(itr.todo, Path(stat[e].file))
  BY <1>3, <1>9 DEF Some
<1>11. stat[e].file \in itr.rest
  BY <1>7, <1>8, <1>10 DEF TrieInv, Iterating
<1> QED BY <1>1, <1>5, <1>6, <1>7, <1>8, <1>11

(***************************************************************************)
(* NEWFILE.                                                                *)
(***************************************************************************)
LEMMA PutSafeKeeps ==
  ASSUME TrieInv, NEW e \in Elements, NEW key \in Keys, NEW owner \in Owners,
         trie_put_safe(e, key, owner)
  PROVE  /\ TrieInv'
         /\ \A k \in Keys : trie_get(k)' = IF k = key THEN e ELSE trie_get(k)
<1>1. /\ itr.call = "none" /\ e \notin DOMAIN stat /\ UNCHANGED itr /\ trie_put(key, e)
      /\ stat' = [x \in DOMAIN stat \cup {e} |->
                    IF x = e THEN [file |-> key, owner |-> owner] ELSE stat[x]]
  BY DEF trie_put_safe
<1>2. IsTrie(nodes, values) /\ NoDangling /\ TrieTyped
  BY DEF TrieInv
<1>3. /\ IsTrie(nodes', values')
      /\ \A s \in DOMAIN values' :
           values'[s] = IF s = Path(key) THEN e
                        ELSE IF s \in DOMAIN values THEN values[s] ELSE NULL
      /\ \A k \in Keys : trie_get(k)' = IF k = key THEN e ELSE trie_get(k)
  BY <1>1, <1>2, PutKeeps
<1>4. /\ DOMAIN stat' = DOMAIN stat \cup {e} /\ stat'[e].file = key
      /\ \A x \in DOMAIN stat : x # e /\ stat'[x] = stat[x]
  BY <1>1
<1>5. TrieTyped'
  <2>1. stat' \in [DOMAIN stat' -> [file : Keys, owner : Owners]] /\ DOMAIN stat' \subseteq Elements
    BY <1>1, <1>2 DEF TrieTyped
  <2> QED BY <1>1, <1>2, <2>1 DEF TrieTyped
<1>6. NoDangling'
  <2>1. DOMAIN values' = Slots(nodes')
    BY <1>3 DEF IsTrie
  <2>2. ASSUME NEW s \in DOMAIN values', values'[s] # NULL
        PROVE  values'[s] \in DOMAIN stat' /\ Path(stat'[values'[s]].file) = s
    <3>1. CASE s = Path(key)
      BY <1>3, <1>4, <3>1
    <3>2. CASE s # Path(key)
      <4>1. s \in DOMAIN values /\ values'[s] = values[s]
        BY <1>3, <2>2, <3>2
      <4>2. values[s] \in DOMAIN stat /\ Path(stat[values[s]].file) = s
        BY <1>2, <2>2, <4>1 DEF NoDangling
      <4> QED BY <1>4, <4>1, <4>2
    <3> QED BY <3>1, <3>2
  <2> QED BY <2>1, <2>2 DEF NoDangling
<1>7. Iterating'
  BY <1>1 DEF Iterating
<1> QED BY <1>3, <1>5, <1>6, <1>7 DEF TrieInv

(***************************************************************************)
(* A step that only looks at the trie finds it as it is.                   *)
(***************************************************************************)
LEMMA LookKeeps ==
  ASSUME TrieInv, UNCHANGED <<nodes, values, stat>>
  PROVE  /\ IsTrie(nodes', values') /\ NoDangling'
         /\ \A k \in Keys : trie_get(k)' = trie_get(k)
         /\ \A item : Fits(item)' = Fits(item)
         /\ TrieTyped' <=> \/ itr' = Idle
                           \/ itr' \in [call : Calling, arg : Owners \cup {NULL},
                                        todo : Seq(Items), rest : SUBSET Keys]
BY DEF TrieInv, NoDangling, trie_get, Fits, TrieTyped

(***************************************************************************)
(* An iteration begins: the sixteen trees of the root lead everywhere.     *)
(***************************************************************************)
LEMMA IterateBegins ==
  ASSUME TrieInv, NEW call \in Calling, NEW arg \in Owners \cup {NULL},
         trie_iterate_safe(call, arg)
  PROVE  TrieInv'
<1>1. /\ UNCHANGED <<nodes, values, stat>>
      /\ itr' = [call |-> call, arg |-> arg, todo |-> Under("tree", <<>>),
                 rest |-> {k \in Keys : trie_get(k) # NULL}]
  BY DEF trie_iterate_safe
<1>2. <<>> \in Paths /\ Len(<<>>) = 0
  BY DEF Paths
<1>3. PICK T : T = Under("tree", <<>>)
  OBVIOUS
<1>4. /\ Radix \in Nat /\ T \in Seq(Items) /\ Len(T) = Radix
      /\ \A i \in 1 .. Radix : i - 1 \in Digit /\ T[i].kind = "tree" /\ T[i].path = Append(<<>>, i - 1)
  BY <1>2, <1>3, UnderIs
<1>5. ASSUME NEW i \in 1 .. Len(T) PROVE Fits(T[i])
  <2>1. T[i].kind = "tree" /\ T[i].path = Append(<<>>, i - 1) /\ i - 1 \in Digit
    BY <1>4
  <2>2. Len(T[i].path) = 0 + 1
    BY <1>2, <2>1, OneMore
  <2> QED BY <2>1, <2>2 DEF Fits
<1>6. ASSUME NEW key \in Keys PROVE Once(T, Path(key)) /\ Some(T, Path(key))
  <2>1. PICK s : s = Path(key)
    OBVIOUS
  <2>2. s \in Paths /\ Len(s) \in Nat /\ Len(s) > 0 + 1
    BY <2>1, PathDigits
  <2>3. Starts(<<>>, s)
    BY <1>2, <2>2 DEF Starts
  <2>4. \A i \in 1 .. Radix : Covers(T[i], s) <=> s[0 + 1] = i - 1
    BY <1>2, <1>3, <2>2, <2>3, UnderCovers
  <2>5. s[0 + 1] \in 0 .. Radix - 1
    <3>1. 0 + 1 = 1 /\ 1 \in 1 .. Len(s) /\ s \in Seq(Digit)
      BY <2>2 DEF Paths
    <3>2. s[1] \in Digit
      BY <3>1
    <3> QED BY <3>1, <3>2 DEF Digit
  <2>6. PICK d : d = s[0 + 1]
    OBVIOUS
  <2>7. d + 1 \in 1 .. Radix /\ d = (d + 1) - 1
    BY <1>4, <2>5, <2>6
  <2>8. Some(T, s)
    BY <1>4, <2>4, <2>6, <2>7 DEF Some
  <2>9. Once(T, s)
    BY <1>4, <2>4 DEF Once
  <2> QED BY <2>1, <2>8, <2>9
<1>7. /\ IsTrie(nodes', values') /\ NoDangling'
      /\ \A k \in Keys : trie_get(k)' = trie_get(k)
      /\ \A item : Fits(item)' = Fits(item)
  BY <1>1, LookKeeps
<1>8. itr'.todo = T /\ itr'.rest = {k \in Keys : trie_get(k) # NULL}
  BY <1>1, <1>3
<1>9. TrieTyped'
  <2>1. itr' \in [call : Calling, arg : Owners \cup {NULL}, todo : Seq(Items), rest : SUBSET Keys]
    BY <1>1, <1>3, <1>4
  <2> QED BY <1>1, <2>1, LookKeeps
<1>10. Iterating'
  BY <1>5, <1>6, <1>7, <1>8 DEF Iterating
<1> QED BY <1>7, <1>9, <1>10 DEF TrieInv

(***************************************************************************)
(* It goes on.                                                             *)
(***************************************************************************)
LEMMA LooseKeeps ==
  ASSUME TrieInv, trie_loose_iterate
  PROVE  TrieInv' /\ itr'.call = itr.call /\ itr'.rest = itr.rest
<1>1. /\ itr.call # "none" /\ itr.todo # <<>> /\ Reached(Head(itr.todo)) = NULL
      /\ UNCHANGED <<nodes, values, stat>>
      /\ itr' = [itr EXCEPT !.todo = Below(Head(itr.todo)) \o Tail(itr.todo)]
  BY DEF trie_loose_iterate
<1>2. PICK todo, B : todo = itr.todo /\ B = Below(Head(itr.todo))
  OBVIOUS
<1>3. /\ itr.call \in Calling /\ todo \in Seq(Items) /\ itr.rest \in SUBSET Keys
      /\ itr = [call |-> itr.call, arg |-> itr.arg, todo |-> itr.todo, rest |-> itr.rest]
      /\ itr.arg \in Owners \cup {NULL}
  BY <1>1, <1>2, BusyTyped
<1>4. todo # <<>> /\ Head(todo) = todo[1] /\ 1 \in 1 .. Len(todo) /\ Head(todo) \in Items
  <2>1. todo # <<>>
    BY <1>1, <1>2
  <2> QED BY <1>3, <2>1
<1>5. /\ \A i \in 1 .. Len(todo) : Fits(todo[i])
      /\ \A key \in Keys : Once(todo, Path(key))
      /\ \A key \in Keys : key \in itr.rest <=> trie_get(key) # NULL /\ Some(todo, Path(key))
      /\ IsTrie(nodes, values)
  BY <1>1, <1>2 DEF TrieInv, Iterating
<1>6. BelowCovers(Head(todo), B)
  BY <1>1, <1>2, <1>4, <1>5, BelowLeads
<1>7. /\ B \in Seq(Items) /\ \A i \in 1 .. Len(B) : Fits(B[i])
      /\ \A key \in Keys :
           /\ Once(B, Path(key)) /\ (Some(B, Path(key)) => Covers(Head(todo), Path(key)))
           /\ trie_get(key) # NULL /\ Covers(Head(todo), Path(key)) => Some(B, Path(key))
  BY <1>6 DEF BelowCovers
<1>8. PICK T : T = B \o Tail(todo)
  OBVIOUS
<1>9. itr'.todo = T /\ itr'.rest = itr.rest /\ itr'.call = itr.call /\ itr'.arg = itr.arg
      /\ itr' = [call |-> itr.call, arg |-> itr.arg, todo |-> T, rest |-> itr.rest]
  BY <1>1, <1>2, <1>3, <1>8
<1>10. T \in Seq(Items) /\ \A i \in 1 .. Len(T) : Fits(T[i])
  <2>1. PICK t : t = Tail(todo)
    OBVIOUS
  <2>2. t \in Seq(Items) /\ Len(todo) \in Nat /\ Len(t) = Len(todo) - 1
        /\ \A i \in 1 .. Len(t) : t[i] = todo[i + 1]
    BY <1>3, <1>4, <2>1
  <2>3. \A i \in 1 .. Len(t) : Fits(t[i])
    <3>1. \A i \in 1 .. Len(t) : i + 1 \in 1 .. Len(todo)
      BY <2>2
    <3> QED BY <1>5, <2>2, <3>1
  <2>4. /\ B \o t \in Seq(Items) /\ Len(B \o t) = Len(B) + Len(t) /\ Len(B) \in Nat /\ Len(t) \in Nat
        /\ \A i \in 1 .. Len(B \o t) :
             (B \o t)[i] = IF i <= Len(B) THEN B[i] ELSE t[i - Len(B)]
    <3>1. B \in Seq(Items) /\ t \in Seq(Items)
      BY <1>7, <2>2
    <3> QED BY <3>1
  <2>5. ASSUME NEW i \in 1 .. Len(T) PROVE Fits(T[i])
    <3>1. CASE i <= Len(B)
      <4>1. i \in 1 .. Len(B) /\ T[i] = B[i]
        BY <1>8, <2>1, <2>4, <3>1
      <4> QED BY <1>7, <4>1
    <3>2. CASE ~(i <= Len(B))
      <4>1. i - Len(B) \in 1 .. Len(t) /\ T[i] = t[i - Len(B)]
        BY <1>8, <2>1, <2>4, <3>2
      <4> QED BY <2>3, <4>1
    <3> QED BY <3>1, <3>2
  <2> QED BY <1>8, <2>1, <2>4, <2>5
<1>11. ASSUME NEW key \in Keys
       PROVE  /\ Once(T, Path(key))
              /\ key \in itr.rest <=> trie_get(key) # NULL /\ Some(T, Path(key))
  <2>1. PICK s : s = Path(key)
    OBVIOUS
  <2>2. Once(todo, s) /\ Once(B, s) /\ (Some(B, s) => Covers(Head(todo), s))
        /\ (trie_get(key) # NULL /\ Covers(Head(todo), s) => Some(B, s))
    BY <1>5, <1>7, <2>1
  <2>3. /\ Once(T, s)
        /\ Some(T, s) <=> Some(B, s) \/ Some(Tail(todo), s)
        /\ Some(todo, s) <=> Covers(Head(todo), s) \/ Some(Tail(todo), s)
    BY <1>3, <1>4, <1>7, <1>8, <2>2, HeadReplaced
  <2> QED BY <1>5, <2>1, <2>2, <2>3
<1>12. /\ IsTrie(nodes', values') /\ NoDangling'
       /\ \A k \in Keys : trie_get(k)' = trie_get(k)
       /\ \A item : Fits(item)' = Fits(item)
  BY <1>1, LookKeeps
<1>13. TrieTyped'
  <2>1. itr' \in [call : Calling, arg : Owners \cup {NULL}, todo : Seq(Items), rest : SUBSET Keys]
    BY <1>3, <1>9, <1>10
  <2> QED BY <1>1, <2>1, LookKeeps
<1>14. Iterating'
  BY <1>9, <1>10, <1>11, <1>12 DEF Iterating
<1> QED BY <1>9, <1>12, <1>13, <1>14 DEF TrieInv

(***************************************************************************)
(* A callback: whether it removes the entry it is called for or not, the   *)
(* others still to be called for are the ones the work left leads to.      *)
(***************************************************************************)
LEMMA CallKeeps ==
  ASSUME TrieInv, NEW name \in Calling, Calls(name), NEW e, e = Reached(Head(itr.todo)),
         TrieTyped', IsTrie(nodes', values'), NoDangling', DOMAIN values' = DOMAIN values,
         \A k \in Keys : k # stat[e].file => trie_get(k)' = trie_get(k)
  PROVE  TrieInv'
<1>1. /\ itr.call = name /\ itr.call # "none" /\ itr.todo # <<>> /\ e # NULL
      /\ itr' = [itr EXCEPT !.todo = Tail(itr.todo), !.rest = itr.rest \ {stat[e].file}]
  BY DEF Calls, Calling
<1>2. PICK todo, key0 : todo = itr.todo /\ key0 = stat[e].file
  OBVIOUS
<1>3. /\ itr.call \in Calling /\ todo \in Seq(Items) /\ itr.rest \in SUBSET Keys
      /\ itr = [call |-> itr.call, arg |-> itr.arg, todo |-> itr.todo, rest |-> itr.rest]
  BY <1>1, <1>2, BusyTyped
<1>4. /\ key0 \in Keys /\ Head(todo).kind = "value" /\ Head(todo).path = Path(key0)
  BY <1>1, <1>2, CalledWith
<1>5. /\ \A i \in 1 .. Len(todo) : Fits(todo[i])
      /\ \A key \in Keys : Once(todo, Path(key))
      /\ \A key \in Keys : key \in itr.rest <=> trie_get(key) # NULL /\ Some(todo, Path(key))
  BY <1>1, <1>2 DEF TrieInv, Iterating
<1>6. PICK t : t = Tail(todo)
  OBVIOUS
<1>7. t \in Seq(Items) /\ Len(todo) \in Nat /\ Len(t) = Len(todo) - 1
      /\ \A i \in 1 .. Len(t) : t[i] = todo[i + 1]
  <2>1. todo # <<>>
    BY <1>1, <1>2
  <2> QED BY <1>3, <1>6, <2>1
<1>8. itr'.todo = t /\ itr'.rest = itr.rest \ {key0} /\ itr'.call = itr.call
  BY <1>1, <1>2, <1>3, <1>6
<1>9. ASSUME NEW i \in 1 .. Len(t) PROVE Fits(t[i])'
  <2>1. i + 1 \in 1 .. Len(todo)
    BY <1>7
  <2>2. Fits(t[i])
    BY <1>5, <1>7, <2>1
  <2> QED BY <2>2 DEF Fits
<1>10. ASSUME NEW key \in Keys
       PROVE  /\ Once(t, Path(key))
              /\ key \in itr'.rest <=> trie_get(key)' # NULL /\ Some(t, Path(key))
  <2>1. PICK s, B : s = Path(key) /\ B = <<>>
    OBVIOUS
  <2>2. B \in Seq(Items) /\ Once(B, s) /\ ~Some(B, s) /\ B \o t = t
    <3>1. B \in Seq(Items) /\ Len(B) = 0 /\ B \o t = t
      BY <1>7, <2>1
    <3> QED BY <3>1 DEF Once, Some
  <2>3. todo # <<>> /\ Once(todo, s)
    BY <1>1, <1>2, <1>5, <2>1
  <2>4. /\ Once(t, s)
        /\ Some(todo, s) <=> Covers(Head(todo), s) \/ Some(t, s)
        /\ Covers(Head(todo), s) => ~Some(t, s)
    <3>1. Some(B, s) => Covers(Head(todo), s)
      BY <2>2
    <3>2. /\ Once(B \o Tail(todo), s)
          /\ Some(todo, s) <=> Covers(Head(todo), s) \/ Some(Tail(todo), s)
          /\ Covers(Head(todo), s) => ~Some(Tail(todo), s)
      BY <1>3, <2>2, <2>3, <3>1, HeadReplaced
    <3> QED BY <1>6, <2>2, <3>2
  <2>5. Covers(Head(todo), s) <=> key = key0
    BY <1>4, <2>1, PathInjective DEF Covers
  <2>6. key # key0 => trie_get(key)' = trie_get(key)
    BY <1>2
  <2>7. key \in itr.rest <=> trie_get(key) # NULL /\ Some(todo, s)
    BY <1>5, <2>1
  <2> QED BY <1>8, <2>1, <2>4, <2>5, <2>6, <2>7
<1>11. Iterating'
  BY <1>8, <1>9, <1>10 DEF Iterating
<1> QED BY <1>11 DEF TrieInv

(***************************************************************************)
(* A callback leaves the rest of the work.                                 *)
(***************************************************************************)
LEMMA CallTyped ==
  ASSUME TrieInv, NEW name \in Calling, Calls(name)
  PROVE  itr' \in [call : Calling, arg : Owners \cup {NULL}, todo : Seq(Items), rest : SUBSET Keys]
<1>1. PICK k : k = stat[Reached(Head(itr.todo))].file
  OBVIOUS
<1>2. /\ itr.call # "none" /\ itr.todo # <<>>
      /\ itr' = [itr EXCEPT !.todo = Tail(itr.todo), !.rest = itr.rest \ {k}]
  BY <1>1 DEF Calls, Calling
<1>3. /\ itr.call \in Calling /\ itr.todo \in Seq(Items) /\ itr.rest \in SUBSET Keys
      /\ itr = [call |-> itr.call, arg |-> itr.arg, todo |-> itr.todo, rest |-> itr.rest]
      /\ itr.arg \in Owners \cup {NULL}
  BY <1>2, BusyTyped
<1>4. PICK t : t = Tail(itr.todo)
  OBVIOUS
<1>5. t \in Seq(Items)
  BY <1>2, <1>3, <1>4
<1>6. itr' = [call |-> itr.call, arg |-> itr.arg, todo |-> t, rest |-> itr.rest \ {k}]
  BY <1>2, <1>3, <1>4
<1> QED BY <1>3, <1>5, <1>6

(***************************************************************************)
(* printitr leaves the trie alone.                                         *)
(***************************************************************************)
LEMMA PrintKeeps ==
  ASSUME TrieInv, printitr
  PROVE  TrieInv' /\ \A k \in Keys : trie_get(k)' = trie_get(k)
<1>1. Calls("printitr") /\ UNCHANGED <<nodes, values, stat>> /\ "printitr" \in Calling
  BY DEF printitr, Calling
<1>2. PICK e : e = Reached(Head(itr.todo))
  OBVIOUS
<1>3. /\ IsTrie(nodes', values') /\ NoDangling' /\ DOMAIN values' = DOMAIN values
      /\ \A k \in Keys : trie_get(k)' = trie_get(k)
  BY <1>1, LookKeeps
<1>4. TrieTyped'
  BY <1>1, CallTyped, LookKeeps
<1>5. TrieInv'
  BY <1>1, <1>2, <1>3, <1>4, CallKeeps
<1> QED BY <1>3, <1>5

(***************************************************************************)
(* deregister_itr clears the entry of the element it frees, and that one   *)
(* only.                                                                   *)
(***************************************************************************)
LEMMA DeregisterKeeps ==
  ASSUME TrieInv, deregister_itr, NEW e, e = Reached(Head(itr.todo))
  PROVE  /\ TrieInv'
         /\ \/ \A k \in Keys : trie_get(k)' = trie_get(k)
            \/ \A k \in Keys : trie_get(k)' = IF k = stat[e].file THEN NULL ELSE trie_get(k)
<1>1. Calls("deregister_itr") /\ "deregister_itr" \in Calling
  BY DEF deregister_itr, Calling
<1>2. itr' \in [call : Calling, arg : Owners \cup {NULL}, todo : Seq(Items), rest : SUBSET Keys]
  BY <1>1, CallTyped
<1>3. CASE stat[e].owner # itr.arg
  <2>1. UNCHANGED <<nodes, values, stat>>
    BY <1>3 DEF deregister_itr
  <2>2. /\ IsTrie(nodes', values') /\ NoDangling' /\ DOMAIN values' = DOMAIN values
        /\ \A k \in Keys : trie_get(k)' = trie_get(k)
    BY <1>2, <2>1, LookKeeps
  <2>3. TrieTyped'
    BY <1>2, <2>1, LookKeeps
  <2>4. TrieInv'
    BY <1>1, <2>2, <2>3, CallKeeps
  <2> QED BY <2>2, <2>4
<1>4. CASE stat[e].owner = itr.arg
  <2>1. /\ trie_put(stat[e].file, NULL)
        /\ stat' = [x \in DOMAIN stat \ {e} |-> stat[x]]
    BY <1>4 DEF deregister_itr
  <2>2. PICK key0 : key0 = stat[e].file
    OBVIOUS
  <2>3. /\ e # NULL /\ e \in DOMAIN stat /\ key0 \in Keys
        /\ Path(key0) \in DOMAIN values /\ values[Path(key0)] = e
    <3>1. e # NULL /\ itr.call # "none" /\ itr.todo # <<>>
      BY <1>1 DEF Calls
    <3> QED BY <2>2, <3>1, CalledWith
  <2>4. IsTrie(nodes, values) /\ NoDangling /\ TrieTyped
    BY DEF TrieInv
  <2>5. /\ IsTrie(nodes', values') /\ DOMAIN values' = DOMAIN values /\ nodes' = nodes
        /\ \A s \in DOMAIN values' :
             values'[s] = IF s = Path(key0) THEN NULL
                          ELSE IF s \in DOMAIN values THEN values[s] ELSE NULL
        /\ \A k \in Keys : trie_get(k)' = IF k = key0 THEN NULL ELSE trie_get(k)
    BY <2>1, <2>2, <2>3, <2>4, PutKeeps
  <2>6. DOMAIN stat' = DOMAIN stat \ {e} /\ \A x \in DOMAIN stat' : stat'[x] = stat[x]
    BY <2>1
  <2>7. NoDangling'
    <3>1. DOMAIN values' = Slots(nodes')
      BY <2>5 DEF IsTrie
    <3>2. ASSUME NEW s \in DOMAIN values', values'[s] # NULL
          PROVE  values'[s] \in DOMAIN stat' /\ Path(stat'[values'[s]].file) = s
      <4>1. s # Path(key0) /\ s \in DOMAIN values /\ values'[s] = values[s]
        BY <2>5, <3>2
      <4>2. values[s] \in DOMAIN stat /\ Path(stat[values[s]].file) = s
        BY <2>4, <3>2, <4>1 DEF NoDangling
      <4>3. values[s] # e
        BY <2>2, <4>1, <4>2
      <4> QED BY <2>6, <4>1, <4>2, <4>3
    <3> QED BY <3>1, <3>2 DEF NoDangling
  <2>8. TrieTyped'
    <3>1. stat' \in [DOMAIN stat' -> [file : Keys, owner : Owners]] /\ DOMAIN stat' \subseteq Elements
      BY <2>1, <2>4, <2>6 DEF TrieTyped
    <3> QED BY <1>2, <3>1 DEF TrieTyped
  <2>9. TrieInv'
    BY <1>1, <2>2, <2>5, <2>7, <2>8, CallKeeps
  <2> QED BY <2>2, <2>5, <2>9
<1> QED BY <1>3, <1>4
-----------------------------------------------------------------------------
(***************************************************************************)
(* The map that a trie stands for: what trie_get returns for each key.     *)
(***************************************************************************)
TheMap == [k \in Keys |-> trie_get(k)]

(***************************************************************************)
(* The map is the same when trie_get returns the same for every key.       *)
(***************************************************************************)
LEMMA SameMap ==
  ASSUME \A k \in Keys : trie_get(k)' = trie_get(k)
  PROVE  TheMap' = TheMap
BY DEF TheMap

(***************************************************************************)
(* The actions of KeyMap, spelled out for the map that the trie stands for *)
(* and for the iteration that trie_iterate is in.                          *)
(***************************************************************************)
LEMMA MapIs ==
  /\ \A k \in Keys : \A e \in Elements :
       Map!Put(k, e) <=> /\ ~(itr.call # "none")
                         /\ TheMap' = [TheMap EXCEPT ![k] = e]
                         /\ UNCHANGED <<itr.call # "none", itr.rest>>
  /\ Map!Begin <=> /\ ~(itr.call # "none") /\ (itr.call # "none")' = TRUE
                   /\ itr'.rest = {k \in Keys : TheMap[k] # NULL}
                   /\ UNCHANGED TheMap
  /\ \A k \in Keys :
       Map!Visit(k) <=> /\ itr.call # "none" /\ k \in itr.rest
                        /\ itr'.rest = itr.rest \ {k}
                        /\ TheMap' = TheMap \/ TheMap' = [TheMap EXCEPT ![k] = NULL]
                        /\ UNCHANGED (itr.call # "none")
  /\ Map!Done <=> /\ itr.call # "none" /\ itr.rest = {} /\ (itr.call # "none")' = FALSE
                  /\ UNCHANGED <<TheMap, itr.rest>>
  /\ UNCHANGED Map!vars <=> UNCHANGED <<TheMap, itr.call # "none", itr.rest>>
BY DEF Map!Put, Map!Begin, Map!Visit, Map!Done, Map!vars, TheMap

(***************************************************************************)
(* Every step keeps the invariant, and is a step of the map or changes     *)
(* nothing of it.                                                          *)
(***************************************************************************)
LEMMA TrieStep == TrieInv /\ [Next]_vars => TrieInv' /\ [Map!Next]_(Map!vars)
<1> SUFFICES ASSUME TrieInv, [Next]_vars PROVE TrieInv' /\ [Map!Next]_(Map!vars)
  OBVIOUS
<1>1. ASSUME NEW e \in Elements, NEW key \in Keys, NEW owner \in Owners,
             trie_put_safe(e, key, owner)
      PROVE  TrieInv' /\ Map!Next
  <2>1. TrieInv' /\ \A k \in Keys : trie_get(k)' = IF k = key THEN e ELSE trie_get(k)
    BY <1>1, PutSafeKeeps
  <2>2. TheMap' = [TheMap EXCEPT ![key] = e]
    BY <2>1 DEF TheMap
  <2>3. itr.call = "none" /\ UNCHANGED itr
    BY <1>1 DEF trie_put_safe
  <2>4. Map!Put(key, e)
    BY <2>2, <2>3, MapIs
  <2> QED BY <2>1, <2>4 DEF Map!Next
<1>2. ASSUME NEW call \in Calling, NEW arg \in Owners \cup {NULL}, trie_iterate_safe(call, arg)
      PROVE  TrieInv' /\ Map!Next
  <2>1. TrieInv'
    BY <1>2, IterateBegins
  <2>2. /\ itr.call = "none" /\ itr'.call = call /\ call # "none"
        /\ itr'.rest = {k \in Keys : trie_get(k) # NULL} /\ UNCHANGED <<nodes, values, stat>>
    BY <1>2 DEF trie_iterate_safe, Calling
  <2>3. TheMap' = TheMap
    BY <2>2, LookKeeps, SameMap
  <2>4. itr'.rest = {k \in Keys : TheMap[k] # NULL}
    BY <2>2 DEF TheMap
  <2>5. Map!Begin
    BY <2>2, <2>3, <2>4, MapIs
  <2> QED BY <2>1, <2>5 DEF Map!Next
<1>3. CASE trie_loose_iterate
  <2>1. TrieInv' /\ itr'.call = itr.call /\ itr'.rest = itr.rest
    BY <1>3, LooseKeeps
  <2>2. TheMap' = TheMap
    <3>1. UNCHANGED <<nodes, values, stat>>
      BY <1>3 DEF trie_loose_iterate
    <3> QED BY <3>1, LookKeeps, SameMap
  <2>3. UNCHANGED Map!vars
    BY <2>1, <2>2, MapIs
  <2> QED BY <2>1, <2>3
<1>4. ASSUME NEW name \in Calling, Calls(name), TrieInv', NEW e, e = Reached(Head(itr.todo)),
             \/ \A k \in Keys : trie_get(k)' = trie_get(k)
             \/ \A k \in Keys : trie_get(k)' = IF k = stat[e].file THEN NULL ELSE trie_get(k)
      PROVE  Map!Next
  <2>1. /\ itr.call = name /\ itr.call # "none" /\ itr.todo # <<>> /\ e # NULL
        /\ itr' = [itr EXCEPT !.todo = Tail(itr.todo), !.rest = itr.rest \ {stat[e].file}]
    BY <1>4 DEF Calls, Calling
  <2>2. stat[e].file \in Keys /\ stat[e].file \in itr.rest
    BY <1>4, <2>1, CalledWith
  <2>3. itr'.rest = itr.rest \ {stat[e].file} /\ itr'.call = itr.call
    BY <2>1, BusyTyped
  <2>4. TheMap' = TheMap \/ TheMap' = [TheMap EXCEPT ![stat[e].file] = NULL]
    <3>1. CASE \A k \in Keys : trie_get(k)' = trie_get(k)
      BY <3>1, SameMap
    <3>2. CASE \A k \in Keys : trie_get(k)' = IF k = stat[e].file THEN NULL ELSE trie_get(k)
      BY <3>2 DEF TheMap
    <3> QED BY <1>4, <3>1, <3>2
  <2>5. Map!Visit(stat[e].file)
    BY <2>1, <2>2, <2>3, <2>4, MapIs
  <2> QED BY <2>2, <2>5 DEF Map!Next
<1>5. CASE printitr
  <2>1. TrieInv' /\ \A k \in Keys : trie_get(k)' = trie_get(k)
    BY <1>5, PrintKeeps
  <2>2. Calls("printitr") /\ "printitr" \in Calling
    BY <1>5 DEF printitr, Calling
  <2> QED BY <1>4, <2>1, <2>2
<1>6. CASE deregister_itr
  <2>1. PICK e : e = Reached(Head(itr.todo))
    OBVIOUS
  <2>2. /\ TrieInv'
        /\ \/ \A k \in Keys : trie_get(k)' = trie_get(k)
           \/ \A k \in Keys : trie_get(k)' = IF k = stat[e].file THEN NULL ELSE trie_get(k)
    BY <1>6, <2>1, DeregisterKeeps
  <2>3. Calls("deregister_itr") /\ "deregister_itr" \in Calling
    BY <1>6 DEF deregister_itr, Calling
  <2> QED BY <1>4, <2>1, <2>2, <2>3
<1>7. CASE iterate_returns
  <2>1. /\ itr.call # "none" /\ itr.todo = <<>> /\ itr' = Idle /\ UNCHANGED <<nodes, values, stat>>
    BY <1>7 DEF iterate_returns
  <2>2. itr.rest = {}
    <3>1. itr.rest \in SUBSET Keys
      BY <2>1, BusyTyped
    <3>2. Len(itr.todo) = 0
      BY <2>1
    <3>3. \A key \in Keys : ~Some(itr.todo, Path(key))
      BY <3>2 DEF Some
    <3> QED BY <2>1, <3>1, <3>3 DEF TrieInv, Iterating
  <2>3. itr'.call = "none" /\ itr'.rest = {}
    BY <2>1 DEF Idle
  <2>4. TrieInv'
    <3>1. IsTrie(nodes', values') /\ NoDangling' /\ TrieTyped'
      BY <2>1, LookKeeps
    <3>2. Iterating'
      BY <2>3 DEF Iterating
    <3> QED BY <3>1, <3>2 DEF TrieInv
  <2>5. TheMap' = TheMap
    BY <2>1, LookKeeps, SameMap
  <2>6. Map!Done
    BY <2>1, <2>2, <2>3, <2>5, MapIs
  <2> QED BY <2>4, <2>6 DEF Map!Next
<1>8. CASE UNCHANGED vars
  <2>1. UNCHANGED <<nodes, values, stat>> /\ UNCHANGED itr
    BY <1>8 DEF vars
  <2>2. /\ IsTrie(nodes', values') /\ NoDangling'
        /\ \A k \in Keys : trie_get(k)' = trie_get(k)
        /\ \A item : Fits(item)' = Fits(item)
    BY <2>1, LookKeeps
  <2>3. TheMap' = TheMap
    BY <2>2, SameMap
  <2>4. TrieTyped'
    BY <2>1 DEF TrieInv, TrieTyped
  <2>5. Iterating'
    BY <2>1, <2>2 DEF TrieInv, Iterating
  <2>6. UNCHANGED Map!vars
    BY <2>1, <2>3, MapIs
  <2> QED BY <2>2, <2>4, <2>5, <2>6 DEF TrieInv
<1>9. ASSUME trie_iterate_safe("printitr", NULL) \/
             \E owner \in Owners : trie_iterate_safe("deregister_itr", owner)
      PROVE  TrieInv' /\ Map!Next
  BY <1>2, <1>9 DEF Calling
<1> QED BY <1>1, <1>3, <1>5, <1>6, <1>7, <1>8, <1>9 DEF Next

(***************************************************************************)
(* It holds of the empty trie.                                             *)
(***************************************************************************)
LEMMA TrieInit == Init => TrieInv /\ Map!Init
<1> SUFFICES ASSUME Init PROVE TrieInv /\ Map!Init
  OBVIOUS
<1>1. nodes = {} /\ values = <<>> /\ stat = <<>> /\ itr = Idle
  BY DEF Init
<1>2. DOMAIN values = {} /\ DOMAIN stat = {} /\ stat = [x \in {} |-> {}]
  BY <1>1
<1>3. Slots({}) = {}
  BY DEF Slots
<1>4. TrieTyped
  BY <1>1, <1>2 DEF TrieTyped
<1>5. IsTrie(nodes, values) /\ NoDangling
  BY <1>1, <1>2, <1>3 DEF IsTrie, NoDangling, Closed
<1>6. Iterating
  BY <1>1 DEF Iterating, Idle
<1>7. ASSUME NEW k \in Keys PROVE trie_get(k) = NULL
  <2>1. trie_get(k) = IF Path(k) \in DOMAIN values THEN values[Path(k)] ELSE NULL
    BY <1>5, GetIs DEF trie_get
  <2> QED BY <1>2, <2>1
<1>8. Map!Init
  BY <1>1, <1>7 DEF Map!Init, Idle
<1> QED BY <1>4, <1>5, <1>6, <1>8 DEF TrieInv

(***************************************************************************)
(* The invariant of the trie holds throughout.                             *)
(***************************************************************************)
THEOREM TrieConsistent == Spec => []TrieInv
BY TrieInit, TrieStep, PTL DEF Spec

(***************************************************************************)
(* No pointer in the trie dangles: what deregister_itr frees it has        *)
(* cleared, and nothing else, whatever the names.                          *)
(***************************************************************************)
THEOREM NeverDangling == Spec => []NoDangling
<1>1. TrieInv => NoDangling
  BY DEF TrieInv
<1> QED BY <1>1, TrieConsistent, PTL

(***************************************************************************)
(* The trie is a map, and an iteration calls back once for every entry.    *)
(***************************************************************************)
THEOREM TrieIsMap == Spec => ImplementsMap
BY TrieInit, TrieStep, TrieConsistent, PTL DEF Spec, ImplementsMap, Map!Spec
=============================================================================
