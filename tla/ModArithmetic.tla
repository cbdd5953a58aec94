---------------------------- MODULE ModArithmetic ----------------------------
(***************************************************************************)
(* Facts about the remainder, which every ring buffer and every byte-wide  *)
(* counter of the code computes with.                                      *)
(***************************************************************************)
EXTENDS Integers, TLAPS

(***************************************************************************)
(* A remainder is a number below the divisor.                              *)
(***************************************************************************)
LEMMA ModRange ==
  ASSUME NEW C \in Nat \ {0}, NEW a \in Int
  PROVE  a % C \in 0 .. C - 1
  BY SMT

(***************************************************************************)
(* Quotient and remainder make up the number.                              *)
(***************************************************************************)
LEMMA ModDef ==
  ASSUME NEW C \in Nat \ {0}, NEW a \in Int
  PROVE  a \div C \in Int /\ a = (a \div C) * C + (a % C)
  BY SMT

(***************************************************************************)
(* Nothing else is a remainder: the index k + q * C of a ring of C cells   *)
(* is the cell k.                                                          *)
(***************************************************************************)
LEMMA ModUnique ==
  ASSUME NEW C \in Nat \ {0}, NEW a \in Int, NEW q \in Int,
         NEW r \in 0 .. C - 1, a = q * C + r
  PROVE  a % C = r
  BY SMT

(***************************************************************************)
(* An index inside the ring is its own cell.                               *)
(***************************************************************************)
LEMMA ModSmall ==
  ASSUME NEW C \in Nat \ {0}, NEW a \in 0 .. C - 1
  PROVE  a % C = a
  BY SMT

(***************************************************************************)
(* Laps of a ring add up (the provers do not multiply variables).          *)
(***************************************************************************)
LEMMA Distributes ==
  ASSUME NEW a \in Int, NEW b \in Int, NEW C \in Int
  PROVE  (a + b) * C = a * C + b * C
  BY SMT

(***************************************************************************)
(* Reducing before adding makes no difference: _m_head++ and then          *)
(* _m_head %= QUEUE_CAPACITY, step after step, is one reduction at the end.*)
(***************************************************************************)
LEMMA ModAdd ==
  ASSUME NEW C \in Nat \ {0}, NEW a \in Int, NEW b \in Int
  PROVE  ((a % C) + b) % C = (a + b) % C
<1> DEFINE q == a \div C
           x == (a % C) + b
           p == x \div C
           y == x % C
<1>1. q \in Int /\ a = q * C + (a % C)
  BY ModDef
<1>2. (a % C) \in Int
  BY ModRange
<1>3. x \in Int
  BY <1>2
<1>4. p \in Int /\ x = p * C + y
  BY <1>3, ModDef
<1>5. y \in 0 .. C - 1
  BY <1>3, ModRange
<1>6. a + b = q * C + x
  BY <1>1, <1>2, SMT
<1> HIDE DEF q, x, p, y
<1>7. a + b = (q + p) * C + y
  <2>1. (q + p) * C = q * C + p * C
    BY <1>1, <1>4, Distributes
  <2> QED BY <2>1, <1>1, <1>3, <1>4, <1>5, <1>6, SMT
<1>8. (a + b) % C = y
  <2>1. q + p \in Int /\ a + b \in Int
    BY <1>1, <1>4
  <2> QED BY <2>1, <1>5, <1>7, ModUnique
<1> QED BY <1>8 DEF x, y

(***************************************************************************)
(* Two numbers less than C apart with the same remainder are the same: a   *)
(* window of at most C frames never holds two of them in one slot.         *)
(***************************************************************************)
LEMMA ModInjective ==
  ASSUME NEW C \in Nat \ {0}, NEW a \in Int, NEW b \in Int,
         a % C = b % C, a < b + C, b < a + C
  PROVE  a = b
<1> DEFINE qa == a \div C
           qb == b \div C
           ra == a % C
           rb == b % C
<1>1. qa \in Int /\ a = qa * C + ra
  BY ModDef
<1>2. qb \in Int /\ b = qb * C + rb
  BY ModDef
<1>3. ra \in Int /\ rb \in Int /\ ra = rb
  BY ModRange
<1> HIDE DEF qa, qb, ra, rb
<1>4. (qb - qa) * C = b - a
  BY <1>1, <1>2, <1>3, SMT
<1>5. (qb - qa) * C < C /\ -C < (qb - qa) * C
  BY <1>4, SMT
<1>6. ASSUME NEW k \in Int, k * C < C, -C < k * C PROVE k = 0
  BY <1>6, SMT
<1>7. qb - qa = 0
  BY <1>1, <1>2, <1>5, <1>6
<1> QED BY <1>1, <1>2, <1>4, <1>7, SMT
=============================================================================
