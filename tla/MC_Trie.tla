------------------------------- MODULE MC_Trie -------------------------------
(***************************************************************************)
(* Digits of base 4: keys that share a character, one that extends         *)
(* another, two that differ in one digit only, one that is not ASCII.      *)
(***************************************************************************)
EXTENDS Trie, TLC

MCKeys == {<<5>>, <<5, 6>>, <<5, 2>>, <<9>>, <<9, 6>>}
Symmetry == Permutations(Elements)
=============================================================================
