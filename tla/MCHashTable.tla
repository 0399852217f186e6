----------------------------- MODULE MCHashTable -----------------------------
(* HashTable on keys that collide, one of them a prefix of another, and on *)
(* one with an accent.                                                     *)
EXTENDS HashTable, TLC

(* "a", "ac" and "d" (97, 196 and 100) share one of three lists, "b" has  *)
(* one of its own, and the sum of "\303\251" (an e with an acute accent, in *)
(* UTF-8) is negative.                                                     *)
Keys == {<<97>>, <<97, 99>>, <<100>>, <<98>>, <<195, 169>>}
ThreeLists == 0..2
Symmetry == Permutations(Node) \cup Permutations(Val)
=============================================================================
