------------------------------ MODULE MCChain -------------------------------
(* Chains of up to three servers.                                          *)
EXTENDS Chain, TLC

Symmetry == Permutations(Server) \cup Permutations(Key)
=============================================================================
