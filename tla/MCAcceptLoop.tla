---------------------------- MODULE MCAcceptLoop ----------------------------
(* Three clients, numbers from 4 on (3 is the listening socket).           *)
EXTENDS AcceptLoop, TLC

TwoFds == 4 .. 5
ThreeFds == 4 .. 6
Symmetry == Permutations(Conn) \cup Permutations(Thread)
=============================================================================
