----------------------------- MODULE MCFraming ------------------------------
(* Two requests of different lengths.                                      *)
EXTENDS Framing

(* Bytes of four values: a short from -8 to 7.  The bodies hold bytes that *)
(* are like a length, and one is the longest that a short can tell.        *)
SmallPacked == {<<0, 3, 1>>, <<0, 2, 0, 3, 1, 3, 2>>}

(* A put and a delete as they begin in fact: field 1, opcode 10 or 30.     *)
PutAndDel == {<<8, 10, 16>>, <<8, 30, 16, 20>>}
=============================================================================
