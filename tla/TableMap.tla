------------------------------ MODULE TableMap ------------------------------
(***************************************************************************)
(* What table.h promises: a map from keys to values, and for each function *)
(* what it returns.  HashTable implements this module.                     *)
(***************************************************************************)
EXTENDS Integers, Sequences, FiniteSets

CONSTANTS Key, Val, Nil

VARIABLES map,      \* [Key -> Val \cup {Nil}]
          answer    \* what the last call returned

vars == <<map, answer>>

Present == {k \in Key : map[k] # Nil}

(* Return values have different types; unused fields keep these.           *)
NoAnswer == [rc |-> 0, val |-> Nil, keys |-> << >>]
Code(n) == [NoAnswer EXCEPT !.rc = n]

Init == map = [k \in Key |-> Nil] /\ answer = NoAnswer

Put(k, v) ==
    \/ answer' = Code(0) /\ map' = [map EXCEPT ![k] = v]
    \/ answer' = Code(-1) /\ UNCHANGED map

Remove(k) ==
    /\ answer' = Code(IF map[k] = Nil THEN 1 ELSE 0)
    /\ map' = [map EXCEPT ![k] = Nil]

(* NULL for an error too.                                                  *)
Get(k) ==
    /\ answer' \in {NoAnswer, [NoAnswer EXCEPT !.val = map[k]]}
    /\ UNCHANGED map

Size == answer' = Code(Cardinality(Present)) /\ UNCHANGED map

(* Every key once, in no promised order, or an error.                      *)
GetKeys ==
    /\ \/ \E keys \in [1..Cardinality(Present) -> Present] :
             /\ {keys[i] : i \in DOMAIN keys} = Present
             /\ answer' = [NoAnswer EXCEPT !.keys = keys]
       \/ answer' = Code(-1)
    /\ UNCHANGED map

(* Nothing is promised after that.                                         *)
Destroy == answer' = Code(0) /\ map' = [k \in Key |-> Nil]

Next ==
    \/ \E k \in Key : Remove(k) \/ Get(k) \/ \E v \in Val : Put(k, v)
    \/ Size \/ GetKeys \/ Destroy

Spec == Init /\ [][Next]_vars
=============================================================================
