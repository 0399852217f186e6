----------------------------- MODULE MCTableSkel -----------------------------
(* TableSkel on a few threads, keys and values.                            *)
EXTENDS TableSkel, TLC

CONSTANTS k1, k2, v1, v2

Ask(op, k, v) == [op |-> op, key |-> k, val |-> v]

Reads == {Ask("size", NULL, NULL), Ask("get", k1, NULL),
          Ask("getkeys", NULL, NULL), Ask("gettable", NULL, NULL)}

(* Two puts that collide, one under another key, a removal, a put without  *)
(* a value, an opcode without a case.                                      *)
AllRequests ==
    Reads \cup
    {Ask("stats", NULL, NULL), Ask("put", k1, v1), Ask("put", k1, v2),
     Ask("put", k2, v1), Ask("del", k1, NULL), Ask("put", k2, NULL),
     Ask("unknown", NULL, NULL)}

(* Requests none of which leaves the lock held on a table that is never    *)
(* empty.                                                                  *)
CleanRequests ==
    {Ask("get", k1, NULL), Ask("gettable", NULL, NULL),
     Ask("put", k1, v2), Ask("del", k2, NULL)}

NoTable == {[k \in Key |-> NULL]}
OneKey == {[k \in Key |-> IF k = k1 THEN v1 ELSE NULL]}
TwoKeys == {[k \in Key |-> v1]}

ThreadSymmetry == Permutations(Thread)
=============================================================================
