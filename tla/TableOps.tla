------------------------------ MODULE TableOps ------------------------------
(***************************************************************************)
(* Tables as mathematical functions, messages, and what each operation of  *)
(* the service does to the one and answers with the other.                 *)
(*                                                                         *)
(* A message is the same MessageT for the request and for its answer       *)
(* (invoke() writes the result into the request), so an answer is the      *)
(* request with some fields changed.  st is "req" until opcode becomes     *)
(* opcode + 1 ("ok") or OP_ERROR ("error").                                *)
(***************************************************************************)
EXTENDS Integers, FiniteSets

CONSTANTS Key, Val,
          NULL                \* no entry under a key, no value in a message

Store == [Key -> Val \cup {NULL}]
Keys(s) == {k \in Key : s[k] # NULL}

NoEntries == [k \in {} |-> NULL]
NoMsg == [op |-> "none", key |-> NULL, val |-> NULL, st |-> "req",
          n |-> 0, keys |-> {}, entries |-> NoEntries]

(* A request as network_receive() unpacks it.                              *)
Unpacked(r) == [NoMsg EXCEPT !.op = r.op, !.key = r.key, !.val = r.val]

(* The table after a write, and after anything else.                       *)
Effect(s, m) ==
    CASE m.op = "put" /\ m.val # NULL -> [s EXCEPT ![m.key] = m.val]
      [] m.op = "del"                 -> [s EXCEPT ![m.key] = NULL]
      [] OTHER                        -> s

(* The answer to m on table s.  The statistics are not promised anything.  *)
Answer(s, m) ==
    CASE m.op = "put"      -> [m EXCEPT !.st = "ok"]
      [] m.op = "del"      ->
            [m EXCEPT !.st = IF s[m.key] = NULL THEN "error" ELSE "ok"]
      [] m.op = "get"      ->
            [m EXCEPT !.st = IF s[m.key] = NULL THEN "error" ELSE "ok",
                      !.val = s[m.key]]
      [] m.op = "size"     -> [m EXCEPT !.st = "ok", !.n = Cardinality(Keys(s))]
      [] m.op = "getkeys"  -> [m EXCEPT !.st = "ok", !.n = Cardinality(Keys(s)),
                                        !.keys = Keys(s)]
      [] m.op = "gettable" -> [m EXCEPT !.st = "ok", !.n = Cardinality(Keys(s)),
                                        !.keys = Keys(s),
                                        !.entries = [k \in Keys(s) |-> s[k]]]
      [] OTHER             -> [m EXCEPT !.st = "ok"]

(* The opcodes invoke() has a case for.                                    *)
ReaderOps == {"stats", "size", "get", "getkeys", "gettable"}
WriterOps == {"del", "put"}
OpCodes == ReaderOps \cup WriterOps \cup {"none", "unknown"}
=============================================================================
