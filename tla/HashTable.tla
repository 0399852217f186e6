------------------------------ MODULE HashTable ------------------------------
(***************************************************************************)
(* The hash table of source/table.c over the lists of source/list.c.  Each *)
(* function is one step, as the lock of table_skel.c allows.               *)
(***************************************************************************)
EXTENDS SortedList

CONSTANTS NLists,             \* n of table_create(): the lists are 0..NLists-1
          MaxLost             \* bound: no call loses more when so much is lost

ASSUME TableAssumption == NLists \in Nat \ {0} /\ List = 0..(NLists - 1)
ASSUME ValAssumption == Val # {}

VARIABLES answer,             \* what the last call returned
          undefined,          \* has a list outside the array been used?
          destroyed,          \* by table_destroy(), at the end of the server
          lost                \* ghost: blocks that nobody will ever release

vars == <<listVars, answer, undefined, destroyed, lost>>
fate == <<undefined, destroyed, lost>>

NoAnswer == [rc |-> 0, val |-> Nil, keys |-> << >>]
Code(n) == [NoAnswer EXCEPT !.rc = n]

-----------------------------------------------------------------------------
(* hash_code: the sum of the characters, as signed char (x86-64 gcc), and  *)
(* the % of C, which rounds towards zero.                                  *)
char(b) == IF b < 128 THEN b ELSE b - 256
Rem(a, n) == IF a >= 0 THEN a % n ELSE -((-a) % n)
hash_code ==
    [k \in Key |-> Rem(FoldLeft(LAMBDA soma, b : soma + char(b), 0, k), NLists)]

(* table->lists[hash] is in the array.                                     *)
Indexed(k) == hash_code[k] \in List

Lists == [i \in 1..NLists |-> i - 1]

(* table_create: the lists, their array and struct table_t.                *)
Init ==
    /\ ListInit(2)
    /\ answer = NoAnswer
    /\ undefined = FALSE /\ destroyed = FALSE /\ lost = 0

(* table_put, with enough memory or without: data_dup, strdup and          *)
(* entry_create, then list_add, or, on an entry that is there, data_dup    *)
(* and the new data in place of the old.                                   *)
NewEntry(n) == entry_create(data_dup(n) + 1)

table_put(k, v) ==
    LET l == hash_code[k]
        found == list_get(l, k)
    IN  /\ Indexed(k)
        /\ \/ /\ found = Nil
              /\ \E rc \in {-1, 0, 1} :
                    /\ list_add(l, k, v, rc, NewEntry(blocks))
                    /\ answer' = Code(IF rc = -1 THEN -1 ELSE 0)
           \/ /\ found # Nil
              /\ entry' = [entry EXCEPT ![found].val = v]
              /\ blocks' = data_destroy(data_dup(blocks))
              /\ answer' = Code(0)
              /\ UNCHANGED <<head, size, next>>
           \/ answer' = Code(-1) /\ UNCHANGED listVars
        /\ UNCHANGED fate

(* strdup() fails in table_put: free(new_data) leaves the bytes behind.    *)
KeyNotCopied(k) ==
    /\ Indexed(k) /\ list_get(hash_code[k], k) = Nil
    /\ lost < MaxLost
    /\ blocks' = data_dup(blocks) - 1
    /\ lost' = lost + 1
    /\ answer' = Code(-1)
    /\ UNCHANGED <<links, undefined, destroyed>>

(* The caller, invoke(), destroys the copy it gets; data_dup() may have no *)
(* memory for one.                                                         *)
table_get(k) ==
    LET found == list_get(hash_code[k], k)
    IN  /\ Indexed(k)
        /\ \/ /\ found # Nil
              /\ answer' = [NoAnswer EXCEPT !.val = entry[found].val]
              /\ blocks' = data_destroy(data_dup(blocks))
           \/ answer' = NoAnswer /\ UNCHANGED blocks
        /\ UNCHANGED <<links, fate>>

table_remove(k) ==
    /\ Indexed(k)
    /\ \E rc \in {0, 1} :
          list_remove(hash_code[k], k, rc) /\ answer' = Code(rc)
    /\ UNCHANGED fate

table_sizeSkipsLast ==
    /\ answer' = Code(FoldLeft(LAMBDA n, l : n + list_size(l), 0, Front(Lists)))
    /\ UNCHANGED <<listVars, fate>>

table_size ==
    /\ answer' = Code(FoldLeft(LAMBDA n, l : n + list_size(l), 0, Lists))
    /\ UNCHANGED <<listVars, fate>>

(* The keys list by list; list_get_keys returns NULL for an empty list and *)
(* nothing is copied from it.  list_size says how many are copied.  What   *)
(* the keys take is released here and by the caller (table_free_keys).     *)
table_get_keys ==
    /\ answer' = [NoAnswer EXCEPT !.keys = FlattenSeq(
                    [i \in 1..NLists |->
                        SubSeq(list_get_keys(Lists[i]), 1, list_size(Lists[i]))])]
    /\ UNCHANGED <<listVars, fate>>

(* malloc() fails for the copy of a key of list l of which j are copied:   *)
(* NULL, and neither the array and the copies in it nor list_keys with its *)
(* strings are released.                                                   *)
KeysBefore(l) == Cardinality({n \in Node \ Unused : hash_code[KeyOf(n)] < l})

KeysNotCopied(l, j) ==
    LET left == 1 + KeysBefore(l) + j + 1 + list_size(l)
    IN  /\ j < list_size(l)
        /\ lost < MaxLost
        /\ blocks' = blocks + left
        /\ lost' = lost + left
        /\ answer' = Code(-1)
        /\ UNCHANGED <<links, undefined, destroyed>>

(* A negative index reads whatever lies before the array: from then on     *)
(* nothing can be said of the table.                                       *)
UseOutsideArray(k) ==
    /\ ~Indexed(k)
    /\ undefined' = TRUE
    /\ UNCHANGED <<listVars, answer, destroyed, lost>>

(* table_destroy, called once, by ctrlC().                                 *)
table_destroy ==
    /\ blocks' = FoldLeft(list_destroy, blocks, Lists) - 2
    /\ head' = [l \in List |-> Nil] /\ size' = [l \in List |-> 0]
    /\ next' = [n \in Node |-> Nil] /\ entry' = [n \in Node |-> Nil]
    /\ destroyed' = TRUE
    /\ answer' = Code(0)
    /\ UNCHANGED <<undefined, lost>>

Next ==
    /\ ~destroyed
    /\ \/ \E k \in Key :
             \/ \E v \in Val : table_put(k, v)
             \/ KeyNotCopied(k) \/ table_get(k) \/ table_remove(k) \/ UseOutsideArray(k)
       \/ \E l \in List, j \in 0..Cardinality(Node) : KeysNotCopied(l, j)
       \/ table_size \/ table_get_keys \/ table_destroy

Spec == Init /\ [][Next]_vars

-----------------------------------------------------------------------------
(* Every block in use is part of the table, and released with it           *)
(* ("libertando *toda* a memoria utilizada pela tabela", table.c:66),      *)
(* except what two calls leave behind when they run out of memory: a put   *)
(* whose strdup() fails, the listing of keys whose malloc() for one fails. *)
(* Puts that fail elsewhere, in list_add() with a node or without, give    *)
(* back all they took, and nothing is released twice.                      *)
MemoryAccounted ==
    blocks = lost + IF destroyed THEN 0
                    ELSE 2 + NLists + Cardinality(Node \ Unused) * (NewEntry(0) + 1)

(* The table is the map from each key to the value table_get finds: the    *)
(* hash sends a key always to the same list and no list holds another's.   *)
Contents ==
    [k \in Key |->
        LET found == IF Indexed(k) THEN list_get(hash_code[k], k) ELSE Nil
        IN  IF found = Nil THEN Nil ELSE entry[found].val]

Map == INSTANCE TableMap WITH map <- Contents

(* Every call of table.h changes the map and answers as table.h says; the  *)
(* size and the keys, taken from all lists, agree with what is found key   *)
(* by key.                                                                 *)
ImplementsMap == Map!Spec
=============================================================================
