----------------------------- MODULE SortedList -----------------------------
(***************************************************************************)
(* The linked lists of source/list.c on a heap of nodes, each function one *)
(* step: the callers hold the lock of table_skel.c, or are alone.          *)
(* A key is the sequence of its bytes, without the final zero.  The memory *)
(* in use is counted in blocks, one per malloc or strdup.                  *)
(***************************************************************************)
EXTENDS Integers, SequencesExt

CONSTANTS List,               \* the lists that share the heap
          Node,               \* its cells; malloc fails when all are in use
          Key, Val,
          Nil                 \* NULL, as a pointer and as a missing value

Byte == 1..255
ASSUME KeyAssumption == \A k \in Key : k \in Seq(Byte)
Entry == [key : Key, val : Val]
ASSUME NilAssumption == Nil \notin Node \cup Key \cup Val \cup Entry
ASSUME NodeAssumption == IsFiniteSet(Node)

VARIABLES head, size,         \* per list, the two fields of struct list_t
          next, entry,        \* per node, the two fields of struct node_t
          blocks              \* how many blocks of memory are in use

links == <<head, size, next, entry>>
listVars == <<links, blocks>>

-----------------------------------------------------------------------------
(* What the functions of data.c and entry.c make of n blocks in use.       *)
data_dup(n) == n + 2                            \* struct data_t and its bytes
data_destroy(n) == n - 2
entry_create(n) == n + 1
entry_destroyKeepsKey(n) == data_destroy(n) - 1
entry_destroy(n) == data_destroy(n) - 2         \* and the key and the entry

(* strcmp: the difference of the first bytes that differ, as unsigned      *)
(* char; the final zero makes a prefix the smaller string.                 *)
ByteAt(s, i) == IF i <= Len(s) THEN s[i] ELSE 0
Compared(a, b) ==
    LET differ == {i \in 1..(Max({Len(a), Len(b)})) : ByteAt(a, i) # ByteAt(b, i)}
    IN  IF differ = {} THEN 0
        ELSE ByteAt(a, Min(differ)) - ByteAt(b, Min(differ))
strcmp == [a \in Key |-> [b \in Key |-> Compared(a, b)]]

(* The nodes met from a first one on, as many as the heap has at most.     *)
Walk(first, link) ==
    LET at[i \in 1..Cardinality(Node) + 1] ==
            IF i = 1 THEN first
            ELSE IF at[i - 1] = Nil THEN Nil ELSE link[at[i - 1]]
    IN  [i \in 1..Cardinality({j \in 1..Cardinality(Node) : at[j] # Nil}) |-> at[i]]

Nodes(l) == Walk(head[l], next)

KeyOf(n) == entry[n].key

(* Where a loop over the list stops: the first node whose key passes a     *)
(* test, or one past the last.                                             *)
FirstAt(l, Test(_)) ==
    LET nodes == Nodes(l)
    IN  Min({Len(nodes) + 1} \cup {i \in 1..Len(nodes) : Test(KeyOf(nodes[i]))})
NodeAt(l, i) == IF i \in 1..Len(Nodes(l)) THEN Nodes(l)[i] ELSE Nil

HoldsKey(n, k) == n # Nil /\ strcmp[k][KeyOf(n)] = 0

Unused == {n \in Node : entry[n] = Nil}

ListInit(others) ==
    /\ head = [l \in List |-> Nil]
    /\ size = [l \in List |-> 0]
    /\ next = [n \in Node |-> Nil]
    /\ entry = [n \in Node |-> Nil]
    /\ blocks = others + Cardinality(List)

-----------------------------------------------------------------------------
(* list_get, list_size, list_get_keys.                                     *)

list_get(l, k) == NodeAt(l, FirstAt(l, LAMBDA j : strcmp[k][j] = 0))
list_size(l) == size[l]
list_get_keys(l) == [i \in 1..Len(Nodes(l)) |-> KeyOf(Nodes(l)[i])]

(* list_add: the new node goes before the first entry that is not smaller, *)
(* and is given back if that entry has the same key.  rc is what is        *)
(* returned; without a node for malloc it is -1 and nothing changes (the   *)
(* caller destroys the entry, which is among the n blocks in use).         *)
StopsAtSmaller(l, k) == FirstAt(l, LAMBDA j : strcmp[k][j] >= 0)
StopsAt(l, k) == FirstAt(l, LAMBDA j : strcmp[k][j] <= 0)

InsertUnlinked(l, n, anterior, atual) ==
    /\ head' = IF anterior = Nil THEN [head EXCEPT ![l] = n] ELSE head
    /\ next' = IF anterior = Nil THEN next ELSE [next EXCEPT ![anterior] = n]
    /\ size' = [size EXCEPT ![l] = @ + 1]

InsertCountsFirstOnly(l, n, anterior, atual) ==
    /\ head' = IF anterior = Nil THEN [head EXCEPT ![l] = n] ELSE head
    /\ next' = IF anterior = Nil THEN [next EXCEPT ![n] = atual]
               ELSE [next EXCEPT ![n] = atual, ![anterior] = n]
    /\ size' = [size EXCEPT ![l] = IF anterior = Nil /\ atual = Nil THEN 1 ELSE @]

Insert(l, n, anterior, atual) ==
    /\ head' = IF anterior = Nil THEN [head EXCEPT ![l] = n] ELSE head
    /\ next' = IF anterior = Nil THEN [next EXCEPT ![n] = atual]
               ELSE [next EXCEPT ![n] = atual, ![anterior] = n]
    /\ size' = [size EXCEPT ![l] = @ + 1]

list_add(l, k, v, rc, n) ==
    LET i == StopsAt(l, k)
        atual == NodeAt(l, i)
        new == [key |-> k, val |-> v]
    IN  \/ /\ Unused = {}
           /\ rc = -1
           /\ blocks' = entry_destroy(n)
           /\ UNCHANGED links
        \/ /\ Unused # {}
           /\ HoldsKey(atual, k)
           /\ rc = 1
           /\ entry' = [entry EXCEPT ![atual] = new]
           /\ blocks' = entry_destroy(n)
           /\ UNCHANGED <<head, size, next>>
        \/ /\ ~HoldsKey(atual, k)
           /\ rc = 0
           /\ blocks' = n + 1
           /\ \E m \in Unused :
                 /\ Insert(l, m, NodeAt(l, i - 1), atual)
                 /\ entry' = [entry EXCEPT ![m] = new]

(* list_remove.                                                            *)
UnlinkKeepsSize(l, previous, current) ==
    /\ IF previous = Nil
         THEN head' = [head EXCEPT ![l] = next[current]]
                /\ next' = [next EXCEPT ![current] = Nil]
         ELSE next' = [next EXCEPT ![previous] = next[current],
                                   ![current] = Nil]
                /\ UNCHANGED head
    /\ entry' = [entry EXCEPT ![current] = Nil]
    /\ UNCHANGED size

Unlink(l, previous, current) ==
    /\ IF previous = Nil
         THEN head' = [head EXCEPT ![l] = next[current]]
                /\ next' = [next EXCEPT ![current] = Nil]
         ELSE next' = [next EXCEPT ![previous] = next[current],
                                   ![current] = Nil]
                /\ UNCHANGED head
    /\ entry' = [entry EXCEPT ![current] = Nil]
    /\ size' = [size EXCEPT ![l] = @ - 1]

list_remove(l, k, rc) ==
    LET i == FirstAt(l, LAMBDA j : strcmp[j][k] = 0)
        current == NodeAt(l, i)
    IN  IF current = Nil
        THEN rc = 1 /\ UNCHANGED listVars
        ELSE /\ rc = 0
             /\ Unlink(l, NodeAt(l, i - 1), current)
             /\ blocks' = entry_destroy(blocks) - 1

(* list_destroy, when n blocks are in use: entry and node from the head on,*)
(* then the list.                                                          *)
list_destroy(n, l) ==
    FoldLeft(LAMBDA b, node : entry_destroy(b) - 1, n, Nodes(l)) - 1

-----------------------------------------------------------------------------
ListTypeOK ==
    /\ head \in [List -> Node \cup {Nil}]
    /\ size \in [List -> Nat]
    /\ next \in [Node -> Node \cup {Nil}]
    /\ blocks \in Nat
    /\ \A n \in Node : entry[n] # Nil => entry[n] \in Entry

(* The lists share no node, none is circular, each says its true length    *)
(* and every node in use is in one of them, so nothing leaks.              *)
WellLinked ==
    /\ \A l \in List :
          /\ Len(Nodes(l)) = size[l]
          /\ Cardinality(Range(Nodes(l))) = size[l]
          /\ \A m \in List \ {l} : Range(Nodes(l)) \cap Range(Nodes(m)) = {}
    /\ UNION {Range(Nodes(l)) : l \in List} = Node \ Unused

(* Entries are in ascending order of their keys and no key occurs twice    *)
(* (list.h: the smaller entry is towards the head).                        *)
Sorted ==
    \A l \in List : \A i \in 1..(Len(list_get_keys(l)) - 1) :
        strcmp[list_get_keys(l)[i]][list_get_keys(l)[i + 1]] < 0
=============================================================================
