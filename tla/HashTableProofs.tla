-------------------------- MODULE HashTableProofs --------------------------
(***************************************************************************)
(* The lists stay linked and in order, no block of memory is lost, and the *)
(* table is the map that table.h promises; for any number of lists, nodes, *)
(* keys and values.                                                        *)
(***************************************************************************)
EXTENDS HashTable, NatMinimum, FiniteSetTheorems, SequenceTheorems

-----------------------------------------------------------------------------
(* Walks.                                                                  *)

Cells == Cardinality(Node)

LEMMA CellsNat == Cells \in Nat
  BY NodeAssumption, FS_CardinalityType DEF Cells

(* A sequence of nodes without repetition, the first of which is first and *)
(* each of which leads to the next.                                        *)
Threaded(s, first, link) ==
    /\ s \in Seq(Node)
    /\ \A i, j \in 1 .. Len(s) : s[i] = s[j] => i = j
    /\ first = IF Len(s) = 0 THEN Nil ELSE s[1]
    /\ \A i \in 1 .. Len(s) : link[s[i]] = IF i = Len(s) THEN Nil ELSE s[i + 1]

LEMMA ThreadedFits ==
    ASSUME NEW s \in Seq(Node), \A i, j \in 1 .. Len(s) : s[i] = s[j] => i = j
    PROVE  Len(s) \in Nat /\ Len(s) <= Cells
<1>1. Len(s) \in Nat /\ s \in [1 .. Len(s) -> Node]
  BY LenProperties
<1>2. s \in Injection(1 .. Len(s), Node)
  <2>1. \A i, j \in 1 .. Len(s) : s[i] = s[j] => i = j
    OBVIOUS
  <2>2. DOMAIN s = 1 .. Len(s)
    BY <1>1
  <2>. QED  BY <1>1, <2>1, <2>2, Zenon DEF Injection, IsInjective
<1>3. Cardinality(1 .. Len(s)) <= Cardinality(Node)
  BY <1>2, NodeAssumption, FS_Injection, Zenon
<1>4. Cardinality(1 .. Len(s)) = Len(s)
  BY <1>1, FS_Interval
<1>. QED  BY <1>1, <1>3, <1>4 DEF Cells

(* The loop of the recursive function in Walk().                           *)
Step(f, first, link) ==
    [i \in 1 .. Cells + 1 |-> IF i = 1 THEN first
                              ELSE IF f[i - 1] = Nil THEN Nil ELSE link[f[i - 1]]]
At(first, link) == CHOOSE f : f = Step(f, first, link)

LEMMA WalkUsesAt ==
    ASSUME NEW first, NEW link
    PROVE  Walk(first, link) =
              [i \in 1 .. Cardinality({j \in 1 .. Cells : At(first, link)[j] # Nil}) |->
                  At(first, link)[i]]
  BY DEF Walk, At, Step, Cells

(* What the loop sees of a threaded sequence.                              *)
Padded(s) == [i \in 1 .. Cells + 1 |-> IF i <= Len(s) THEN s[i] ELSE Nil]

LEMMA AtIsPadded ==
    ASSUME NEW s, NEW first, NEW link, Threaded(s, first, link)
    PROVE  At(first, link) = Padded(s)
<1> DEFINE w == Padded(s)
<1>1. /\ s \in Seq(Node) /\ Len(s) \in Nat /\ Len(s) <= Cells /\ Cells \in Nat
  BY CellsNat, ThreadedFits DEF Threaded
<1>2. \A i \in 1 .. Len(s) : s[i] \in Node /\ s[i] # Nil
  <2>1. \A i \in 1 .. Len(s) : s[i] \in Node
    BY <1>1
  <2>. QED  BY <2>1, NilAssumption
<1>3. first = IF Len(s) = 0 THEN Nil ELSE s[1]
  BY DEF Threaded
<1>4. \A i \in 1 .. Len(s) : link[s[i]] = IF i = Len(s) THEN Nil ELSE s[i + 1]
  BY DEF Threaded
<1>5. ASSUME NEW i \in 1 .. Cells + 1
      PROVE  w[i] = IF i = 1 THEN first
                    ELSE IF w[i - 1] = Nil THEN Nil ELSE link[w[i - 1]]
  <2> DEFINE n == Len(s)
  <2>1. n \in Nat /\ n <= Cells
    BY <1>1
  <2>2. /\ w[i] = IF i <= n THEN s[i] ELSE Nil
        /\ i # 1 => w[i - 1] = IF i - 1 <= n THEN s[i - 1] ELSE Nil
    <3> HIDE DEF n
    <3>1. i # 1 => i - 1 \in 1 .. Cells + 1
      BY <1>1
    <3>. QED  BY <3>1, Zenon DEF Padded, n
  <2>3. CASE i = 1
    <3>1. n = 0 <=> ~(1 <= n)
      <4> HIDE DEF n
      <4>. QED  BY <2>1
    <3>. QED  BY <1>3, <2>2, <2>3, <3>1, Zenon
  <2>4. CASE i # 1 /\ i - 1 <= n
    <3>1. /\ i - 1 \in 1 .. n /\ (i - 1) + 1 = i
          /\ i - 1 = n <=> ~(i <= n)
      <4> HIDE DEF n
      <4>. QED  BY <1>1, <2>1, <2>4
    <3>2. w[i - 1] = s[i - 1] /\ s[i - 1] # Nil
      BY <1>2, <2>2, <2>4, <3>1, Zenon
    <3>3. link[s[i - 1]] = IF i - 1 = n THEN Nil ELSE s[i]
      BY <1>4, <3>1, Zenon
    <3>. QED  BY <2>2, <2>4, <3>1, <3>2, <3>3, Zenon
  <2>5. CASE i # 1 /\ ~(i - 1 <= n)
    <3>1. ~(i <= n)
      <4> HIDE DEF n
      <4>. QED  BY <1>1, <2>1, <2>5
    <3>. QED  BY <2>2, <2>5, <3>1, Zenon
  <2>. QED  BY <2>3, <2>4, <2>5
<1>6. w = Step(w, first, link)
  BY <1>5 DEF Step, Padded
<1>7. ASSUME NEW f, f = Step(f, first, link)
      PROVE  f = w
  <2> DEFINE S == {n \in Nat : n + 1 \in 1 .. Cells + 1 => f[n + 1] = w[n + 1]}
  <2>0. \A i \in 1 .. Cells + 1 :
            f[i] = IF i = 1 THEN first
                   ELSE IF f[i - 1] = Nil THEN Nil ELSE link[f[i - 1]]
    BY <1>7 DEF Step
  <2>1. 0 \in S
    <3>1. 1 \in 1 .. Cells + 1
      BY <1>1
    <3>. QED  BY <1>5, <2>0, <3>1
  <2>2. ASSUME NEW n \in S PROVE n + 1 \in S
    <3>1. SUFFICES ASSUME n + 2 \in 1 .. Cells + 1 PROVE f[n + 2] = w[n + 2]
      BY <2>2
    <3>2. n + 1 \in 1 .. Cells + 1 /\ (n + 2) - 1 = n + 1 /\ n + 2 # 1
      BY <1>1, <3>1
    <3>3. f[(n + 2) - 1] = w[(n + 2) - 1]
      BY <3>2
    <3>4. /\ f[n + 2] = IF f[(n + 2) - 1] = Nil THEN Nil ELSE link[f[(n + 2) - 1]]
          /\ w[n + 2] = IF w[(n + 2) - 1] = Nil THEN Nil ELSE link[w[(n + 2) - 1]]
      <4> HIDE DEF w
      <4>. QED  BY <1>5, <2>0, <3>1, <3>2, Zenon
    <3> HIDE DEF w
    <3>. QED  BY <3>3, <3>4, Zenon
  <2> HIDE DEF S
  <2>3. S = Nat
    BY <2>1, <2>2, AllNat, Zenon DEF S
  <2>4. \A i \in 1 .. Cells + 1 : i - 1 \in Nat /\ (i - 1) + 1 = i
    BY <1>1
  <2>5. \A i \in 1 .. Cells + 1 : f[i] = w[i]
    BY <2>3, <2>4, Zenon DEF S
  <2>. QED  BY <1>7, <2>5 DEF Step, Padded
<1> HIDE DEF w
<1>8. At(first, link) = Step(At(first, link), first, link)
  BY <1>6, Zenon DEF At
<1>. QED  BY <1>7, <1>8, Zenon DEF w

(* So a list that is threaded is what Walk() makes of it.                  *)
LEMMA WalkIs ==
    ASSUME NEW s, NEW first, NEW link, Threaded(s, first, link)
    PROVE  Walk(first, link) = s
<1> DEFINE n == Len(s)
<1>1. s \in Seq(Node) /\ n \in Nat /\ n <= Cells /\ Cells \in Nat
  BY CellsNat, ThreadedFits DEF Threaded
<1>2. \A i \in 1 .. n : s[i] # Nil
  <2>1. \A i \in 1 .. Len(s) : s[i] \in Node
    BY <1>1
  <2>. QED  BY <2>1, NilAssumption
<1>3. At(first, link) = Padded(s)
  BY AtIsPadded
<1> HIDE DEF n
<1>4. {j \in 1 .. Cells : Padded(s)[j] # Nil} = 1 .. n
  <2>1. ASSUME NEW j \in 1 .. Cells PROVE Padded(s)[j] = IF j <= n THEN s[j] ELSE Nil
    BY <1>1 DEF Padded, n
  <2>2. \A j : j \in 1 .. Cells /\ j <= n <=> j \in 1 .. n
    BY <1>1
  <2>. QED  BY <1>2, <2>1, <2>2
<1>5. Cardinality(1 .. n) = n
  BY <1>1, FS_Interval
<1>6. \A i \in 1 .. n : Padded(s)[i] = s[i]
  BY <1>1 DEF Padded, n
<1>7. Walk(first, link) = [i \in 1 .. n |-> Padded(s)[i]]
  BY <1>3, <1>4, <1>5, WalkUsesAt, Zenon
<1>8. s = [i \in 1 .. n |-> s[i]]
  BY <1>1 DEF n
<1>. QED  BY <1>6, <1>7, <1>8

-----------------------------------------------------------------------------
(* strcmp() orders the keys.                                               *)

LEMMA MinOf ==
    ASSUME NEW S \in SUBSET Nat, S # {}
    PROVE  Min(S) \in S /\ \A n \in S : Min(S) <= n
<1>1. \E n \in S : \A m \in S : n <= m
  BY LeastNat, Zenon
<1>. QED  BY <1>1, Zenon DEF Min

Differ(a, b) == {i \in 1 .. (Max({Len(a), Len(b)})) : ByteAt(a, i) # ByteAt(b, i)}

LEMMA Bytes ==
    ASSUME NEW a \in Key
    PROVE  /\ Len(a) \in Nat /\ a \in Seq(Byte)
           /\ \A i \in Nat : ByteAt(a, i + 1) \in 0 .. 255
           /\ \A i \in 1 .. Len(a) : ByteAt(a, i) = a[i] /\ a[i] \in 1 .. 255
           /\ \A i \in Nat : i > Len(a) => ByteAt(a, i) = 0
<1>1. a \in Seq(Byte)
  BY KeyAssumption
<1> DEFINE n == Len(a)
<1>2. n \in Nat
  BY <1>1
<1>3. \A i \in 1 .. n : a[i] \in Byte
  BY <1>1
<1> HIDE DEF n
<1>4. \A i \in 1 .. n : ByteAt(a, i) = a[i] /\ a[i] \in 1 .. 255
  BY <1>2, <1>3 DEF ByteAt, Byte, n
<1>5. \A i \in Nat : i > n => ByteAt(a, i) = 0
  BY <1>2 DEF ByteAt, n
<1>6. \A i \in Nat : ByteAt(a, i + 1) \in 0 .. 255
  <2>1. ASSUME NEW i \in Nat PROVE ByteAt(a, i + 1) \in 0 .. 255
    <3>1. CASE i + 1 \in 1 .. n
      BY <1>4, <3>1
    <3>2. CASE i + 1 \notin 1 .. n
      BY <1>2, <1>5, <3>2
    <3>. QED  BY <3>1, <3>2
  <2>. QED  BY <2>1
<1>. QED  BY <1>1, <1>2, <1>4, <1>5, <1>6 DEF n

LEMMA LongerOf ==
    ASSUME NEW a \in Key, NEW b \in Key
    PROVE  /\ Max({Len(a), Len(b)}) \in Nat
           /\ Max({Len(a), Len(b)}) >= Len(a) /\ Max({Len(a), Len(b)}) >= Len(b)
<1>1. Len(a) \in Nat /\ Len(b) \in Nat
  BY Bytes
<1>2. \E m \in {Len(a), Len(b)} : \A n \in {Len(a), Len(b)} : m >= n
  BY <1>1
<1>3. /\ Max({Len(a), Len(b)}) \in {Len(a), Len(b)}
      /\ \A n \in {Len(a), Len(b)} : Max({Len(a), Len(b)}) >= n
  BY <1>2, Zenon DEF Max
<1>. QED  BY <1>1, <1>3

(* a is smaller: at the first byte where they differ it has the lower one. *)
Lower(a, b) ==
    \E i \in Nat \ {0} : /\ ByteAt(a, i) < ByteAt(b, i)
                         /\ \A j \in 1 .. i - 1 : ByteAt(a, j) = ByteAt(b, j)

LEMMA StrcmpCompares ==
    ASSUME NEW a \in Key, NEW b \in Key
    PROVE  strcmp[a][b] = IF Differ(a, b) = {} THEN 0
                          ELSE ByteAt(a, Min(Differ(a, b))) - ByteAt(b, Min(Differ(a, b)))
<1>1. strcmp[a][b] = Compared(a, b)
  BY DEF strcmp
<1>. QED  BY <1>1, Zenon DEF Compared, Differ

LEMMA CompareKeys ==
    ASSUME NEW a \in Key, NEW b \in Key
    PROVE  /\ strcmp[a][b] \in Int
           /\ strcmp[a][b] = 0 <=> a = b
           /\ strcmp[a][b] < 0 <=> Lower(a, b)
           /\ strcmp[a][b] > 0 <=> Lower(b, a)
<1> DEFINE longer == Max({Len(a), Len(b)})
           d == Differ(a, b)
           i == Min(d)
<1>1. strcmp[a][b] = IF d = {} THEN 0 ELSE ByteAt(a, i) - ByteAt(b, i)
  BY StrcmpCompares, Zenon
<1>2. longer \in Nat /\ longer >= Len(a) /\ longer >= Len(b)
  BY LongerOf
<1>3. d \in SUBSET Nat /\ \A j \in d : j >= 1
  BY <1>2 DEF Differ
<1>4. \A j \in Nat \ {0} : ByteAt(a, j) # ByteAt(b, j) => j \in d
  <2>1. \A j \in Nat \ {0} : j > longer => ByteAt(a, j) = 0 /\ ByteAt(b, j) = 0
    <3>1. Len(a) \in Nat /\ Len(b) \in Nat
      BY Bytes
    <3>2. \A j \in Nat : j > longer => j > Len(a) /\ j > Len(b)
      <4> HIDE DEF longer
      <4>. QED  BY <1>2, <3>1
    <3>. QED  BY <3>2, Bytes, Zenon
  <2>2. d = {j \in 1 .. longer : ByteAt(a, j) # ByteAt(b, j)}
    BY DEF Differ
  <2> HIDE DEF d, longer
  <2>. QED  BY <1>2, <2>1, <2>2
<1>5. \A j \in d : ByteAt(a, j) # ByteAt(b, j)
  BY DEF Differ
<1>6. \A j \in Nat \ {0} : ByteAt(a, j) \in Int /\ ByteAt(b, j) \in Int
  <2>1. \A j \in Nat \ {0} : j - 1 \in Nat /\ (j - 1) + 1 = j
    OBVIOUS
  <2>2. \A j \in Nat : ByteAt(a, j + 1) \in 0 .. 255 /\ ByteAt(b, j + 1) \in 0 .. 255
    BY Bytes
  <2>. QED  BY <2>1, <2>2
<1>7. CASE d = {}
  <2>1. \A j \in Nat \ {0} : ByteAt(a, j) = ByteAt(b, j)
    BY <1>4, <1>7
  <2>2. a = b
    <3>1. /\ a \in Seq(Byte) /\ b \in Seq(Byte) /\ Len(a) \in Nat /\ Len(b) \in Nat
      BY Bytes
    <3>2. ASSUME NEW s \in Key, NEW t \in Key, Len(s) < Len(t),
                 \A j \in Nat \ {0} : ByteAt(s, j) = ByteAt(t, j)
          PROVE  FALSE
      <4>1. Len(s) \in Nat /\ Len(t) \in Nat
        BY Bytes
      <4>2. Len(s) + 1 \in 1 .. Len(t) /\ Len(s) + 1 \in Nat \ {0} /\ Len(s) + 1 > Len(s)
        BY <3>2, <4>1
      <4>3. ByteAt(s, Len(s) + 1) = 0 /\ ByteAt(t, Len(s) + 1) \in 1 .. 255
        <5>1. /\ \A j \in Nat : j > Len(s) => ByteAt(s, j) = 0
              /\ \A j \in 1 .. Len(t) : ByteAt(t, j) = t[j] /\ t[j] \in 1 .. 255
          BY Bytes, Zenon
        <5>. QED  BY <4>2, <5>1, Zenon
      <4>4. ByteAt(s, Len(s) + 1) = ByteAt(t, Len(s) + 1)
        BY <3>2, <4>2, Zenon
      <4>5. \A x : ~(x = 0 /\ x \in 1 .. 255)
        OBVIOUS
      <4>. QED  BY <4>3, <4>4, <4>5, Zenon
    <3>3. Len(a) = Len(b)
      <4>1. ~(Len(a) < Len(b)) /\ ~(Len(b) < Len(a))
        BY <2>1, <3>2
      <4>. QED  BY <3>1, <4>1
    <3>4. \A j \in 1 .. Len(a) : a[j] = b[j]
      <4>1. \A j \in 1 .. Len(a) : j \in Nat \ {0} /\ j \in 1 .. Len(b)
        BY <3>1, <3>3
      <4>. QED  BY <2>1, <4>1, Bytes
    <3>. QED  BY <3>1, <3>3, <3>4, SeqEqual
  <2>3. ~Lower(a, b) /\ ~Lower(b, a)
    <3>1. \A j \in Nat \ {0} : /\ ~(ByteAt(a, j) < ByteAt(b, j))
                               /\ ~(ByteAt(b, j) < ByteAt(a, j))
      <4>1. \A x \in Int : ~(x < x)
        OBVIOUS
      <4>. QED  BY <1>6, <2>1, <4>1, Zenon
    <3>. QED  BY <3>1, Zenon DEF Lower
  <2>4. strcmp[a][b] = 0
    BY <1>1, <1>7, Zenon
  <2>5. 0 \in Int /\ ~(0 < 0) /\ ~(0 > 0)
    OBVIOUS
  <2>. QED  BY <2>2, <2>3, <2>4, <2>5, Zenon
<1>8. CASE d # {}
  <2>1. i \in d /\ \A j \in d : i <= j
    BY <1>3, <1>8, MinOf
  <2>2. /\ i \in Nat \ {0} /\ ByteAt(a, i) # ByteAt(b, i)
        /\ ByteAt(a, i) \in Int /\ ByteAt(b, i) \in Int
    BY <1>3, <1>5, <1>6, <2>1
  <2>3. strcmp[a][b] = ByteAt(a, i) - ByteAt(b, i)
    BY <1>1, <1>8
  <2> HIDE DEF i, d
  <2>4. \A j \in 1 .. i - 1 : ByteAt(a, j) = ByteAt(b, j)
    <3>1. \A j \in 1 .. i - 1 : j \in Nat \ {0} /\ ~(i <= j)
      BY <2>2
    <3>. QED  BY <1>4, <2>1, <3>1
  <2>5. ASSUME NEW s, NEW t, ByteAt(s, i) # ByteAt(t, i),
               ByteAt(s, i) \in Int, ByteAt(t, i) \in Int,
               \A j \in 1 .. i - 1 : ByteAt(s, j) = ByteAt(t, j),
               \A j \in Nat \ {0} : ByteAt(s, j) \in Int /\ ByteAt(t, j) \in Int
        PROVE  Lower(s, t) <=> ByteAt(s, i) < ByteAt(t, i)
    <3>1. ByteAt(s, i) < ByteAt(t, i) => Lower(s, t)
      BY <2>2, <2>5 DEF Lower
    <3>2. ASSUME NEW j \in Nat \ {0}, ByteAt(s, j) < ByteAt(t, j),
                 \A k \in 1 .. j - 1 : ByteAt(s, k) = ByteAt(t, k)
          PROVE  j = i
      <4>1. ~(i \in 1 .. j - 1)
        BY <2>5, <3>2
      <4>2. ~(j \in 1 .. i - 1)
        BY <2>5, <3>2
      <4>. QED  BY <2>2, <3>2, <4>1, <4>2
    <3>3. Lower(s, t) => ByteAt(s, i) < ByteAt(t, i)
      BY <3>2, Zenon DEF Lower
    <3>. QED  BY <3>1, <3>3
  <2>6. Lower(a, b) <=> ByteAt(a, i) < ByteAt(b, i)
    BY <1>6, <2>2, <2>4, <2>5
  <2>7. Lower(b, a) <=> ByteAt(b, i) < ByteAt(a, i)
    BY <1>6, <2>2, <2>4, <2>5
  <2>8. a # b
    BY <2>2
  <2>9. /\ ByteAt(a, i) - ByteAt(b, i) \in Int
        /\ ByteAt(a, i) - ByteAt(b, i) # 0
        /\ ByteAt(a, i) - ByteAt(b, i) < 0 <=> ByteAt(a, i) < ByteAt(b, i)
        /\ ByteAt(a, i) - ByteAt(b, i) > 0 <=> ByteAt(b, i) < ByteAt(a, i)
    BY <2>2
  <2>. QED  BY <2>3, <2>6, <2>7, <2>8, <2>9, Zenon
<1>. QED  BY <1>7, <1>8

LEMMA LowerTransitive ==
    ASSUME NEW a \in Key, NEW b \in Key, NEW c \in Key, Lower(a, b), Lower(b, c)
    PROVE  Lower(a, c)
<1>1. PICK i \in Nat \ {0} : /\ ByteAt(a, i) < ByteAt(b, i)
                             /\ \A j \in 1 .. i - 1 : ByteAt(a, j) = ByteAt(b, j)
  BY DEF Lower
<1>2. PICK k \in Nat \ {0} : /\ ByteAt(b, k) < ByteAt(c, k)
                             /\ \A j \in 1 .. k - 1 : ByteAt(b, j) = ByteAt(c, j)
  BY DEF Lower
<1>3. \A s \in Key : \A j \in Nat \ {0} : ByteAt(s, j) \in Int
  <2>1. ASSUME NEW s \in Key, NEW j \in Nat \ {0} PROVE ByteAt(s, j) \in Int
    <3>1. j - 1 \in Nat /\ (j - 1) + 1 = j
      OBVIOUS
    <3>2. ByteAt(s, (j - 1) + 1) \in 0 .. 255
      BY <3>1, Bytes
    <3>. QED  BY <3>1, <3>2
  <2>. QED  BY <2>1
<1>4. CASE i <= k
  <2>1. \A j \in 1 .. i - 1 : ByteAt(a, j) = ByteAt(b, j) /\ ByteAt(b, j) = ByteAt(c, j)
    BY <1>1, <1>2, <1>4
  <2>2. ByteAt(b, i) <= ByteAt(c, i)
    <3>1. i = k \/ i \in 1 .. k - 1
      BY <1>4
    <3>. QED  BY <1>2, <1>3, <3>1
  <2>3. ByteAt(a, i) < ByteAt(c, i)
    BY <1>1, <1>3, <2>2
  <2>4. \A j \in 1 .. i - 1 : ByteAt(a, j) = ByteAt(c, j)
    BY <2>1
  <2>. QED  BY <2>3, <2>4, Zenon DEF Lower
<1>5. CASE k < i
  <2>1. \A j \in 1 .. k - 1 : ByteAt(a, j) = ByteAt(b, j) /\ ByteAt(b, j) = ByteAt(c, j)
    BY <1>1, <1>2, <1>5
  <2>2. k \in 1 .. i - 1
    BY <1>5
  <2>3. ByteAt(a, k) < ByteAt(c, k)
    BY <1>1, <1>2, <2>2
  <2>4. \A j \in 1 .. k - 1 : ByteAt(a, j) = ByteAt(c, j)
    BY <2>1
  <2>. QED  BY <2>3, <2>4, Zenon DEF Lower
<1>. QED  BY <1>4, <1>5

(* What the proofs use of it.                                              *)
LEMMA KeyOrder ==
    /\ \A a, b \in Key : strcmp[a][b] \in Int
    /\ \A a, b \in Key : strcmp[a][b] = 0 <=> a = b
    /\ \A a, b \in Key : strcmp[a][b] < 0 <=> strcmp[b][a] > 0
    /\ \A a, b, c \in Key : strcmp[a][b] < 0 /\ strcmp[b][c] < 0 => strcmp[a][c] < 0
<1>1. \A a, b \in Key : /\ strcmp[a][b] \in Int
                        /\ strcmp[a][b] = 0 <=> a = b
                        /\ strcmp[a][b] < 0 <=> Lower(a, b)
                        /\ strcmp[a][b] > 0 <=> Lower(b, a)
  BY CompareKeys, Zenon
<1>2. \A a, b, c \in Key : Lower(a, b) /\ Lower(b, c) => Lower(a, c)
  BY LowerTransitive, Zenon
<1>. QED  BY <1>1, <1>2, Zenon

-----------------------------------------------------------------------------
(* What the lists hold: S[l] is the sequence of nodes of list l.           *)

HeapTypes ==
    /\ head \in [List -> Node \cup {Nil}]
    /\ size \in [List -> Nat]
    /\ next \in [Node -> Node \cup {Nil}]
    /\ entry \in [Node -> Entry \cup {Nil}]

(* Each list is threaded and says its length.                              *)
Linked(S) ==
    \A l \in List : Threaded(S[l], head[l], next) /\ size[l] = Len(S[l])

In(s, n) == \E i \in 1 .. Len(s) : s[i] = n

(* No two lists share a node, and the nodes in use are those in a list.    *)
Apart(S) ==
    \A l, m \in List : \A n \in Node : In(S[l], n) /\ In(S[m], n) => l = m
Covered(S) ==
    \A n \in Node : entry[n] # Nil <=> \E l \in List : In(S[l], n)

Ascending(S) ==
    \A l \in List : \A i \in 1 .. Len(S[l]) - 1 :
        strcmp[KeyOf(S[l][i])][KeyOf(S[l][i + 1])] < 0

(* The hash of a key is the list it is in.                                 *)
Homed(S) ==
    \A l \in List : \A n \in Node : In(S[l], n) => hash_code[KeyOf(n)] = l

Chains(S) == Linked(S) /\ Apart(S) /\ Covered(S) /\ Ascending(S) /\ Homed(S)

Layout == HeapTypes /\ \E S \in [List -> Seq(Node)] : Chains(S)

LEMMA NodesAre ==
    ASSUME NEW S \in [List -> Seq(Node)], Linked(S), NEW l \in List
    PROVE  Nodes(l) = S[l] /\ Len(S[l]) \in Nat
<1>1. Threaded(S[l], head[l], next)
  BY DEF Linked
<1>2. Nodes(l) = S[l]
  BY <1>1, WalkIs, Zenon DEF Nodes
<1>3. S[l] \in Seq(Node)
  OBVIOUS
<1>. QED  BY <1>2, <1>3, LenProperties

(* A node that is in a list is in use and has a key.                       *)
LEMMA HasEntry ==
    ASSUME HeapTypes, NEW S \in [List -> Seq(Node)], Chains(S),
           NEW l \in List, NEW i \in 1 .. Len(S[l])
    PROVE  /\ S[l][i] \in Node /\ S[l][i] # Nil
           /\ entry[S[l][i]] # Nil /\ entry[S[l][i]] \in Entry
           /\ KeyOf(S[l][i]) \in Key
<1>1. S[l][i] \in Node
  <2>1. S[l] \in Seq(Node)
    OBVIOUS
  <2>. QED  BY <2>1
<1>2. S[l][i] # Nil
  BY <1>1, NilAssumption
<1>3. entry[S[l][i]] # Nil
  BY <1>1, Zenon DEF Chains, Covered, In
<1>4. entry[S[l][i]] \in Entry
  BY <1>1, <1>3 DEF HeapTypes
<1>. QED  BY <1>1, <1>2, <1>3, <1>4 DEF KeyOf, Entry

LEMMA FirstIn ==
    ASSUME NEW n \in Nat, NEW T \in SUBSET (1 .. n)
    PROVE  LET i == Min({n + 1} \cup T)
           IN  /\ i \in 1 .. n + 1
               /\ i \in 1 .. n => i \in T
               /\ \A j \in 1 .. i - 1 : j \notin T
<1> DEFINE U == {n + 1} \cup T
           i == Min(U)
<1>1. U \in SUBSET Nat /\ U # {} /\ \A j \in U : j \in 1 .. n + 1
  OBVIOUS
<1>2. i \in U /\ \A j \in U : i <= j
  BY <1>1, MinOf
<1>3. i \in 1 .. n + 1
  BY <1>1, <1>2
<1>4. i \in 1 .. n => i \in T
  <2>1. n + 1 \notin 1 .. n
    OBVIOUS
  <2>. QED  BY <1>2, <2>1
<1> HIDE DEF i
<1>5. \A j \in 1 .. i - 1 : j \notin T
  BY <1>2, <1>3
<1>. QED  BY <1>3, <1>4, <1>5 DEF i

LEMMA NodeAtIs ==
    ASSUME NEW S \in [List -> Seq(Node)], Linked(S), NEW l \in List, NEW i
    PROVE  NodeAt(l, i) = IF i \in 1 .. Len(S[l]) THEN S[l][i] ELSE Nil
  BY NodesAre, Zenon DEF NodeAt

(* list_get() finds the node with the key, if there is one.                *)
LEMMA GetFinds ==
    ASSUME HeapTypes, NEW S \in [List -> Seq(Node)], Chains(S),
           NEW l \in List, NEW k \in Key
    PROVE  \/ /\ list_get(l, k) = Nil
              /\ \A i \in 1 .. Len(S[l]) : KeyOf(S[l][i]) # k
           \/ \E i \in 1 .. Len(S[l]) :
                 list_get(l, k) = S[l][i] /\ KeyOf(S[l][i]) = k
<1> DEFINE s == S[l]
           n == Len(s)
           T == {i \in 1 .. n : strcmp[k][KeyOf(s[i])] = 0}
           i == Min({n + 1} \cup T)
<1>1. Linked(S)
  BY DEF Chains
<1>2. Nodes(l) = s /\ n \in Nat
  BY <1>1, NodesAre
<1>3. list_get(l, k) = NodeAt(l, i)
  BY <1>2 DEF list_get, FirstAt
<1>4. \A j \in 1 .. n : j \in T <=> KeyOf(s[j]) = k
  BY HasEntry, KeyOrder
<1>5. /\ i \in 1 .. n + 1 /\ (i \in 1 .. n => i \in T)
      /\ \A j \in 1 .. i - 1 : j \notin T
  <2>1. T \in SUBSET (1 .. n)
    OBVIOUS
  <2> HIDE DEF T, n
  <2>. QED  BY <1>2, <2>1, FirstIn
<1>6. NodeAt(l, i) = IF i \in 1 .. n THEN s[i] ELSE Nil
  BY <1>1, NodeAtIs, Zenon
<1> HIDE DEF i, T, n
<1>7. CASE i \in 1 .. n
  BY <1>3, <1>4, <1>5, <1>6, <1>7, Zenon DEF n
<1>8. CASE i \notin 1 .. n
  <2>1. \A j \in 1 .. n : j \in 1 .. i - 1
    BY <1>2, <1>5, <1>8
  <2>. QED  BY <1>3, <1>4, <1>5, <1>6, <1>8, <2>1, Zenon DEF n
<1>. QED  BY <1>7, <1>8

(* list_add() stops behind all smaller keys and before all others.         *)
LEMMA AddStops ==
    ASSUME HeapTypes, NEW S \in [List -> Seq(Node)], Chains(S),
           NEW l \in List, NEW k \in Key
    PROVE  /\ StopsAt(l, k) \in 1 .. Len(S[l]) + 1
           /\ \A j \in 1 .. StopsAt(l, k) - 1 : strcmp[KeyOf(S[l][j])][k] < 0
           /\ StopsAt(l, k) \in 1 .. Len(S[l]) =>
                  strcmp[k][KeyOf(S[l][StopsAt(l, k)])] <= 0
<1> DEFINE s == S[l]
           n == Len(s)
           T == {j \in 1 .. n : strcmp[k][KeyOf(s[j])] <= 0}
           i == StopsAt(l, k)
<1>1. Linked(S)
  BY DEF Chains
<1>2. Nodes(l) = s /\ n \in Nat
  BY <1>1, NodesAre
<1>3. i = Min({n + 1} \cup T)
  BY <1>2 DEF StopsAt, FirstAt
<1>4. \A j \in 1 .. n : j \notin T => strcmp[KeyOf(s[j])][k] < 0
  <2>1. ASSUME NEW j \in 1 .. n, j \notin T PROVE strcmp[KeyOf(s[j])][k] < 0
    <3>1. KeyOf(s[j]) \in Key
      BY HasEntry
    <3>2. strcmp[k][KeyOf(s[j])] \in Int
      BY <3>1, KeyOrder
    <3>3. strcmp[k][KeyOf(s[j])] > 0
      BY <2>1, <3>2
    <3>. QED  BY <3>1, <3>3, KeyOrder, Zenon
  <2>. QED  BY <2>1
<1>5. /\ i \in 1 .. n + 1 /\ (i \in 1 .. n => i \in T)
      /\ \A j \in 1 .. i - 1 : j \notin T
  <2>1. T \in SUBSET (1 .. n)
    OBVIOUS
  <2> HIDE DEF T, n, i
  <2>. QED  BY <1>2, <1>3, <2>1, FirstIn, Zenon
<1>6. \A j \in T : strcmp[k][KeyOf(s[j])] <= 0
  OBVIOUS
<1> HIDE DEF i, T, n
<1>7. \A j \in 1 .. i - 1 : j \in 1 .. n
  BY <1>2, <1>5
<1>. QED  BY <1>4, <1>5, <1>6, <1>7, Zenon DEF n, i

(* list_remove() stops at the node with the key, if there is one.          *)
Sought(l, k) == FirstAt(l, LAMBDA j : strcmp[j][k] = 0)

LEMMA RemoveStops ==
    ASSUME HeapTypes, NEW S \in [List -> Seq(Node)], Chains(S),
           NEW l \in List, NEW k \in Key
    PROVE  /\ Sought(l, k) \in 1 .. Len(S[l]) + 1
           /\ Sought(l, k) \in 1 .. Len(S[l]) => KeyOf(S[l][Sought(l, k)]) = k
           /\ Sought(l, k) \notin 1 .. Len(S[l]) =>
                  \A i \in 1 .. Len(S[l]) : KeyOf(S[l][i]) # k
<1> DEFINE s == S[l]
           n == Len(s)
           T == {j \in 1 .. n : strcmp[KeyOf(s[j])][k] = 0}
           i == Sought(l, k)
<1>1. Linked(S)
  BY DEF Chains
<1>2. Nodes(l) = s /\ n \in Nat
  BY <1>1, NodesAre
<1>3. i = Min({n + 1} \cup T)
  BY <1>2 DEF Sought, FirstAt
<1>4. \A j \in 1 .. n : j \in T <=> KeyOf(s[j]) = k
  BY HasEntry, KeyOrder
<1>5. /\ i \in 1 .. n + 1 /\ (i \in 1 .. n => i \in T)
      /\ \A j \in 1 .. i - 1 : j \notin T
  <2>1. T \in SUBSET (1 .. n)
    OBVIOUS
  <2> HIDE DEF T, n, i
  <2>. QED  BY <1>2, <1>3, <2>1, FirstIn, Zenon
<1> HIDE DEF i, T, n
<1>6. i \notin 1 .. n => \A j \in 1 .. n : j \in 1 .. i - 1
  BY <1>2, <1>5
<1>. QED  BY <1>4, <1>5, <1>6, Zenon DEF n, i

-----------------------------------------------------------------------------
(* A node goes in, a node goes out.                                        *)

Inserted(s, i, m) ==
    [j \in 1 .. Len(s) + 1 |-> IF j < i THEN s[j] ELSE IF j = i THEN m ELSE s[j - 1]]
Removed(s, i) == [j \in 1 .. Len(s) - 1 |-> IF j < i THEN s[j] ELSE s[j + 1]]

(* The neighbours of place i.                                              *)
Behind(s, i) == IF i \in 1 .. Len(s) THEN s[i] ELSE Nil
Before(s, i) == IF i - 1 \in 1 .. Len(s) THEN s[i - 1] ELSE Nil

LEMMA InsertedIs ==
    ASSUME NEW s \in Seq(Node), NEW i \in 1 .. Len(s) + 1, NEW m \in Node
    PROVE  /\ Inserted(s, i, m) \in Seq(Node)
           /\ Len(Inserted(s, i, m)) = Len(s) + 1
           /\ \A j \in 1 .. i - 1 : j \in 1 .. Len(s) /\ Inserted(s, i, m)[j] = s[j]
           /\ Inserted(s, i, m)[i] = m
           /\ \A j \in i + 1 .. Len(s) + 1 :
                 j - 1 \in 1 .. Len(s) /\ Inserted(s, i, m)[j] = s[j - 1]
<1> DEFINE n == Len(s)
           t == Inserted(s, i, m)
<1>1. n \in Nat /\ \A j \in 1 .. n : s[j] \in Node
  OBVIOUS
<1>2. i \in 1 .. n + 1
  OBVIOUS
<1>3. t = [j \in 1 .. n + 1 |-> IF j < i THEN s[j] ELSE IF j = i THEN m ELSE s[j - 1]]
  BY Zenon DEF Inserted
<1> HIDE DEF n, t
<1>4. \A j \in 1 .. i - 1 : j \in 1 .. n /\ j \in 1 .. n + 1 /\ j < i
  BY <1>1, <1>2
<1>5. \A j \in i + 1 .. n + 1 :
         j - 1 \in 1 .. n /\ j \in 1 .. n + 1 /\ ~(j < i) /\ j # i
  BY <1>1, <1>2
<1>6. \A j \in 1 .. n + 1 : j \in 1 .. i - 1 \/ j = i \/ j \in i + 1 .. n + 1
  BY <1>1, <1>2
<1>7. ~(i < i)
  BY <1>2
<1>8. /\ \A j \in 1 .. i - 1 : t[j] = s[j]
      /\ t[i] = m
      /\ \A j \in i + 1 .. n + 1 : t[j] = s[j - 1]
  BY <1>2, <1>3, <1>4, <1>5, <1>7, Zenon
<1>9. \A j \in 1 .. n + 1 : t[j] \in Node
  BY <1>1, <1>4, <1>5, <1>6, <1>8, Zenon
<1>10. t \in [1 .. n + 1 -> Node]
  BY <1>3, <1>9, Zenon
<1>11. t \in Seq(Node) /\ Len(t) = n + 1
  <2>1. n + 1 \in Nat
    BY <1>1
  <2>. QED  BY <1>10, <2>1
<1>. QED  BY <1>4, <1>5, <1>8, <1>11, Zenon DEF n, t

LEMMA InsertThreads ==
    ASSUME NEW s, NEW first, NEW link \in [Node -> Node \cup {Nil}],
           Threaded(s, first, link),
           NEW i \in 1 .. Len(s) + 1,
           NEW m \in Node, \A j \in 1 .. Len(s) : s[j] # m,
           NEW link2,
           link2 = IF Before(s, i) = Nil THEN [link EXCEPT ![m] = Behind(s, i)]
                   ELSE [link EXCEPT ![m] = Behind(s, i), ![Before(s, i)] = m]
    PROVE  Threaded(Inserted(s, i, m), IF Before(s, i) = Nil THEN m ELSE first, link2)
<1> DEFINE n == Len(s)
           t == Inserted(s, i, m)
           first2 == IF Before(s, i) = Nil THEN m ELSE first
<1>1. /\ s \in Seq(Node) /\ n \in Nat
      /\ \A j, k \in 1 .. n : s[j] = s[k] => j = k
      /\ first = IF n = 0 THEN Nil ELSE s[1]
      /\ \A j \in 1 .. n : link[s[j]] = IF j = n THEN Nil ELSE s[j + 1]
  BY LenProperties DEF Threaded
<1>2. \A j \in 1 .. n : s[j] \in Node /\ s[j] # Nil /\ s[j] # m
  <2>1. \A j \in 1 .. n : s[j] \in Node
    BY <1>1
  <2>. QED  BY <2>1, NilAssumption
<1>3. /\ t \in Seq(Node) /\ Len(t) = n + 1
      /\ \A j \in 1 .. i - 1 : j \in 1 .. n /\ t[j] = s[j]
      /\ t[i] = m
      /\ \A j \in i + 1 .. n + 1 : j - 1 \in 1 .. n /\ t[j] = s[j - 1]
  BY <1>1, InsertedIs
<1>4. /\ i \in 1 .. n + 1
      /\ Before(s, i) = IF i - 1 \in 1 .. n THEN s[i - 1] ELSE Nil
      /\ Behind(s, i) = IF i \in 1 .. n THEN s[i] ELSE Nil
  BY DEF Before, Behind
<1> HIDE DEF n, t
<1>5. /\ i - 1 \in 1 .. n <=> i # 1
      /\ i \in 1 .. n <=> i # n + 1
      /\ i \in Nat /\ i >= 1 /\ i <= n + 1
  BY <1>1, <1>4
<1>6. Before(s, i) = Nil <=> i = 1
  BY <1>2, <1>4, <1>5, Zenon
<1>7. \A j, k \in 1 .. n + 1 : t[j] = t[k] => j = k
  <2>1. ASSUME NEW j \in 1 .. n + 1, NEW k \in 1 .. n + 1, t[j] = t[k], j < k
        PROVE  FALSE
    <3>1. CASE k < i
      <4>1. j \in 1 .. i - 1 /\ k \in 1 .. i - 1 /\ j # k
        BY <1>5, <2>1, <3>1
      <4>2. /\ t[j] = s[j] /\ j \in 1 .. n
            /\ t[k] = s[k] /\ k \in 1 .. n
        BY <1>3, <4>1, Zenon
      <4>3. s[j] = s[k]
        BY <2>1, <4>2, Zenon
      <4>. QED  BY <1>1, <4>1, <4>2, <4>3, Zenon
    <3>2. CASE k = i
      <4>1. j \in 1 .. i - 1
        BY <1>5, <2>1, <3>2
      <4>. QED  BY <1>2, <1>3, <2>1, <3>2, <4>1, Zenon
    <3>3. CASE k > i /\ j = i
      <4>1. k \in i + 1 .. n + 1
        BY <1>1, <1>5, <2>1, <3>3
      <4>. QED  BY <1>2, <1>3, <2>1, <3>3, <4>1, Zenon
    <3>4. CASE k > i /\ j < i
      <4>1. k \in i + 1 .. n + 1 /\ j \in 1 .. i - 1 /\ j # k - 1
        BY <1>1, <1>5, <2>1, <3>4
      <4>2. /\ t[j] = s[j] /\ j \in 1 .. n
            /\ t[k] = s[k - 1] /\ k - 1 \in 1 .. n
        BY <1>3, <4>1, Zenon
      <4>3. s[j] = s[k - 1]
        BY <2>1, <4>2, Zenon
      <4>. QED  BY <1>1, <4>1, <4>2, <4>3, Zenon
    <3>5. CASE k > i /\ j > i
      <4>1. k \in i + 1 .. n + 1 /\ j \in i + 1 .. n + 1 /\ j - 1 # k - 1
        BY <1>1, <1>5, <2>1, <3>5
      <4>2. /\ t[j] = s[j - 1] /\ j - 1 \in 1 .. n
            /\ t[k] = s[k - 1] /\ k - 1 \in 1 .. n
        BY <1>3, <4>1, Zenon
      <4>3. s[j - 1] = s[k - 1]
        BY <2>1, <4>2, Zenon
      <4>. QED  BY <1>1, <4>1, <4>2, <4>3, Zenon
    <3>. QED  BY <1>5, <2>1, <3>1, <3>2, <3>3, <3>4, <3>5
  <2>2. \A j, k \in 1 .. n + 1 : j = k \/ j < k \/ k < j
    BY <1>1
  <2>. QED  BY <2>1, <2>2
<1>8. first2 = t[1]
  <2>1. CASE i = 1
    BY <1>3, <1>6, <2>1, Zenon
  <2>2. CASE i # 1
    <3>1. 1 \in 1 .. i - 1 /\ n # 0
      BY <1>1, <1>5, <2>2
    <3>. QED  BY <1>1, <1>3, <1>6, <2>2, <3>1, Zenon
  <2>. QED  BY <2>1, <2>2
<1>9. /\ link2[m] = Behind(s, i)
      /\ i # 1 => link2[s[i - 1]] = m
      /\ \A x \in Node : x # m /\ (i # 1 => x # s[i - 1]) => link2[x] = link[x]
  <2>1. CASE i = 1
    <3>1. link2 = [link EXCEPT ![m] = Behind(s, i)]
      BY <1>6, <2>1, Zenon
    <3>. QED  BY <2>1, <3>1
  <2>2. CASE i # 1
    <3>1. Before(s, i) = s[i - 1] /\ s[i - 1] \in Node /\ s[i - 1] # m
      BY <1>2, <1>4, <1>5, <2>2, Zenon
    <3>2. link2 = [link EXCEPT ![m] = Behind(s, i), ![s[i - 1]] = m]
      BY <1>6, <2>2, <3>1, Zenon
    <3>. QED  BY <2>2, <3>1, <3>2
  <2>. QED  BY <2>1, <2>2
<1>10. ASSUME NEW j \in 1 .. n + 1
       PROVE  link2[t[j]] = IF j = n + 1 THEN Nil ELSE t[j + 1]
  <2>1. CASE j < i - 1
    <3>1. /\ j \in 1 .. i - 1 /\ j + 1 \in 1 .. i - 1 /\ j # n /\ j # n + 1
          /\ i # 1 /\ i - 1 \in 1 .. n /\ j # i - 1
      BY <1>1, <1>5, <2>1
    <3>2. j \in 1 .. n /\ t[j] = s[j] /\ t[j + 1] = s[j + 1]
      BY <1>3, <3>1, Zenon
    <3>3. s[j] # s[i - 1]
      BY <1>1, <3>1, <3>2, Zenon
    <3>4. link2[s[j]] = link[s[j]]
      BY <1>2, <1>9, <3>2, <3>3, Zenon
    <3>. QED  BY <1>1, <3>1, <3>2, <3>4, Zenon
  <2>2. CASE j = i - 1
    <3>1. i # 1 /\ j \in 1 .. i - 1 /\ j # n + 1 /\ j + 1 = i
      BY <1>1, <1>5, <2>2
    <3>. QED  BY <1>3, <1>9, <2>2, <3>1, Zenon
  <2>3. CASE j = i
    <3>1. i # n + 1 => i \in 1 .. n /\ i + 1 \in i + 1 .. n + 1 /\ (i + 1) - 1 = i
      BY <1>1, <1>5
    <3>2. i # n + 1 => t[i + 1] = s[i]
      BY <1>3, <3>1, Zenon
    <3>. QED  BY <1>3, <1>4, <1>5, <1>9, <2>3, <3>1, <3>2, Zenon
  <2>4. CASE j > i
    <3>1. /\ j \in i + 1 .. n + 1 /\ (j - 1) + 1 = j /\ (j - 1 = n <=> j = n + 1)
          /\ j - 1 # i - 1
          /\ j # n + 1 => j + 1 \in i + 1 .. n + 1 /\ (j + 1) - 1 = j
      BY <1>1, <1>5, <2>4
    <3>2. j - 1 \in 1 .. n /\ t[j] = s[j - 1]
      BY <1>3, <3>1, Zenon
    <3>3. j # n + 1 => t[j + 1] = s[j]
      BY <1>3, <3>1, Zenon
    <3>4. i # 1 => s[j - 1] # s[i - 1]
      BY <1>1, <1>5, <3>1, <3>2, Zenon
    <3>5. link2[s[j - 1]] = link[s[j - 1]]
      BY <1>2, <1>9, <3>2, <3>4, Zenon
    <3>6. link[s[j - 1]] = IF j = n + 1 THEN Nil ELSE s[j]
      BY <1>1, <3>1, <3>2, Zenon
    <3>. QED  BY <3>2, <3>3, <3>5, <3>6, Zenon
  <2>. QED  BY <1>5, <2>1, <2>2, <2>3, <2>4
<1>11. n + 1 # 0
  BY <1>1
<1> HIDE DEF first2
<1>12. Threaded(t, first2, link2)
  BY <1>3, <1>7, <1>8, <1>10, <1>11, Zenon DEF Threaded
<1>. QED  BY <1>12 DEF t, first2

LEMMA RemovedIs ==
    ASSUME NEW s \in Seq(Node), NEW i \in 1 .. Len(s)
    PROVE  /\ Removed(s, i) \in Seq(Node)
           /\ Len(Removed(s, i)) = Len(s) - 1
           /\ \A j \in 1 .. i - 1 : j \in 1 .. Len(s) /\ Removed(s, i)[j] = s[j]
           /\ \A j \in i .. Len(s) - 1 :
                 j + 1 \in 1 .. Len(s) /\ Removed(s, i)[j] = s[j + 1]
<1> DEFINE n == Len(s)
           t == Removed(s, i)
<1>1. n \in Nat /\ \A j \in 1 .. n : s[j] \in Node
  OBVIOUS
<1>2. i \in 1 .. n
  OBVIOUS
<1>3. t = [j \in 1 .. n - 1 |-> IF j < i THEN s[j] ELSE s[j + 1]]
  BY Zenon DEF Removed
<1> HIDE DEF n, t
<1>4. \A j \in 1 .. i - 1 : j \in 1 .. n /\ j \in 1 .. n - 1 /\ j < i
  BY <1>1, <1>2
<1>5. \A j \in i .. n - 1 : j + 1 \in 1 .. n /\ j \in 1 .. n - 1 /\ ~(j < i)
  BY <1>1, <1>2
<1>6. \A j \in 1 .. n - 1 : j \in 1 .. i - 1 \/ j \in i .. n - 1
  BY <1>1, <1>2
<1>7. /\ \A j \in 1 .. i - 1 : t[j] = s[j]
      /\ \A j \in i .. n - 1 : t[j] = s[j + 1]
  BY <1>3, <1>4, <1>5, Zenon
<1>8. \A j \in 1 .. n - 1 : t[j] \in Node
  BY <1>1, <1>4, <1>5, <1>6, <1>7, Zenon
<1>9. t \in [1 .. n - 1 -> Node]
  BY <1>3, <1>8, Zenon
<1>10. t \in Seq(Node) /\ Len(t) = n - 1
  <2>1. n - 1 \in Nat
    BY <1>1, <1>2
  <2>. QED  BY <1>9, <2>1
<1>. QED  BY <1>4, <1>5, <1>7, <1>10, Zenon DEF n, t

LEMMA RemoveThreads ==
    ASSUME NEW s, NEW first, NEW link \in [Node -> Node \cup {Nil}],
           Threaded(s, first, link),
           NEW i \in 1 .. Len(s),
           NEW link2,
           link2 = IF Before(s, i) = Nil THEN [link EXCEPT ![s[i]] = Nil]
                   ELSE [link EXCEPT ![Before(s, i)] = link[s[i]], ![s[i]] = Nil]
    PROVE  Threaded(Removed(s, i), IF Before(s, i) = Nil THEN link[s[i]] ELSE first, link2)
<1> DEFINE n == Len(s)
           t == Removed(s, i)
           first2 == IF Before(s, i) = Nil THEN link[s[i]] ELSE first
<1>1. /\ s \in Seq(Node) /\ n \in Nat
      /\ \A j, k \in 1 .. n : s[j] = s[k] => j = k
      /\ first = IF n = 0 THEN Nil ELSE s[1]
      /\ \A j \in 1 .. n : link[s[j]] = IF j = n THEN Nil ELSE s[j + 1]
  BY LenProperties DEF Threaded
<1>2. \A j \in 1 .. n : s[j] \in Node /\ s[j] # Nil
  <2>1. \A j \in 1 .. n : s[j] \in Node
    BY <1>1
  <2>. QED  BY <2>1, NilAssumption
<1>3. /\ t \in Seq(Node) /\ Len(t) = n - 1
      /\ \A j \in 1 .. i - 1 : j \in 1 .. n /\ t[j] = s[j]
      /\ \A j \in i .. n - 1 : j + 1 \in 1 .. n /\ t[j] = s[j + 1]
  BY <1>1, RemovedIs
<1>4. i \in 1 .. n /\ Before(s, i) = IF i - 1 \in 1 .. n THEN s[i - 1] ELSE Nil
  BY DEF Before
<1> HIDE DEF n, t
<1>5. /\ i - 1 \in 1 .. n <=> i # 1
      /\ i \in Nat /\ i >= 1 /\ i <= n /\ n # 0
  BY <1>1, <1>4
<1>6. Before(s, i) = Nil <=> i = 1
  BY <1>2, <1>4, <1>5, Zenon
<1>7. \A j, k \in 1 .. n - 1 : t[j] = t[k] => j = k
  <2>1. ASSUME NEW j \in 1 .. n - 1, NEW k \in 1 .. n - 1, t[j] = t[k], j < k
        PROVE  FALSE
    <3>1. CASE k < i
      <4>1. j \in 1 .. i - 1 /\ k \in 1 .. i - 1 /\ j # k
        BY <1>5, <2>1, <3>1
      <4>2. /\ t[j] = s[j] /\ j \in 1 .. n
            /\ t[k] = s[k] /\ k \in 1 .. n
        BY <1>3, <4>1, Zenon
      <4>3. s[j] = s[k]
        BY <2>1, <4>2, Zenon
      <4>. QED  BY <1>1, <4>1, <4>2, <4>3, Zenon
    <3>2. CASE k >= i /\ j < i
      <4>1. k \in i .. n - 1 /\ j \in 1 .. i - 1 /\ j # k + 1
        BY <1>1, <1>5, <2>1, <3>2
      <4>2. /\ t[j] = s[j] /\ j \in 1 .. n
            /\ t[k] = s[k + 1] /\ k + 1 \in 1 .. n
        BY <1>3, <4>1, Zenon
      <4>3. s[j] = s[k + 1]
        BY <2>1, <4>2, Zenon
      <4>. QED  BY <1>1, <4>1, <4>2, <4>3, Zenon
    <3>3. CASE j >= i
      <4>1. k \in i .. n - 1 /\ j \in i .. n - 1 /\ j + 1 # k + 1
        BY <1>1, <1>5, <2>1, <3>3
      <4>2. /\ t[j] = s[j + 1] /\ j + 1 \in 1 .. n
            /\ t[k] = s[k + 1] /\ k + 1 \in 1 .. n
        BY <1>3, <4>1, Zenon
      <4>3. s[j + 1] = s[k + 1]
        BY <2>1, <4>2, Zenon
      <4>. QED  BY <1>1, <4>1, <4>2, <4>3, Zenon
    <3>. QED  BY <1>5, <2>1, <3>1, <3>2, <3>3
  <2>2. \A j, k \in 1 .. n - 1 : j = k \/ j < k \/ k < j
    BY <1>1
  <2>. QED  BY <2>1, <2>2
<1>8. /\ i # 1 => link2[s[i - 1]] = link[s[i]]
      /\ \A x \in Node : x # s[i] /\ (i # 1 => x # s[i - 1]) => link2[x] = link[x]
  <2>1. CASE i = 1
    <3>1. link2 = [link EXCEPT ![s[i]] = Nil]
      BY <1>6, <2>1, Zenon
    <3>. QED  BY <2>1, <3>1
  <2>2. CASE i # 1
    <3>1. Before(s, i) = s[i - 1] /\ s[i - 1] \in Node
      BY <1>2, <1>4, <1>5, <2>2, Zenon
    <3>2. s[i - 1] # s[i]
      <4>1. i - 1 # i
        BY <1>5
      <4>. QED  BY <1>1, <1>4, <1>5, <2>2, <4>1, Zenon
    <3>3. link2 = [link EXCEPT ![s[i - 1]] = link[s[i]], ![s[i]] = Nil]
      BY <1>6, <2>2, <3>1, Zenon
    <3>. QED  BY <2>2, <3>1, <3>2, <3>3
  <2>. QED  BY <2>1, <2>2
<1>9. first2 = IF n - 1 = 0 THEN Nil ELSE t[1]
  <2>1. CASE i = 1 /\ n = 1
    <3>1. n - 1 = 0
      BY <2>1
    <3>. QED  BY <1>1, <1>4, <1>6, <2>1, <3>1, Zenon
  <2>2. CASE i = 1 /\ n # 1
    <3>1. 1 \in i .. n - 1 /\ n - 1 # 0 /\ 1 \in 1 .. n
      BY <1>1, <1>5, <2>2
    <3>2. link[s[1]] = s[1 + 1] /\ t[1] = s[1 + 1]
      BY <1>1, <1>3, <2>2, <3>1, Zenon
    <3>. QED  BY <1>6, <2>2, <3>1, <3>2, Zenon
  <2>3. CASE i # 1
    <3>1. 1 \in 1 .. i - 1 /\ n - 1 # 0 /\ n # 0
      BY <1>1, <1>5, <2>3
    <3>. QED  BY <1>1, <1>3, <1>6, <2>3, <3>1, Zenon
  <2>. QED  BY <2>1, <2>2, <2>3
<1>10. ASSUME NEW j \in 1 .. n - 1
       PROVE  link2[t[j]] = IF j = n - 1 THEN Nil ELSE t[j + 1]
  <2>1. CASE j < i - 1
    <3>1. /\ j \in 1 .. i - 1 /\ j + 1 \in 1 .. i - 1 /\ j # n /\ j # n - 1
          /\ j # i /\ j # i - 1 /\ i # 1
      BY <1>1, <1>5, <2>1
    <3>2. j \in 1 .. n /\ t[j] = s[j] /\ t[j + 1] = s[j + 1]
      BY <1>3, <3>1, Zenon
    <3>3. s[j] # s[i - 1] /\ s[j] # s[i]
      BY <1>1, <1>4, <1>5, <3>1, <3>2, Zenon
    <3>4. link2[s[j]] = link[s[j]]
      BY <1>2, <1>8, <3>2, <3>3, Zenon
    <3>. QED  BY <1>1, <3>1, <3>2, <3>4, Zenon
  <2>2. CASE j = i - 1
    <3>1. /\ i # 1 /\ j \in 1 .. i - 1 /\ j + 1 = i
          /\ i = n <=> j = n - 1
          /\ j # n - 1 => i \in i .. n - 1
      BY <1>1, <1>5, <2>2
    <3>2. link2[t[j]] = link[s[i]]
      BY <1>3, <1>8, <2>2, <3>1, Zenon
    <3>3. link[s[i]] = IF i = n THEN Nil ELSE s[i + 1]
      BY <1>1, <1>4, Zenon
    <3>4. j # n - 1 => t[i] = s[i + 1]
      BY <1>3, <3>1, Zenon
    <3>. QED  BY <3>1, <3>2, <3>3, <3>4, Zenon
  <2>3. CASE j >= i
    <3>1. /\ j \in i .. n - 1 /\ (j + 1 = n <=> j = n - 1)
          /\ j + 1 # i /\ j + 1 # i - 1
          /\ j # n - 1 => j + 1 \in i .. n - 1
      BY <1>1, <1>5, <2>3
    <3>2. j + 1 \in 1 .. n /\ t[j] = s[j + 1]
      BY <1>3, <3>1, Zenon
    <3>3. s[j + 1] # s[i] /\ (i # 1 => s[j + 1] # s[i - 1])
      BY <1>1, <1>4, <1>5, <3>1, <3>2, Zenon
    <3>4. link2[s[j + 1]] = link[s[j + 1]]
      BY <1>2, <1>8, <3>2, <3>3, Zenon
    <3>5. link[s[j + 1]] = IF j = n - 1 THEN Nil ELSE s[(j + 1) + 1]
      BY <1>1, <3>1, <3>2, Zenon
    <3>6. j # n - 1 => t[j + 1] = s[(j + 1) + 1]
      BY <1>3, <3>1, Zenon
    <3>. QED  BY <3>2, <3>4, <3>5, <3>6, Zenon
  <2>. QED  BY <1>5, <2>1, <2>2, <2>3
<1> HIDE DEF first2
<1>11. Threaded(t, first2, link2)
  BY <1>3, <1>7, <1>9, <1>10, Zenon DEF Threaded
<1>. QED  BY <1>11 DEF t, first2

LEMMA InsertedHolds ==
    ASSUME NEW s \in Seq(Node), NEW i \in 1 .. Len(s) + 1, NEW m \in Node, NEW x
    PROVE  In(Inserted(s, i, m), x) <=> x = m \/ In(s, x)
<1> DEFINE n == Len(s)
           t == Inserted(s, i, m)
<1>1. /\ Len(t) = n + 1 /\ t[i] = m /\ i \in 1 .. n + 1 /\ n \in Nat
      /\ \A j \in 1 .. i - 1 : j \in 1 .. n /\ t[j] = s[j]
      /\ \A j \in i + 1 .. n + 1 : j - 1 \in 1 .. n /\ t[j] = s[j - 1]
  BY InsertedIs, LenProperties
<1> HIDE DEF n, t
<1>2. \A j \in 1 .. n + 1 : j \in 1 .. i - 1 \/ j = i \/ j \in i + 1 .. n + 1
  BY <1>1
<1>3. \A j \in 1 .. n : \/ j \in 1 .. i - 1 /\ j \in 1 .. n + 1
                        \/ j + 1 \in i + 1 .. n + 1 /\ (j + 1) - 1 = j
                              /\ j + 1 \in 1 .. n + 1
  BY <1>1
<1>4. (\E j \in 1 .. n + 1 : t[j] = x) => x = m \/ \E j \in 1 .. n : s[j] = x
  BY <1>1, <1>2, Zenon
<1>5. ASSUME NEW j \in 1 .. n, s[j] = x PROVE \E c \in 1 .. n + 1 : t[c] = x
  <2>1. CASE j \in 1 .. i - 1 /\ j \in 1 .. n + 1
    BY <1>1, <1>5, <2>1, Zenon
  <2>2. CASE j + 1 \in i + 1 .. n + 1 /\ (j + 1) - 1 = j /\ j + 1 \in 1 .. n + 1
    <3>1. t[j + 1] = x
      BY <1>1, <1>5, <2>2, Zenon
    <3>. QED  BY <2>2, <3>1, Zenon
  <2>. QED  BY <1>3, <2>1, <2>2, Zenon
<1>6. (\E j \in 1 .. n + 1 : t[j] = x) <=> x = m \/ \E j \in 1 .. n : s[j] = x
  BY <1>1, <1>4, <1>5, Zenon
<1>7. Len(Inserted(s, i, m)) = n + 1
  BY <1>1 DEF t
<1>. QED  BY <1>6, <1>7, Zenon DEF In, n, t

LEMMA RemovedHolds ==
    ASSUME NEW s \in Seq(Node), NEW i \in 1 .. Len(s),
           \A j, k \in 1 .. Len(s) : s[j] = s[k] => j = k, NEW x
    PROVE  In(Removed(s, i), x) <=> x # s[i] /\ In(s, x)
<1> DEFINE n == Len(s)
           t == Removed(s, i)
<1>1. /\ Len(t) = n - 1 /\ i \in 1 .. n /\ n \in Nat
      /\ \A j \in 1 .. i - 1 : j \in 1 .. n /\ t[j] = s[j]
      /\ \A j \in i .. n - 1 : j + 1 \in 1 .. n /\ t[j] = s[j + 1]
      /\ \A j, k \in 1 .. n : s[j] = s[k] => j = k
  BY RemovedIs, LenProperties
<1> HIDE DEF n, t
<1>2. \A j \in 1 .. n - 1 : \/ j \in 1 .. i - 1 /\ j # i
                            \/ j \in i .. n - 1 /\ j + 1 # i
  BY <1>1
<1>3. \A j \in 1 .. n : \/ j = i
                        \/ j \in 1 .. i - 1 /\ j \in 1 .. n - 1
                        \/ j - 1 \in i .. n - 1 /\ (j - 1) + 1 = j
                              /\ j - 1 \in 1 .. n - 1
  BY <1>1
<1>4. ASSUME NEW j \in 1 .. n - 1, t[j] = x
      PROVE  x # s[i] /\ \E c \in 1 .. n : s[c] = x
  <2>1. CASE j \in 1 .. i - 1 /\ j # i
    <3>1. s[j] = x /\ j \in 1 .. n
      BY <1>1, <1>4, <2>1, Zenon
    <3>. QED  BY <1>1, <2>1, <3>1, Zenon
  <2>2. CASE j \in i .. n - 1 /\ j + 1 # i
    <3>1. s[j + 1] = x /\ j + 1 \in 1 .. n
      BY <1>1, <1>4, <2>2, Zenon
    <3>. QED  BY <1>1, <2>2, <3>1, Zenon
  <2>. QED  BY <1>2, <2>1, <2>2, Zenon
<1>5. ASSUME NEW j \in 1 .. n, s[j] = x, x # s[i] PROVE \E c \in 1 .. n - 1 : t[c] = x
  <2>1. CASE j \in 1 .. i - 1 /\ j \in 1 .. n - 1
    BY <1>1, <1>5, <2>1, Zenon
  <2>2. CASE j - 1 \in i .. n - 1 /\ (j - 1) + 1 = j /\ j - 1 \in 1 .. n - 1
    <3>1. t[j - 1] = x
      BY <1>1, <1>5, <2>2, Zenon
    <3>. QED  BY <2>2, <3>1, Zenon
  <2>. QED  BY <1>3, <1>5, <2>1, <2>2, Zenon
<1>6. (\E j \in 1 .. n - 1 : t[j] = x) <=> x # s[i] /\ \E j \in 1 .. n : s[j] = x
  BY <1>4, <1>5, Zenon
<1>7. Len(Removed(s, i)) = n - 1
  BY <1>1 DEF t
<1>. QED  BY <1>6, <1>7, Zenon DEF In, n, t

LEMMA SameThread ==
    ASSUME NEW s, NEW first, NEW link, NEW link2, Threaded(s, first, link),
           \A x \in Node : In(s, x) => link2[x] = link[x]
    PROVE  Threaded(s, first, link2)
<1>1. \A i \in 1 .. Len(s) : s[i] \in Node
  <2>1. s \in Seq(Node)
    BY DEF Threaded
  <2>. QED  BY <2>1
<1>2. \A i \in 1 .. Len(s) : link2[s[i]] = link[s[i]]
  BY <1>1, Zenon DEF In
<1>. QED  BY <1>2, Zenon DEF Threaded

-----------------------------------------------------------------------------
(* What the functions do to the lists.                                     *)

LEMMA AddChains ==
    ASSUME HeapTypes, NEW S \in [List -> Seq(Node)], Chains(S),
           NEW l \in List, NEW k \in Key, hash_code[k] = l, NEW v \in Val,
           NEW m \in Node, entry[m] = Nil,
           NEW i \in 1 .. Len(S[l]) + 1,
           \A j \in 1 .. i - 1 : strcmp[KeyOf(S[l][j])][k] < 0,
           i \in 1 .. Len(S[l]) => strcmp[k][KeyOf(S[l][i])] < 0,
           Insert(l, m, Before(S[l], i), Behind(S[l], i)),
           entry' = [entry EXCEPT ![m] = [key |-> k, val |-> v]]
    PROVE  HeapTypes' /\ \E T \in [List -> Seq(Node)] : Chains(T)'
<1> DEFINE s == S[l]
           n == Len(s)
           t == Inserted(s, i, m)
           T == [S EXCEPT ![l] = t]
<1>1. /\ s \in Seq(Node) /\ n \in Nat
      /\ Threaded(s, head[l], next) /\ size[l] = n
  BY NodesAre DEF Chains, Linked
<1>2. \A p \in List : ~In(S[p], m)
  BY DEF Chains, Covered
<1>3. /\ T \in [List -> Seq(Node)] /\ T[l] = t
      /\ \A p \in List \ {l} : T[p] = S[p]
  <2>1. t \in Seq(Node)
    BY <1>1, InsertedIs, Zenon
  <2> HIDE DEF t
  <2>. QED  BY <2>1
<1>4. /\ KeyOf(m)' = k /\ entry'[m] # Nil /\ entry'[m] \in Entry
      /\ \A x \in Node : x # m => entry'[x] = entry[x] /\ KeyOf(x)' = KeyOf(x)
  <2>1. [key |-> k, val |-> v] \in Entry
    BY DEF Entry
  <2>2. [key |-> k, val |-> v] # Nil
    BY <2>1, NilAssumption
  <2>. QED  BY <2>1, <2>2 DEF KeyOf, HeapTypes
<1>5. \A x : In(t, x) <=> x = m \/ In(s, x)
  BY <1>1, InsertedHolds, Zenon
<1>6. Behind(s, i) \in Node \cup {Nil} /\ Before(s, i) \in Node \cup {Nil}
  <2>1. \A j \in 1 .. n : s[j] \in Node
    BY <1>1
  <2>. QED  BY <2>1, Zenon DEF Behind, Before
<1>7. Before(s, i) # Nil => In(s, Before(s, i))
  BY Zenon DEF Before, In
<1> HIDE DEF s, n, t, T
<1>8. /\ head' = IF Before(s, i) = Nil THEN [head EXCEPT ![l] = m] ELSE head
      /\ next' = IF Before(s, i) = Nil THEN [next EXCEPT ![m] = Behind(s, i)]
                 ELSE [next EXCEPT ![m] = Behind(s, i), ![Before(s, i)] = m]
      /\ size' = [size EXCEPT ![l] = @ + 1]
  BY DEF Insert, s
<1>9. HeapTypes'
  <2>1. entry' \in [Node -> Entry \cup {Nil}]
    BY <1>4 DEF HeapTypes
  <2>2. /\ head' \in [List -> Node \cup {Nil}]
        /\ next' \in [Node -> Node \cup {Nil}]
    BY <1>6, <1>8 DEF HeapTypes
  <2>3. size' \in [List -> Nat]
    BY <1>8 DEF HeapTypes
  <2>. QED  BY <2>1, <2>2, <2>3 DEF HeapTypes
<1>10. Linked(T)'
  <2>1. ASSUME NEW p \in List PROVE (Threaded(T[p], head[p], next) /\ size[p] = Len(T[p]))'
    <3>1. CASE p = l
      <4>1. Threaded(t, IF Before(s, i) = Nil THEN m ELSE head[l], next')
        <5>1. next \in [Node -> Node \cup {Nil}]
          BY DEF HeapTypes
        <5>2. \A j \in 1 .. Len(s) : s[j] # m
          BY <1>2, Zenon DEF In, s
        <5>3. i \in 1 .. Len(s) + 1
          BY DEF s
        <5>. QED  BY <1>1, <1>8, <5>1, <5>2, <5>3, InsertThreads, Zenon DEF t
      <4>2. head'[l] = IF Before(s, i) = Nil THEN m ELSE head[l]
        BY <1>8 DEF HeapTypes
      <4>3. size'[l] = n + 1
        BY <1>1, <1>8 DEF HeapTypes
      <4>4. Len(t) = n + 1
        BY <1>1, InsertedIs, Zenon DEF t, n, s
      <4>. QED  BY <1>3, <3>1, <4>1, <4>2, <4>3, <4>4, Zenon
    <3>2. CASE p # l
      <4>1. T[p] = S[p] /\ head'[p] = head[p] /\ size'[p] = size[p]
        BY <1>3, <1>8, <3>2 DEF HeapTypes
      <4>2. \A x \in Node : In(S[p], x) => next'[x] = next[x]
        <5>1. ASSUME NEW x \in Node, In(S[p], x)
              PROVE  x # m /\ (Before(s, i) # Nil => x # Before(s, i))
          BY <1>2, <1>7, <3>2, <5>1, Zenon DEF Chains, Apart, s
        <5>. QED  BY <1>8, <5>1 DEF HeapTypes
      <4>3. Threaded(S[p], head[p], next) /\ size[p] = Len(S[p])
        BY Zenon DEF Chains, Linked
      <4>4. Threaded(S[p], head[p], next')
        BY <4>2, <4>3, SameThread, Zenon
      <4>. QED  BY <4>1, <4>3, <4>4, Zenon
    <3>. QED  BY <3>1, <3>2
  <2>. QED  BY <2>1, Zenon DEF Linked
<1>11. Apart(T)'
  <2>1. ASSUME NEW p \in List, NEW x \in Node
        PROVE  In(T[p], x) <=> (p = l /\ x = m) \/ In(S[p], x)
    BY <1>3, <1>5, Zenon DEF s
  <2>2. ASSUME NEW p \in List, NEW q \in List, NEW x \in Node,
               In(T[p], x), In(T[q], x)
        PROVE  p = q
    <3>1. CASE x = m
      BY <1>2, <2>1, <2>2, <3>1, Zenon
    <3>2. CASE x # m
      <4>1. In(S[p], x) /\ In(S[q], x)
        BY <2>1, <2>2, <3>2, Zenon
      <4>. QED  BY <4>1, Zenon DEF Apart, Chains
    <3>. QED  BY <3>1, <3>2
  <2>. QED  BY <2>2, Zenon DEF Apart
<1>12. Covered(T)'
  <2>1. ASSUME NEW p \in List, NEW x \in Node
        PROVE  In(T[p], x) <=> (p = l /\ x = m) \/ In(S[p], x)
    BY <1>3, <1>5, Zenon DEF s
  <2>2. \A x \in Node : entry'[x] # Nil <=> x = m \/ entry[x] # Nil
    BY <1>4, Zenon
  <2>. QED  BY <2>1, <2>2, Zenon DEF Covered, Chains
<1>13. Homed(T)'
  <2>1. ASSUME NEW p \in List, NEW x \in Node
        PROVE  In(T[p], x) <=> (p = l /\ x = m) \/ In(S[p], x)
    BY <1>3, <1>5, Zenon DEF s
  <2>2. hash_code' = hash_code
    BY DEF hash_code, Rem, char, FoldLeft, MapThenFoldSet
  <2>3. ASSUME NEW p \in List, NEW x \in Node, In(T[p], x)
        PROVE  hash_code[KeyOf(x)'] = p
    <3>1. CASE x = m
      <4>1. p = l
        BY <1>2, <2>1, <2>3, <3>1, Zenon
      <4>. QED  BY <1>4, <3>1, <4>1, Zenon
    <3>2. CASE x # m
      <4>1. In(S[p], x)
        BY <2>1, <2>3, <3>2, Zenon
      <4>2. hash_code[KeyOf(x)] = p
        BY <4>1, Zenon DEF Homed, Chains
      <4>3. KeyOf(x)' = KeyOf(x)
        BY <1>4, <3>2, Zenon
      <4>. QED  BY <4>2, <4>3, Zenon
    <3>. QED  BY <3>1, <3>2
  <2>. QED  BY <2>2, <2>3, Zenon DEF Homed
<1>14. Ascending(T)'
  <2>1. ASSUME NEW p \in List \ {l}, NEW j \in 1 .. Len(S[p]) - 1
        PROVE  strcmp[KeyOf(S[p][j])'][KeyOf(S[p][j + 1])'] < 0
    <3>1. j \in 1 .. Len(S[p]) /\ j + 1 \in 1 .. Len(S[p])
      <4>1. Len(S[p]) \in Nat
        BY NodesAre DEF Chains
      <4>. QED  BY <4>1
    <3>2. ASSUME NEW c \in 1 .. Len(S[p]) PROVE KeyOf(S[p][c])' = KeyOf(S[p][c])
      <4>1. S[p][c] \in Node
        BY HasEntry
      <4>2. S[p][c] # m
        BY <1>2, Zenon DEF In
      <4>. QED  BY <1>4, <4>1, <4>2, Zenon
    <3>3. strcmp[KeyOf(S[p][j])][KeyOf(S[p][j + 1])] < 0
      BY Zenon DEF Chains, Ascending
    <3>. QED  BY <3>1, <3>2, <3>3, Zenon
  <2>2. ASSUME NEW j \in 1 .. Len(t) - 1
        PROVE  strcmp[KeyOf(t[j])'][KeyOf(t[j + 1])'] < 0
    <3>1. /\ Len(t) = n + 1 /\ t[i] = m /\ i \in 1 .. n + 1
          /\ \A c \in 1 .. i - 1 : c \in 1 .. n /\ t[c] = s[c]
          /\ \A c \in i + 1 .. n + 1 : c - 1 \in 1 .. n /\ t[c] = s[c - 1]
      BY <1>1, InsertedIs, Zenon DEF t, n, s
    <3>2. \A c \in 1 .. n : KeyOf(s[c])' = KeyOf(s[c])
      <4>1. ASSUME NEW c \in 1 .. Len(S[l]) PROVE KeyOf(S[l][c])' = KeyOf(S[l][c])
        <5>1. S[l][c] \in Node
          BY HasEntry
        <5>2. S[l][c] # m
          BY <1>2, Zenon DEF In
        <5>. QED  BY <1>4, <5>1, <5>2, Zenon
      <4>. QED  BY <4>1, Zenon DEF s, n
    <3>3. /\ \A c \in 1 .. i - 1 : strcmp[KeyOf(s[c])][k] < 0
          /\ i \in 1 .. n => strcmp[k][KeyOf(s[i])] < 0
          /\ \A c \in 1 .. n - 1 : strcmp[KeyOf(s[c])][KeyOf(s[c + 1])] < 0
      BY Zenon DEF Chains, Ascending, s, n
    <3>4. CASE j + 1 < i
      <4>1. j \in 1 .. i - 1 /\ j + 1 \in 1 .. i - 1 /\ j \in 1 .. n - 1
        BY <1>1, <3>1, <3>4
      <4>2. /\ t[j] = s[j] /\ t[j + 1] = s[j + 1]
            /\ j \in 1 .. n /\ j + 1 \in 1 .. n
        BY <3>1, <4>1, Zenon
      <4>. QED  BY <3>2, <3>3, <4>1, <4>2, Zenon
    <3>5. CASE j + 1 = i
      <4>1. j \in 1 .. i - 1
        BY <1>1, <3>1, <3>5
      <4>2. t[j] = s[j] /\ t[j + 1] = m /\ j \in 1 .. n
        BY <3>1, <3>5, <4>1, Zenon
      <4>3. /\ KeyOf(t[j])' = KeyOf(s[j]) /\ KeyOf(t[j + 1])' = k
            /\ strcmp[KeyOf(s[j])][k] < 0
        BY <1>4, <3>2, <3>3, <4>1, <4>2, Zenon
      <4>. QED  BY <4>3, Zenon
    <3>6. CASE j = i
      <4>1. j + 1 \in i + 1 .. n + 1 /\ (j + 1) - 1 = i
        BY <1>1, <3>1, <3>6
      <4>2. t[j] = m /\ t[j + 1] = s[i] /\ i \in 1 .. n
        BY <3>1, <3>6, <4>1, Zenon
      <4>. QED  BY <1>4, <3>2, <3>3, <4>2, Zenon
    <3>7. CASE j > i
      <4>1. /\ j \in i + 1 .. n + 1 /\ j + 1 \in i + 1 .. n + 1
            /\ (j + 1) - 1 = j /\ (j - 1) + 1 = j /\ j - 1 \in 1 .. n - 1
        BY <1>1, <3>1, <3>7
      <4>2. /\ t[j] = s[j - 1] /\ t[j + 1] = s[j]
            /\ j - 1 \in 1 .. n /\ j \in 1 .. n
        BY <3>1, <4>1, Zenon
      <4>3. strcmp[KeyOf(s[j - 1])][KeyOf(s[j])] < 0
        BY <3>3, <4>1, Zenon
      <4>. QED  BY <3>2, <4>2, <4>3, Zenon
    <3>8. j + 1 < i \/ j + 1 = i \/ j = i \/ j > i
      BY <1>1, <3>1
    <3>. QED  BY <3>4, <3>5, <3>6, <3>7, <3>8
  <2>. QED  BY <1>3, <2>1, <2>2, Zenon DEF Ascending
<1>. QED  BY <1>3, <1>9, <1>10, <1>11, <1>12, <1>13, <1>14, Zenon DEF Chains

LEMMA RemoveChains ==
    ASSUME HeapTypes, NEW S \in [List -> Seq(Node)], Chains(S),
           NEW l \in List, NEW i \in 1 .. Len(S[l]),
           Unlink(l, Before(S[l], i), S[l][i])
    PROVE  HeapTypes' /\ \E T \in [List -> Seq(Node)] : Chains(T)'
<1> DEFINE s == S[l]
           n == Len(s)
           c == s[i]
           t == Removed(s, i)
           T == [S EXCEPT ![l] = t]
<1>1. /\ s \in Seq(Node) /\ n \in Nat /\ i \in 1 .. n
      /\ Threaded(s, head[l], next) /\ size[l] = n
  BY NodesAre DEF Chains, Linked
<1>2. c \in Node /\ In(s, c) /\ \A p \in List \ {l} : ~In(S[p], c)
  <2>1. c \in Node /\ In(s, c)
    BY HasEntry, Zenon DEF In
  <2>. QED  BY <2>1, Zenon DEF Chains, Apart
<1>3. /\ T \in [List -> Seq(Node)] /\ T[l] = t
      /\ \A p \in List \ {l} : T[p] = S[p]
  <2>1. t \in Seq(Node)
    BY <1>1, RemovedIs, Zenon
  <2> HIDE DEF t
  <2>. QED  BY <2>1
<1>4. \A x : In(t, x) <=> x # c /\ In(s, x)
  <2>1. \A j, k \in 1 .. Len(s) : s[j] = s[k] => j = k
    BY <1>1, Zenon DEF Threaded
  <2>. QED  BY <1>1, <2>1, RemovedHolds, Zenon
<1>5. Before(s, i) \in Node \cup {Nil} /\ (Before(s, i) # Nil => In(s, Before(s, i)))
  <2>1. \A j \in 1 .. n : s[j] \in Node
    BY <1>1
  <2>. QED  BY <2>1, Zenon DEF Before, In
<1> HIDE DEF s, n, c, t, T
<1>6. /\ head' = IF Before(s, i) = Nil THEN [head EXCEPT ![l] = next[c]] ELSE head
      /\ next' = IF Before(s, i) = Nil THEN [next EXCEPT ![c] = Nil]
                 ELSE [next EXCEPT ![Before(s, i)] = next[c], ![c] = Nil]
      /\ entry' = [entry EXCEPT ![c] = Nil]
      /\ size' = [size EXCEPT ![l] = @ - 1]
  BY DEF Unlink, s, c
<1>7. \A x \in Node : /\ entry'[x] = IF x = c THEN Nil ELSE entry[x]
                      /\ x # c => KeyOf(x)' = KeyOf(x)
  BY <1>2, <1>6 DEF HeapTypes, KeyOf
<1>8. HeapTypes'
  <2>1. /\ head' \in [List -> Node \cup {Nil}]
        /\ next' \in [Node -> Node \cup {Nil}]
        /\ entry' \in [Node -> Entry \cup {Nil}]
    BY <1>2, <1>5, <1>6 DEF HeapTypes
  <2>2. size' \in [List -> Nat]
    <3>1. size[l] - 1 \in Nat
      BY <1>1
    <3>. QED  BY <1>6, <3>1 DEF HeapTypes
  <2>. QED  BY <2>1, <2>2 DEF HeapTypes
<1>9. Linked(T)'
  <2>1. ASSUME NEW p \in List PROVE (Threaded(T[p], head[p], next) /\ size[p] = Len(T[p]))'
    <3>1. CASE p = l
      <4>1. Threaded(t, IF Before(s, i) = Nil THEN next[c] ELSE head[l], next')
        <5>1. next \in [Node -> Node \cup {Nil}]
          BY DEF HeapTypes
        <5>2. i \in 1 .. Len(s)
          BY DEF s
        <5>3. next' = IF Before(s, i) = Nil THEN [next EXCEPT ![s[i]] = Nil]
                      ELSE [next EXCEPT ![Before(s, i)] = next[s[i]], ![s[i]] = Nil]
          BY <1>6, Zenon DEF c
        <5>. QED  BY <1>1, <5>1, <5>2, <5>3, RemoveThreads, Zenon DEF t, c
      <4>2. head'[l] = IF Before(s, i) = Nil THEN next[c] ELSE head[l]
        BY <1>6 DEF HeapTypes
      <4>3. size'[l] = n - 1
        BY <1>1, <1>6 DEF HeapTypes
      <4>4. Len(t) = n - 1
        BY <1>1, RemovedIs, Zenon DEF t, n, s
      <4>. QED  BY <1>3, <3>1, <4>1, <4>2, <4>3, <4>4, Zenon
    <3>2. CASE p # l
      <4>1. T[p] = S[p] /\ head'[p] = head[p] /\ size'[p] = size[p]
        BY <1>3, <1>6, <3>2 DEF HeapTypes
      <4>2. \A x \in Node : In(S[p], x) => next'[x] = next[x]
        <5>1. ASSUME NEW x \in Node, In(S[p], x)
              PROVE  x # c /\ (Before(s, i) # Nil => x # Before(s, i))
          BY <1>2, <1>5, <3>2, <5>1, Zenon DEF Chains, Apart, s
        <5>. QED  BY <1>6, <5>1 DEF HeapTypes
      <4>3. Threaded(S[p], head[p], next) /\ size[p] = Len(S[p])
        BY Zenon DEF Chains, Linked
      <4>4. Threaded(S[p], head[p], next')
        BY <4>2, <4>3, SameThread, Zenon
      <4>. QED  BY <4>1, <4>3, <4>4, Zenon
    <3>. QED  BY <3>1, <3>2
  <2>. QED  BY <2>1, Zenon DEF Linked
<1>10. \A p \in List, x \in Node : In(T[p], x) <=> x # c /\ In(S[p], x)
  <2>1. ASSUME NEW p \in List, NEW x \in Node
        PROVE  In(T[p], x) <=> x # c /\ In(S[p], x)
    <3>1. CASE p = l
      BY <1>3, <1>4, <3>1, Zenon DEF s
    <3>2. CASE p # l
      BY <1>2, <1>3, <3>2, Zenon
    <3>. QED  BY <3>1, <3>2
  <2>. QED  BY <2>1, Zenon
<1>11. Apart(T)'
  BY <1>10, Zenon DEF Apart, Chains
<1>12. Covered(T)'
  <2>1. \A x \in Node : entry'[x] # Nil <=> x # c /\ entry[x] # Nil
    BY <1>7, Zenon
  <2>. QED  BY <1>10, <2>1, Zenon DEF Covered, Chains
<1>13. Homed(T)'
  <2>1. hash_code' = hash_code
    BY DEF hash_code, Rem, char, FoldLeft, MapThenFoldSet
  <2>2. ASSUME NEW p \in List, NEW x \in Node, In(T[p], x)
        PROVE  hash_code[KeyOf(x)'] = p
    <3>1. x # c /\ In(S[p], x)
      BY <1>10, <2>2, Zenon
    <3>2. hash_code[KeyOf(x)] = p
      BY <3>1, Zenon DEF Homed, Chains
    <3>3. KeyOf(x)' = KeyOf(x)
      BY <1>7, <3>1, Zenon
    <3>. QED  BY <3>2, <3>3, Zenon
  <2>. QED  BY <2>1, <2>2, Zenon DEF Homed
<1>14. Ascending(T)'
  <2>1. ASSUME NEW p \in List \ {l}, NEW j \in 1 .. Len(S[p]) - 1
        PROVE  strcmp[KeyOf(S[p][j])'][KeyOf(S[p][j + 1])'] < 0
    <3>1. j \in 1 .. Len(S[p]) /\ j + 1 \in 1 .. Len(S[p])
      <4>1. Len(S[p]) \in Nat
        BY NodesAre DEF Chains
      <4>. QED  BY <4>1
    <3>2. ASSUME NEW d \in 1 .. Len(S[p]) PROVE KeyOf(S[p][d])' = KeyOf(S[p][d])
      <4>1. S[p][d] \in Node
        BY HasEntry
      <4>2. S[p][d] # c
        BY <1>2, Zenon DEF In
      <4>. QED  BY <1>7, <4>1, <4>2, Zenon
    <3>3. strcmp[KeyOf(S[p][j])][KeyOf(S[p][j + 1])] < 0
      BY Zenon DEF Chains, Ascending
    <3>. QED  BY <3>1, <3>2, <3>3, Zenon
  <2>2. ASSUME NEW j \in 1 .. Len(t) - 1
        PROVE  strcmp[KeyOf(t[j])'][KeyOf(t[j + 1])'] < 0
    <3>1. /\ Len(t) = n - 1
          /\ \A d \in 1 .. i - 1 : d \in 1 .. n /\ t[d] = s[d]
          /\ \A d \in i .. n - 1 : d + 1 \in 1 .. n /\ t[d] = s[d + 1]
      BY <1>1, RemovedIs, Zenon DEF t, n, s
    <3>2. /\ \A d \in 1 .. n : s[d] \in Node /\ KeyOf(s[d]) \in Key
          /\ \A d \in 1 .. n - 1 : strcmp[KeyOf(s[d])][KeyOf(s[d + 1])] < 0
      BY HasEntry, Zenon DEF Chains, Ascending, s, n
    <3>3. \A d \in 1 .. n : d # i => KeyOf(s[d])' = KeyOf(s[d])
      <4>1. ASSUME NEW d \in 1 .. n, d # i PROVE KeyOf(s[d])' = KeyOf(s[d])
        <5>1. s[d] # s[i]
          BY <1>1, <4>1, Zenon DEF Threaded, n
        <5>. QED  BY <1>7, <3>2, <5>1, Zenon DEF c
      <4>. QED  BY <4>1, Zenon
    <3>4. CASE j + 1 < i
      <4>1. /\ j \in 1 .. i - 1 /\ j + 1 \in 1 .. i - 1 /\ j \in 1 .. n - 1
            /\ j # i /\ j + 1 # i
        BY <1>1, <3>1, <3>4
      <4>2. /\ t[j] = s[j] /\ t[j + 1] = s[j + 1]
            /\ j \in 1 .. n /\ j + 1 \in 1 .. n
        BY <3>1, <4>1, Zenon
      <4>. QED  BY <3>2, <3>3, <4>1, <4>2, Zenon
    <3>5. CASE j + 1 = i
      <4>1. /\ j \in 1 .. i - 1 /\ i \in i .. n - 1 /\ j # i /\ i + 1 # i
            /\ j \in 1 .. n - 1 /\ i \in 1 .. n - 1
        BY <1>1, <3>1, <3>5
      <4>2. t[j] = s[j] /\ t[j + 1] = s[i + 1] /\ j \in 1 .. n /\ i + 1 \in 1 .. n
        BY <3>1, <3>5, <4>1, Zenon
      <4>3. /\ strcmp[KeyOf(s[j])][KeyOf(s[i])] < 0
            /\ strcmp[KeyOf(s[i])][KeyOf(s[i + 1])] < 0
        BY <3>2, <3>5, <4>1, Zenon
      <4>4. strcmp[KeyOf(s[j])][KeyOf(s[i + 1])] < 0
        BY <1>1, <3>2, <4>2, <4>3, KeyOrder, Zenon
      <4>5. KeyOf(t[j])' = KeyOf(s[j]) /\ KeyOf(t[j + 1])' = KeyOf(s[i + 1])
        BY <3>3, <4>1, <4>2, Zenon
      <4>. QED  BY <4>4, <4>5, Zenon
    <3>6. CASE j >= i
      <4>1. /\ j \in i .. n - 1 /\ j + 1 \in i .. n - 1 /\ j + 1 \in 1 .. n - 1
            /\ j + 1 # i /\ (j + 1) + 1 # i
        BY <1>1, <3>1, <3>6
      <4>2. /\ t[j] = s[j + 1] /\ t[j + 1] = s[(j + 1) + 1]
            /\ j + 1 \in 1 .. n /\ (j + 1) + 1 \in 1 .. n
        BY <3>1, <4>1, Zenon
      <4>3. strcmp[KeyOf(s[j + 1])][KeyOf(s[(j + 1) + 1])] < 0
        BY <3>2, <4>1, Zenon
      <4>4. KeyOf(t[j])' = KeyOf(s[j + 1]) /\ KeyOf(t[j + 1])' = KeyOf(s[(j + 1) + 1])
        BY <3>3, <4>1, <4>2, Zenon
      <4>. QED  BY <4>3, <4>4, Zenon
    <3>7. j + 1 < i \/ j + 1 = i \/ j >= i
      BY <1>1, <3>1
    <3>. QED  BY <3>4, <3>5, <3>6, <3>7
  <2>. QED  BY <1>3, <2>1, <2>2, Zenon DEF Ascending
<1>. QED  BY <1>3, <1>8, <1>9, <1>11, <1>12, <1>13, <1>14, Zenon DEF Chains

(* Another value in a node that is in use changes no list.                 *)
LEMMA SameChains ==
    ASSUME HeapTypes, NEW S \in [List -> Seq(Node)], Chains(S),
           UNCHANGED <<head, next, size>>,
           entry' \in [Node -> Entry \cup {Nil}],
           \A x \in Node : /\ entry'[x] = Nil <=> entry[x] = Nil
                           /\ entry[x] # Nil => KeyOf(x)' = KeyOf(x)
    PROVE  HeapTypes' /\ Chains(S)'
<1>1. HeapTypes'
  BY DEF HeapTypes
<1>2. /\ Linked(S)' /\ Apart(S)' /\ Covered(S)'
  BY Zenon DEF Chains, Linked, Apart, Covered
<1>3. \A p \in List : \A x \in Node : In(S[p], x) => KeyOf(x)' = KeyOf(x)
  BY Zenon DEF Chains, Covered
<1>4. Homed(S)'
  <2>1. hash_code' = hash_code
    BY DEF hash_code, Rem, char, FoldLeft, MapThenFoldSet
  <2>2. ASSUME NEW p \in List, NEW x \in Node, In(S[p], x)
        PROVE  hash_code[KeyOf(x)'] = p
    <3>1. hash_code[KeyOf(x)] = p
      BY <2>2, Zenon DEF Homed, Chains
    <3>2. KeyOf(x)' = KeyOf(x)
      BY <1>3, <2>2, Zenon
    <3>. QED  BY <3>1, <3>2, Zenon
  <2>. QED  BY <2>1, <2>2, Zenon DEF Homed
<1>5. Ascending(S)'
  <2>1. ASSUME NEW p \in List, NEW j \in 1 .. Len(S[p]) - 1
        PROVE  strcmp[KeyOf(S[p][j])'][KeyOf(S[p][j + 1])'] < 0
    <3>1. j \in 1 .. Len(S[p]) /\ j + 1 \in 1 .. Len(S[p])
      <4>1. Len(S[p]) \in Nat
        BY NodesAre DEF Chains
      <4>. QED  BY <4>1
    <3>2. ASSUME NEW d \in 1 .. Len(S[p]) PROVE KeyOf(S[p][d])' = KeyOf(S[p][d])
      <4>1. S[p][d] \in Node
        BY HasEntry
      <4>. QED  BY <1>3, <4>1, Zenon DEF In
    <3>3. strcmp[KeyOf(S[p][j])][KeyOf(S[p][j + 1])] < 0
      BY Zenon DEF Chains, Ascending
    <3>. QED  BY <3>1, <3>2, <3>3, Zenon
  <2>. QED  BY <2>1, Zenon DEF Ascending
<1>. QED  BY <1>1, <1>2, <1>4, <1>5, Zenon DEF Chains

-----------------------------------------------------------------------------
(* Node n is in use for key k.                                             *)
HasKey(n, k) == entry[n] # Nil /\ KeyOf(n) = k

LEMMA UsedIn ==
    ASSUME HeapTypes, NEW S \in [List -> Seq(Node)], Chains(S),
           NEW n \in Node, NEW k \in Key, HasKey(n, k)
    PROVE  hash_code[k] \in List /\ In(S[hash_code[k]], n)
<1>1. PICK l \in List : In(S[l], n)
  BY DEF Chains, Covered, HasKey
<1>2. hash_code[k] = l
  BY <1>1, Zenon DEF Chains, Homed, HasKey
<1>. QED  BY <1>1, <1>2

(* list_get() with the hash of a key finds the node that is in use for it. *)
LEMMA Finds ==
    ASSUME HeapTypes, NEW S \in [List -> Seq(Node)], Chains(S),
           NEW k \in Key, Indexed(k)
    PROVE  \/ /\ list_get(hash_code[k], k) = Nil
              /\ \A n \in Node : ~HasKey(n, k)
           \/ /\ list_get(hash_code[k], k) \in Node
              /\ list_get(hash_code[k], k) # Nil
              /\ HasKey(list_get(hash_code[k], k), k)
<1> DEFINE l == hash_code[k]
<1>1. l \in List
  BY DEF Indexed
<1> HIDE DEF l
<1>2. CASE list_get(l, k) = Nil /\ \A i \in 1 .. Len(S[l]) : KeyOf(S[l][i]) # k
  <2>1. ASSUME NEW n \in Node, HasKey(n, k) PROVE FALSE
    <3>1. In(S[l], n)
      BY <2>1, UsedIn, Zenon DEF l
    <3>. QED  BY <1>2, <2>1, <3>1, Zenon DEF In, HasKey
  <2>. QED  BY <1>2, <2>1, Zenon DEF l
<1>3. ASSUME NEW i \in 1 .. Len(S[l]), list_get(l, k) = S[l][i], KeyOf(S[l][i]) = k
      PROVE  list_get(l, k) \in Node /\ list_get(l, k) # Nil /\ HasKey(list_get(l, k), k)
  <2>1. S[l][i] \in Node /\ S[l][i] # Nil /\ entry[S[l][i]] # Nil
    BY <1>1, HasEntry, Zenon
  <2>. QED  BY <1>3, <2>1, Zenon DEF HasKey
<1>4. \/ /\ list_get(l, k) = Nil
         /\ \A i \in 1 .. Len(S[l]) : KeyOf(S[l][i]) # k
      \/ \E i \in 1 .. Len(S[l]) :
            list_get(l, k) = S[l][i] /\ KeyOf(S[l][i]) = k
  BY <1>1, GetFinds, Zenon
<1>. QED  BY <1>2, <1>3, <1>4, Zenon DEF l

(* Ascending keys are all different.                                       *)
LEMMA Rising ==
    ASSUME NEW n \in Nat, NEW f, \A i \in 1 .. n : f[i] \in Key,
           \A i \in 1 .. n - 1 : strcmp[f[i]][f[i + 1]] < 0
    PROVE  \A i, j \in 1 .. n : f[i] = f[j] => i = j
<1> DEFINE D == {d \in Nat : \A i \in 1 .. n : i + d + 1 \in 1 .. n =>
                                strcmp[f[i]][f[i + d + 1]] < 0}
<1>1. 0 \in D
  <2>1. ASSUME NEW i \in 1 .. n, i + 0 + 1 \in 1 .. n
        PROVE  i \in 1 .. n - 1 /\ i + 0 + 1 = i + 1
    BY <2>1
  <2>2. \A i \in 1 .. n : i + 0 + 1 \in 1 .. n => strcmp[f[i]][f[i + 0 + 1]] < 0
    BY <2>1, Zenon
  <2>. QED  BY <2>2
<1>2. ASSUME NEW d \in D PROVE d + 1 \in D
  <2>1. d \in Nat /\ d + 1 \in Nat
    OBVIOUS
  <2>2. ASSUME NEW i \in 1 .. n, i + (d + 1) + 1 \in 1 .. n
        PROVE  strcmp[f[i]][f[i + (d + 1) + 1]] < 0
    <3>1. /\ i + d + 1 \in 1 .. n /\ i + d + 1 \in 1 .. n - 1
          /\ (i + d + 1) + 1 = i + (d + 1) + 1
      <4> HIDE DEF D
      <4>. QED  BY <2>1, <2>2
    <3>2. strcmp[f[i]][f[i + d + 1]] < 0
      BY <1>2, <3>1
    <3> HIDE DEF D
    <3>3. strcmp[f[i + d + 1]][f[(i + d + 1) + 1]] < 0
      BY <3>1, Zenon
    <3>4. strcmp[f[i + d + 1]][f[i + (d + 1) + 1]] < 0
      BY <3>1, <3>3, Zenon
    <3>5. /\ f[i] \in Key /\ f[i + d + 1] \in Key /\ f[i + (d + 1) + 1] \in Key
      BY <2>2, <3>1, Zenon
    <3>6. \A a, b, c \in Key : strcmp[a][b] < 0 /\ strcmp[b][c] < 0 => strcmp[a][c] < 0
      BY KeyOrder, Zenon
    <3>. QED  BY <3>2, <3>4, <3>5, <3>6, Zenon
  <2>. QED  BY <2>1, <2>2
<1>3. D = Nat
  <2> HIDE DEF D
  <2>1. D \in SUBSET Nat
    BY DEF D
  <2>. QED  BY <1>1, <1>2, <2>1, AllNat, Zenon
<1>4. ASSUME NEW i \in 1 .. n, NEW j \in 1 .. n, i < j PROVE f[i] # f[j]
  <2>1. j - i - 1 \in Nat /\ i + (j - i - 1) + 1 = j
    BY <1>4
  <2>2. \A d \in Nat : i + d + 1 \in 1 .. n => strcmp[f[i]][f[i + d + 1]] < 0
    BY <1>3
  <2>3. strcmp[f[i]][f[j]] < 0
    <3> HIDE DEF D
    <3>1. strcmp[f[i]][f[i + (j - i - 1) + 1]] < 0
      BY <2>1, <2>2, Zenon
    <3>. QED  BY <2>1, <3>1, Zenon
  <2>4. strcmp[f[i]][f[j]] # 0
    <3>1. strcmp[f[i]][f[j]] \in Int
      BY KeyOrder, Zenon
    <3>. QED  BY <2>3, <3>1
  <2>. QED  BY <2>4, KeyOrder, Zenon
<1> HIDE DEF D
<1>5. \A i, j \in 1 .. n : i = j \/ i < j \/ j < i
  OBVIOUS
<1>. QED  BY <1>4, <1>5, Zenon

(* So no key is in use twice.                                              *)
LEMMA OneNode ==
    ASSUME HeapTypes, NEW S \in [List -> Seq(Node)], Chains(S),
           NEW k \in Key, NEW m \in Node, NEW n \in Node, HasKey(m, k), HasKey(n, k)
    PROVE  m = n
<1> DEFINE l == hash_code[k]
           f == [i \in 1 .. Len(S[l]) |-> KeyOf(S[l][i])]
<1>1. l \in List /\ In(S[l], m) /\ In(S[l], n)
  BY UsedIn
<1>2. PICK i \in 1 .. Len(S[l]) : S[l][i] = m
  BY <1>1, Zenon DEF In
<1>3. PICK j \in 1 .. Len(S[l]) : S[l][j] = n
  BY <1>1, Zenon DEF In
<1>4. Len(S[l]) \in Nat
  BY <1>1, NodesAre DEF Chains
<1>5. \A c \in 1 .. Len(S[l]) : f[c] = KeyOf(S[l][c]) /\ f[c] \in Key
  BY <1>1, HasEntry
<1> HIDE DEF f, l
<1>6. \A c \in 1 .. Len(S[l]) - 1 : strcmp[f[c]][f[c + 1]] < 0
  <2>1. \A c \in 1 .. Len(S[l]) - 1 : c \in 1 .. Len(S[l]) /\ c + 1 \in 1 .. Len(S[l])
    BY <1>4
  <2>2. \A c \in 1 .. Len(S[l]) - 1 : strcmp[KeyOf(S[l][c])][KeyOf(S[l][c + 1])] < 0
    BY <1>1, Zenon DEF Chains, Ascending
  <2>. QED  BY <1>5, <2>1, <2>2, Zenon
<1>7. \A c, d \in 1 .. Len(S[l]) : f[c] = f[d] => c = d
  BY <1>4, <1>5, <1>6, Rising, Zenon
<1>8. f[i] = f[j]
  BY <1>2, <1>3, <1>5, Zenon DEF HasKey
<1>. QED  BY <1>2, <1>3, <1>7, <1>8, Zenon

-----------------------------------------------------------------------------
(* The steps of the lists.                                                 *)

LEMMA AddStep ==
    ASSUME Layout, NEW k \in Key, Indexed(k), list_get(hash_code[k], k) = Nil,
           NEW v \in Val, NEW rc, NEW b, list_add(hash_code[k], k, v, rc, b)
    PROVE  /\ Layout'
           /\ \/ rc = -1 /\ blocks' = entry_destroy(b) /\ UNCHANGED links
              \/ /\ rc = 0 /\ blocks' = b + 1
                 /\ \E m \in Node : /\ entry[m] = Nil
                                    /\ entry' = [entry EXCEPT ![m] = [key |-> k, val |-> v]]
<1> DEFINE l == hash_code[k]
           i == StopsAt(l, k)
           atual == NodeAt(l, i)
<1>1. HeapTypes /\ l \in List
  BY DEF Layout, Indexed
<1>2. PICK S \in [List -> Seq(Node)] : Chains(S)
  BY Zenon DEF Layout
<1>3. \A n \in Node : ~HasKey(n, k)
  BY <1>1, <1>2, Finds, Zenon
<1>4. /\ i \in 1 .. Len(S[l]) + 1
      /\ \A j \in 1 .. i - 1 : strcmp[KeyOf(S[l][j])][k] < 0
      /\ i \in 1 .. Len(S[l]) => strcmp[k][KeyOf(S[l][i])] <= 0
  BY <1>1, <1>2, AddStops, Zenon
<1>5. \A c : NodeAt(l, c) = IF c \in 1 .. Len(S[l]) THEN S[l][c] ELSE Nil
  BY <1>1, <1>2, NodeAtIs, Zenon DEF Chains
<1>6. atual = Behind(S[l], i) /\ NodeAt(l, i - 1) = Before(S[l], i)
  BY <1>5, Zenon DEF Behind, Before
<1>7. \/ rc = -1 /\ blocks' = entry_destroy(b) /\ UNCHANGED links
      \/ HoldsKey(atual, k)
      \/ /\ rc = 0 /\ blocks' = b + 1
         /\ \E m \in Unused : /\ Insert(l, m, NodeAt(l, i - 1), atual)
                              /\ entry' = [entry EXCEPT ![m] = [key |-> k, val |-> v]]
  BY Zenon DEF list_add
<1> HIDE DEF i, atual, l
<1>8. CASE rc = -1 /\ blocks' = entry_destroy(b) /\ UNCHANGED links
  <2>1. HeapTypes' /\ Chains(S)'
    BY <1>1, <1>2, <1>8, SameChains DEF links, HeapTypes, KeyOf
  <2>. QED  BY <1>2, <1>8, <2>1, Zenon DEF Layout
<1>9. ASSUME HoldsKey(atual, k) PROVE FALSE
  <2>1. atual # Nil /\ strcmp[k][KeyOf(atual)] = 0
    BY <1>9, Zenon DEF HoldsKey
  <2>2. PICK c \in 1 .. Len(S[l]) : atual = S[l][c]
    BY <1>6, <2>1, Zenon DEF Behind
  <2>3. atual \in Node /\ entry[atual] # Nil /\ KeyOf(atual) \in Key
    BY <1>1, <1>2, <2>2, HasEntry, Zenon
  <2>4. KeyOf(atual) = k
    BY <2>1, <2>3, KeyOrder, Zenon
  <2>. QED  BY <1>3, <2>3, <2>4, Zenon DEF HasKey
<1>10. ASSUME NEW m \in Unused, Insert(l, m, NodeAt(l, i - 1), atual),
              entry' = [entry EXCEPT ![m] = [key |-> k, val |-> v]]
       PROVE  Layout' /\ m \in Node /\ entry[m] = Nil
  <2>1. m \in Node /\ entry[m] = Nil
    BY DEF Unused
  <2>2. Insert(l, m, Before(S[l], i), Behind(S[l], i))
    BY <1>6, <1>10, Zenon
  <2>3. i \in 1 .. Len(S[l]) => strcmp[k][KeyOf(S[l][i])] < 0
    <3>1. ASSUME i \in 1 .. Len(S[l]) PROVE strcmp[k][KeyOf(S[l][i])] < 0
      <4>1. S[l][i] \in Node /\ entry[S[l][i]] # Nil /\ KeyOf(S[l][i]) \in Key
        BY <1>1, <1>2, <3>1, HasEntry, Zenon
      <4>2. KeyOf(S[l][i]) # k
        BY <1>3, <4>1, Zenon DEF HasKey
      <4>3. strcmp[k][KeyOf(S[l][i])] \in Int /\ strcmp[k][KeyOf(S[l][i])] # 0
        BY <4>1, <4>2, KeyOrder, Zenon
      <4>. QED  BY <1>4, <3>1, <4>3
    <3>. QED  BY <3>1
  <2>4. hash_code[k] = l
    BY DEF l
  <2>5. HeapTypes' /\ \E T \in [List -> Seq(Node)] : Chains(T)'
    <3>1. PICK c : c = i
      OBVIOUS
    <3>2. Insert(l, m, Before(S[l], c), Behind(S[l], c))
      BY <2>2, <3>1, Zenon
    <3>3. /\ c \in 1 .. Len(S[l]) + 1
          /\ \A j \in 1 .. c - 1 : strcmp[KeyOf(S[l][j])][k] < 0
          /\ c \in 1 .. Len(S[l]) => strcmp[k][KeyOf(S[l][c])] < 0
      BY <1>4, <2>3, <3>1, Zenon
    <3>. QED  BY <1>1, <1>2, <1>10, <2>1, <2>4, <3>2, <3>3, AddChains, Zenon
  <2>. QED  BY <2>1, <2>5, Zenon DEF Layout
<1>. QED  BY <1>7, <1>8, <1>9, <1>10, Zenon

LEMMA RemoveStep ==
    ASSUME Layout, NEW k \in Key, Indexed(k),
           NEW rc, list_remove(hash_code[k], k, rc)
    PROVE  /\ Layout'
           /\ \/ rc = 1 /\ UNCHANGED listVars /\ \A n \in Node : ~HasKey(n, k)
              \/ /\ rc = 0 /\ blocks' = entry_destroy(blocks) - 1
                 /\ \E n \in Node : HasKey(n, k) /\ entry' = [entry EXCEPT ![n] = Nil]
<1> DEFINE l == hash_code[k]
           i == Sought(l, k)
           current == NodeAt(l, i)
<1>1. HeapTypes /\ l \in List
  BY DEF Layout, Indexed
<1>2. PICK S \in [List -> Seq(Node)] : Chains(S)
  BY Zenon DEF Layout
<1>3. /\ i \in 1 .. Len(S[l]) + 1
      /\ i \in 1 .. Len(S[l]) => KeyOf(S[l][i]) = k
      /\ i \notin 1 .. Len(S[l]) => \A j \in 1 .. Len(S[l]) : KeyOf(S[l][j]) # k
  BY <1>1, <1>2, RemoveStops, Zenon
<1>4. \A c : NodeAt(l, c) = IF c \in 1 .. Len(S[l]) THEN S[l][c] ELSE Nil
  BY <1>1, <1>2, NodeAtIs, Zenon DEF Chains
<1>5. NodeAt(l, i - 1) = Before(S[l], i)
  BY <1>4, Zenon DEF Before
<1>6. IF current = Nil THEN rc = 1 /\ UNCHANGED listVars
      ELSE /\ rc = 0
           /\ Unlink(l, NodeAt(l, i - 1), current)
           /\ blocks' = entry_destroy(blocks) - 1
  BY Zenon DEF list_remove, Sought
<1> HIDE DEF i, current, l
<1>7. CASE i \in 1 .. Len(S[l])
  <2>1. current = S[l][i]
    BY <1>4, <1>7, Zenon DEF current
  <2>2. current \in Node /\ current # Nil /\ HasKey(current, k)
    BY <1>1, <1>2, <1>3, <1>7, <2>1, HasEntry, Zenon DEF HasKey
  <2>3. /\ rc = 0 /\ blocks' = entry_destroy(blocks) - 1
        /\ Unlink(l, Before(S[l], i), S[l][i])
    BY <1>5, <1>6, <2>1, <2>2, Zenon
  <2>4. HeapTypes' /\ \E T \in [List -> Seq(Node)] : Chains(T)'
    <3>1. PICK c : c = i
      OBVIOUS
    <3>2. Unlink(l, Before(S[l], c), S[l][c]) /\ c \in 1 .. Len(S[l])
      BY <1>7, <2>3, <3>1, Zenon
    <3>. QED  BY <1>1, <1>2, <3>2, RemoveChains, Zenon
  <2>5. entry' = [entry EXCEPT ![current] = Nil]
    BY <2>1, <2>3, Zenon DEF Unlink
  <2>. QED  BY <2>2, <2>3, <2>4, <2>5, Zenon DEF Layout
<1>8. CASE i \notin 1 .. Len(S[l])
  <2>1. current = Nil
    BY <1>4, <1>8, Zenon DEF current
  <2>2. rc = 1 /\ UNCHANGED listVars
    BY <1>6, <2>1, Zenon
  <2>3. HeapTypes' /\ Chains(S)'
    BY <1>1, <1>2, <2>2, SameChains DEF listVars, links, HeapTypes, KeyOf
  <2>4. ASSUME NEW n \in Node, HasKey(n, k) PROVE FALSE
    <3>1. In(S[l], n)
      BY <1>1, <1>2, <2>4, UsedIn, Zenon DEF l
    <3>. QED  BY <1>3, <1>8, <2>4, <3>1, Zenon DEF In, HasKey
  <2>. QED  BY <1>2, <2>2, <2>3, <2>4, Zenon DEF Layout
<1>. QED  BY <1>7, <1>8

(* New data in the node that is in use for a key.                          *)
LEMMA ReplaceStep ==
    ASSUME Layout, NEW n \in Node, entry[n] # Nil, NEW v \in Val,
           entry' = [entry EXCEPT ![n].val = v], UNCHANGED <<head, size, next>>
    PROVE  Layout'
<1>1. PICK S \in [List -> Seq(Node)] : Chains(S)
  BY Zenon DEF Layout
<1>2. HeapTypes
  BY DEF Layout
<1>3. entry[n] \in Entry /\ entry'[n] = [entry[n] EXCEPT !.val = v]
  BY <1>2 DEF HeapTypes
<1>4. entry'[n] \in Entry /\ entry'[n].key = entry[n].key
  BY <1>3 DEF Entry
<1>5. entry'[n] # Nil
  BY <1>4, NilAssumption
<1>6. /\ entry' \in [Node -> Entry \cup {Nil}]
      /\ \A x \in Node : x # n => entry'[x] = entry[x]
  BY <1>2, <1>4 DEF HeapTypes
<1>7. \A x \in Node : /\ entry'[x] = Nil <=> entry[x] = Nil
                      /\ entry[x] # Nil => KeyOf(x)' = KeyOf(x)
  BY <1>4, <1>5, <1>6, Zenon DEF KeyOf
<1>8. HeapTypes' /\ Chains(S)'
  <2>1. UNCHANGED <<head, next, size>>
    OBVIOUS
  <2>. QED  BY <1>1, <1>2, <1>6, <1>7, <2>1, SameChains, Zenon
<1>. QED  BY <1>1, <1>8, Zenon DEF Layout

LEMMA SameStep ==
    ASSUME Layout, UNCHANGED links
    PROVE  Layout'
<1>1. PICK S \in [List -> Seq(Node)] : Chains(S)
  BY Zenon DEF Layout
<1>2. HeapTypes
  BY DEF Layout
<1>3. HeapTypes' /\ Chains(S)'
  BY <1>1, <1>2, SameChains DEF links, HeapTypes, KeyOf
<1>. QED  BY <1>1, <1>3, Zenon DEF Layout

(* Without a node in use every list is empty.                              *)
NoNodes ==
    /\ head = [l \in List |-> Nil] /\ size = [l \in List |-> 0]
    /\ next = [n \in Node |-> Nil] /\ entry = [n \in Node |-> Nil]

LEMMA EmptyLayout == NoNodes => Layout
<1> SUFFICES ASSUME NoNodes PROVE Layout
  OBVIOUS
<1> DEFINE S == [l \in List |-> << >>]
<1>1. HeapTypes
  BY DEF HeapTypes, NoNodes
<1>2. S \in [List -> Seq(Node)] /\ \A l \in List : S[l] = << >> /\ Len(S[l]) = 0
  OBVIOUS
<1> HIDE DEF S
<1>3. \A i : i \notin 1 .. 0
  OBVIOUS
<1>4. \A i : i \notin 1 .. 0 - 1
  OBVIOUS
<1>5. Linked(S)
  <2>1. << >> \in Seq(Node) /\ Len(<< >>) = 0
    OBVIOUS
  <2>2. Threaded(<< >>, Nil, next)
    BY <1>3, <2>1, Zenon DEF Threaded
  <2>3. \A l \in List : head[l] = Nil /\ size[l] = 0
    BY DEF NoNodes
  <2>. QED  BY <1>2, <2>2, <2>3, Zenon DEF Linked
<1>6. \A l \in List, n \in Node : ~In(S[l], n)
  BY <1>2, <1>3, Zenon DEF In
<1>7. Apart(S) /\ Covered(S) /\ Homed(S)
  <2>1. \A n \in Node : entry[n] = Nil
    BY DEF NoNodes
  <2>. QED  BY <1>6, <2>1, Zenon DEF Apart, Covered, Homed
<1>8. Ascending(S)
  BY <1>2, <1>4, Zenon DEF Ascending
<1>. QED  BY <1>1, <1>2, <1>5, <1>7, <1>8, Zenon DEF Layout, Chains

-----------------------------------------------------------------------------
(* Loops over the nodes of a list and over the lists.                      *)

LEMMA MaxOf ==
    ASSUME NEW n \in Nat, NEW d \in SUBSET (1 .. n), d # {}
    PROVE  Max(d) \in d
<1>1. d \in SUBSET Nat /\ \A i \in d : i <= n
  OBVIOUS
<1>2. \E m \in d : \A i \in d : i <= m
  BY <1>1, GreatestNat, Zenon
<1>3. PICK m \in d : \A i \in d : m >= i
  BY <1>1, <1>2
<1>. QED  BY <1>3, Zenon DEF Max

(* Two loops that start alike and go on alike end alike.                   *)
LEMMA LoopsAgree ==
    ASSUME NEW n \in Nat, NEW f, NEW g, f[{}] = g[{}],
           \A d \in SUBSET (1 .. n) :
               d # {} /\ f[d \ {Max(d)}] = g[d \ {Max(d)}] => f[d] = g[d]
    PROVE  f[1 .. n] = g[1 .. n]
<1> DEFINE D == {c \in Nat : \A d \in SUBSET (1 .. n) : Cardinality(d) = c => f[d] = g[d]}
<1>1. \A d \in SUBSET (1 .. n) : IsFiniteSet(d) /\ Cardinality(d) \in Nat
  <2>1. IsFiniteSet(1 .. n)
    BY FS_Interval
  <2>. QED  BY <2>1, FS_Subset, FS_CardinalityType, Zenon
<1>2. 0 \in D
  BY <1>1, FS_EmptySet
<1>3. ASSUME NEW c \in D PROVE c + 1 \in D
  <2>1. c \in Nat /\ c + 1 \in Nat /\ c + 1 # 0 /\ (c + 1) - 1 = c
    OBVIOUS
  <2>2. ASSUME NEW d \in SUBSET (1 .. n), Cardinality(d) = c + 1 PROVE f[d] = g[d]
    <3>1. d # {}
      BY <2>1, <2>2, FS_EmptySet, Zenon
    <3>2. Max(d) \in d
      BY <3>1, MaxOf, Zenon
    <3>3. d \ {Max(d)} \in SUBSET (1 .. n)
      OBVIOUS
    <3>4. Cardinality(d \ {Max(d)}) = Cardinality(d) - 1
      BY <1>1, <3>2, FS_RemoveElement, Zenon
    <3>5. Cardinality(d \ {Max(d)}) = c
      BY <2>1, <2>2, <3>4, Zenon
    <3>6. f[d \ {Max(d)}] = g[d \ {Max(d)}]
      BY <1>3, <3>3, <3>5
    <3> HIDE DEF D
    <3>. QED  BY <3>1, <3>6, Zenon
  <2>. QED  BY <2>1, <2>2
<1>4. D = Nat
  <2> HIDE DEF D
  <2>1. D \in SUBSET Nat
    BY DEF D
  <2>. QED  BY <1>2, <1>3, <2>1, AllNat, Zenon
<1>5. 1 .. n \in SUBSET (1 .. n)
  OBVIOUS
<1>6. Cardinality(1 .. n) \in D
  BY <1>1, <1>4, <1>5, Zenon
<1>. QED  BY <1>5, <1>6

NodesOf(s) == {n \in Node : In(s, n)}

LEMMA NodesCounted ==
    ASSUME NEW s \in Seq(Node), \A i, j \in 1 .. Len(s) : s[i] = s[j] => i = j
    PROVE  /\ IsFiniteSet(NodesOf(s)) /\ Cardinality(NodesOf(s)) = Len(s)
           /\ NodesOf(s) = Range(s)
<1> DEFINE n == Len(s)
           R == NodesOf(s)
<1>1. n \in Nat /\ s \in [1 .. n -> Node]
  BY LenProperties
<1>2. \A x : x \in R <=> \E i \in 1 .. n : s[i] = x
  <2>1. \A i \in 1 .. n : s[i] \in Node
    BY <1>1
  <2>. QED  BY <2>1, Zenon DEF NodesOf, In
<1>3. R = Range(s)
  BY <1>1, <1>2 DEF Range
<1> HIDE DEF n, R
<1>4. s \in [1 .. n -> R]
  BY <1>1, <1>2
<1>5. s \in Bijection(1 .. n, R)
  <2>1. \A i, j \in 1 .. n : s[i] = s[j] => i = j
    BY DEF n
  <2>2. DOMAIN s = 1 .. n
    BY <1>1
  <2>. QED  BY <1>2, <1>4, <2>1, <2>2, Zenon DEF Bijection, Injection, IsInjective, Surjection
<1>6. ExistsBijection(1 .. n, R)
  BY <1>5, Zenon DEF ExistsBijection
<1>7. IsFiniteSet(1 .. n) /\ Cardinality(1 .. n) = n
  BY <1>1, FS_Interval
<1>8. IsFiniteSet(R) /\ Cardinality(R) = n
  BY <1>6, <1>7, FS_Bijection, Zenon
<1>. QED  BY <1>3, <1>8 DEF n, R

(* The nodes of the lists that table->lists has at the places d.           *)
InSome(S, d) == {n \in Node : \E i \in d : In(S[i - 1], n)}

LEMMA PlacesOfLists ==
    /\ NLists \in Nat /\ List = 0 .. NLists - 1
    /\ Len(Lists) = NLists /\ DOMAIN Lists = 1 .. NLists
    /\ \A i \in 1 .. NLists : Lists[i] = i - 1 /\ i - 1 \in List
    /\ \A l \in List : l + 1 \in 1 .. NLists /\ (l + 1) - 1 = l
  BY TableAssumption DEF Lists

LEMMA InOneMore ==
    ASSUME NEW S \in [List -> Seq(Node)], Chains(S),
           NEW d \in SUBSET (1 .. NLists), d # {}
    PROVE  /\ Max(d) \in 1 .. NLists
           /\ Cardinality(InSome(S, d)) =
                 Cardinality(InSome(S, d \ {Max(d)})) + Len(S[Max(d) - 1])
           /\ Len(S[Max(d) - 1]) \in Nat
<1> DEFINE m == Max(d)
           l == m - 1
           rest == InSome(S, d \ {m})
           here == NodesOf(S[l])
<1>1. m \in d /\ m \in 1 .. NLists /\ l \in List
  BY PlacesOfLists, MaxOf
<1>2. /\ IsFiniteSet(here) /\ Cardinality(here) = Len(S[l])
  <2>1. Threaded(S[l], head[l], next)
    BY <1>1, Zenon DEF Chains, Linked
  <2>. QED  BY <2>1, NodesCounted, Zenon DEF Threaded
<1>3. IsFiniteSet(rest)
  <2>1. rest \in SUBSET Node
    BY DEF InSome
  <2>. QED  BY <2>1, NodeAssumption, FS_Subset, Zenon
<1>4. InSome(S, d) = rest \cup here
  <2>1. \A i \in d : i = m \/ i \in d \ {m}
    OBVIOUS
  <2> HIDE DEF m
  <2>. QED  BY <1>1, <2>1 DEF InSome, NodesOf
<1>5. rest \cap here = {}
  <2>1. ASSUME NEW x \in Node, NEW i \in d \ {m}, In(S[i - 1], x), In(S[l], x)
        PROVE  FALSE
    <3>1. i \in 1 .. NLists /\ i # m
      OBVIOUS
    <3>2. i - 1 \in List
      BY <3>1, PlacesOfLists
    <3>3. i - 1 = l
      BY <1>1, <2>1, <3>2, Zenon DEF Chains, Apart
    <3>. QED
      <4> HIDE DEF m
      <4>. QED  BY <1>1, <3>1, <3>3
  <2>. QED  BY <2>1, Zenon DEF InSome, NodesOf
<1>6. Cardinality({}) = 0 /\ Len(S[l]) \in Nat /\ Cardinality(rest) \in Nat
  <2>1. Len(S[l]) \in Nat
    BY <1>1, NodesAre DEF Chains
  <2>. QED  BY <1>3, <2>1, FS_EmptySet, FS_CardinalityType, Zenon
<1> HIDE DEF rest, here, m, l
<1>7. Cardinality(rest \cup here) = Cardinality(rest) + Cardinality(here) - Cardinality(rest \cap here)
  BY <1>2, <1>3, FS_Union, Zenon
<1>8. Cardinality(InSome(S, d)) = Cardinality(rest) + Len(S[l])
  <2>1. Cardinality(InSome(S, d)) = Cardinality(rest) + Len(S[l]) - 0
    BY <1>2, <1>4, <1>5, <1>6, <1>7, Zenon
  <2>. QED  BY <1>6, <2>1
<1>. QED  BY <1>1, <1>6, <1>8, Zenon DEF rest, l, m

(* The nodes in use are those in all lists.                                *)
LEMMA UsedInSome ==
    ASSUME HeapTypes, NEW S \in [List -> Seq(Node)], Chains(S)
    PROVE  InSome(S, 1 .. NLists) = Node \ Unused
<1>1. ASSUME NEW n \in Node
      PROVE  (\E i \in 1 .. NLists : In(S[i - 1], n)) <=> \E l \in List : In(S[l], n)
  BY PlacesOfLists, Zenon
<1>2. \A n \in Node : entry[n] # Nil <=> \E l \in List : In(S[l], n)
  BY Zenon DEF Chains, Covered
<1>. QED  BY <1>1, <1>2 DEF InSome, Unused

(* table_size() counts the nodes in use.                                   *)
SizeLoop(f) ==
    [d \in SUBSET DOMAIN Lists |->
        IF d = {} THEN 0 ELSE f[d \ {Max(d)}] + list_size(Lists[Max(d)])]

LEMMA SizeIs ==
    ASSUME HeapTypes, NEW S \in [List -> Seq(Node)], Chains(S)
    PROVE  FoldLeft(LAMBDA n, l : n + list_size(l), 0, Lists) = Cardinality(Node \ Unused)
<1> DEFINE f == CHOOSE g : g = SizeLoop(g)
           w == [d \in SUBSET (1 .. NLists) |-> Cardinality(InSome(S, d))]
<1>1. FoldLeft(LAMBDA n, l : n + list_size(l), 0, Lists) = f[1 .. NLists]
  <2>1. FoldLeft(LAMBDA n, l : n + list_size(l), 0, Lists) = f[DOMAIN Lists]
    BY DEF FoldLeft, MapThenFoldSet, SizeLoop
  <2> HIDE DEF f
  <2>. QED  BY <2>1, PlacesOfLists, Zenon
<1>2. w[{}] = 0
  <2>1. InSome(S, {}) = {}
    BY DEF InSome
  <2>2. w[{}] = Cardinality(InSome(S, {}))
    OBVIOUS
  <2>. QED  BY <2>1, <2>2, FS_EmptySet, Zenon
<1>3. ASSUME NEW d \in SUBSET (1 .. NLists), d # {}
      PROVE  w[d] = w[d \ {Max(d)}] + list_size(Lists[Max(d)])
  <2>1. /\ w[d] = Cardinality(InSome(S, d))
        /\ w[d \ {Max(d)}] = Cardinality(InSome(S, d \ {Max(d)}))
    BY <1>3
  <2>2. /\ Max(d) \in 1 .. NLists
        /\ Cardinality(InSome(S, d)) =
              Cardinality(InSome(S, d \ {Max(d)})) + Len(S[Max(d) - 1])
    BY <1>3, InOneMore, Zenon
  <2>3. list_size(Lists[Max(d)]) = Len(S[Max(d) - 1])
    BY <2>2, PlacesOfLists, Zenon DEF list_size, Chains, Linked
  <2> HIDE DEF w
  <2>. QED  BY <2>1, <2>2, <2>3, Zenon
<1>4. w = SizeLoop(w)
  <2>1. w = [d \in SUBSET (1 .. NLists) |-> w[d]]
    OBVIOUS
  <2> HIDE DEF w
  <2>2. \A d \in SUBSET (1 .. NLists) :
           w[d] = IF d = {} THEN 0 ELSE w[d \ {Max(d)}] + list_size(Lists[Max(d)])
    BY <1>2, <1>3, Zenon
  <2>3. w = [d \in SUBSET (1 .. NLists) |->
               IF d = {} THEN 0 ELSE w[d \ {Max(d)}] + list_size(Lists[Max(d)])]
    BY <2>1, <2>2, Zenon
  <2>. QED  BY <2>3, PlacesOfLists, Zenon DEF SizeLoop
<1> HIDE DEF f, w
<1>5. f = SizeLoop(f)
  BY <1>4, Zenon DEF f
<1>6. \A d \in SUBSET (1 .. NLists) :
         f[d] = IF d = {} THEN 0 ELSE f[d \ {Max(d)}] + list_size(Lists[Max(d)])
  <2>1. f = [d \in SUBSET (1 .. NLists) |->
               IF d = {} THEN 0 ELSE f[d \ {Max(d)}] + list_size(Lists[Max(d)])]
    BY <1>5, PlacesOfLists, Zenon DEF SizeLoop
  <2>. QED  BY <2>1, Zenon
<1>7. {} \in SUBSET (1 .. NLists)
  OBVIOUS
<1>8. f[{}] = w[{}]
  BY <1>2, <1>6, <1>7, Zenon
<1>9. \A d \in SUBSET (1 .. NLists) :
         d # {} /\ f[d \ {Max(d)}] = w[d \ {Max(d)}] => f[d] = w[d]
  BY <1>3, <1>6, Zenon
<1>10. f[1 .. NLists] = w[1 .. NLists]
  BY <1>8, <1>9, LoopsAgree, PlacesOfLists, Zenon
<1>11. w[1 .. NLists] = Cardinality(InSome(S, 1 .. NLists))
  BY DEF w
<1>. QED  BY <1>1, <1>10, <1>11, UsedInSome, Zenon

(* list_destroy() gives back five blocks per node, and the list.           *)
NodeLoop(f, n, s) ==
    [d \in SUBSET DOMAIN s |-> IF d = {} THEN n ELSE entry_destroy(f[d \ {Max(d)}]) - 1]

LEMMA NodeLoopIs ==
    ASSUME NEW n \in Int, NEW s \in Seq(Node)
    PROVE  FoldLeft(LAMBDA b, node : entry_destroy(b) - 1, n, s) = n - 5 * Len(s)
<1> DEFINE c == Len(s)
           f == CHOOSE g : g = NodeLoop(g, n, s)
           w == [d \in SUBSET (1 .. c) |-> n - 5 * Cardinality(d)]
<1>0. c \in Nat /\ DOMAIN s = 1 .. c
  BY LenProperties
<1>1. FoldLeft(LAMBDA b, node : entry_destroy(b) - 1, n, s) = f[1 .. c]
  <2>1. FoldLeft(LAMBDA b, node : entry_destroy(b) - 1, n, s) = f[DOMAIN s]
    BY DEF FoldLeft, MapThenFoldSet, NodeLoop
  <2> HIDE DEF f, c
  <2>. QED  BY <1>0, <2>1, Zenon
<1> HIDE DEF c, f
<1>2. w[{}] = n
  <2>1. Cardinality({}) = 0
    BY FS_EmptySet
  <2>2. w[{}] = n - 5 * Cardinality({})
    OBVIOUS
  <2>. QED  BY <2>1, <2>2
<1>3. ASSUME NEW d \in SUBSET (1 .. c), d # {}
      PROVE  w[d] = entry_destroy(w[d \ {Max(d)}]) - 1
  <2>1. /\ w[d] = n - 5 * Cardinality(d)
        /\ w[d \ {Max(d)}] = n - 5 * Cardinality(d \ {Max(d)})
    BY <1>3
  <2>2. IsFiniteSet(d) /\ Cardinality(d) \in Nat
    <3>1. IsFiniteSet(1 .. c)
      BY <1>0, FS_Interval
    <3>. QED  BY <3>1, FS_Subset, FS_CardinalityType, Zenon
  <2>3. Cardinality(d \ {Max(d)}) = Cardinality(d) - 1
    BY <1>0, <1>3, <2>2, MaxOf, FS_RemoveElement, Zenon
  <2> HIDE DEF w
  <2>. QED  BY <2>1, <2>2, <2>3 DEF entry_destroy, data_destroy
<1>4. w = NodeLoop(w, n, s)
  <2>1. w = [d \in SUBSET (1 .. c) |-> w[d]]
    OBVIOUS
  <2> HIDE DEF w
  <2>2. \A d \in SUBSET (1 .. c) :
           w[d] = IF d = {} THEN n ELSE entry_destroy(w[d \ {Max(d)}]) - 1
    BY <1>2, <1>3, Zenon
  <2>3. w = [d \in SUBSET (1 .. c) |->
               IF d = {} THEN n ELSE entry_destroy(w[d \ {Max(d)}]) - 1]
    BY <2>1, <2>2, Zenon
  <2>. QED  BY <1>0, <2>3, Zenon DEF NodeLoop
<1> HIDE DEF w
<1>5. f = NodeLoop(f, n, s)
  BY <1>4, Zenon DEF f
<1>6. \A d \in SUBSET (1 .. c) :
         f[d] = IF d = {} THEN n ELSE entry_destroy(f[d \ {Max(d)}]) - 1
  <2>1. f = [d \in SUBSET (1 .. c) |->
               IF d = {} THEN n ELSE entry_destroy(f[d \ {Max(d)}]) - 1]
    BY <1>0, <1>5, Zenon DEF NodeLoop
  <2>. QED  BY <2>1, Zenon
<1>7. {} \in SUBSET (1 .. c)
  OBVIOUS
<1>8. f[{}] = w[{}]
  BY <1>2, <1>6, <1>7, Zenon
<1>9. \A d \in SUBSET (1 .. c) :
         d # {} /\ f[d \ {Max(d)}] = w[d \ {Max(d)}] => f[d] = w[d]
  BY <1>3, <1>6, Zenon
<1>10. f[1 .. c] = w[1 .. c]
  BY <1>0, <1>8, <1>9, LoopsAgree, Zenon
<1>11. w[1 .. c] = n - 5 * c
  <2>1. Cardinality(1 .. c) = c
    BY <1>0, FS_Interval
  <2>. QED  BY <2>1 DEF w
<1>. QED  BY <1>1, <1>10, <1>11, Zenon DEF c

(* table_destroy() gives back all nodes and all lists.                     *)
DestroyLoop(f, n) ==
    [d \in SUBSET DOMAIN Lists |->
        IF d = {} THEN n ELSE list_destroy(f[d \ {Max(d)}], Lists[Max(d)])]

LEMMA DestroyIs ==
    ASSUME HeapTypes, NEW S \in [List -> Seq(Node)], Chains(S), NEW n \in Int
    PROVE  FoldLeft(list_destroy, n, Lists) = n - 5 * Cardinality(Node \ Unused) - NLists
<1> DEFINE f == CHOOSE g : g = DestroyLoop(g, n)
           w == [d \in SUBSET (1 .. NLists) |->
                    n - 5 * Cardinality(InSome(S, d)) - Cardinality(d)]
<1>0. NLists \in Nat
  BY PlacesOfLists
<1>1. FoldLeft(list_destroy, n, Lists) = f[1 .. NLists]
  <2>1. FoldLeft(list_destroy, n, Lists) = f[DOMAIN Lists]
    BY DEF FoldLeft, MapThenFoldSet, DestroyLoop
  <2> HIDE DEF f
  <2>. QED  BY <2>1, PlacesOfLists, Zenon
<1> HIDE DEF f
<1>2. w[{}] = n
  <2>1. InSome(S, {}) = {}
    BY DEF InSome
  <2>2. w[{}] = n - 5 * Cardinality(InSome(S, {})) - Cardinality({})
    OBVIOUS
  <2>3. Cardinality({}) = 0
    BY FS_EmptySet
  <2> HIDE DEF w
  <2>4. w[{}] = n - 5 * 0 - 0
    BY <2>1, <2>2, <2>3, Zenon
  <2>. QED  BY <2>4
<1>3. \A d \in SUBSET (1 .. NLists) : Cardinality(InSome(S, d)) \in Nat
  <2>1. \A d \in SUBSET (1 .. NLists) : InSome(S, d) \in SUBSET Node
    BY DEF InSome
  <2>. QED  BY <2>1, NodeAssumption, FS_Subset, FS_CardinalityType, Zenon
<1>4. \A d \in SUBSET (1 .. NLists) : IsFiniteSet(d) /\ Cardinality(d) \in Nat
  <2>1. IsFiniteSet(1 .. NLists)
    BY <1>0, FS_Interval
  <2>. QED  BY <2>1, FS_Subset, FS_CardinalityType, Zenon
<1>5. ASSUME NEW d \in SUBSET (1 .. NLists), d # {}
      PROVE  w[d] = list_destroy(w[d \ {Max(d)}], Lists[Max(d)])
  <2>1. /\ w[d] = n - 5 * Cardinality(InSome(S, d)) - Cardinality(d)
        /\ w[d \ {Max(d)}] =
              n - 5 * Cardinality(InSome(S, d \ {Max(d)})) - Cardinality(d \ {Max(d)})
        /\ d \ {Max(d)} \in SUBSET (1 .. NLists)
    BY <1>5
  <2>2. /\ Max(d) \in 1 .. NLists
        /\ Cardinality(InSome(S, d)) =
              Cardinality(InSome(S, d \ {Max(d)})) + Len(S[Max(d) - 1])
        /\ Len(S[Max(d) - 1]) \in Nat
    BY <1>5, InOneMore, Zenon
  <2>3. Cardinality(d \ {Max(d)}) = Cardinality(d) - 1
    BY <1>0, <1>4, <1>5, MaxOf, FS_RemoveElement, Zenon
  <2>4. Lists[Max(d)] = Max(d) - 1 /\ Max(d) - 1 \in List
    BY <2>2, PlacesOfLists, Zenon
  <2>5. S[Max(d) - 1] \in Seq(Node) /\ Nodes(Max(d) - 1) = S[Max(d) - 1]
    BY <2>4, NodesAre DEF Chains
  <2>6. ASSUME NEW b \in Int
        PROVE  list_destroy(b, Lists[Max(d)]) = b - 5 * Len(S[Max(d) - 1]) - 1
    <3>1. list_destroy(b, Lists[Max(d)]) =
             FoldLeft(LAMBDA x, node : entry_destroy(x) - 1, b, Nodes(Max(d) - 1)) - 1
      BY <2>4 DEF list_destroy
    <3>2. FoldLeft(LAMBDA x, node : entry_destroy(x) - 1, b, S[Max(d) - 1]) =
             b - 5 * Len(S[Max(d) - 1])
      BY <2>5, NodeLoopIs, Zenon
    <3>. QED  BY <2>5, <3>1, <3>2, Zenon
  <2> HIDE DEF w
  <2>7. Cardinality(d) \in Nat /\ Cardinality(InSome(S, d \ {Max(d)})) \in Nat
    BY <1>3, <1>4, <2>1, Zenon
  <2>8. w[d \ {Max(d)}] \in Int
    BY <2>1, <2>3, <2>7
  <2>9. list_destroy(w[d \ {Max(d)}], Lists[Max(d)]) =
           w[d \ {Max(d)}] - 5 * Len(S[Max(d) - 1]) - 1
    BY <2>6, <2>8, Zenon
  <2>10. w[d] = w[d \ {Max(d)}] - 5 * Len(S[Max(d) - 1]) - 1
    BY <2>1, <2>2, <2>3, <2>7
  <2>. QED  BY <2>9, <2>10, Zenon
<1>6. w = DestroyLoop(w, n)
  <2>1. w = [d \in SUBSET (1 .. NLists) |-> w[d]]
    OBVIOUS
  <2> HIDE DEF w
  <2>2. \A d \in SUBSET (1 .. NLists) :
           w[d] = IF d = {} THEN n ELSE list_destroy(w[d \ {Max(d)}], Lists[Max(d)])
    BY <1>2, <1>5, Zenon
  <2>3. w = [d \in SUBSET (1 .. NLists) |->
               IF d = {} THEN n ELSE list_destroy(w[d \ {Max(d)}], Lists[Max(d)])]
    BY <2>1, <2>2, Zenon
  <2>. QED  BY <2>3, PlacesOfLists, Zenon DEF DestroyLoop
<1> HIDE DEF w
<1>7. f = DestroyLoop(f, n)
  BY <1>6, Zenon DEF f
<1>8. \A d \in SUBSET (1 .. NLists) :
         f[d] = IF d = {} THEN n ELSE list_destroy(f[d \ {Max(d)}], Lists[Max(d)])
  <2>1. f = [d \in SUBSET (1 .. NLists) |->
               IF d = {} THEN n ELSE list_destroy(f[d \ {Max(d)}], Lists[Max(d)])]
    BY <1>7, PlacesOfLists, Zenon DEF DestroyLoop
  <2>. QED  BY <2>1, Zenon
<1>9. {} \in SUBSET (1 .. NLists) /\ 1 .. NLists \in SUBSET (1 .. NLists)
  OBVIOUS
<1>10. f[{}] = w[{}]
  BY <1>2, <1>8, <1>9, Zenon
<1>11. \A d \in SUBSET (1 .. NLists) :
          d # {} /\ f[d \ {Max(d)}] = w[d \ {Max(d)}] => f[d] = w[d]
  BY <1>5, <1>8, Zenon
<1>12. f[1 .. NLists] = w[1 .. NLists]
  BY <1>0, <1>10, <1>11, LoopsAgree, Zenon
<1>13. w[1 .. NLists] =
          n - 5 * Cardinality(InSome(S, 1 .. NLists)) - Cardinality(1 .. NLists)
  BY <1>9, Zenon DEF w
<1>14. Cardinality(1 .. NLists) = NLists
  BY <1>0, FS_Interval
<1>. QED  BY <1>1, <1>12, <1>13, <1>14, UsedInSome, Zenon

-----------------------------------------------------------------------------
(* The invariant: the layout of the lists and the memory.                  *)

Used == Node \ Unused
TableInv == Layout /\ lost \in Nat /\ MemoryAccounted

LEMMA UsedFinite == IsFiniteSet(Used) /\ Cardinality(Used) \in Nat
  BY NodeAssumption, FS_Subset, FS_CardinalityType DEF Used, Unused

LEMMA BlocksOfTable ==
    MemoryAccounted <=> blocks = lost + IF destroyed THEN 0 ELSE 2 + NLists + Cardinality(Used) * 5
<1>1. NewEntry(0) + 1 = 5
  BY DEF NewEntry, entry_create, data_dup
<1>. QED  BY <1>1, Zenon DEF MemoryAccounted, Used

LEMMA OneMore ==
    ASSUME HeapTypes, NEW m \in Node, entry[m] = Nil, NEW e, e # Nil,
           entry' = [entry EXCEPT ![m] = e]
    PROVE  Cardinality(Used)' = Cardinality(Used) + 1
<1>1. Used' = Used \cup {m} /\ m \notin Used
  BY DEF Used, Unused, HeapTypes
<1>2. Cardinality(Used \cup {m}) = Cardinality(Used) + 1
  BY <1>1, UsedFinite, FS_AddElement, Zenon
<1>. QED  BY <1>1, <1>2, Zenon

LEMMA OneLess ==
    ASSUME HeapTypes, NEW m \in Node, entry[m] # Nil,
           entry' = [entry EXCEPT ![m] = Nil]
    PROVE  Cardinality(Used)' = Cardinality(Used) - 1
<1>1. Used' = Used \ {m} /\ m \in Used
  BY DEF Used, Unused, HeapTypes
<1>2. Cardinality(Used \ {m}) = Cardinality(Used) - 1
  BY <1>1, UsedFinite, FS_RemoveElement, Zenon
<1>. QED  BY <1>1, <1>2, Zenon

LEMMA TableInit == Init => TableInv
<1> SUFFICES ASSUME Init PROVE TableInv
  OBVIOUS
<1>1. Layout
  BY EmptyLayout DEF Init, ListInit, NoNodes
<1>2. Used = {} /\ Cardinality({}) = 0
  BY FS_EmptySet DEF Used, Unused, Init, ListInit
<1>3. Cardinality(List) = NLists
  <2>1. List = 0 .. NLists - 1 /\ NLists \in Nat \ {0}
    BY TableAssumption
  <2>. QED  BY <2>1, FS_Interval
<1>4. blocks = 2 + NLists /\ lost = 0 /\ ~destroyed
  BY <1>3 DEF Init, ListInit
<1>5. NLists \in Nat
  BY PlacesOfLists
<1>6. Cardinality(Used) = 0
  BY <1>2, Zenon
<1>7. MemoryAccounted
  <2>1. 2 + NLists = 0 + (2 + NLists + 0 * 5)
    BY <1>5
  <2>. QED  BY <1>4, <1>6, <2>1, BlocksOfTable, Zenon
<1>. QED  BY <1>1, <1>4, <1>7 DEF TableInv

(* What a step does: where the key is, what is in use, how many blocks.    *)
Kept == /\ entry' = entry /\ blocks' = blocks
Added(k, v) ==
    /\ \E m \in Node : entry[m] = Nil /\ entry' = [entry EXCEPT ![m] = [key |-> k, val |-> v]]
    /\ blocks' = blocks + 5
Replaced(k, v) ==
    /\ \E n \in Node : HasKey(n, k) /\ entry' = [entry EXCEPT ![n].val = v]
    /\ blocks' = blocks
Dropped(k) ==
    /\ \E n \in Node : HasKey(n, k) /\ entry' = [entry EXCEPT ![n] = Nil]
    /\ blocks' = blocks - 5

LEMMA PutStep ==
    ASSUME Layout, blocks \in Int, NEW k \in Key, NEW v \in Val, table_put(k, v)
    PROVE  /\ Layout'
           /\ \/ answer' = Code(-1) /\ Kept
              \/ answer' = Code(0) /\ (\A n \in Node : ~HasKey(n, k)) /\ Added(k, v)
              \/ answer' = Code(0) /\ Replaced(k, v)
<1> DEFINE found == list_get(hash_code[k], k)
<1>1. Indexed(k) /\ HeapTypes
  BY Zenon DEF table_put, Layout
<1>2. PICK S \in [List -> Seq(Node)] : Chains(S)
  BY Zenon DEF Layout
<1>3. \/ found = Nil /\ \A n \in Node : ~HasKey(n, k)
      \/ found \in Node /\ found # Nil /\ HasKey(found, k)
  BY <1>1, <1>2, Finds, Zenon
<1>4. \/ /\ found = Nil
         /\ \E rc \in {-1, 0, 1} : /\ list_add(hash_code[k], k, v, rc, NewEntry(blocks))
                                   /\ answer' = Code(IF rc = -1 THEN -1 ELSE 0)
      \/ /\ found # Nil
         /\ entry' = [entry EXCEPT ![found].val = v]
         /\ blocks' = data_destroy(data_dup(blocks))
         /\ answer' = Code(0)
         /\ UNCHANGED <<head, size, next>>
      \/ answer' = Code(-1) /\ UNCHANGED listVars
  BY Zenon DEF table_put
<1>5. /\ entry_destroy(NewEntry(blocks)) = blocks /\ NewEntry(blocks) + 1 = blocks + 5
      /\ data_destroy(data_dup(blocks)) = blocks
  BY DEF entry_destroy, NewEntry, entry_create, data_dup, data_destroy
<1>6. ASSUME found = Nil, NEW rc \in {-1, 0, 1},
             list_add(hash_code[k], k, v, rc, NewEntry(blocks)),
             answer' = Code(IF rc = -1 THEN -1 ELSE 0)
      PROVE  /\ Layout'
             /\ \/ answer' = Code(-1) /\ Kept
                \/ answer' = Code(0) /\ Added(k, v)
  <2>1. PICK b : b = NewEntry(blocks)
    OBVIOUS
  <2>2. list_add(hash_code[k], k, v, rc, b)
    BY <1>6, <2>1, Zenon
  <2>3. /\ Layout'
        /\ \/ rc = -1 /\ blocks' = entry_destroy(b) /\ UNCHANGED links
           \/ /\ rc = 0 /\ blocks' = b + 1
              /\ \E m \in Node : /\ entry[m] = Nil
                                 /\ entry' = [entry EXCEPT ![m] = [key |-> k, val |-> v]]
    BY <1>1, <1>6, <2>2, AddStep, Zenon
  <2>4. CASE rc = -1 /\ blocks' = entry_destroy(b) /\ UNCHANGED links
    BY <1>5, <1>6, <2>1, <2>3, <2>4 DEF Kept, links
  <2>5. CASE /\ rc = 0 /\ blocks' = b + 1
             /\ \E m \in Node : /\ entry[m] = Nil
                                /\ entry' = [entry EXCEPT ![m] = [key |-> k, val |-> v]]
    <3>1. blocks' = blocks + 5
      BY <1>5, <2>1, <2>5, Zenon
    <3>2. answer' = Code(0)
      <4>1. rc # -1
        BY <2>5
      <4>. QED  BY <1>6, <4>1, Zenon
    <3>. QED  BY <2>3, <2>5, <3>1, <3>2, Zenon DEF Added
  <2>. QED  BY <2>3, <2>4, <2>5, Zenon
<1>7. CASE /\ found # Nil
           /\ entry' = [entry EXCEPT ![found].val = v]
           /\ blocks' = data_destroy(data_dup(blocks))
           /\ answer' = Code(0)
           /\ UNCHANGED <<head, size, next>>
  <2>1. PICK n : n = found
    OBVIOUS
  <2>2. n \in Node /\ HasKey(n, k) /\ entry' = [entry EXCEPT ![n].val = v]
    BY <1>3, <1>7, <2>1, Zenon
  <2>3. Layout'
    <3>1. UNCHANGED <<head, size, next>>
      BY <1>7
    <3>. QED  BY <2>2, <3>1, ReplaceStep, Zenon DEF HasKey
  <2>. QED  BY <1>5, <1>7, <2>2, <2>3, Zenon DEF Replaced
<1>8. CASE answer' = Code(-1) /\ UNCHANGED listVars
  <2>1. UNCHANGED links /\ Kept
    BY <1>8 DEF listVars, links, Kept
  <2>. QED  BY <1>8, <2>1, SameStep, Zenon
<1> HIDE DEF found
<1>. QED  BY <1>3, <1>4, <1>6, <1>7, <1>8, Zenon

LEMMA DropStep ==
    ASSUME Layout, blocks \in Int, NEW k \in Key, table_remove(k)
    PROVE  /\ Layout'
           /\ \/ answer' = Code(1) /\ Kept /\ \A n \in Node : ~HasKey(n, k)
              \/ answer' = Code(0) /\ Dropped(k)
<1>1. Indexed(k)
  BY DEF table_remove
<1>2. PICK rc \in {0, 1} : list_remove(hash_code[k], k, rc) /\ answer' = Code(rc)
  BY Zenon DEF table_remove
<1>3. /\ Layout'
      /\ \/ rc = 1 /\ UNCHANGED listVars /\ \A n \in Node : ~HasKey(n, k)
         \/ /\ rc = 0 /\ blocks' = entry_destroy(blocks) - 1
            /\ \E n \in Node : HasKey(n, k) /\ entry' = [entry EXCEPT ![n] = Nil]
  BY <1>1, <1>2, RemoveStep, Zenon
<1>4. entry_destroy(blocks) - 1 = blocks - 5
  BY DEF entry_destroy, data_destroy
<1>5. UNCHANGED listVars => Kept
  BY DEF listVars, links, Kept
<1>. QED  BY <1>2, <1>3, <1>4, <1>5, Zenon DEF Dropped

LEMMA DestroyStep ==
    ASSUME Layout, blocks \in Int, table_destroy
    PROVE  /\ Layout'
           /\ blocks' = blocks - 5 * Cardinality(Used) - NLists - 2
<1>1. PICK S \in [List -> Seq(Node)] : Chains(S)
  BY Zenon DEF Layout
<1>2. Layout'
  <2>1. NoNodes'
    BY Zenon DEF table_destroy, NoNodes
  <2>. QED  BY <2>1, EmptyLayout, PTL
<1>3. FoldLeft(list_destroy, blocks, Lists) = blocks - 5 * Cardinality(Used) - NLists
  BY <1>1, DestroyIs, Zenon DEF Layout, Used
<1>4. blocks' = FoldLeft(list_destroy, blocks, Lists) - 2
  BY Zenon DEF table_destroy
<1>. QED  BY <1>2, <1>3, <1>4, Zenon

LEMMA BlocksNat == TableInv => blocks \in Nat
<1> SUFFICES ASSUME TableInv PROVE blocks \in Nat
  OBVIOUS
<1>1. blocks = lost + IF destroyed THEN 0 ELSE 2 + NLists + Cardinality(Used) * 5
  BY BlocksOfTable, Zenon DEF TableInv
<1>2. lost \in Nat /\ NLists \in Nat /\ Cardinality(Used) \in Nat
  BY UsedFinite, PlacesOfLists DEF TableInv
<1>. QED  BY <1>1, <1>2

LEMMA TableStep == TableInv /\ [Next]_vars => TableInv'
<1> SUFFICES ASSUME TableInv, [Next]_vars PROVE TableInv'
  OBVIOUS
<1>0. blocks \in Int
  BY BlocksNat
<1>1. /\ Layout /\ HeapTypes /\ lost \in Nat /\ blocks \in Nat /\ NLists \in Nat
      /\ Cardinality(Used) \in Nat
      /\ blocks = lost + IF destroyed THEN 0 ELSE 2 + NLists + Cardinality(Used) * 5
  BY BlocksNat, BlocksOfTable, UsedFinite, PlacesOfLists, Zenon DEF TableInv, Layout
<1>2. Layout' /\ lost' \in Nat /\
      blocks' = lost' + (IF destroyed' THEN 0 ELSE 2 + NLists + Cardinality(Used)' * 5)
      => TableInv'
  <2>1. MemoryAccounted' <=> (blocks = lost + IF destroyed THEN 0
                                     ELSE 2 + NLists + Cardinality(Used) * 5)'
    BY BlocksOfTable, PTL
  <2>. QED  BY <2>1, Zenon DEF TableInv
<1>3. UNCHANGED entry => Cardinality(Used)' = Cardinality(Used)
  BY DEF Used, Unused
<1>4. ASSUME ~destroyed, NEW k \in Key, NEW v \in Val, table_put(k, v)
      PROVE  TableInv'
  <2>1. /\ Layout'
        /\ Kept \/ Added(k, v) \/ Replaced(k, v)
    BY <1>0, <1>1, <1>4, PutStep, Zenon
  <2>2. UNCHANGED fate
    BY <1>4, Zenon DEF table_put
  <2>3. lost' = lost /\ destroyed' = destroyed
    BY <2>2 DEF fate
  <2>4. CASE Kept
    BY <1>1, <1>2, <1>3, <1>4, <2>1, <2>3, <2>4 DEF Kept
  <2>5. CASE Added(k, v)
    <3>1. PICK m \in Node : entry[m] = Nil /\ entry' = [entry EXCEPT ![m] = [key |-> k, val |-> v]]
      BY <2>5, Zenon DEF Added
    <3>2. [key |-> k, val |-> v] # Nil
      <4>1. [key |-> k, val |-> v] \in Entry
        BY DEF Entry
      <4>. QED  BY <4>1, NilAssumption
    <3>3. Cardinality(Used)' = Cardinality(Used) + 1
      BY <1>1, <3>1, <3>2, OneMore, Zenon
    <3>4. blocks' = blocks + 5
      BY <2>5, Zenon DEF Added
    <3>. QED  BY <1>1, <1>2, <1>4, <2>1, <2>3, <3>3, <3>4
  <2>6. CASE Replaced(k, v)
    <3>1. PICK n \in Node : HasKey(n, k) /\ entry' = [entry EXCEPT ![n].val = v]
      BY <2>6, Zenon DEF Replaced
    <3>2. entry[n] \in Entry
      BY <1>1, <3>1 DEF HasKey, HeapTypes
    <3>3. entry'[n] \in Entry /\ \A x \in Node : x # n => entry'[x] = entry[x]
      BY <1>1, <3>1, <3>2 DEF HeapTypes, Entry
    <3>4. entry'[n] # Nil /\ entry[n] # Nil
      BY <3>1, <3>3, NilAssumption DEF HasKey
    <3>5. Used' = Used
      BY <3>3, <3>4 DEF Used, Unused
    <3>6. Cardinality(Used)' = Cardinality(Used) /\ blocks' = blocks
      BY <2>6, <3>5, Zenon DEF Replaced
    <3>. QED  BY <1>1, <1>2, <1>4, <2>1, <2>3, <3>6
  <2>. QED  BY <2>1, <2>4, <2>5, <2>6
<1>5. ASSUME ~destroyed, NEW k \in Key, KeyNotCopied(k)
      PROVE  TableInv'
  <2>1. /\ blocks' = blocks + 1 /\ lost' = lost + 1 /\ destroyed' = destroyed
        /\ UNCHANGED links
    BY <1>1, <1>5 DEF KeyNotCopied, data_dup
  <2>2. Layout'
    BY <1>1, <2>1, SameStep
  <2>3. Cardinality(Used)' = Cardinality(Used)
    BY <1>3, <2>1 DEF links
  <2>. QED  BY <1>1, <1>2, <1>5, <2>1, <2>2, <2>3
<1>6. ASSUME ~destroyed, blocks' = blocks, UNCHANGED <<links, lost, destroyed>>
      PROVE  TableInv'
  <2>1. UNCHANGED links /\ lost' = lost /\ destroyed' = destroyed
    BY <1>6
  <2>2. Layout'
    BY <1>1, <2>1, SameStep
  <2>3. Cardinality(Used)' = Cardinality(Used)
    BY <1>3, <2>1 DEF links
  <2>. QED  BY <1>1, <1>2, <1>6, <2>1, <2>2, <2>3
<1>7. ASSUME ~destroyed, NEW k \in Key, table_get(k)
      PROVE  TableInv'
  <2>1. blocks' = blocks
    <3>1. blocks' = data_destroy(data_dup(blocks)) \/ blocks' = blocks
      BY <1>7, Zenon DEF table_get
    <3>. QED  BY <1>1, <3>1 DEF data_destroy, data_dup
  <2>2. UNCHANGED <<links, fate>>
    BY <1>7, Zenon DEF table_get
  <2>. QED  BY <1>6, <1>7, <2>1, <2>2 DEF fate
<1>8. ASSUME ~destroyed, NEW k \in Key, table_remove(k)
      PROVE  TableInv'
  <2>1. Layout' /\ (Kept \/ Dropped(k))
    BY <1>0, <1>1, <1>8, DropStep, Zenon
  <2>2. UNCHANGED fate
    BY <1>8, Zenon DEF table_remove
  <2>3. lost' = lost /\ destroyed' = destroyed
    BY <2>2 DEF fate
  <2>4. CASE Kept
    BY <1>1, <1>2, <1>3, <1>8, <2>1, <2>3, <2>4 DEF Kept
  <2>5. CASE Dropped(k)
    <3>1. PICK n \in Node : HasKey(n, k) /\ entry' = [entry EXCEPT ![n] = Nil]
      BY <2>5, Zenon DEF Dropped
    <3>2. Cardinality(Used)' = Cardinality(Used) - 1
      BY <1>1, <3>1, OneLess, Zenon DEF HasKey
    <3>3. blocks' = blocks - 5
      BY <2>5, Zenon DEF Dropped
    <3>. QED  BY <1>1, <1>2, <1>8, <2>1, <2>3, <3>2, <3>3
  <2>. QED  BY <2>1, <2>4, <2>5
<1>9. ASSUME ~destroyed, table_destroy
      PROVE  TableInv'
  <2>1. Layout' /\ blocks' = blocks - 5 * Cardinality(Used) - NLists - 2
    BY <1>0, <1>1, <1>9, DestroyStep, Zenon
  <2>2. destroyed' /\ lost' = lost
    BY <1>9, Zenon DEF table_destroy
  <2>. QED  BY <1>1, <1>2, <1>9, <2>1, <2>2
<1>10. CASE UNCHANGED vars
  <2>1. UNCHANGED links /\ blocks' = blocks /\ lost' = lost /\ destroyed' = destroyed
    BY <1>10 DEF vars, listVars
  <2>2. Layout'
    BY <1>1, <2>1, SameStep
  <2>3. Cardinality(Used)' = Cardinality(Used)
    BY <1>3, <2>1 DEF links
  <2>. QED  BY <1>1, <1>2, <2>1, <2>2, <2>3
<1>11. ASSUME ~destroyed,
              \/ \E k \in Key : UseOutsideArray(k)
              \/ table_size \/ table_get_keys
       PROVE  TableInv'
  <2>1. UNCHANGED listVars /\ lost' = lost /\ destroyed' = destroyed
    BY <1>11 DEF UseOutsideArray, table_size, table_get_keys, fate
  <2>. QED  BY <1>6, <1>11, <2>1 DEF listVars
<1>12. ASSUME ~destroyed, NEW l \in List, NEW j \in 0 .. Cardinality(Node),
              KeysNotCopied(l, j)
       PROVE  TableInv'
  <2> DEFINE left == 1 + KeysBefore(l) + j + 1 + list_size(l)
  <2>1. /\ blocks' = blocks + left /\ lost' = lost + left /\ destroyed' = destroyed
        /\ UNCHANGED links
    BY <1>12, Zenon DEF KeysNotCopied
  <2>2. left \in Nat
    <3>1. KeysBefore(l) \in Nat
      <4>1. {n \in Node \ Unused : hash_code[KeyOf(n)] < l} \subseteq Node
        OBVIOUS
      <4>. QED  BY <4>1, NodeAssumption, FS_Subset, FS_CardinalityType, Zenon DEF KeysBefore
    <3>2. list_size(l) \in Nat
      BY <1>1 DEF HeapTypes, list_size
    <3>3. Cardinality(Node) \in Nat
      BY NodeAssumption, FS_CardinalityType, Zenon
    <3>4. j \in Nat
      BY <3>3
    <3>. QED  BY <3>1, <3>2, <3>4
  <2> HIDE DEF left
  <2>3. Layout'
    BY <1>1, <2>1, SameStep
  <2>4. Cardinality(Used)' = Cardinality(Used)
    BY <1>3, <2>1 DEF links
  <2>. QED  BY <1>1, <1>2, <1>12, <2>1, <2>2, <2>3, <2>4
<1>. QED  BY <1>4, <1>5, <1>7, <1>8, <1>9, <1>10, <1>11, <1>12, Zenon DEF Next

(* In every reachable state the lists have their layout and the memory is  *)
(* accounted for.                                                          *)
THEOREM TableInvariance == Spec => []TableInv
  BY TableInit, TableStep, PTL DEF Spec

-----------------------------------------------------------------------------
(* What follows from it.                                                   *)

(* The fields of the lists and nodes have their types; the number of       *)
(* blocks in use never becomes negative.                                   *)
THEOREM ListTypeCorrectness == Spec => []ListTypeOK
<1>1. TableInv => ListTypeOK
  BY BlocksNat DEF TableInv, Layout, HeapTypes, ListTypeOK
<1>. QED  BY <1>1, TableInvariance, PTL

(* Whatever is put and removed, no list of list.c is circular or shares a  *)
(* node with another, each says its true length, and every node in use can *)
(* be reached from the head of a list.                                     *)
THEOREM ListsWellLinked == Spec => []WellLinked
<1>1. TableInv => WellLinked
  <2> SUFFICES ASSUME TableInv PROVE WellLinked
    OBVIOUS
  <2>1. HeapTypes
    BY DEF TableInv, Layout
  <2>2. PICK S \in [List -> Seq(Node)] : Chains(S)
    BY Zenon DEF TableInv, Layout
  <2>3. \A l \in List : /\ Nodes(l) = S[l] /\ size[l] = Len(S[l])
                        /\ Threaded(S[l], head[l], next)
    BY <2>2, NodesAre, Zenon DEF Chains, Linked
  <2>4. \A l \in List : /\ Cardinality(Range(S[l])) = Len(S[l])
                        /\ Range(S[l]) = NodesOf(S[l])
    <3>1. ASSUME NEW l \in List PROVE /\ Cardinality(Range(S[l])) = Len(S[l])
                                      /\ Range(S[l]) = NodesOf(S[l])
      <4>1. S[l] \in Seq(Node) /\ \A i, j \in 1 .. Len(S[l]) : S[l][i] = S[l][j] => i = j
        BY <2>3, Zenon DEF Threaded
      <4>2. Cardinality(NodesOf(S[l])) = Len(S[l]) /\ NodesOf(S[l]) = Range(S[l])
        BY <4>1, NodesCounted, Zenon
      <4>. QED  BY <4>2, Zenon
    <3>. QED  BY <3>1, Zenon
  <2>5. \A l, m \in List : l # m => NodesOf(S[l]) \cap NodesOf(S[m]) = {}
    BY <2>2 DEF Chains, Apart, NodesOf
  <2>6. UNION {Range(Nodes(l)) : l \in List} = Node \ Unused
    <3>1. \A n \in Node : entry[n] # Nil <=> \E l \in List : In(S[l], n)
      BY <2>2, Zenon DEF Chains, Covered
    <3>2. \A l \in List : Range(Nodes(l)) = NodesOf(S[l])
      BY <2>3, <2>4, Zenon
    <3>. QED  BY <3>1, <3>2 DEF NodesOf, Unused
  <2>7. \A l \in List : \A m \in List \ {l} : Range(Nodes(l)) \cap Range(Nodes(m)) = {}
    <3>1. ASSUME NEW l \in List, NEW m \in List \ {l}
          PROVE  Range(Nodes(l)) \cap Range(Nodes(m)) = {}
      <4>1. Range(Nodes(l)) = NodesOf(S[l]) /\ Range(Nodes(m)) = NodesOf(S[m])
        BY <2>3, <2>4, Zenon
      <4>2. NodesOf(S[l]) \cap NodesOf(S[m]) = {}
        BY <2>5
      <4>. QED  BY <4>1, <4>2, Zenon
    <3>. QED  BY <3>1, Zenon
  <2>. QED  BY <2>3, <2>4, <2>6, <2>7, Zenon DEF WellLinked
<1>. QED  BY <1>1, TableInvariance, PTL

(* However keys are put, replaced and removed, every list of list.c has    *)
(* its entries in ascending order of their keys, as list.h says.           *)
THEOREM ListsSorted == Spec => []Sorted
<1>1. TableInv => Sorted
  <2> SUFFICES ASSUME TableInv PROVE Sorted
    OBVIOUS
  <2>1. PICK S \in [List -> Seq(Node)] : Chains(S)
    BY Zenon DEF TableInv, Layout
  <2>2. ASSUME NEW l \in List
        PROVE  \A i \in 1 .. Len(list_get_keys(l)) - 1 :
                   strcmp[list_get_keys(l)[i]][list_get_keys(l)[i + 1]] < 0
    <3> DEFINE n == Len(S[l])
               keys == list_get_keys(l)
    <3>1. Nodes(l) = S[l] /\ n \in Nat
      BY <2>1, NodesAre, Zenon DEF Chains
    <3>2. keys = [i \in 1 .. n |-> KeyOf(S[l][i])]
      BY <3>1, Zenon DEF list_get_keys
    <3>3. \A i \in 1 .. n - 1 : strcmp[KeyOf(S[l][i])][KeyOf(S[l][i + 1])] < 0
      BY <2>1, Zenon DEF Chains, Ascending
    <3> HIDE DEF n, keys
    <3>4. Len(keys) = n
      BY <3>1, <3>2
    <3>5. \A i \in 1 .. n - 1 : i \in 1 .. n /\ i + 1 \in 1 .. n
      BY <3>1
    <3>6. \A i \in 1 .. n : keys[i] = KeyOf(S[l][i])
      BY <3>2
    <3>7. \A i \in 1 .. Len(keys) - 1 : strcmp[keys[i]][keys[i + 1]] < 0
      BY <3>3, <3>4, <3>5, <3>6, Zenon
    <3>. QED  BY <3>7 DEF keys
  <2>. QED  BY <2>2, Zenon DEF Sorted
<1>. QED  BY <1>1, TableInvariance, PTL

(* No path of table.c, list.c, entry.c and data.c, short of memory or not, *)
(* loses a block or releases one twice, but for two: the failing strdup()  *)
(* of table_put() and the failing malloc() for a key in table_get_keys(),  *)
(* which leave exactly what lost says; table_destroy() releases all else.  *)
THEOREM NoBlockLost == Spec => []MemoryAccounted
<1>1. TableInv => MemoryAccounted
  BY DEF TableInv
<1>. QED  BY <1>1, TableInvariance, PTL

-----------------------------------------------------------------------------
(* The table is a map: what Contents says of the nodes in use.             *)

Maps(k, x) ==
    \/ \E n \in Node : HasKey(n, k) /\ x = entry[n].val
    \/ (\A n \in Node : ~HasKey(n, k)) /\ x = Nil

ContentsMap == \A k \in Key : Maps(k, Contents[k])
OneValueMaps == \A k \in Key : \A x, y : Maps(k, x) /\ Maps(k, y) => x = y

LEMMA ContentsMaps == Layout => ContentsMap
<1> SUFFICES ASSUME Layout, NEW k \in Key PROVE Maps(k, Contents[k])
  BY DEF ContentsMap
<1>1. HeapTypes
  BY DEF Layout
<1>2. PICK S \in [List -> Seq(Node)] : Chains(S)
  BY Zenon DEF Layout
<1>3. Contents[k] = LET found == IF Indexed(k) THEN list_get(hash_code[k], k) ELSE Nil
                    IN  IF found = Nil THEN Nil ELSE entry[found].val
  BY Zenon DEF Contents
<1>4. CASE Indexed(k)
  <2> DEFINE found == list_get(hash_code[k], k)
  <2>1. \/ found = Nil /\ \A n \in Node : ~HasKey(n, k)
        \/ found \in Node /\ found # Nil /\ HasKey(found, k)
    BY <1>1, <1>2, <1>4, Finds, Zenon
  <2>2. Contents[k] = IF found = Nil THEN Nil ELSE entry[found].val
    BY <1>3, <1>4, Zenon
  <2> HIDE DEF found
  <2>. QED  BY <2>1, <2>2, Zenon DEF Maps
<1>5. CASE ~Indexed(k)
  <2>1. \A n \in Node : ~HasKey(n, k)
    BY <1>1, <1>2, <1>5, UsedIn, Zenon DEF Indexed
  <2>2. Contents[k] = Nil
    BY <1>3, <1>5, Zenon
  <2>. QED  BY <2>1, <2>2, Zenon DEF Maps
<1>. QED  BY <1>4, <1>5

LEMMA OneValue == Layout => OneValueMaps
<1> SUFFICES ASSUME Layout, NEW k \in Key, NEW x, NEW y, Maps(k, x), Maps(k, y)
             PROVE  x = y
  BY DEF OneValueMaps
<1>1. HeapTypes
  BY DEF Layout
<1>2. PICK S \in [List -> Seq(Node)] : Chains(S)
  BY Zenon DEF Layout
<1>3. \A m, n \in Node : HasKey(m, k) /\ HasKey(n, k) => m = n
  BY <1>1, <1>2, OneNode, Zenon
<1>4. CASE \E n \in Node : HasKey(n, k)
  <2>1. PICK n \in Node : HasKey(n, k)
    BY <1>4
  <2>2. x = entry[n].val /\ y = entry[n].val
    BY <1>3, <2>1, Zenon DEF Maps
  <2>. QED  BY <2>2, Zenon
<1>5. CASE ~\E n \in Node : HasKey(n, k)
  BY <1>5, Zenon DEF Maps
<1>. QED  BY <1>4, <1>5

LEMMA ContentsNext ==
    ASSUME Layout', NEW k \in Key, NEW x, Maps(k, x)'
    PROVE  Contents'[k] = x
<1>1. ContentsMap' /\ OneValueMaps'
  BY ContentsMaps, OneValue, PTL
<1>. QED  BY <1>1, Zenon DEF ContentsMap, OneValueMaps

LEMMA SameContents ==
    ASSUME Layout, Layout', NEW k \in Key,
           \A n \in Node : /\ HasKey(n, k)' <=> HasKey(n, k)
                           /\ HasKey(n, k) => entry'[n].val = entry[n].val
    PROVE  Contents'[k] = Contents[k]
<1>1. PICK x : x = Contents[k]
  OBVIOUS
<1>2. Maps(k, x)
  BY <1>1, ContentsMaps, Zenon DEF ContentsMap
<1>3. Maps(k, x)'
  BY <1>2, Zenon DEF Maps
<1>4. Contents'[k] = x
  BY <1>3, ContentsNext, Zenon
<1>. QED  BY <1>1, <1>4, Zenon

LEMMA ContentsIsMap == Contents = [k \in Key |-> Contents[k]]
  BY Zenon DEF Contents

LEMMA ContentsIsMapNext == Contents' = [k \in Key |-> Contents'[k]]
  BY Zenon DEF Contents

LEMMA KeptContents ==
    ASSUME Layout, Layout', entry' = entry
    PROVE  Contents' = Contents
<1>1. \A k \in Key : Contents'[k] = Contents[k]
  <2>1. ASSUME NEW k \in Key PROVE Contents'[k] = Contents[k]
    <3>1. \A n \in Node : /\ HasKey(n, k)' <=> HasKey(n, k)
                          /\ HasKey(n, k) => entry'[n].val = entry[n].val
      BY Zenon DEF HasKey, KeyOf
    <3>. QED  BY <3>1, SameContents, Zenon
  <2>. QED  BY <2>1, Zenon
<1>2. [k \in Key |-> Contents'[k]] = [k \in Key |-> Contents[k]]
  BY <1>1, Zenon
<1>. QED  BY <1>2, ContentsIsMap, ContentsIsMapNext, Zenon

(* Another value for one key.                                              *)
LEMMA ChangedContents ==
    ASSUME Layout, Layout', NEW k \in Key, NEW v, Maps(k, v)',
           \A j \in Key \ {k} : \A n \in Node :
               /\ HasKey(n, j)' <=> HasKey(n, j)
               /\ HasKey(n, j) => entry'[n].val = entry[n].val
    PROVE  Contents' = [Contents EXCEPT ![k] = v]
<1>1. Contents'[k] = v
  BY ContentsNext, Zenon
<1>2. \A j \in Key \ {k} : Contents'[j] = Contents[j]
  <2>1. ASSUME NEW j \in Key \ {k} PROVE Contents'[j] = Contents[j]
    <3>1. j \in Key
      OBVIOUS
    <3>2. \A n \in Node : /\ HasKey(n, j)' <=> HasKey(n, j)
                          /\ HasKey(n, j) => entry'[n].val = entry[n].val
      BY <2>1, Zenon
    <3>. QED  BY <3>1, <3>2, SameContents, Zenon
  <2>. QED  BY <2>1, Zenon
<1> DEFINE c == Contents
           cn == Contents'
<1>3. c = [j \in Key |-> c[j]] /\ cn = [j \in Key |-> cn[j]]
  BY ContentsIsMap, ContentsIsMapNext, Zenon
<1>4. cn[k] = v /\ \A j \in Key \ {k} : cn[j] = c[j]
  BY <1>1, <1>2, Zenon
<1> HIDE DEF c, cn
<1>5. cn = [c EXCEPT ![k] = v]
  BY <1>3, <1>4
<1>. QED  BY <1>5, Zenon DEF c, cn

LEMMA AddedContents ==
    ASSUME Layout, Layout', NEW k \in Key, NEW v \in Val, Added(k, v)
    PROVE  Contents' = [Contents EXCEPT ![k] = v]
<1>1. HeapTypes
  BY DEF Layout
<1>2. PICK m \in Node : entry[m] = Nil /\ entry' = [entry EXCEPT ![m] = [key |-> k, val |-> v]]
  BY Zenon DEF Added
<1>3. /\ entry'[m] = [key |-> k, val |-> v]
      /\ \A n \in Node : n # m => entry'[n] = entry[n]
  BY <1>1, <1>2 DEF HeapTypes
<1>4. [key |-> k, val |-> v] # Nil
  <2>1. [key |-> k, val |-> v] \in Entry
    BY DEF Entry
  <2>. QED  BY <2>1, NilAssumption
<1>5. entry'[m] # Nil /\ entry'[m].key = k /\ entry'[m].val = v
  BY <1>3, <1>4
<1>6. Maps(k, v)'
  BY <1>5, Zenon DEF Maps, HasKey, KeyOf
<1>7. ASSUME NEW j \in Key \ {k}, NEW n \in Node
      PROVE  /\ HasKey(n, j)' <=> HasKey(n, j)
             /\ HasKey(n, j) => entry'[n].val = entry[n].val
  <2>1. CASE n = m
    BY <1>2, <1>5, <2>1 DEF HasKey, KeyOf
  <2>2. CASE n # m
    BY <1>3, <2>2, Zenon DEF HasKey, KeyOf
  <2>. QED  BY <2>1, <2>2
<1>. QED  BY <1>6, <1>7, ChangedContents, Zenon

LEMMA ReplacedContents ==
    ASSUME Layout, Layout', NEW k \in Key, NEW v \in Val, Replaced(k, v)
    PROVE  Contents' = [Contents EXCEPT ![k] = v]
<1>1. HeapTypes
  BY DEF Layout
<1>2. PICK m \in Node : HasKey(m, k) /\ entry' = [entry EXCEPT ![m].val = v]
  BY Zenon DEF Replaced
<1>3. /\ entry'[m] = [entry[m] EXCEPT !.val = v]
      /\ \A n \in Node : n # m => entry'[n] = entry[n]
  BY <1>1, <1>2 DEF HeapTypes
<1>4. entry[m] \in Entry /\ entry[m].key = k
  BY <1>1, <1>2 DEF HeapTypes, HasKey, KeyOf
<1>5. entry'[m] \in Entry /\ entry'[m].key = k /\ entry'[m].val = v
  BY <1>3, <1>4 DEF Entry
<1>6. entry'[m] # Nil
  BY <1>5, NilAssumption
<1>7. Maps(k, v)'
  BY <1>5, <1>6, Zenon DEF Maps, HasKey, KeyOf
<1>8. ASSUME NEW j \in Key \ {k}, NEW n \in Node
      PROVE  /\ HasKey(n, j)' <=> HasKey(n, j)
             /\ HasKey(n, j) => entry'[n].val = entry[n].val
  <2>1. CASE n = m
    BY <1>4, <1>5, <2>1 DEF HasKey, KeyOf
  <2>2. CASE n # m
    BY <1>3, <2>2, Zenon DEF HasKey, KeyOf
  <2>. QED  BY <2>1, <2>2
<1>. QED  BY <1>7, <1>8, ChangedContents, Zenon

LEMMA DroppedContents ==
    ASSUME Layout, Layout', NEW k \in Key, Dropped(k)
    PROVE  Contents[k] # Nil /\ Contents' = [Contents EXCEPT ![k] = Nil]
<1>1. HeapTypes
  BY DEF Layout
<1>2. PICK m \in Node : HasKey(m, k) /\ entry' = [entry EXCEPT ![m] = Nil]
  BY Zenon DEF Dropped
<1>3. entry'[m] = Nil /\ \A n \in Node : n # m => entry'[n] = entry[n]
  BY <1>1, <1>2 DEF HeapTypes
<1>4. PICK S \in [List -> Seq(Node)] : Chains(S)
  BY Zenon DEF Layout
<1>5. \A n \in Node : HasKey(n, k) => n = m
  BY <1>1, <1>2, <1>4, OneNode, Zenon
<1>6. Maps(k, Nil)'
  BY <1>3, <1>5, Zenon DEF Maps, HasKey, KeyOf
<1>7. ASSUME NEW j \in Key \ {k}, NEW n \in Node
      PROVE  /\ HasKey(n, j)' <=> HasKey(n, j)
             /\ HasKey(n, j) => entry'[n].val = entry[n].val
  <2>1. CASE n = m
    BY <1>2, <1>3, <2>1 DEF HasKey, KeyOf
  <2>2. CASE n # m
    BY <1>3, <2>2, Zenon DEF HasKey, KeyOf
  <2>. QED  BY <2>1, <2>2
<1>8. Contents[k] # Nil
  <2>1. Maps(k, Contents[k])
    BY ContentsMaps, Zenon DEF ContentsMap
  <2>2. \A n \in Node : HasKey(n, k) => entry[n].val # Nil
    <3>1. ASSUME NEW n \in Node, HasKey(n, k) PROVE entry[n].val # Nil
      <4>1. entry[n].val \in Val
        BY <1>1, <3>1 DEF HeapTypes, HasKey, Entry
      <4>. QED  BY <4>1, NilAssumption
    <3>. QED  BY <3>1, Zenon
  <2>. QED  BY <1>2, <2>1, <2>2, Zenon DEF Maps
<1>. QED  BY <1>6, <1>7, <1>8, ChangedContents, Zenon

-----------------------------------------------------------------------------
(* The keys of all lists, one list after the other.                        *)

Distinct(s) == \A i, j \in 1 .. Len(s) : s[i] = s[j] => i = j

LEMMA Joined ==
    ASSUME NEW X, NEW a \in Seq(X), NEW b \in Seq(X), Distinct(a), Distinct(b),
           \A x : ~(In(a, x) /\ In(b, x))
    PROVE  /\ a \o b \in Seq(X) /\ Distinct(a \o b)
           /\ \A x : In(a \o b, x) <=> In(a, x) \/ In(b, x)
<1> DEFINE c == a \o b
           p == Len(a)
           q == Len(b)
           n == Len(c)
<1>1. /\ p \in Nat /\ q \in Nat /\ n = p + q /\ c \in Seq(X)
      /\ \A i \in 1 .. p : c[i] = a[i]
      /\ \A i \in p + 1 .. p + q : c[i] = b[i - p]
  OBVIOUS
<1> HIDE DEF p, q, c, n
<1>2. \A i \in 1 .. n : \/ i \in 1 .. p
                        \/ i \in p + 1 .. p + q /\ i - p \in 1 .. q
  BY <1>1
<1>3. /\ \A i \in 1 .. p : i \in 1 .. n
      /\ \A i \in 1 .. q : p + i \in 1 .. n /\ p + i \in p + 1 .. p + q /\ (p + i) - p = i
  BY <1>1
<1>4. \A i \in 1 .. p : In(a, c[i])
  BY <1>1, Zenon DEF In, p
<1>5. \A i \in p + 1 .. p + q : i - p \in 1 .. q => In(b, c[i])
  BY <1>1, Zenon DEF In, q
<1>6. ASSUME NEW x PROVE (\E i \in 1 .. n : c[i] = x) <=> In(a, x) \/ In(b, x)
  <2>1. (\E i \in 1 .. n : c[i] = x) => In(a, x) \/ In(b, x)
    BY <1>2, <1>4, <1>5, Zenon
  <2>2. In(a, x) => \E i \in 1 .. n : c[i] = x
    BY <1>1, <1>3, Zenon DEF In, p
  <2>3. ASSUME In(b, x) PROVE \E i \in 1 .. n : c[i] = x
    <3>1. PICK i \in 1 .. q : b[i] = x
      BY <2>3, Zenon DEF In, q
    <3>2. c[p + i] = b[(p + i) - p]
      BY <1>1, <1>3, Zenon
    <3>3. c[p + i] = x
      BY <1>3, <3>1, <3>2, Zenon
    <3>. QED  BY <1>3, <3>3, Zenon
  <2>. QED  BY <2>1, <2>2, <2>3, Zenon
<1>7. ASSUME NEW i \in 1 .. n, NEW j \in 1 .. n, c[i] = c[j] PROVE i = j
  <2>1. CASE i \in 1 .. p /\ j \in 1 .. p
    <3>1. a[i] = a[j]
      BY <1>1, <1>7, <2>1, Zenon
    <3>. QED  BY <2>1, <3>1, Zenon DEF Distinct, p
  <2>2. CASE i \in 1 .. p /\ j \in p + 1 .. p + q /\ j - p \in 1 .. q
    BY <1>4, <1>5, <1>7, <2>2, Zenon
  <2>3. CASE j \in 1 .. p /\ i \in p + 1 .. p + q /\ i - p \in 1 .. q
    BY <1>4, <1>5, <1>7, <2>3, Zenon
  <2>4. CASE /\ i \in p + 1 .. p + q /\ i - p \in 1 .. q
             /\ j \in p + 1 .. p + q /\ j - p \in 1 .. q
    <3>1. b[i - p] = b[j - p]
      BY <1>1, <1>7, <2>4, Zenon
    <3>2. i - p = j - p
      BY <2>4, <3>1, Zenon DEF Distinct, q
    <3>. QED  BY <1>1, <2>4, <3>2
  <2>. QED  BY <1>2, <2>1, <2>2, <2>3, <2>4, Zenon
<1>8. Distinct(c)
  BY <1>7, Zenon DEF Distinct, n
<1>9. \A x : In(c, x) <=> In(a, x) \/ In(b, x)
  BY <1>6, Zenon DEF In, n
<1>. QED  BY <1>1, <1>8, <1>9, Zenon DEF c

FlatLoop(f, n, q) ==
    [i \in 1 .. n |-> IF i = 1 THEN q[i] ELSE f[i - 1] \o q[i]]

LEMMA FlatLoopEnds ==
    ASSUME NEW n \in Nat, NEW q
    PROVE  \E f : f = FlatLoop(f, n, q)
<1> DEFINE D == {c \in Nat : \E f : f = FlatLoop(f, c, q)}
<1>1. 0 \in D
  <2>1. << >> = FlatLoop(<< >>, 0, q)
    BY DEF FlatLoop
  <2>. QED  BY <2>1
<1>2. ASSUME NEW c \in D PROVE c + 1 \in D
  <2>1. PICK f : f = FlatLoop(f, c, q)
    BY <1>2
  <2>2. c \in Nat
    BY <1>2
  <2> HIDE DEF D
  <2>3. \A i \in 1 .. c : f[i] = IF i = 1 THEN q[i] ELSE f[i - 1] \o q[i]
    <3>1. f = [i \in 1 .. c |-> IF i = 1 THEN q[i] ELSE f[i - 1] \o q[i]]
      BY <2>1, Zenon DEF FlatLoop
    <3>. QED  BY <3>1, Zenon
  <2> DEFINE g == [i \in 1 .. c + 1 |-> IF i = 1 THEN q[i] ELSE f[i - 1] \o q[i]]
  <2>4. \A i \in 1 .. c : i \in 1 .. c + 1
    BY <2>2
  <2>5. \A i \in 1 .. c + 1 : g[i] = IF i = 1 THEN q[i] ELSE f[i - 1] \o q[i]
    BY Zenon
  <2>6. \A i \in 1 .. c + 1 : i # 1 => i - 1 \in 1 .. c
    BY <2>2
  <2>7. g = [i \in 1 .. c + 1 |-> g[i]]
    OBVIOUS
  <2> HIDE DEF g
  <2>8. \A i \in 1 .. c : g[i] = f[i]
    BY <2>3, <2>4, <2>5, Zenon
  <2>9. \A i \in 1 .. c + 1 : g[i] = IF i = 1 THEN q[i] ELSE g[i - 1] \o q[i]
    BY <2>5, <2>6, <2>8, Zenon
  <2>10. g = FlatLoop(g, c + 1, q)
    BY <2>7, <2>9, Zenon DEF FlatLoop
  <2>11. c + 1 \in Nat
    BY <2>2
  <2>. QED  BY <2>10, <2>11, Zenon DEF D
<1>3. D = Nat
  <2> HIDE DEF D
  <2>1. D \in SUBSET Nat
    BY DEF D
  <2>. QED  BY <1>1, <1>2, <2>1, AllNat, Zenon
<1>. QED  BY <1>3

(* What FlattenSeq() makes of sequences that share nothing.                *)
LEMMA Flattened ==
    ASSUME NEW X, NEW q, NEW n \in Nat \ {0}, Len(q) = n,
           \A i \in 1 .. n : q[i] \in Seq(X) /\ Distinct(q[i]),
           \A i, j \in 1 .. n : \A x : In(q[i], x) /\ In(q[j], x) => i = j
    PROVE  /\ FlattenSeq(q) \in Seq(X) /\ Distinct(FlattenSeq(q))
           /\ \A x : In(FlattenSeq(q), x) <=> \E i \in 1 .. n : In(q[i], x)
<1> DEFINE f == CHOOSE g : g = FlatLoop(g, n, q)
<1>1. FlattenSeq(q) = f[n]
  <2>1. Len(q) # 0
    OBVIOUS
  <2>2. FlattenSeq(q) = (CHOOSE g : g = FlatLoop(g, Len(q), q))[Len(q)]
    BY <2>1 DEF FlattenSeq, FlatLoop
  <2>. QED  BY <2>2, Zenon
<1>2. f = FlatLoop(f, n, q)
  BY FlatLoopEnds, Zenon
<1> HIDE DEF f
<1>3. \A i \in 1 .. n : f[i] = IF i = 1 THEN q[i] ELSE f[i - 1] \o q[i]
  <2>1. f = [i \in 1 .. n |-> IF i = 1 THEN q[i] ELSE f[i - 1] \o q[i]]
    BY <1>2, Zenon DEF FlatLoop
  <2>. QED  BY <2>1, Zenon
<1> DEFINE Good(i) == /\ f[i] \in Seq(X) /\ Distinct(f[i])
                      /\ \A x : In(f[i], x) <=> \E j \in 1 .. i : In(q[j], x)
           D == {c \in Nat : c + 1 \in 1 .. n => Good(c + 1)}
<1>4. 0 \in D
  <2>1. 1 \in 1 .. n /\ 0 + 1 = 1 /\ \A j : j \in 1 .. 1 <=> j = 1
    OBVIOUS
  <2>2. f[1] = q[1]
    BY <1>3, <2>1, Zenon
  <2>3. f[1] \in Seq(X) /\ Distinct(f[1])
    BY <2>1, <2>2, Zenon
  <2>4. \A x : In(f[1], x) <=> \E j \in 1 .. 1 : In(q[j], x)
    BY <2>1, <2>2, Zenon
  <2>5. Good(0 + 1)
    BY <2>1, <2>3, <2>4, Zenon
  <2>. QED  BY <2>5
<1>5. ASSUME NEW c \in D PROVE c + 1 \in D
  <2>1. SUFFICES ASSUME (c + 1) + 1 \in 1 .. n PROVE Good((c + 1) + 1)
    BY <1>5
  <2>2. c \in Nat
    BY <1>5
  <2>3. /\ c + 1 \in 1 .. n /\ (c + 1) + 1 # 1 /\ ((c + 1) + 1) - 1 = c + 1
        /\ \A j : j \in 1 .. (c + 1) + 1 <=> j \in 1 .. c + 1 \/ j = (c + 1) + 1
        /\ \A j \in 1 .. c + 1 : j \in 1 .. n /\ j # (c + 1) + 1
    <3> HIDE DEF D
    <3>. QED  BY <2>1, <2>2
  <2>4. Good(c + 1)
    BY <1>5, <2>3
  <2> DEFINE a == f[c + 1]
             b == q[(c + 1) + 1]
  <2>5. a \in Seq(X) /\ Distinct(a) /\ b \in Seq(X) /\ Distinct(b)
    BY <2>1, <2>4, Zenon
  <2>6. \A x : In(a, x) <=> \E j \in 1 .. c + 1 : In(q[j], x)
    BY <2>4, Zenon
  <2>7. f[(c + 1) + 1] = a \o b
    BY <1>3, <2>1, <2>3, Zenon
  <2>8. \A x : ~(In(a, x) /\ In(b, x))
    BY <2>1, <2>3, <2>6, Zenon
  <2>9. /\ a \o b \in Seq(X) /\ Distinct(a \o b)
        /\ \A x : In(a \o b, x) <=> In(a, x) \/ In(b, x)
    <3> HIDE DEF a, b
    <3>. QED  BY <2>5, <2>8, Joined, Zenon
  <2>10. \A x : In(a \o b, x) <=> \E j \in 1 .. (c + 1) + 1 : In(q[j], x)
    <3>1. \A x : (\E j \in 1 .. (c + 1) + 1 : In(q[j], x))
                    <=> (\E j \in 1 .. c + 1 : In(q[j], x)) \/ In(b, x)
      <4>1. PICK e : e = (c + 1) + 1
        OBVIOUS
      <4>2. \A j : j \in 1 .. e <=> j \in 1 .. c + 1 \/ j = e
        BY <2>3, <4>1, Zenon
      <4>3. \A x : (\E j \in 1 .. e : In(q[j], x))
                      <=> (\E j \in 1 .. c + 1 : In(q[j], x)) \/ In(q[e], x)
        BY <4>2, Zenon
      <4>. QED  BY <4>1, <4>3, Zenon
    <3>. QED  BY <2>6, <2>9, <3>1, Zenon
  <2>. QED  BY <2>7, <2>9, <2>10, Zenon
<1>6. D = Nat
  <2> HIDE DEF D
  <2>1. D \in SUBSET Nat
    BY DEF D
  <2>. QED  BY <1>4, <1>5, <2>1, AllNat, Zenon
<1>7. n - 1 \in Nat /\ (n - 1) + 1 = n /\ n \in 1 .. n
  OBVIOUS
<1>8. Good(n)
  <2>1. n - 1 \in D
    BY <1>6, <1>7, Zenon
  <2>2. (n - 1) + 1 \in 1 .. n => Good((n - 1) + 1)
    BY <2>1
  <2>. QED  BY <1>7, <2>2, Zenon
<1>. QED  BY <1>1, <1>8, Zenon

ListKeys(l) == SubSeq(list_get_keys(l), 1, list_size(l))
Present == {k \in Key : \E n \in Node : HasKey(n, k)}
AllKeys ==
    [i \in 1 .. NLists |-> SubSeq(list_get_keys(Lists[i]), 1, list_size(Lists[i]))]

LEMMA KeysOfList ==
    ASSUME HeapTypes, NEW S \in [List -> Seq(Node)], Chains(S), NEW l \in List
    PROVE  /\ ListKeys(l) \in Seq(Key) /\ Distinct(ListKeys(l))
           /\ \A k : In(ListKeys(l), k) <=> \E n \in Node : In(S[l], n) /\ KeyOf(n) = k
<1> DEFINE n == Len(S[l])
           keys == list_get_keys(l)
<1>1. Nodes(l) = S[l] /\ n \in Nat /\ list_size(l) = n
  BY NodesAre DEF Chains, Linked, list_size
<1>2. keys = [i \in 1 .. n |-> KeyOf(S[l][i])]
  BY <1>1, Zenon DEF list_get_keys
<1>3. \A i \in 1 .. n : KeyOf(S[l][i]) \in Key /\ S[l][i] \in Node
  BY HasEntry
<1> HIDE DEF n, keys
<1>4. \A i \in 1 .. n : keys[i] = KeyOf(S[l][i]) /\ keys[i] \in Key
  BY <1>2, <1>3
<1>5. keys \in [1 .. n -> Key]
  BY <1>2, <1>4
<1>6. keys \in Seq(Key) /\ Len(keys) = n
  BY <1>1, <1>5
<1>7. SubSeq(keys, 1, n) = keys
  BY <1>1, <1>6
<1>8. Distinct(keys)
  <2>1. \A i \in 1 .. n - 1 : strcmp[KeyOf(S[l][i])][KeyOf(S[l][i + 1])] < 0
    BY Zenon DEF Chains, Ascending, n
  <2>2. \A i \in 1 .. n - 1 : i \in 1 .. n /\ i + 1 \in 1 .. n
    BY <1>1
  <2>3. \A i \in 1 .. n - 1 : strcmp[keys[i]][keys[i + 1]] < 0
    BY <1>4, <2>1, <2>2, Zenon
  <2>4. \A i \in 1 .. n : keys[i] \in Key
    BY <1>4, Zenon
  <2>5. \A i, j \in 1 .. n : keys[i] = keys[j] => i = j
    BY <1>1, <2>3, <2>4, Rising, Zenon
  <2>. QED  BY <1>6, <2>5, Zenon DEF Distinct
<1>9. \A k : In(keys, k) <=> \E x \in Node : In(S[l], x) /\ KeyOf(x) = k
  <2>1. ASSUME NEW k, In(keys, k) PROVE \E x \in Node : In(S[l], x) /\ KeyOf(x) = k
    <3>1. PICK i \in 1 .. n : keys[i] = k
      BY <1>6, <2>1, Zenon DEF In
    <3>. QED  BY <1>3, <1>4, <3>1, Zenon DEF In, n
  <2>2. ASSUME NEW k, NEW x \in Node, In(S[l], x), KeyOf(x) = k PROVE In(keys, k)
    <3>1. PICK i \in 1 .. n : S[l][i] = x
      BY <2>2, Zenon DEF In, n
    <3>. QED  BY <1>4, <1>6, <2>2, <3>1, Zenon DEF In
  <2>. QED  BY <2>1, <2>2, Zenon
<1>10. ListKeys(l) = keys
  BY <1>1, <1>7, Zenon DEF ListKeys, keys
<1>. QED  BY <1>6, <1>8, <1>9, <1>10, Zenon

LEMMA KeysAre ==
    ASSUME Layout
    PROVE  /\ FlattenSeq(AllKeys) \in Seq(Key) /\ Distinct(FlattenSeq(AllKeys))
           /\ \A k : In(FlattenSeq(AllKeys), k) <=> k \in Present
<1>1. HeapTypes
  BY DEF Layout
<1>2. PICK S \in [List -> Seq(Node)] : Chains(S)
  BY Zenon DEF Layout
<1>3. /\ NLists \in Nat \ {0} /\ Len(AllKeys) = NLists
      /\ \A i \in 1 .. NLists :
            AllKeys[i] = ListKeys(Lists[i])
  <2>1. NLists \in Nat \ {0}
    BY TableAssumption
  <2>2. AllKeys = [i \in 1 .. NLists |-> ListKeys(Lists[i])]
    BY Zenon DEF AllKeys, ListKeys
  <2>3. PICK a : a = AllKeys
    OBVIOUS
  <2>4. /\ \A i \in 1 .. NLists : a[i] = ListKeys(Lists[i])
        /\ a = [i \in 1 .. NLists |-> a[i]]
    BY <2>2, <2>3, Zenon
  <2>5. Len(a) = NLists
    BY <2>1, <2>4
  <2>. QED  BY <2>1, <2>3, <2>4, <2>5, Zenon
<1>4. \A i \in 1 .. NLists :
         /\ i - 1 \in List
         /\ AllKeys[i] \in Seq(Key) /\ Distinct(AllKeys[i])
         /\ \A k : In(AllKeys[i], k) <=> \E n \in Node : In(S[i - 1], n) /\ KeyOf(n) = k
  <2>1. ASSUME NEW i \in 1 .. NLists
        PROVE  /\ i - 1 \in List
               /\ AllKeys[i] \in Seq(Key) /\ Distinct(AllKeys[i])
               /\ \A k : In(AllKeys[i], k)
                           <=> \E n \in Node : In(S[i - 1], n) /\ KeyOf(n) = k
    <3>1. Lists[i] = i - 1 /\ i - 1 \in List
      BY PlacesOfLists, Zenon
    <3>2. AllKeys[i] = ListKeys(i - 1)
      BY <1>3, <3>1, Zenon
    <3>3. /\ ListKeys(i - 1) \in Seq(Key) /\ Distinct(ListKeys(i - 1))
          /\ \A k : In(ListKeys(i - 1), k)
                      <=> \E n \in Node : In(S[i - 1], n) /\ KeyOf(n) = k
      BY <1>1, <1>2, <3>1, KeysOfList, Zenon
    <3>. QED  BY <3>1, <3>2, <3>3, Zenon
  <2>. QED  BY <2>1, Zenon
<1>5. ASSUME NEW i \in 1 .. NLists, NEW j \in 1 .. NLists, NEW k,
             In(AllKeys[i], k), In(AllKeys[j], k)
      PROVE  i = j
  <2>1. PICK m \in Node : In(S[i - 1], m) /\ KeyOf(m) = k
    BY <1>4, <1>5, Zenon
  <2>2. PICK n \in Node : In(S[j - 1], n) /\ KeyOf(n) = k
    BY <1>4, <1>5, Zenon
  <2>3. hash_code[k] = i - 1 /\ hash_code[k] = j - 1
    <3>1. \A l \in List : \A x \in Node : In(S[l], x) => hash_code[KeyOf(x)] = l
      BY <1>2, Zenon DEF Chains, Homed
    <3>2. i - 1 \in List /\ j - 1 \in List
      BY <1>4, Zenon
    <3>3. hash_code[KeyOf(m)] = i - 1 /\ hash_code[KeyOf(n)] = j - 1
      BY <2>1, <2>2, <3>1, <3>2, Zenon
    <3>. QED  BY <2>1, <2>2, <3>3, Zenon
  <2>4. i - 1 = j - 1
    BY <2>3, Zenon
  <2>. QED  BY <2>4
<1>6. /\ FlattenSeq(AllKeys) \in Seq(Key) /\ Distinct(FlattenSeq(AllKeys))
      /\ \A k : In(FlattenSeq(AllKeys), k) <=> \E i \in 1 .. NLists : In(AllKeys[i], k)
  <2>1. \A i \in 1 .. NLists : AllKeys[i] \in Seq(Key) /\ Distinct(AllKeys[i])
    BY <1>4, Zenon
  <2>2. \A i, j \in 1 .. NLists : \A k : In(AllKeys[i], k) /\ In(AllKeys[j], k) => i = j
    BY <1>5, Zenon
  <2>. QED  BY <1>3, <2>1, <2>2, Flattened, Zenon
<1>7. ASSUME NEW k
      PROVE  (\E i \in 1 .. NLists : In(AllKeys[i], k)) <=> k \in Present
  <2>1. ASSUME NEW i \in 1 .. NLists, In(AllKeys[i], k) PROVE k \in Present
    <3>1. PICK n \in Node : In(S[i - 1], n) /\ KeyOf(n) = k
      BY <1>4, <2>1, Zenon
    <3>2. entry[n] # Nil
      BY <1>2, <1>4, <3>1, Zenon DEF Chains, Covered
    <3>3. k \in Key
      BY <1>1, <3>1, <3>2 DEF HeapTypes, KeyOf, Entry
    <3>. QED  BY <3>1, <3>2, <3>3 DEF Present, HasKey
  <2>2. ASSUME k \in Present PROVE \E i \in 1 .. NLists : In(AllKeys[i], k)
    <3>1. PICK n \in Node : k \in Key /\ HasKey(n, k)
      BY <2>2 DEF Present
    <3>2. PICK l \in List : In(S[l], n)
      BY <1>2, <3>1, Zenon DEF Chains, Covered, HasKey
    <3>3. l + 1 \in 1 .. NLists /\ (l + 1) - 1 = l
      BY PlacesOfLists, Zenon
    <3>4. In(S[(l + 1) - 1], n)
      BY <3>2, <3>3, Zenon
    <3>. QED  BY <1>4, <3>1, <3>3, <3>4, Zenon DEF HasKey
  <2>. QED  BY <2>1, <2>2, Zenon
<1>. QED  BY <1>6, <1>7, Zenon

LEMMA PresentCounted ==
    ASSUME Layout
    PROVE  /\ Cardinality(Present) = Cardinality(Used)
           /\ Len(FlattenSeq(AllKeys)) = Cardinality(Present)
<1>1. HeapTypes
  BY DEF Layout
<1>2. PICK S \in [List -> Seq(Node)] : Chains(S)
  BY Zenon DEF Layout
<1> DEFINE f == [n \in Used |-> KeyOf(n)]
           t == FlattenSeq(AllKeys)
<1>3. \A n \in Used : n \in Node /\ KeyOf(n) \in Present /\ HasKey(n, KeyOf(n)) /\ KeyOf(n) \in Key
  BY <1>1 DEF Used, Unused, Present, HasKey, KeyOf, HeapTypes, Entry
<1>4. \A m, n \in Used : KeyOf(m) = KeyOf(n) => m = n
  <2>1. ASSUME NEW m \in Used, NEW n \in Used, KeyOf(m) = KeyOf(n) PROVE m = n
    <3>1. m \in Node /\ n \in Node /\ KeyOf(n) \in Key
      BY <1>3, Zenon
    <3>2. HasKey(m, KeyOf(n)) /\ HasKey(n, KeyOf(n))
      BY <1>3, <2>1, Zenon
    <3>. QED  BY <1>1, <1>2, <3>1, <3>2, OneNode, Zenon
  <2>. QED  BY <2>1, Zenon
<1>5. \A k \in Present : \E n \in Used : KeyOf(n) = k
  BY DEF Present, HasKey, Used, Unused
<1>6. f \in [Used -> Present] /\ \A n \in Used : f[n] = KeyOf(n)
  BY <1>3
<1>7. DOMAIN f = Used
  OBVIOUS
<1> HIDE DEF f
<1>8. f \in Bijection(Used, Present)
  <2>1. \A m, n \in DOMAIN f : f[m] = f[n] => m = n
    BY <1>4, <1>6, <1>7, Zenon
  <2>2. \A k \in Present : \E n \in Used : f[n] = k
    BY <1>5, <1>6, Zenon
  <2>. QED  BY <1>6, <2>1, <2>2, Zenon DEF Bijection, Injection, IsInjective, Surjection
<1>9. Cardinality(Present) = Cardinality(Used)
  BY <1>8, UsedFinite, FS_Bijection, Zenon DEF ExistsBijection
<1>10. t \in Seq(Key) /\ Distinct(t) /\ \A k : In(t, k) <=> k \in Present
  BY KeysAre, Zenon
<1> HIDE DEF t
<1> DEFINE n == Len(t)
<1>11. n \in Nat /\ t \in [1 .. n -> Key]
  BY <1>10, LenProperties
<1>12. \A k : k \in Present <=> \E i \in 1 .. n : t[i] = k
  BY <1>10, Zenon DEF In
<1>13. \A i, j \in 1 .. n : t[i] = t[j] => i = j
  BY <1>10, Zenon DEF Distinct
<1> HIDE DEF n
<1>14. t \in [1 .. n -> Present] /\ DOMAIN t = 1 .. n
  BY <1>11, <1>12
<1>15. t \in Bijection(1 .. n, Present)
  BY <1>12, <1>13, <1>14, Zenon DEF Bijection, Injection, IsInjective, Surjection
<1>16. IsFiniteSet(1 .. n) /\ Cardinality(1 .. n) = n
  BY <1>11, FS_Interval
<1>17. Cardinality(Present) = n
  BY <1>15, <1>16, FS_Bijection, Zenon DEF ExistsBijection
<1>. QED  BY <1>9, <1>17, Zenon DEF n, t

-----------------------------------------------------------------------------
(* The refinement.                                                         *)

LEMMA MapPresent == Layout => Map!Present = Present
<1> SUFFICES ASSUME Layout PROVE Map!Present = Present
  OBVIOUS
<1>1. HeapTypes
  BY DEF Layout
<1>2. \A n \in Node : entry[n] # Nil => entry[n].val # Nil
  <2>1. ASSUME NEW n \in Node, entry[n] # Nil PROVE entry[n].val # Nil
    <3>1. entry[n].val \in Val
      BY <1>1, <2>1 DEF HeapTypes, Entry
    <3>. QED  BY <3>1, NilAssumption
  <2>. QED  BY <2>1, Zenon
<1>3. ASSUME NEW k \in Key PROVE Contents[k] # Nil <=> \E n \in Node : HasKey(n, k)
  <2>1. Maps(k, Contents[k])
    BY ContentsMaps, Zenon DEF ContentsMap
  <2>. QED  BY <1>2, <2>1, Zenon DEF Maps, HasKey
<1>4. Map!Present = {k \in Key : Contents[k] # Nil}
  BY Zenon DEF Map!Present
<1> HIDE DEF Contents
<1>. QED  BY <1>3, <1>4 DEF Present

LEMMA MapCode == \A n : Map!Code(n) = Code(n)
  BY Zenon DEF Map!Code, Code, Map!NoAnswer, NoAnswer

LEMMA MapCardinality == \A S : Map!Cardinality(S) = Cardinality(S)
  BY Zenon DEF Map!Cardinality, Cardinality

LEMMA MapInit == Init => Map!Init
<1> SUFFICES ASSUME Init PROVE Map!Init
  OBVIOUS
<1>1. Layout
  BY TableInit, Zenon DEF TableInv
<1>2. \A n \in Node, k \in Key : ~HasKey(n, k)
  BY DEF Init, ListInit, HasKey
<1>3. \A k \in Key : Contents[k] = Nil
  <2>1. \A k \in Key : Maps(k, Contents[k])
    BY <1>1, ContentsMaps, Zenon DEF ContentsMap
  <2>. QED  BY <1>2, <2>1, Zenon DEF Maps
<1>4. [k \in Key |-> Contents[k]] = [k \in Key |-> Nil]
  BY <1>3, Zenon
<1>5. Contents = [k \in Key |-> Nil]
  BY <1>4, ContentsIsMap, Zenon
<1>6. answer = Map!NoAnswer
  BY Zenon DEF Init, NoAnswer, Map!NoAnswer
<1>. QED  BY <1>5, <1>6, Zenon DEF Map!Init

LEMMA MapStep == TableInv /\ TableInv' /\ [Next]_vars => [Map!Next]_(Map!vars)
<1> SUFFICES ASSUME TableInv, TableInv', [Next]_vars PROVE [Map!Next]_(Map!vars)
  OBVIOUS
<1>1. Layout /\ Layout' /\ HeapTypes /\ blocks \in Int
  BY BlocksNat DEF TableInv, Layout
<1>2. \A k \in Key : Maps(k, Contents[k])
  BY <1>1, ContentsMaps, Zenon DEF ContentsMap
<1>3. entry' = entry => Contents' = Contents
  BY <1>1, KeptContents, Zenon
<1>4. \A k \in Key : (\A n \in Node : ~HasKey(n, k)) =>
          Contents[k] = Nil /\ [Contents EXCEPT ![k] = Nil] = Contents
  <2>1. ASSUME NEW k \in Key, \A n \in Node : ~HasKey(n, k)
        PROVE  Contents[k] = Nil /\ [Contents EXCEPT ![k] = Nil] = Contents
    <3>1. Contents[k] = Nil
      BY <1>2, <2>1, Zenon DEF Maps
    <3> DEFINE c == Contents
    <3>2. c = [j \in Key |-> c[j]]
      BY ContentsIsMap, Zenon
    <3> HIDE DEF c
    <3>3. c[k] = Nil => [c EXCEPT ![k] = Nil] = c
      BY <3>2
    <3>. QED  BY <3>1, <3>3, Zenon DEF c
  <2>. QED  BY <2>1, Zenon
<1>5. ASSUME NEW k \in Key, NEW v \in Val, table_put(k, v) PROVE Map!Next
  <2>1. \/ answer' = Code(-1) /\ Kept
        \/ answer' = Code(0) /\ Added(k, v)
        \/ answer' = Code(0) /\ Replaced(k, v)
    BY <1>1, <1>5, PutStep, Zenon
  <2>2. Added(k, v) => Contents' = [Contents EXCEPT ![k] = v]
    BY <1>1, AddedContents, Zenon
  <2>3. Replaced(k, v) => Contents' = [Contents EXCEPT ![k] = v]
    BY <1>1, ReplacedContents, Zenon
  <2>4. Kept => Contents' = Contents
    BY <1>3, Zenon DEF Kept
  <2>5. Map!Put(k, v)
    BY <2>1, <2>2, <2>3, <2>4, MapCode, Zenon DEF Map!Put
  <2>. QED  BY <2>5, Zenon DEF Map!Next
<1>6. ASSUME NEW k \in Key, KeyNotCopied(k) PROVE Map!Next
  <2>1. PICK v \in Val : TRUE
    BY ValAssumption
  <2>2. answer' = Code(-1) /\ UNCHANGED links
    BY <1>6 DEF KeyNotCopied
  <2>3. Contents' = Contents
    BY <1>3, <2>2 DEF links
  <2>4. Map!Put(k, v)
    BY <2>2, <2>3, MapCode, Zenon DEF Map!Put
  <2>. QED  BY <2>4, Zenon DEF Map!Next
<1>7. ASSUME NEW k \in Key, table_get(k) PROVE Map!Next
  <2>1. UNCHANGED links /\ Indexed(k)
    BY <1>7 DEF table_get
  <2>2. Contents' = Contents
    BY <1>3, <2>1 DEF links
  <2>3. \/ /\ list_get(hash_code[k], k) # Nil
           /\ answer' = [NoAnswer EXCEPT !.val = entry[list_get(hash_code[k], k)].val]
        \/ answer' = NoAnswer
    BY <1>7, Zenon DEF table_get
  <2>4. Contents[k] = IF list_get(hash_code[k], k) = Nil THEN Nil
                      ELSE entry[list_get(hash_code[k], k)].val
    BY <2>1, Zenon DEF Contents
  <2>5. answer' = [NoAnswer EXCEPT !.val = Contents[k]] \/ answer' = NoAnswer
    BY <2>3, <2>4, Zenon
  <2>6. answer' = [Map!NoAnswer EXCEPT !.val = Contents[k]] \/ answer' = Map!NoAnswer
    BY <2>5, Zenon DEF NoAnswer, Map!NoAnswer
  <2>7. answer' \in {Map!NoAnswer, [Map!NoAnswer EXCEPT !.val = Contents[k]]}
    BY <2>6, Zenon
  <2>8. Map!Get(k)
    BY <2>2, <2>7, Zenon DEF Map!Get
  <2>. QED  BY <2>8, Zenon DEF Map!Next
<1>8. ASSUME NEW k \in Key, table_remove(k) PROVE Map!Next
  <2>1. \/ answer' = Code(1) /\ Kept /\ \A n \in Node : ~HasKey(n, k)
        \/ answer' = Code(0) /\ Dropped(k)
    BY <1>1, <1>8, DropStep, Zenon
  <2>2. CASE answer' = Code(1) /\ Kept /\ \A n \in Node : ~HasKey(n, k)
    <3>1. Contents[k] = Nil /\ [Contents EXCEPT ![k] = Nil] = Contents
      BY <1>4, <2>2, Zenon
    <3>2. Contents' = Contents
      BY <1>3, <2>2, Zenon DEF Kept
    <3>3. Map!Remove(k)
      BY <2>2, <3>1, <3>2, MapCode, Zenon DEF Map!Remove
    <3>. QED  BY <3>3, Zenon DEF Map!Next
  <2>3. CASE answer' = Code(0) /\ Dropped(k)
    <3>1. Contents[k] # Nil /\ Contents' = [Contents EXCEPT ![k] = Nil]
      BY <1>1, <2>3, DroppedContents, Zenon
    <3>2. Map!Remove(k)
      BY <2>3, <3>1, MapCode, Zenon DEF Map!Remove
    <3>. QED  BY <3>2, Zenon DEF Map!Next
  <2>. QED  BY <2>1, <2>2, <2>3
<1>9. ASSUME table_size PROVE Map!Next
  <2>1. PICK S \in [List -> Seq(Node)] : Chains(S)
    BY <1>1, Zenon DEF Layout
  <2>2. Contents' = Contents
    BY <1>3, <1>9 DEF table_size, listVars, links
  <2>3. answer' = Code(FoldLeft(LAMBDA n, l : n + list_size(l), 0, Lists))
    BY <1>9, Zenon DEF table_size
  <2>4. FoldLeft(LAMBDA n, l : n + list_size(l), 0, Lists) = Cardinality(Used)
    BY <1>1, <2>1, SizeIs, Zenon DEF Used
  <2>5. answer' = Map!Code(Cardinality(Map!Present))
    BY <1>1, <2>3, <2>4, PresentCounted, MapPresent, MapCode, Zenon
  <2>6. Map!Size
    BY <2>2, <2>5, MapCardinality, Zenon DEF Map!Size
  <2>. QED  BY <2>6, Zenon DEF Map!Next
<1>10. ASSUME table_get_keys PROVE Map!Next
  <2> DEFINE t == FlattenSeq(AllKeys)
  <2>1. Contents' = Contents
    BY <1>3, <1>10 DEF table_get_keys, listVars, links
  <2>2. answer' = [Map!NoAnswer EXCEPT !.keys = t]
    <3>1. answer' = [NoAnswer EXCEPT !.keys = t]
      BY <1>10, Zenon DEF table_get_keys, AllKeys
    <3>. QED  BY <3>1, Zenon DEF NoAnswer, Map!NoAnswer
  <2>3. /\ t \in Seq(Key) /\ Len(t) = Cardinality(Present)
        /\ \A k : In(t, k) <=> k \in Present
    BY <1>1, KeysAre, PresentCounted, Zenon
  <2> HIDE DEF t
  <2>4. t \in [1 .. Cardinality(Present) -> Present] /\ {t[i] : i \in DOMAIN t} = Present
    <3>1. DOMAIN t = 1 .. Cardinality(Present) /\ t = [i \in 1 .. Cardinality(Present) |-> t[i]]
      BY <2>3, LenProperties
    <3>2. \A k : k \in Present <=> \E i \in 1 .. Cardinality(Present) : t[i] = k
      BY <2>3, Zenon DEF In
    <3>. QED  BY <3>1, <3>2
  <2>5. Map!Present = Present
    BY <1>1, MapPresent, Zenon
  <2>6. Map!GetKeys
    BY <2>1, <2>2, <2>4, <2>5, MapCardinality, Zenon DEF Map!GetKeys
  <2>. QED  BY <2>6, Zenon DEF Map!Next
<1>11. ASSUME table_destroy PROVE Map!Next
  <2>1. answer' = Code(0) /\ entry' = [n \in Node |-> Nil]
    BY <1>11, Zenon DEF table_destroy
  <2>2. \A k \in Key : Contents'[k] = Nil
    <3>1. ASSUME NEW k \in Key PROVE Maps(k, Nil)'
      <4>1. \A n \in Node : entry'[n] = Nil
        BY <2>1
      <4>. QED  BY <4>1, Zenon DEF Maps, HasKey
    <3>. QED  BY <1>1, <3>1, ContentsNext, Zenon
  <2>3. [k \in Key |-> Contents'[k]] = [k \in Key |-> Nil]
    BY <2>2, Zenon
  <2>4. Contents' = [k \in Key |-> Nil]
    BY <2>3, ContentsIsMapNext, Zenon
  <2>5. Map!Destroy
    BY <2>1, <2>4, MapCode, Zenon DEF Map!Destroy
  <2>. QED  BY <2>5, Zenon DEF Map!Next
<1>12. ASSUME NEW k \in Key, UseOutsideArray(k) PROVE UNCHANGED Map!vars
  <2>1. answer' = answer /\ entry' = entry
    BY <1>12 DEF UseOutsideArray, listVars, links
  <2>2. Contents' = Contents
    BY <1>3, <2>1, Zenon
  <2>. QED  BY <2>1, <2>2, Zenon DEF Map!vars
<1>13. CASE UNCHANGED vars
  <2>1. answer' = answer /\ entry' = entry
    BY <1>13 DEF vars, listVars, links
  <2>2. Contents' = Contents
    BY <1>3, <2>1, Zenon
  <2>. QED  BY <2>1, <2>2, Zenon DEF Map!vars
<1>14. ASSUME NEW l \in List, NEW j \in 0 .. Cardinality(Node), KeysNotCopied(l, j)
       PROVE  Map!Next
  <2>1. answer' = Code(-1) /\ UNCHANGED links
    BY <1>14, Zenon DEF KeysNotCopied
  <2>2. Contents' = Contents
    BY <1>3, <2>1 DEF links
  <2>3. Map!GetKeys
    BY <2>1, <2>2, MapCode, Zenon DEF Map!GetKeys
  <2>. QED  BY <2>3, Zenon DEF Map!Next
<1>. QED  BY <1>5, <1>6, <1>7, <1>8, <1>9, <1>10, <1>11, <1>12, <1>13, <1>14, Zenon
          DEF Next

(* Whatever the hash makes of the keys, every call of table.c changes and  *)
(* answers as if the table were the map of table.h: a put is found again   *)
(* under its key only, table_size() counts the keys that are found, and    *)
(* table_get_keys() has each of them once.  Out of memory, a put, a get or *)
(* a listing of the keys reports an error and changes nothing.             *)
THEOREM TableImplementsMap == Spec => ImplementsMap
  BY TableInit, TableStep, MapInit, MapStep, PTL DEF Spec, ImplementsMap, Map!Spec
=============================================================================
