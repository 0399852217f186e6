--------------------------- MODULE FramingProofs ---------------------------
(***************************************************************************)
(* Types of the framing, whatever is sent and however; and, when lengths   *)
(* are sent first and every one of them fits in the short, that messages   *)
(* arrive whole and in order.                                              *)
(***************************************************************************)
EXTENDS Framing, SequenceTheorems, TLAPS

(* What a short can tell of a length.                                      *)
Half == (Base * Base) \div 2

LEMMA BytesAreTwo == Base \in Nat /\ Base >= 2 /\ Half \in Nat /\ Half >= 2
<1>1. Base \in Nat /\ Base >= 2
  BY BaseAssumption, SMT
<1>2. Base * Base \in Nat /\ Base * Base >= 4
  BY <1>1, SMT
<1>3. Half \in Nat /\ Half >= 2
  <2>1. \A x \in Nat : x >= 4 => x \div 2 \in Nat /\ x \div 2 >= 2
    BY SMT
  <2>. QED  BY <1>2, <2>1, Zenon DEF Half
<1>. QED  BY <1>1, <1>3

LEMMA ShortIsBytes ==
    ASSUME NEW n \in Nat
    PROVE  /\ Short(n) \in Seq(Byte) /\ Len(Short(n)) = 2
           /\ Short(n)[1] = (n \div Base) % Base /\ Short(n)[2] = n % Base
<1>1. Base \in Nat /\ Base >= 2
  BY BytesAreTwo
<1>2. n \div Base \in Nat
  BY <1>1, SMT
<1>3. (n \div Base) % Base \in Byte /\ n % Base \in Byte
  BY <1>1, <1>2, SMT DEF Byte
<1>. QED  BY <1>3 DEF Short

(* A length below the half comes back as it was.                           *)
LEMMA ShortComesBack ==
    ASSUME NEW n \in Nat, n < Half, NEW b, b[1] = Short(n)[1], b[2] = Short(n)[2]
    PROVE  HostSize(b) = n
<1>1. Base \in Nat /\ Base >= 2 /\ Half \in Nat
  BY BytesAreTwo
<1> DEFINE d == n \div Base
           r == n % Base
<1>2. d \in Nat /\ r \in Nat /\ r < Base /\ n = d * Base + r
  BY <1>1, SMT
<1>3. Half <= Base * Base
  <2>1. \A x \in Nat : x \div 2 <= x
    BY SMT
  <2>2. Base * Base \in Nat
    BY <1>1, SMT
  <2>. QED  BY <2>1, <2>2, Zenon DEF Half
<1>4. d < Base
  <2>1. SUFFICES ASSUME d >= Base PROVE FALSE
    BY <1>1, <1>2
  <2> HIDE DEF d, r
  <2>2. d * Base >= Base * Base
    BY <1>1, <1>2, <2>1, SMT
  <2>3. d * Base \in Nat /\ Base * Base \in Nat
    BY <1>1, <1>2, SMT
  <2>. QED  BY <1>1, <1>2, <1>3, <2>2, <2>3, SMT
<1>5. d % Base = d
  <2> HIDE DEF d, r
  <2>. QED  BY <1>1, <1>2, <1>4, SMT
<1>6. b[1] = d /\ b[2] = r
  BY <1>5, ShortIsBytes
<1>7. b[1] * Base + b[2] = n
  <2> HIDE DEF d, r
  <2>. QED  BY <1>2, <1>6, Zenon
<1>. QED  BY <1>7, Zenon DEF HostSize, Half

(* What HostSize() makes of any two bytes.                                 *)
LEMMA SizeBounds ==
    ASSUME NEW b \in Seq(Byte), Len(b) = 2
    PROVE  HostSize(b) \in Int /\ HostSize(b) <= Half
<1>1. Base \in Nat /\ Half \in Nat /\ Base * Base \in Nat
  BY BytesAreTwo, SMT
<1>2. b[1] \in Nat /\ b[2] \in Nat /\ b[1] < Base /\ b[2] < Base
  BY <1>1 DEF Byte
<1> DEFINE n == b[1] * Base + b[2]
<1>3. n \in Nat /\ n < Base * Base
  <2>1. b[1] * Base <= (Base - 1) * Base
    BY <1>1, <1>2, SMT
  <2>2. (Base - 1) * Base = Base * Base - Base /\ b[1] * Base \in Nat
    BY <1>1, <1>2, SMT
  <2>. QED  BY <1>1, <1>2, <2>1, <2>2, SMT
<1>4. HostSize(b) = IF n < Half THEN n ELSE n - Base * Base
  BY Zenon DEF HostSize, Half
<1> HIDE DEF n
<1>. QED  BY <1>1, <1>3, <1>4, SMT

-----------------------------------------------------------------------------
(* Types.                                                                  *)

(* Pieces of a sequence, point by point.                                   *)
LEMMA Piece ==
    ASSUME NEW S, NEW s \in Seq(S), NEW n \in 1 .. Len(s)
    PROVE  /\ SubSeq(s, 1, n) \in Seq(S) /\ Len(SubSeq(s, 1, n)) = n
           /\ \A i \in 1 .. n : SubSeq(s, 1, n)[i] = s[i]
           /\ SubSeq(s, n + 1, Len(s)) \in Seq(S)
           /\ Len(SubSeq(s, n + 1, Len(s))) = Len(s) - n
           /\ \A i \in 1 .. Len(s) - n : SubSeq(s, n + 1, Len(s))[i] = s[n + i]
<1>1. Len(s) \in Nat /\ n \in Nat /\ n >= 1 /\ n <= Len(s)
  OBVIOUS
<1>2. \A i \in 1 .. n : s[i] \in S
  BY <1>1
<1>3. \A i \in n + 1 .. Len(s) : s[i] \in S
  BY <1>1
<1>4. SubSeq(s, 1, n) \in Seq(S) /\ Len(SubSeq(s, 1, n)) = n
  BY <1>1, <1>2, SubSeqProperties
<1>5. \A i \in 1 .. n : SubSeq(s, 1, n)[i] = s[i]
  BY <1>1, SubSeqProperties
<1>6. SubSeq(s, n + 1, Len(s)) \in Seq(S) /\ Len(SubSeq(s, n + 1, Len(s))) = Len(s) - n
  BY <1>1, <1>3, SubSeqProperties
<1>7. \A i \in 1 .. Len(s) - n : SubSeq(s, n + 1, Len(s))[i] = s[n + i]
  BY <1>1, SubSeqProperties
<1>. QED  BY <1>4, <1>5, <1>6, <1>7

LEMMA Joined ==
    ASSUME NEW S, NEW s \in Seq(S), NEW t \in Seq(S)
    PROVE  /\ s \o t \in Seq(S) /\ Len(s \o t) = Len(s) + Len(t)
           /\ \A i \in 1 .. Len(s) : (s \o t)[i] = s[i]
           /\ \A i \in 1 .. Len(t) : (s \o t)[Len(s) + i] = t[i]
  OBVIOUS

LEMMA FramedIsBytes ==
    ASSUME NEW m \in Packed
    PROVE  m \in Seq(Byte) /\ Framed(m) \in Seq(Byte)
<1>1. m \in Seq(Byte)
  BY PackedAssumption
<1>2. Short(Len(m)) \in Seq(Byte)
  BY <1>1, ShortIsBytes, LenProperties
<1>. QED  BY <1>1, <1>2, Joined, Zenon DEF Framed

LEMMA TypesAtFirst == Init => TypeOK
<1>1. 2 \in 0 .. Half
  BY BytesAreTwo
<1>. QED  BY <1>1 DEF Init, TypeOK, Half

LEMMA TypesKept == TypeOK /\ [Next]_vars => TypeOK'
<1> SUFFICES ASSUME TypeOK, [Next]_vars PROVE TypeOK'
  OBVIOUS
<1>1. Base \in Nat /\ Half \in Nat /\ Half >= 2
  BY BytesAreTwo
<1>2. ASSUME NEW m \in Packed, Send(m) PROVE TypeOK'
  BY <1>2, FramedIsBytes DEF Send, TypeOK
<1>3. CASE write_all
  <2>1. PICK n \in 1 .. Len(out) : /\ stream' = stream \o SubSeq(out, 1, n)
                                   /\ out' = SubSeq(out, n + 1, Len(out))
    BY <1>3 DEF write_all
  <2>2. stream \in Seq(Byte) /\ out \in Seq(Byte)
    BY DEF TypeOK
  <2>3. stream' \in Seq(Byte) /\ out' \in Seq(Byte)
    BY <2>1, <2>2, Piece, Joined, Zenon
  <2>. QED  BY <1>3, <2>3 DEF write_all, TypeOK
<1>4. CASE read_all
  <2>1. PICK n \in 1 .. Len(stream) :
            /\ n <= need /\ need' = need - n
            /\ buffer' = buffer \o SubSeq(stream, 1, n)
            /\ stream' = SubSeq(stream, n + 1, Len(stream))
    BY <1>4 DEF read_all
  <2>2. stream \in Seq(Byte) /\ buffer \in Seq(Byte) /\ need \in 0 .. Half
    BY DEF TypeOK, Half
  <2>3. /\ stream' \in Seq(Byte) /\ buffer' \in Seq(Byte)
        /\ Len(buffer') = Len(buffer) + n
    <3>1. /\ SubSeq(stream, 1, n) \in Seq(Byte) /\ Len(SubSeq(stream, 1, n)) = n
          /\ SubSeq(stream, n + 1, Len(stream)) \in Seq(Byte)
      BY <2>2, Piece, Zenon
    <3>. QED  BY <2>1, <2>2, <3>1, Joined, Zenon
  <2>4. need' \in 0 .. Half /\ need' + Len(buffer') = need + Len(buffer)
    BY <1>1, <2>1, <2>2, <2>3
  <2>. QED  BY <1>4, <2>3, <2>4 DEF read_all, TypeOK, Half
<1>5. CASE SizeRead
  <2>1. HostSize(buffer) \in Int /\ HostSize(buffer) <= Half
    BY <1>5, SizeBounds DEF SizeRead, TypeOK
  <2>2. need' \in 0 .. Half /\ reader' \in {"message", "closed", "undefined"}
    BY <1>1, <1>5, <2>1 DEF SizeRead
  <2>. QED  BY <1>5, <2>2 DEF SizeRead, TypeOK, Half
<1>6. CASE MessageRead
  <2>1. need' \in 0 .. Half
    BY <1>1, <1>6 DEF MessageRead, TypeOK, Half
  <2>2. CASE buffer \in Packed
    <3>1. /\ received' = Append(received, buffer)
          /\ reader' = "size" /\ need' = 2 /\ buffer' = <<>>
      BY <1>6, <2>2, Zenon DEF MessageRead
    <3>2. received' \in Seq(Packed)
      BY <2>2, <3>1 DEF TypeOK
    <3>. QED  BY <1>6, <2>1, <3>1, <3>2 DEF MessageRead, TypeOK, Half
  <2>3. CASE buffer \notin Packed
    <3>1. reader' = "closed" /\ received' = received /\ buffer' = <<>>
      BY <1>6, <2>3, Zenon DEF MessageRead
    <3>. QED  BY <1>6, <2>1, <3>1 DEF MessageRead, TypeOK, Half
  <2>. QED  BY <2>2, <2>3
<1>7. CASE UNCHANGED vars
  BY <1>7 DEF vars, TypeOK
<1>. QED  BY <1>2, <1>3, <1>4, <1>5, <1>6, <1>7 DEF Next, network_receive

(* The bytes under way, the reader's state and how many bytes it wants are *)
(* always of their types, and while it reads a short what it has and what  *)
(* it wants make two bytes; whether lengths are sent first or not.         *)
THEOREM FramingTypeCorrectness == Spec => []TypeOK
  BY TypesAtFirst, TypesKept, PTL DEF Spec

-----------------------------------------------------------------------------
(* Messages arrive.  W is all that is ever written, byte by byte, and      *)
(* off[i] says where in it the i-th message ends.                          *)

(* How many of the bytes the reader has had.                               *)
Position(off) == off[Len(sent)] - Len(stream) - Len(out)

(* W holds the messages that were sent, framed, one behind the other.      *)
Laid(W, off) ==
    /\ off[0] = 0
    /\ \A i \in 1 .. Len(sent) :
          /\ off[i] = off[i - 1] + 2 + Len(sent[i])
          /\ off[i] <= off[Len(sent)]
          /\ W[off[i - 1] + 1] = Short(Len(sent[i]))[1]
          /\ W[off[i - 1] + 2] = Short(Len(sent[i]))[2]
          /\ \A j \in 1 .. Len(sent[i]) : W[off[i - 1] + 2 + j] = sent[i][j]

(* What is under way is the rest of it.                                    *)
UnderWay(W, off) ==
    /\ \A i \in 1 .. Len(stream) : stream[i] = W[Position(off) + i]
    /\ \A i \in 1 .. Len(out) : out[i] = W[Position(off) + Len(stream) + i]

(* What was returned is what was sent, and the reader stands behind it: in *)
(* the short of the next message, or in its bytes.                         *)
InStep(W, off) ==
    LET q == Len(received)
    IN  /\ q <= Len(sent)
        /\ \A i \in 1 .. q : received[i] = sent[i]
        /\ reader \in {"size", "message"}
        /\ reader = "size" =>
              /\ Position(off) = off[q] + Len(buffer)
              /\ \A i \in 1 .. Len(buffer) : buffer[i] = W[off[q] + i]
        /\ reader = "message" =>
              /\ q < Len(sent) /\ need + Len(buffer) = Len(sent[q + 1])
              /\ Position(off) = off[q] + 2 + Len(buffer)
              /\ \A i \in 1 .. Len(buffer) : buffer[i] = W[off[q] + 2 + i]

FramingInv ==
    /\ TypeOK
    /\ \E W \in [Nat -> Byte], off \in [Nat -> Nat] :
          Laid(W, off) /\ UnderWay(W, off) /\ InStep(W, off)

LEMMA FramedParts ==
    ASSUME LengthFirst, NEW m \in Packed
    PROVE  /\ m \in Seq(Byte) /\ Len(m) \in Nat
           /\ Framed(m) \in Seq(Byte) /\ Len(Framed(m)) = 2 + Len(m)
           /\ Framed(m)[1] = Short(Len(m))[1] /\ Framed(m)[2] = Short(Len(m))[2]
           /\ \A j \in 1 .. Len(m) : Framed(m)[2 + j] = m[j]
<1>1. m \in Seq(Byte) /\ Len(m) \in Nat
  BY PackedAssumption
<1>2. Short(Len(m)) \in Seq(Byte) /\ Len(Short(Len(m))) = 2
  BY <1>1, ShortIsBytes
<1> DEFINE g == Short(Len(m))
<1>3. Framed(m) = g \o m
  BY DEF Framed
<1> HIDE DEF g
<1>4. /\ \A i \in 1 .. 2 : Framed(m)[i] = g[i]
      /\ \A j \in 1 .. Len(m) : Framed(m)[2 + j] = m[j]
      /\ Framed(m) \in Seq(Byte) /\ Len(Framed(m)) = 2 + Len(m)
  <2>1. g \in Seq(Byte) /\ Len(g) = 2
    BY <1>2 DEF g
  <2>2. /\ g \o m \in Seq(Byte) /\ Len(g \o m) = Len(g) + Len(m)
        /\ \A i \in 1 .. Len(g) : (g \o m)[i] = g[i]
        /\ \A j \in 1 .. Len(m) : (g \o m)[Len(g) + j] = m[j]
    BY <1>1, <2>1, Joined
  <2>. QED  BY <1>3, <2>1, <2>2, Zenon
<1>5. 1 \in 1 .. 2 /\ 2 \in 1 .. 2
  OBVIOUS
<1>. QED  BY <1>1, <1>4, <1>5, Zenon DEF g

(* What the proofs use of the types.                                       *)
LEMMA FramingShapes ==
    ASSUME TypeOK
    PROVE  /\ sent \in Seq(Packed) /\ received \in Seq(Packed)
           /\ out \in Seq(Byte) /\ stream \in Seq(Byte) /\ buffer \in Seq(Byte)
           /\ Len(sent) \in Nat /\ Len(received) \in Nat /\ Len(out) \in Nat
           /\ Len(stream) \in Nat /\ Len(buffer) \in Nat /\ need \in Nat
           /\ reader = "size" => need + Len(buffer) = 2
<1>1. need \in Nat
  BY BytesAreTwo DEF TypeOK, Half
<1>. QED  BY <1>1 DEF TypeOK

LEMMA InStepAtFirst == Init => FramingInv
<1> SUFFICES ASSUME Init PROVE FramingInv
  OBVIOUS
<1> DEFINE W == [k \in Nat |-> 0]
           off == [k \in Nat |-> 0]
<1>1. W \in [Nat -> Byte] /\ off \in [Nat -> Nat]
  BY BytesAreTwo DEF Byte
<1>2. off[0] = 0
  OBVIOUS
<1> HIDE DEF W, off
<1>3. Laid(W, off) /\ UnderWay(W, off) /\ InStep(W, off)
  BY <1>2 DEF Init, Laid, UnderWay, InStep, Position
<1>. QED  BY <1>1, <1>3, TypesAtFirst DEF FramingInv

(* One more message is laid behind the others.                             *)
LEMMA SendLays ==
    ASSUME LengthFirst, TypeOK, NEW m \in Packed, Send(m),
           NEW W \in [Nat -> Byte], NEW off \in [Nat -> Nat],
           Laid(W, off), UnderWay(W, off), InStep(W, off)
    PROVE  \E V \in [Nat -> Byte], o \in [Nat -> Nat] :
              Laid(V, o)' /\ UnderWay(V, o)' /\ InStep(V, o)'
<1> DEFINE n == Len(sent)
           end == off[n]
           l == Len(m)
           b == Len(stream)
           c == Len(buffer)
           q == Len(received)
           f == Framed(m)
<1>0. sent \in Seq(Packed) /\ received \in Seq(Packed) /\ n \in Nat
  BY FramingShapes, Zenon
<1>1. /\ n \in Nat /\ end \in Nat /\ l \in Nat /\ b \in Nat /\ c \in Nat /\ q \in Nat
  <2>1. n \in Nat /\ b \in Nat /\ c \in Nat /\ q \in Nat
    BY FramingShapes, Zenon
  <2>2. end \in Nat
    BY <2>1, Zenon
  <2>. QED  BY <2>1, <2>2, FramedParts, Zenon
<1>2. /\ out = <<>> /\ Len(out) = 0 /\ sent' = Append(sent, m) /\ out' = Framed(m)
      /\ stream' = stream /\ reader' = reader /\ need' = need
      /\ buffer' = buffer /\ received' = received
  BY DEF Send
<1>3. /\ Len(sent') = n + 1 /\ sent'[n + 1] = m
      /\ \A i \in 1 .. n : sent'[i] = sent[i]
  BY <1>0, <1>2
<1>4. /\ Framed(m) \in Seq(Byte) /\ Len(Framed(m)) = 2 + l /\ l \in Nat
      /\ Framed(m)[1] = Short(l)[1] /\ Framed(m)[2] = Short(l)[2]
      /\ \A j \in 1 .. l : Framed(m)[2 + j] = m[j]
  BY FramedParts, Zenon
<1>a. f \in Seq(Byte) /\ Len(f) = 2 + l /\ \A j \in 1 .. 2 + l : f[j] \in Byte
  BY <1>4, FramedParts
<1> HIDE DEF n, end, l, b, c, q, f
<1>5. PICK V \in [Nat -> Byte] :
          V = [k \in Nat |-> IF k > end /\ k <= end + 2 + l
                             THEN f[k - end] ELSE W[k]]
  <2>1. ASSUME NEW k \in Nat, k > end, k <= end + 2 + l
        PROVE  f[k - end] \in Byte
    <3>1. k - end \in 1 .. 2 + l
      BY <1>1, <2>1
    <3>. QED  BY <1>a, <3>1, Zenon
  <2>. QED  BY <2>1
<1>6. PICK o \in [Nat -> Nat] :
          o = [k \in Nat |-> IF k = n + 1 THEN end + 2 + l ELSE off[k]]
  <2>1. end + 2 + l \in Nat
    BY <1>1
  <2>. QED  BY <2>1
<1>7. \A k \in Nat : k <= end => V[k] = W[k]
  <2>1. \A k \in Nat : k <= end => ~(k > end)
    BY <1>1
  <2>. QED  BY <1>5, <2>1, Zenon
<1>8. \A j \in 1 .. 2 + l : V[end + j] = f[j]
  <2>1. ASSUME NEW j \in 1 .. 2 + l PROVE V[end + j] = f[j]
    <3>1. /\ end + j \in Nat /\ end + j > end /\ end + j <= end + 2 + l
          /\ (end + j) - end = j
      BY <1>1
    <3>. QED  BY <1>5, <3>1, Zenon
  <2>. QED  BY <2>1
<1>9. /\ \A k \in Nat : k <= n => o[k] = off[k]
      /\ o[n + 1] = end + 2 + l
  BY <1>1, <1>6
<1>10. /\ off[0] = 0 /\ off[n] = end
       /\ \A i \in 1 .. n :
             /\ off[i] = off[i - 1] + 2 + Len(sent[i]) /\ off[i] <= end
             /\ W[off[i - 1] + 1] = Short(Len(sent[i]))[1]
             /\ W[off[i - 1] + 2] = Short(Len(sent[i]))[2]
             /\ \A j \in 1 .. Len(sent[i]) : W[off[i - 1] + 2 + j] = sent[i][j]
  BY DEF Laid, n, end
<1>11. \A i \in 1 .. n : Len(sent[i]) \in Nat
  <2>1. \A i \in 1 .. n : sent[i] \in Packed
    BY <1>0 DEF n
  <2>. QED  BY <2>1, FramedParts
<1>12. Laid(V, o)'
  <2>1. o[0] = 0
    BY <1>1, <1>9, <1>10
  <2>2. ASSUME NEW i \in 1 .. n
        PROVE  /\ o[i] = o[i - 1] + 2 + Len(sent'[i]) /\ o[i] <= o[n + 1]
               /\ V[o[i - 1] + 1] = Short(Len(sent'[i]))[1]
               /\ V[o[i - 1] + 2] = Short(Len(sent'[i]))[2]
               /\ \A j \in 1 .. Len(sent'[i]) : V[o[i - 1] + 2 + j] = sent'[i][j]
    <3>0. i \in Nat /\ i - 1 \in Nat /\ i <= n /\ i - 1 <= n
      BY <1>1
    <3> DEFINE k == Len(sent[i])
    <3>1. sent'[i] = sent[i] /\ k \in Nat
      BY <1>3, <1>11, Zenon
    <3>2. /\ o[i] = off[i] /\ o[i - 1] = off[i - 1]
          /\ off[i] \in Nat /\ off[i - 1] \in Nat
      BY <1>9, <3>0, Zenon
    <3>3. off[i] = off[i - 1] + 2 + k /\ off[i] <= end
      BY <1>10, Zenon
    <3> HIDE DEF k
    <3>4. \A j \in 1 .. k :
             off[i - 1] + 2 + j \in Nat /\ off[i - 1] + 2 + j <= end
      BY <1>1, <3>1, <3>2, <3>3
    <3>5. /\ off[i - 1] + 1 \in Nat /\ off[i - 1] + 1 <= end
          /\ off[i - 1] + 2 \in Nat /\ off[i - 1] + 2 <= end
      BY <1>1, <3>1, <3>2, <3>3
    <3>6. o[i] <= o[n + 1]
      <4>1. o[n + 1] = end + 2 + l
        BY <1>9, Zenon
      <4>. QED  BY <1>1, <3>2, <3>3, <4>1
    <3>7. \A j \in 1 .. Len(sent[i]) : V[off[i - 1] + 2 + j] = sent[i][j]
      BY <1>7, <1>10, <3>4, Zenon DEF k
    <3>8. /\ V[off[i - 1] + 1] = Short(Len(sent[i]))[1]
          /\ V[off[i - 1] + 2] = Short(Len(sent[i]))[2]
      BY <1>7, <1>10, <3>5, Zenon
    <3>. QED  BY <3>1, <3>2, <3>3, <3>6, <3>7, <3>8, Zenon DEF k
  <2>3. /\ o[n + 1] = o[n] + 2 + Len(sent'[n + 1])
        /\ V[o[n] + 1] = Short(Len(sent'[n + 1]))[1]
        /\ V[o[n] + 2] = Short(Len(sent'[n + 1]))[2]
        /\ \A j \in 1 .. Len(sent'[n + 1]) : V[o[n] + 2 + j] = sent'[n + 1][j]
    <3>0. n <= n
      BY <1>1
    <3>1. o[n] = end /\ sent'[n + 1] = m
      BY <1>1, <1>3, <1>9, <1>10, <3>0, Zenon
    <3>2. \A j \in 1 .. l : V[end + 2 + j] = m[j]
      <4>1. ASSUME NEW j \in 1 .. l PROVE V[end + 2 + j] = m[j]
        <5>1. 2 + j \in 1 .. 2 + l /\ end + 2 + j = end + (2 + j)
          BY <1>1
        <5>2. V[end + 2 + j] = f[2 + j]
          BY <1>8, <5>1, Zenon
        <5>3. f[2 + j] = m[j]
          BY <1>4, <4>1, Zenon DEF f, l
        <5>. QED  BY <5>2, <5>3, Zenon
      <4>. QED  BY <4>1
    <3>3. V[end + 1] = f[1] /\ V[end + 2] = f[2]
      <4>1. 1 \in 1 .. 2 + l /\ 2 \in 1 .. 2 + l
        BY <1>1
      <4>. QED  BY <1>8, <4>1, Zenon
    <3>4. f[1] = Short(l)[1] /\ f[2] = Short(l)[2]
      BY <1>4, Zenon DEF f, l
    <3>. QED  BY <1>9, <3>1, <3>2, <3>3, <3>4, Zenon DEF l
  <2>4. \A i \in 1 .. n + 1 :
               /\ o[i] = o[i - 1] + 2 + Len(sent'[i]) /\ o[i] <= o[n + 1]
               /\ V[o[i - 1] + 1] = Short(Len(sent'[i]))[1]
               /\ V[o[i - 1] + 2] = Short(Len(sent'[i]))[2]
               /\ \A j \in 1 .. Len(sent'[i]) : V[o[i - 1] + 2 + j] = sent'[i][j]
    <3>1. ASSUME NEW i \in 1 .. n + 1, i # n + 1
          PROVE  i \in 1 .. n
      BY <1>1, <3>1
    <3>2. (n + 1) - 1 = n /\ o[n + 1] <= o[n + 1]
      BY <1>1, <1>9, <1>4
    <3>. QED  BY <2>2, <2>3, <3>1, <3>2, Zenon
  <2>. QED  BY <1>3, <2>1, <2>4, Zenon DEF Laid, n
<1>13. Position(o)' = Position(off) /\ Position(off) = end - b
  <2>1. Position(o)' = (end + 2 + l) - b - (2 + l)
    BY <1>a, <1>2, <1>3, <1>9, Zenon DEF Position, n, b, f
  <2>2. Position(off) = end - b - 0
    BY <1>2 DEF Position, n, end, b
  <2>. QED  BY <1>1, <1>4, <2>1, <2>2
<1>14. UnderWay(V, o)'
  <2>1. Position(off) \in Int /\ Position(off) + b = end
    BY <1>1, <1>13
  <2>2. ASSUME NEW i \in 1 .. b
        PROVE  stream[i] = V[Position(off) + i]
    <3>1. Position(off) >= 0
      <4>1. q <= n /\ q \in Nat /\ off[q] \in Nat
        BY <1>1 DEF InStep, n, q
      <4>2. \/ Position(off) = off[q] + c
            \/ Position(off) = off[q] + 2 + c
        BY Zenon DEF InStep, q, c
      <4>. QED  BY <1>1, <4>1, <4>2
    <3>2. Position(off) + i \in Nat /\ Position(off) + i <= end
      BY <1>1, <2>1, <3>1
    <3>. QED  BY <1>7, <3>2 DEF UnderWay, b
  <2>3. \A i \in 1 .. Len(out') : out'[i] = V[Position(off) + b + i]
    <3>1. \A i \in 1 .. 2 + l : Position(off) + b + i = end + i
      BY <1>1, <2>1
    <3>2. Len(out') = 2 + l /\ out' = f
      BY <1>2, <1>a, Zenon DEF f
    <3>. QED  BY <1>8, <3>1, <3>2, Zenon
  <2>. QED  BY <1>2, <1>13, <2>2, <2>3 DEF UnderWay, b
<1>15. InStep(V, o)'
  <2>1. /\ q <= n
        /\ \A i \in 1 .. q : received[i] = sent[i]
        /\ reader \in {"size", "message"}
    BY DEF InStep, n, q, b, c
  <2>2. \A i \in 1 .. q : received'[i] = sent'[i]
    BY <1>1, <1>2, <1>3, <2>1
  <2>3. o[q] = off[q] /\ off[q] \in Nat
    BY <1>1, <1>9, <2>1
  <2>4. ASSUME reader = "size"
        PROVE  /\ Position(off) = off[q] + c
               /\ \A i \in 1 .. c : buffer[i] = V[off[q] + i]
    <3>1. /\ Position(off) = off[q] + c
          /\ \A i \in 1 .. c : buffer[i] = W[off[q] + i]
      BY <2>4, Zenon DEF InStep, q, c
    <3>2. \A i \in 1 .. c : /\ off[q] + i \in Nat
                                      /\ off[q] + i <= end
      BY <1>1, <1>13, <2>3, <3>1
    <3>. QED  BY <1>7, <3>1, <3>2, Zenon
  <2>5. ASSUME reader = "message"
        PROVE  /\ q < n /\ need + c = Len(sent[q + 1])
               /\ Position(off) = off[q] + 2 + c
               /\ \A i \in 1 .. c : buffer[i] = V[off[q] + 2 + i]
    <3>1. /\ q < n /\ need + c = Len(sent[q + 1])
          /\ Position(off) = off[q] + 2 + c
          /\ \A i \in 1 .. c : buffer[i] = W[off[q] + 2 + i]
      BY <2>5, Zenon DEF InStep, n, q, c
    <3>2. \A i \in 1 .. c : off[q] + 2 + i \in Nat /\ off[q] + 2 + i <= end
      <4>1. Position(off) = off[q] + 2 + c
        BY <3>1, Zenon
      <4>. QED  BY <1>1, <1>13, <2>3, <4>1
    <3>. QED  BY <1>7, <3>1, <3>2, Zenon
  <2>6. q < n => sent'[q + 1] = sent[q + 1]
    <3>1. q < n => q + 1 \in 1 .. n
      BY <1>1
    <3>. QED  BY <1>3, <3>1, Zenon
  <2>7. q <= n + 1 /\ (q < n => q < n + 1)
    BY <1>1, <2>1
  <2>8. /\ Len(received') = q /\ Len(sent') = n + 1 /\ Len(buffer') = c
        /\ Position(o)' = Position(off)
    BY <1>2, <1>3, <1>13, Zenon DEF q, c, n
  <2>9. reader' = "size" =>
           /\ Position(o)' = o[q] + c
           /\ \A i \in 1 .. c : buffer'[i] = V[o[q] + i]
    BY <1>2, <2>3, <2>4, <2>8, Zenon
  <2>10. reader' = "message" =>
            /\ q < n + 1 /\ need' + c = Len(sent'[q + 1])
            /\ Position(o)' = o[q] + 2 + c
            /\ \A i \in 1 .. c : buffer'[i] = V[o[q] + 2 + i]
    BY <1>2, <2>3, <2>5, <2>6, <2>7, <2>8, Zenon
  <2>. QED  BY <1>2, <2>1, <2>2, <2>7, <2>8, <2>9, <2>10, Zenon DEF InStep
<1>. QED  BY <1>12, <1>14, <1>15

(* Written bytes pass from one end of what is under way to the other.      *)
LEMMA WriteMoves ==
    ASSUME TypeOK, write_all,
           NEW W \in [Nat -> Byte], NEW off \in [Nat -> Nat],
           Laid(W, off), UnderWay(W, off), InStep(W, off)
    PROVE  Laid(W, off)' /\ UnderWay(W, off)' /\ InStep(W, off)'
<1> DEFINE p == Position(off)
           b == Len(stream)
           w == Len(out)
           end == off[Len(sent)]
<1>1. PICK n \in 1 .. Len(out) : /\ stream' = stream \o SubSeq(out, 1, n)
                                 /\ out' = SubSeq(out, n + 1, Len(out))
  BY DEF write_all
<1>2. /\ sent' = sent /\ received' = received /\ reader' = reader
      /\ need' = need /\ buffer' = buffer
  BY DEF write_all
<1>3. /\ stream \in Seq(Byte) /\ out \in Seq(Byte) /\ b \in Nat /\ w \in Nat
      /\ end \in Nat
  BY FramingShapes, Zenon
<1>4. p = end - b - w
  BY DEF Position
<1> DEFINE x == SubSeq(out, 1, n)
<1>5. /\ x \in Seq(Byte) /\ Len(x) = n /\ \A i \in 1 .. n : x[i] = out[i]
      /\ Len(out') = w - n /\ \A i \in 1 .. w - n : out'[i] = out[n + i]
  BY <1>1, <1>3, Piece, Zenon
<1>6. n \in 1 .. w
  BY <1>1
<1> HIDE DEF x, p, b, w, end
<1>7. /\ Len(stream') = b + n
      /\ \A i \in 1 .. b : stream'[i] = stream[i]
      /\ \A i \in 1 .. n : stream'[b + i] = out[i]
  <2>1. /\ Len(stream \o x) = Len(stream) + Len(x)
        /\ \A i \in 1 .. Len(stream) : (stream \o x)[i] = stream[i]
        /\ \A i \in 1 .. Len(x) : (stream \o x)[Len(stream) + i] = x[i]
    <3>1. stream \in Seq(Byte) /\ x \in Seq(Byte)
      BY <1>3, <1>5, Zenon
    <3>. QED  BY <3>1, Joined, SMT
  <2>. QED  BY <1>1, <1>5, <2>1, Zenon DEF b, x
<1>8. /\ \A i \in 1 .. b : stream[i] = W[p + i]
      /\ \A i \in 1 .. w : out[i] = W[p + b + i]
  BY Zenon DEF UnderWay, p, b, w
<1>9. Position(off)' = p
  <2>1. Position(off)' = end - (b + n) - (w - n)
    BY <1>2, <1>5, <1>7, Zenon DEF Position, end
  <2>. QED  BY <1>3, <1>4, <1>6, <2>1
<1>10. Laid(W, off)'
  BY <1>2, Zenon DEF Laid
<1>11. InStep(W, off)'
  BY <1>2, <1>9, Zenon DEF InStep, p
<1>12. p \in Int
  BY <1>3, <1>4
<1>13. ASSUME NEW i \in 1 .. b + n PROVE stream'[i] = W[p + i]
  <2>1. CASE i \in 1 .. b
    BY <1>7, <1>8, <2>1, Zenon
  <2>2. CASE i \notin 1 .. b
    <3>1. i - b \in 1 .. n /\ i - b \in 1 .. w /\ b + (i - b) = i
      BY <1>3, <1>6, <1>13, <2>2
    <3>2. p + b + (i - b) = p + i
      BY <1>3, <1>12, <1>13
    <3>3. stream'[b + (i - b)] = out[i - b] /\ out[i - b] = W[p + b + (i - b)]
      BY <1>7, <1>8, <3>1, Zenon
    <3>. QED  BY <3>1, <3>2, <3>3, Zenon
  <2>. QED  BY <2>1, <2>2
<1>14. ASSUME NEW i \in 1 .. w - n PROVE out'[i] = W[p + (b + n) + i]
  <2>1. n + i \in 1 .. w /\ p + b + (n + i) = p + (b + n) + i
    BY <1>3, <1>6, <1>12, <1>14
  <2>. QED  BY <1>5, <1>8, <2>1, Zenon
<1>15. UnderWay(W, off)'
  BY <1>5, <1>7, <1>9, <1>13, <1>14, Zenon DEF UnderWay
<1>. QED  BY <1>10, <1>11, <1>15

(* Read bytes pass from the stream to the buffer.                          *)
LEMMA ReadMoves ==
    ASSUME TypeOK, read_all,
           NEW W \in [Nat -> Byte], NEW off \in [Nat -> Nat],
           Laid(W, off), UnderWay(W, off), InStep(W, off)
    PROVE  Laid(W, off)' /\ UnderWay(W, off)' /\ InStep(W, off)'
<1> DEFINE p == Position(off)
           b == Len(stream)
           c == Len(buffer)
           w == Len(out)
           q == Len(received)
           start == off[q]
           end == off[Len(sent)]
<1>1. PICK n \in 1 .. Len(stream) :
          /\ n <= need /\ need' = need - n
          /\ buffer' = buffer \o SubSeq(stream, 1, n)
          /\ stream' = SubSeq(stream, n + 1, Len(stream))
  BY DEF read_all
<1>2. sent' = sent /\ received' = received /\ reader' = reader /\ out' = out
  BY DEF read_all
<1>3. stream \in Seq(Byte) /\ buffer \in Seq(Byte)
  BY FramingShapes, Zenon
<1>4. /\ b \in Nat /\ c \in Nat /\ w \in Nat /\ q \in Nat /\ need \in Nat
      /\ start \in Nat /\ end \in Nat
  BY FramingShapes, Zenon
<1>5. p = end - b - w
  BY DEF Position
<1> DEFINE x == SubSeq(stream, 1, n)
<1>6. /\ x \in Seq(Byte) /\ Len(x) = n /\ \A i \in 1 .. n : x[i] = stream[i]
      /\ Len(stream') = b - n /\ \A i \in 1 .. b - n : stream'[i] = stream[n + i]
  BY <1>1, <1>3, Piece, Zenon
<1>7. n \in 1 .. b /\ n <= need /\ need' = need - n
  BY <1>1
<1> HIDE DEF x, p, b, c, w, q, start, end
<1>8. /\ Len(buffer') = c + n
      /\ \A i \in 1 .. c : buffer'[i] = buffer[i]
      /\ \A i \in 1 .. n : buffer'[c + i] = stream[i]
  <2>1. /\ Len(buffer \o x) = Len(buffer) + Len(x)
        /\ \A i \in 1 .. Len(buffer) : (buffer \o x)[i] = buffer[i]
        /\ \A i \in 1 .. Len(x) : (buffer \o x)[Len(buffer) + i] = x[i]
    <3>1. buffer \in Seq(Byte) /\ x \in Seq(Byte)
      BY <1>3, <1>6, Zenon
    <3>. QED  BY <3>1, Joined, SMT
  <2>. QED  BY <1>1, <1>6, <2>1, Zenon DEF c, x
<1>9. /\ \A i \in 1 .. b : stream[i] = W[p + i]
      /\ \A i \in 1 .. w : out[i] = W[p + b + i]
  BY Zenon DEF UnderWay, p, b, w
<1>10. Position(off)' = p + n /\ p \in Int
  <2>1. Position(off)' = end - (b - n) - w
    BY <1>2, <1>6, Zenon DEF Position, end, w
  <2>. QED  BY <1>4, <1>5, <1>7, <2>1
<1>11. Laid(W, off)'
  BY <1>2, Zenon DEF Laid
<1>12. UnderWay(W, off)'
  <2>1. ASSUME NEW i \in 1 .. b - n PROVE stream'[i] = W[(p + n) + i]
    <3>1. n + i \in 1 .. b /\ p + (n + i) = (p + n) + i
      BY <1>4, <1>7, <1>10, <2>1
    <3>. QED  BY <1>6, <1>9, <3>1, Zenon
  <2>2. \A i \in 1 .. w : out[i] = W[(p + n) + (b - n) + i]
    <3>1. \A i \in 1 .. w : (p + n) + (b - n) + i = p + b + i
      BY <1>4, <1>7, <1>10
    <3>. QED  BY <1>9, <3>1, Zenon
  <2>3. /\ Len(stream') = b - n /\ Len(out') = w /\ out' = out
        /\ Position(off)' = p + n
    BY <1>2, <1>6, <1>10, Zenon DEF w
  <2>. QED  BY <2>1, <2>2, <2>3, Zenon DEF UnderWay
<1>13. InStep(W, off)'
  <2>1. /\ q <= Len(sent) /\ \A i \in 1 .. q : received[i] = sent[i]
        /\ reader \in {"size", "message"}
    BY Zenon DEF InStep, q
  <2>2. ASSUME NEW s \in Nat, p = s + c,
               \A i \in 1 .. c : buffer[i] = W[s + i]
        PROVE  \A i \in 1 .. c + n : buffer'[i] = W[s + i]
    <3> SUFFICES ASSUME NEW i \in 1 .. c + n PROVE buffer'[i] = W[s + i]
      OBVIOUS
    <3>1. CASE i \in 1 .. c
      BY <1>8, <2>2, <3>1, Zenon
    <3>2. CASE i \notin 1 .. c
      <4>1. /\ i - c \in 1 .. n /\ i - c \in 1 .. b /\ c + (i - c) = i
            /\ p + (i - c) = s + i
        BY <1>4, <1>7, <1>10, <2>2, <3>2
      <4>2. buffer'[c + (i - c)] = stream[i - c] /\ stream[i - c] = W[p + (i - c)]
        BY <1>8, <1>9, <4>1, Zenon
      <4>. QED  BY <4>1, <4>2, Zenon
    <3>. QED  BY <3>1, <3>2
  <2>3. ASSUME reader = "size"
        PROVE  /\ p + n = start + (c + n)
               /\ \A i \in 1 .. c + n : buffer'[i] = W[start + i]
    <3>1. p = start + c /\ \A i \in 1 .. c : buffer[i] = W[start + i]
      BY <2>3, Zenon DEF InStep, p, c, q, start
    <3>2. \A i \in 1 .. c + n : buffer'[i] = W[start + i]
      BY <1>4, <2>2, <3>1, Zenon
    <3>3. p + n = start + (c + n)
      <4>1. p = start + c
        BY <3>1, Zenon
      <4>. QED  BY <1>4, <1>7, <1>10, <4>1
    <3>. QED  BY <3>2, <3>3
  <2>4. ASSUME reader = "message"
        PROVE  /\ q < Len(sent) /\ need' + (c + n) = Len(sent[q + 1])
               /\ p + n = start + 2 + (c + n)
               /\ \A i \in 1 .. c + n : buffer'[i] = W[start + 2 + i]
    <3>1. /\ q < Len(sent) /\ need + c = Len(sent[q + 1])
          /\ p = start + 2 + c /\ \A i \in 1 .. c : buffer[i] = W[start + 2 + i]
      BY <2>4, Zenon DEF InStep, p, c, q, start
    <3>2. \A i \in 1 .. c + n : buffer'[i] = W[start + 2 + i]
      <4>1. start + 2 \in Nat
        BY <1>4
      <4>. QED  BY <2>2, <3>1, <4>1, Zenon
    <3>3. p + n = start + 2 + (c + n)
      <4>1. p = start + 2 + c
        BY <3>1, Zenon
      <4>. QED  BY <1>4, <1>7, <1>10, <4>1
    <3>4. need' + (c + n) = need + c
      BY <1>4, <1>7
    <3>. QED  BY <3>1, <3>2, <3>3, <3>4, Zenon
  <2>5. /\ Len(received') = q /\ Len(buffer') = c + n /\ Position(off)' = p + n
        /\ off[q] = start
    BY <1>2, <1>8, <1>10, Zenon DEF q, start
  <2>. QED  BY <1>2, <2>1, <2>3, <2>4, <2>5, Zenon DEF InStep
<1>. QED  BY <1>11, <1>12, <1>13

(* The short says how long the next message is.                            *)
LEMMA SizeIsRight ==
    ASSUME \A m \in Packed : Len(m) < Half,
           TypeOK, SizeRead,
           NEW W \in [Nat -> Byte], NEW off \in [Nat -> Nat],
           Laid(W, off), UnderWay(W, off), InStep(W, off)
    PROVE  Laid(W, off)' /\ UnderWay(W, off)' /\ InStep(W, off)'
<1> DEFINE p == Position(off)
           b == Len(stream)
           w == Len(out)
           q == Len(received)
           n == Len(sent)
           start == off[q]
           end == off[n]
           m == sent[q + 1]
<1>1. /\ b \in Nat /\ w \in Nat /\ q \in Nat /\ n \in Nat
      /\ start \in Nat /\ end \in Nat /\ sent \in Seq(Packed)
  BY FramingShapes, Zenon
<1>2. /\ sent' = sent /\ received' = received /\ out' = out /\ stream' = stream
      /\ reader = "size" /\ Len(buffer) = 2 /\ buffer' = <<>>
  BY DEF SizeRead
<1>3. p = end - b - w
  BY DEF Position
<1>4. /\ p = start + 2 /\ q <= n
      /\ \A i \in 1 .. 2 : buffer[i] = W[start + i]
      /\ \A i \in 1 .. q : received[i] = sent[i]
  BY <1>2, Zenon DEF InStep
<1>5. q < n
  <2> HIDE DEF p, b, w, q, n, start, end, m
  <2>1. q = n => start = end
    BY Zenon DEF start, end
  <2>. QED  BY <1>1, <1>3, <1>4, <2>1
<1>6. q + 1 \in 1 .. n /\ (q + 1) - 1 = q
  <2> HIDE DEF q, n
  <2>1. q \in Nat /\ n \in Nat
    BY <1>1, Zenon
  <2>. QED  BY <1>5, <2>1
<1>7. m \in Packed /\ Len(m) \in Nat
  <2>1. m \in Packed
    BY <1>1, <1>6
  <2>. QED  BY <2>1, PackedAssumption
<1>8. W[start + 1] = Short(Len(m))[1] /\ W[start + 2] = Short(Len(m))[2]
  BY <1>6, Zenon DEF Laid
<1>9. buffer[1] = Short(Len(m))[1] /\ buffer[2] = Short(Len(m))[2]
  <2>1. 1 \in 1 .. 2 /\ 2 \in 1 .. 2
    OBVIOUS
  <2>. QED  BY <1>4, <1>8, <2>1, Zenon
<1>10. HostSize(buffer) = Len(m)
  BY <1>7, <1>9, ShortComesBack, Zenon
<1>11. reader' = "message" /\ need' = Len(m)
  <2>1. Len(m) >= 0
    BY <1>7
  <2>. QED  BY <1>10, <2>1, Zenon DEF SizeRead
<1>12. Position(off)' = p
  BY <1>2, Zenon DEF Position
<1>13. Laid(W, off)' /\ UnderWay(W, off)'
  BY <1>2, <1>12, Zenon DEF Laid, UnderWay
<1>14. InStep(W, off)'
  <2>1. Len(buffer') = 0 /\ need' + 0 = Len(m)
    BY <1>2, <1>7, <1>11
  <2>2. \A i \in 1 .. 0 : FALSE
    OBVIOUS
  <2>3. start + 2 + 0 = p
    BY <1>1, <1>4
  <2>4. "message" # "size" /\ reader' \in {"size", "message"}
    BY <1>11
  <2>. QED  BY <1>2, <1>4, <1>5, <1>11, <1>12, <2>1, <2>2, <2>3, <2>4, Zenon
            DEF InStep
<1>. QED  BY <1>13, <1>14

(* The message is the next one that was sent.                              *)
LEMMA MessageIsNext ==
    ASSUME TypeOK, MessageRead,
           NEW W \in [Nat -> Byte], NEW off \in [Nat -> Nat],
           Laid(W, off), UnderWay(W, off), InStep(W, off)
    PROVE  Laid(W, off)' /\ UnderWay(W, off)' /\ InStep(W, off)'
<1> DEFINE p == Position(off)
           q == Len(received)
           n == Len(sent)
           start == off[q]
           m == sent[q + 1]
<1>1. /\ q \in Nat /\ n \in Nat /\ start \in Nat /\ off[q + 1] \in Nat
      /\ sent \in Seq(Packed) /\ received \in Seq(Packed) /\ buffer \in Seq(Byte)
  <2>1. /\ q \in Nat /\ n \in Nat /\ sent \in Seq(Packed)
        /\ received \in Seq(Packed) /\ buffer \in Seq(Byte)
    BY FramingShapes, Zenon
  <2>2. q + 1 \in Nat
    BY <2>1
  <2>. QED  BY <2>1, <2>2, Zenon
<1>2. /\ sent' = sent /\ out' = out /\ stream' = stream
      /\ reader = "message" /\ need = 0 /\ buffer' = <<>>
  BY DEF MessageRead
<1>3. /\ q < n /\ 0 + Len(buffer) = Len(m) /\ p = start + 2 + Len(buffer)
      /\ \A i \in 1 .. Len(buffer) : buffer[i] = W[start + 2 + i]
      /\ \A i \in 1 .. q : received[i] = sent[i]
  BY <1>2, Zenon DEF InStep
<1>4. q + 1 \in 1 .. n /\ (q + 1) - 1 = q
  <2> HIDE DEF q, n
  <2>1. q \in Nat /\ n \in Nat /\ q < n
    BY <1>1, <1>3, Zenon
  <2>. QED  BY <2>1
<1>5. m \in Packed /\ m \in Seq(Byte)
  <2>1. m \in Packed
    BY <1>1, <1>4
  <2>. QED  BY <2>1, PackedAssumption
<1>6. Len(buffer) \in Nat /\ Len(m) = Len(buffer)
  <2>1. Len(buffer) \in Nat
    BY <1>1
  <2>2. 0 + Len(buffer) = Len(m)
    BY <1>3, Zenon
  <2>. QED  BY <2>1, <2>2
<1>7. /\ off[q + 1] = start + 2 + Len(m)
      /\ \A j \in 1 .. Len(m) : W[start + 2 + j] = m[j]
  BY <1>4, Zenon DEF Laid
<1>8. buffer = m
  <2>1. \A j \in 1 .. Len(m) : buffer[j] = m[j]
    BY <1>3, <1>6, <1>7, Zenon
  <2>. QED  BY <1>1, <1>5, <1>6, <2>1, SeqEqual
<1>9. /\ received' = Append(received, m) /\ reader' = "size" /\ need' = 2
  BY <1>5, <1>8, Zenon DEF MessageRead
<1>10. /\ Len(received') = q + 1 /\ received'[q + 1] = m
       /\ \A i \in 1 .. q : received'[i] = received[i]
  BY <1>1, <1>9
<1>11. Position(off)' = p /\ p = off[q + 1] + 0
  <2>1. Position(off)' = p
    BY <1>2, Zenon DEF Position
  <2>2. p = off[q + 1]
    BY <1>3, <1>6, <1>7, Zenon
  <2>3. off[q + 1] = off[q + 1] + 0
    BY <1>1
  <2>. QED  BY <2>1, <2>2, <2>3, Zenon
<1>12. Laid(W, off)' /\ UnderWay(W, off)'
  BY <1>2, <1>11, Zenon DEF Laid, UnderWay
<1>13. InStep(W, off)'
  <2>1. \A i \in 1 .. q + 1 : received'[i] = sent[i]
    <3>1. \A i \in 1 .. q + 1 : i = q + 1 \/ i \in 1 .. q
      <4> HIDE DEF q
      <4>1. q \in Nat
        BY <1>1, Zenon
      <4>. QED  BY <4>1
    <3>. QED  BY <1>3, <1>10, <3>1, Zenon
  <2>2. Len(buffer') = 0 /\ q + 1 <= n
    BY <1>1, <1>2, <1>3
  <2>3. \A i \in 1 .. 0 : FALSE
    OBVIOUS
  <2>4. "message" # "size" /\ reader' \in {"size", "message"}
    BY <1>9
  <2>. QED  BY <1>2, <1>9, <1>10, <1>11, <2>1, <2>2, <2>3, <2>4, Zenon DEF InStep
<1>. QED  BY <1>12, <1>13

LEMMA InStepKept ==
    ASSUME LengthFirst, \A m \in Packed : Len(m) < Half,
           FramingInv, [Next]_vars
    PROVE  FramingInv'
<1>1. TypeOK /\ TypeOK'
  BY TypesKept DEF FramingInv
<1>2. PICK W \in [Nat -> Byte], off \in [Nat -> Nat] :
          Laid(W, off) /\ UnderWay(W, off) /\ InStep(W, off)
  BY DEF FramingInv
<1>3. SUFFICES \E V \in [Nat -> Byte], o \in [Nat -> Nat] :
          Laid(V, o)' /\ UnderWay(V, o)' /\ InStep(V, o)'
  BY <1>1, Zenon DEF FramingInv
<1>4. ASSUME NEW m \in Packed, Send(m)
      PROVE  \E V \in [Nat -> Byte], o \in [Nat -> Nat] :
                Laid(V, o)' /\ UnderWay(V, o)' /\ InStep(V, o)'
  BY <1>1, <1>2, <1>4, SendLays, Zenon
<1>5. CASE write_all
  BY <1>1, <1>2, <1>5, WriteMoves, Zenon
<1>6. CASE read_all
  BY <1>1, <1>2, <1>6, ReadMoves, Zenon
<1>7. CASE SizeRead
  BY <1>1, <1>2, <1>7, SizeIsRight, Zenon
<1>8. CASE MessageRead
  BY <1>1, <1>2, <1>8, MessageIsNext, Zenon
<1>9. CASE UNCHANGED vars
  <2>1. /\ sent' = sent /\ out' = out /\ stream' = stream /\ reader' = reader
        /\ need' = need /\ buffer' = buffer /\ received' = received
    BY <1>9 DEF vars
  <2>2. Laid(W, off)' /\ UnderWay(W, off)' /\ InStep(W, off)'
    BY <1>2, <2>1, Zenon DEF Laid, UnderWay, InStep, Position
  <2>. QED  BY <2>2
<1>. QED  BY <1>4, <1>5, <1>6, <1>7, <1>8, <1>9, Zenon DEF Next, network_receive

LEMMA InStepIsPrefix == FramingInv => ReceivedAsSent
<1> SUFFICES ASSUME FramingInv PROVE ReceivedAsSent
  OBVIOUS
<1>1. /\ sent \in Seq(Packed) /\ received \in Seq(Packed)
      /\ Len(sent) \in Nat /\ Len(received) \in Nat
  BY FramingShapes, Zenon DEF FramingInv
<1>2. /\ Len(received) <= Len(sent)
      /\ \A i \in 1 .. Len(received) : received[i] = sent[i]
  BY Zenon DEF FramingInv, InStep
<1> DEFINE x == SubSeq(sent, 1, Len(received))
           y == SubSeq(received, 1, Len(received))
<1>3. CASE Len(received) = 0
  <2>1. x = y
    BY <1>1, <1>3
  <2>. QED  BY <1>2, <2>1, Zenon DEF ReceivedAsSent, IsPrefix
<1>4. CASE Len(received) # 0
  <2>1. Len(received) \in 1 .. Len(sent) /\ Len(received) \in 1 .. Len(received)
    BY <1>1, <1>2, <1>4
  <2>2. /\ x \in Seq(Packed) /\ Len(x) = Len(received)
        /\ \A i \in 1 .. Len(received) : x[i] = sent[i]
    BY <1>1, <2>1, Piece, Zenon
  <2>3. /\ y \in Seq(Packed) /\ Len(y) = Len(received)
        /\ \A i \in 1 .. Len(received) : y[i] = received[i]
    BY <1>1, <2>1, Piece, Zenon
  <2> HIDE DEF x, y
  <2>4. x = y
    <3>1. \A i \in 1 .. Len(x) : x[i] = y[i]
      BY <1>2, <2>2, <2>3, Zenon
    <3>2. Len(x) = Len(y)
      BY <2>2, <2>3, Zenon
    <3>. QED  BY <2>2, <2>3, <3>1, <3>2, SeqEqual
  <2>. QED  BY <1>2, <2>4, Zenon DEF ReceivedAsSent, IsPrefix, x, y
<1>. QED  BY <1>3, <1>4

(* Where the length is sent first and every message is short enough for it *)
(* (below 32768 bytes with bytes of 256 values), the reader is in step     *)
(* with the writer in every reachable state.                               *)
THEOREM FramingInvariance ==
    ASSUME LengthFirst, \A m \in Packed : Len(m) < Half
    PROVE  Spec => []FramingInv
<1>1. Init => FramingInv
  BY InStepAtFirst
<1>2. FramingInv /\ [Next]_vars => FramingInv'
  BY InStepKept
<1>. QED  BY <1>1, <1>2, PTL DEF Spec

(* So what network_receive() returns is what network_send() was given,     *)
(* message by message, wherever write() and read() cut the bytes; however  *)
(* many messages are sent and whatever they are.  Without the length, or   *)
(* with one that the short cannot tell, it is not so.                      *)
THEOREM MessagesArriveWhole ==
    ASSUME LengthFirst, \A m \in Packed : Len(m) < Half
    PROVE  Spec => []ReceivedAsSent
  BY FramingInvariance, InStepIsPrefix, PTL
=============================================================================
