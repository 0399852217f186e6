------------------------------ MODULE Framing -------------------------------
(***************************************************************************)
(* What goes over one connection, byte by byte: network_send() and         *)
(* network_send_receive() put the length of the packed message, a short,   *)
(* before it; zk_send_msg() does not; network_receive() reads a short and  *)
(* as many bytes as it says.  write_all() and read_all() loop until all    *)
(* bytes are through, in whatever pieces the kernel takes them (message.c).*)
(***************************************************************************)
EXTENDS Integers, Sequences, SequencesExt

CONSTANTS Base,               \* values of a byte: 256, or less in a small model
          Packed,             \* packed messages, sequences of bytes
          MaxSent,            \* bound: messages sent
          LengthFirst         \* network_send(), or zk_send_msg()?

Byte == 0 .. Base - 1
ASSUME BaseAssumption == Base \in Nat /\ Base % 2 = 0 /\ Base > 0
ASSUME PackedAssumption == Packed \subseteq Seq(Byte)
ASSUME SendAssumption == MaxSent \in Nat /\ LengthFirst \in BOOLEAN

VARIABLES sent,               \* messages given to the sender, in order
          out,                \* bytes of the last one not written yet
          stream,             \* bytes written and not read yet
          reader,             \* what network_receive() is reading
          need, buffer,       \* bytes it still wants; those it has
          received            \* messages it has returned

vars == <<sent, out, stream, reader, need, buffer, received>>

(* htons() of the length cut to a short, and ntohs() back: a signed short. *)
Short(n) == <<(n \div Base) % Base, n % Base>>
HostSize(b) == LET n == b[1] * Base + b[2]
               IN  IF n < (Base * Base) \div 2 THEN n ELSE n - Base * Base

(* What would go out with the bytes of the short in the host's own order.  *)
FramedInHostOrder(m) ==
    IF LengthFirst THEN Reverse(Short(Len(m))) \o m ELSE m

Framed(m) == IF LengthFirst THEN Short(Len(m)) \o m ELSE m

Init ==
    /\ sent = <<>> /\ out = <<>> /\ stream = <<>>
    /\ reader = "size" /\ need = 2 /\ buffer = <<>>
    /\ received = <<>>

-----------------------------------------------------------------------------
(* network_send(), zk_send_msg(): one message after the other.             *)
Send(m) ==
    /\ out = <<>> /\ Len(sent) < MaxSent
    /\ sent' = Append(sent, m)
    /\ out' = Framed(m)
    /\ UNCHANGED <<stream, reader, need, buffer, received>>

(* What it would do without the loop.                                      *)
write_once ==
    /\ out # <<>>
    /\ \E n \in 1 .. Len(out) : stream' = stream \o SubSeq(out, 1, n)
    /\ out' = <<>>
    /\ UNCHANGED <<sent, reader, need, buffer, received>>

(* write() takes some of the bytes; write_all() comes back with the rest.  *)
write_all ==
    /\ out # <<>>
    /\ \E n \in 1 .. Len(out) :
          /\ stream' = stream \o SubSeq(out, 1, n)
          /\ out' = SubSeq(out, n + 1, Len(out))
    /\ UNCHANGED <<sent, reader, need, buffer, received>>

-----------------------------------------------------------------------------
(* network_receive().                                                      *)

(* What it would do without the loop.                                      *)
read_once ==
    /\ reader \in {"size", "message"} /\ need > 0 /\ stream # <<>>
    /\ \E n \in 1 .. Len(stream) :
          /\ n <= need
          /\ buffer' = buffer \o SubSeq(stream, 1, n)
          /\ stream' = SubSeq(stream, n + 1, Len(stream))
          /\ need' = 0
    /\ UNCHANGED <<sent, out, reader, received>>

(* read() returns some of the bytes; read_all() comes back for the rest.   *)
read_all ==
    /\ reader \in {"size", "message"} /\ need > 0 /\ stream # <<>>
    /\ \E n \in 1 .. Len(stream) :
          /\ n <= need
          /\ buffer' = buffer \o SubSeq(stream, 1, n)
          /\ stream' = SubSeq(stream, n + 1, Len(stream))
          /\ need' = need - n
    /\ UNCHANGED <<sent, out, reader, received>>

(* The short is in.  read_all() of -1 bytes returns -1, an error; of any   *)
(* other negative number it returns at once, and the unpacking of that     *)
(* many bytes reads whatever lies behind the buffer.                       *)
SizeRead ==
    /\ reader = "size" /\ Len(buffer) = 2
    /\ LET size == HostSize(buffer)
       IN  /\ reader' = IF size >= 0 THEN "message"
                        ELSE IF size = -1 THEN "closed" ELSE "undefined"
           /\ need' = IF size >= 0 THEN size ELSE 0
    /\ buffer' = <<>>
    /\ UNCHANGED <<sent, out, stream, received>>

(* Bytes that do not unpack (of the rest only Packed matters) make         *)
(* network_receive() return NULL: the thread ends and closes the           *)
(* connection.  A peer that closes or fails in mid-message is left out.    *)
MessageRead ==
    /\ reader = "message" /\ need = 0
    /\ IF buffer \in Packed
       THEN /\ received' = Append(received, buffer)
            /\ reader' = "size" /\ need' = 2
       ELSE /\ reader' = "closed"
            /\ UNCHANGED <<received, need>>
    /\ buffer' = <<>>
    /\ UNCHANGED <<sent, out, stream>>

network_receive == read_all \/ SizeRead \/ MessageRead

Next == \/ \E m \in Packed : Send(m)
        \/ write_all
        \/ network_receive

(* The kernel takes and hands on bytes; nobody has to send.                *)
Fairness == WF_vars(write_all) /\ WF_vars(network_receive)

Spec == Init /\ [][Next]_vars /\ Fairness

-----------------------------------------------------------------------------
(* Types, and that network_receive() never holds more than it asked for.   *)
TypeOK ==
    /\ sent \in Seq(Packed) /\ received \in Seq(Packed)
    /\ out \in Seq(Byte) /\ stream \in Seq(Byte) /\ buffer \in Seq(Byte)
    /\ reader \in {"size", "message", "closed", "undefined"}
    /\ need \in 0 .. (Base * Base) \div 2
    /\ reader = "size" => need + Len(buffer) = 2

(* The messages network_receive() returns are those that were sent, whole, *)
(* in order, each once, wherever the kernel cut the stream.                *)
ReceivedAsSent == IsPrefix(received, sent)

(* Every message that is sent is received ("de forma a serem propagados    *)
(* por toda a cadeia", client_stub.c:387, of the messages zk_send_msg()    *)
(* passes on).                                                             *)
EveryMessageReceived ==
    \A n \in 1 .. MaxSent : Len(sent) >= n ~> Len(received) >= n
=============================================================================
