-------------------------- MODULE AcceptLoopProofs --------------------------
(***************************************************************************)
(* Theorems about AcceptLoop, for any finite number of clients and threads *)
(* and any set of descriptors.                                             *)
(*                                                                         *)
(* That the counter of clients stays within their number does not follow   *)
(* from the code of increase_client(): it holds because every count is for *)
(* a connection that accept() has returned, and no connection is returned  *)
(* twice.  The invariant says so (CountsAreConnections).                   *)
(***************************************************************************)
EXTENDS AcceptLoop, NatMinimum, FiniteSetTheorems

Born == {t \in Thread : handler[t] # "unborn"}
Counted == {t \in Thread : handler[t] \in {"created", "serving", "decrease"}}

(* The connections accept() has returned.                                  *)
Accepted == {c \in Conn : client[c] # "away"} \ queue

Types ==
    /\ client \in [Conn -> {"away", "connected", "gone", "closed"}]
    /\ queue \subseteq Conn /\ answered \subseteq Conn
    /\ fdtab \in [Fd -> Conn \cup {None}]
    /\ main \in {"accept", "increase", "create"}
    /\ connsockfd \in Fd \cup {-1}
    /\ main # "accept" => connsockfd \in Fd
    /\ handler \in [Thread -> {"unborn", "created", "serving", "decrease", "close", "exited"}]
    /\ sockfd \in [Thread -> Fd \cup {-1}]
    /\ clientes \in Nat /\ uncreated \in Nat

QueueArrived == \A c \in queue : client[c] # "away"

(* The connection being handed on, before and after it is counted.         *)
Handed == IF main = "accept" THEN 0 ELSE 1
HandedCounted == IF main = "create" THEN 1 ELSE 0

CountsAreConnections ==
    uncreated + Handed + Cardinality(Born) <= Cardinality(Accepted)

CountExact == clientes = uncreated + HandedCounted + Cardinality(Counted)

LoopInv == Types /\ QueueArrived /\ CountsAreConnections /\ CountExact

-----------------------------------------------------------------------------
(* The sets that are counted are finite.                                   *)
LEMMA CountedFinite ==
    /\ IsFiniteSet(Born) /\ Cardinality(Born) \in Nat
    /\ IsFiniteSet(Counted) /\ Cardinality(Counted) \in Nat
    /\ Cardinality(Counted) <= Cardinality(Born)
    /\ IsFiniteSet(Accepted) /\ Cardinality(Accepted) \in Nat
    /\ Cardinality(Accepted) <= Cardinality(Conn) /\ Cardinality(Conn) \in Nat
<1>1. /\ Born \in SUBSET Thread
      /\ Counted \in SUBSET Born
      /\ Accepted \in SUBSET Conn
  BY DEF Born, Counted, Accepted
<1>. QED  BY <1>1, FiniteAssumption, FS_Subset, FS_CardinalityType

(* The lowest free descriptor is one of the free ones.                     *)
LEMMA LowestFree ==
    ASSUME Free # {}
    PROVE  Min(Free) \in Free
<1>1. Free \in SUBSET Nat
  BY FdAssumption DEF Free
<1>2. \E f \in Free : \A g \in Free : f <= g
  BY <1>1, LeastNat, Zenon
<1>. QED  BY <1>2, Zenon DEF Min

(* What the invariant says of the sets that do not change.                 *)
LEMMA SameClients ==
    ASSUME client' = client, queue' = queue
    PROVE  Accepted' = Accepted
  BY DEF Accepted

LEMMA SameHandlers ==
    ASSUME handler' = handler
    PROVE  Born' = Born /\ Counted' = Counted
  BY DEF Born, Counted

(* A connection that is no longer "connected" has still been accepted.     *)
LEMMA ClosedKeeps ==
    ASSUME Types, QueueArrived, NEW fd, Closed(fd)
    PROVE  /\ Accepted' = Accepted
           /\ QueueArrived'
           /\ fdtab' \in [Fd -> Conn \cup {None}]
           /\ client' \in [Conn -> {"away", "connected", "gone", "closed"}]
           /\ queue' = queue /\ answered' = answered
<1> USE DEF Closed, Types
<1>1. \A c \in Conn : client'[c] # "away" <=> client[c] # "away"
  OBVIOUS
<1>2. Accepted' = Accepted
  BY <1>1 DEF Accepted
<1>3. QueueArrived'
  BY <1>1 DEF QueueArrived
<1>4. client' \in [Conn -> {"away", "connected", "gone", "closed"}]
  OBVIOUS
<1>5. fdtab' \in [Fd -> Conn \cup {None}]
  OBVIOUS
<1>. QED  BY <1>2, <1>3, <1>4, <1>5

-----------------------------------------------------------------------------
(* One lemma per action.                                                   *)

LEMMA InitInv == Init => LoopInv
<1> SUFFICES ASSUME Init PROVE LoopInv
  OBVIOUS
<1> USE DEF Init
<1>1. Born = {} /\ Counted = {} /\ Accepted = {}
  BY DEF Born, Counted, Accepted
<1>2. Cardinality({}) = 0
  BY FS_EmptySet
<1>3. Types /\ QueueArrived
  BY DEF Types, QueueArrived
<1>4. CountsAreConnections /\ CountExact
  BY <1>1, <1>2 DEF CountsAreConnections, CountExact, Handed, HandedCounted
<1>. QED  BY <1>3, <1>4 DEF LoopInv

LEMMA ConnectInv ==
    ASSUME LoopInv, NEW c \in Conn, Connect(c)
    PROVE  LoopInv'
<1> USE DEF Connect, LoopInv, Types, mainvars, threads
<1>1. Types'
  OBVIOUS
<1>2. QueueArrived'
  BY DEF QueueArrived
<1>3. Accepted' = Accepted
  BY DEF Accepted, QueueArrived
<1>4. Born' = Born /\ Counted' = Counted
  BY SameHandlers
<1>. QED  BY <1>1, <1>2, <1>3, <1>4
          DEF CountsAreConnections, CountExact, Handed, HandedCounted

LEMMA HangUpInv ==
    ASSUME LoopInv, NEW c \in Conn, HangUp(c)
    PROVE  LoopInv'
<1> USE DEF HangUp, LoopInv, Types, mainvars, threads
<1>1. Types'
  OBVIOUS
<1>2. QueueArrived'
  BY DEF QueueArrived
<1>3. Accepted' = Accepted
  BY DEF Accepted
<1>4. Born' = Born /\ Counted' = Counted
  BY SameHandlers
<1>. QED  BY <1>1, <1>2, <1>3, <1>4
          DEF CountsAreConnections, CountExact, Handed, HandedCounted

LEMMA AcceptInv ==
    ASSUME LoopInv, Accept
    PROVE  LoopInv'
<1> USE DEF Accept, MayAccept, LoopInv, threads
<1>1. PICK c \in queue : /\ queue' = queue \ {c}
                         /\ fdtab' = [fdtab EXCEPT ![Min(Free)] = c]
  OBVIOUS
<1>2. Min(Free) \in Fd
  BY LowestFree DEF Free
<1>3. Types'
  BY <1>1, <1>2 DEF Types
<1>4. QueueArrived'
  BY <1>1 DEF QueueArrived
<1>5. Accepted' = Accepted \cup {c} /\ c \notin Accepted
  BY <1>1 DEF Accepted, QueueArrived, Types
<1>6. Cardinality(Accepted') = Cardinality(Accepted) + 1
  BY <1>5, CountedFinite, FS_AddElement
<1>7. Born' = Born /\ Counted' = Counted
  BY SameHandlers
<1>8. CountsAreConnections'
  BY <1>6, <1>7, CountedFinite DEF CountsAreConnections, Handed, Types
<1>9. CountExact'
  BY <1>7 DEF CountExact, HandedCounted
<1>. QED  BY <1>3, <1>4, <1>8, <1>9

LEMMA AcceptFailsInv ==
    ASSUME LoopInv, AcceptFails
    PROVE  LoopInv'
<1> USE DEF AcceptFails, MayAccept, LoopInv, threads, clients
<1>1. Types'
  BY DEF Types
<1>2. QueueArrived'
  BY DEF QueueArrived
<1>3. Accepted' = Accepted /\ Born' = Born /\ Counted' = Counted
  BY SameClients, SameHandlers
<1>. QED  BY <1>1, <1>2, <1>3
          DEF CountsAreConnections, CountExact, Handed, HandedCounted

LEMMA increase_clientInv ==
    ASSUME LoopInv, increase_client
    PROVE  LoopInv'
<1> USE DEF increase_client, LoopInv, threads, clients
<1>1. Types'
  BY DEF Types
<1>2. QueueArrived'
  BY DEF QueueArrived
<1>3. Accepted' = Accepted /\ Born' = Born /\ Counted' = Counted
  BY SameClients, SameHandlers
<1>4. CountsAreConnections'
  BY <1>3 DEF CountsAreConnections, Handed
<1>5. CountExact'
  BY <1>3, CountedFinite DEF CountExact, HandedCounted, Types
<1>. QED  BY <1>1, <1>2, <1>4, <1>5

LEMMA CreateThreadInv ==
    ASSUME LoopInv, CreateThread
    PROVE  LoopInv'
<1> USE DEF CreateThread, LoopInv, clients
<1>1. PICK t \in Thread : /\ handler[t] = "unborn"
                          /\ handler' = [handler EXCEPT ![t] = "created"]
  OBVIOUS
<1>2. Types'
  BY <1>1 DEF Types
<1>3. QueueArrived' /\ Accepted' = Accepted
  BY SameClients DEF QueueArrived
<1>4. Born' = Born \cup {t} /\ t \notin Born
  BY <1>1 DEF Born, Types
<1>5. Counted' = Counted \cup {t} /\ t \notin Counted
  BY <1>1 DEF Counted, Types
<1>6. /\ Cardinality(Born') = Cardinality(Born) + 1
      /\ Cardinality(Counted') = Cardinality(Counted) + 1
  BY <1>4, <1>5, CountedFinite, FS_AddElement
<1>7. CountsAreConnections'
  BY <1>3, <1>6, CountedFinite DEF CountsAreConnections, Handed, Types
<1>8. CountExact'
  BY <1>6, CountedFinite DEF CountExact, HandedCounted, Types
<1>. QED  BY <1>2, <1>3, <1>7, <1>8

LEMMA CreateFailsInv ==
    ASSUME LoopInv, CreateFails
    PROVE  LoopInv'
<1> USE DEF CreateFails, LoopInv, threads
<1>1. Accepted' = Accepted /\ QueueArrived'
  BY ClosedKeeps
<1>2. Types'
  BY ClosedKeeps DEF Types
<1>3. Born' = Born /\ Counted' = Counted
  BY SameHandlers
<1>4. CountsAreConnections'
  BY <1>1, <1>3, CountedFinite DEF CountsAreConnections, Handed, Types
<1>5. CountExact'
  BY <1>3, CountedFinite DEF CountExact, HandedCounted, Types
<1>. QED  BY <1>1, <1>2, <1>4, <1>5

LEMMA StartInv ==
    ASSUME LoopInv, NEW t \in Thread, Start(t)
    PROVE  LoopInv'
<1> USE DEF Start, LoopInv, Types, mainvars, clients
<1>1. Types'
  OBVIOUS
<1>2. QueueArrived' /\ Accepted' = Accepted
  BY SameClients DEF QueueArrived
<1>3. Born' = Born /\ Counted' = Counted
  BY DEF Born, Counted
<1>. QED  BY <1>1, <1>2, <1>3
          DEF CountsAreConnections, CountExact, Handed, HandedCounted

LEMMA AnswerInv ==
    ASSUME LoopInv, NEW t \in Thread, Answer(t)
    PROVE  LoopInv'
<1> USE DEF Answer, LoopInv, Types, mainvars, threads
<1>1. Types'
  OBVIOUS
<1>2. QueueArrived' /\ Accepted' = Accepted
  BY SameClients DEF QueueArrived
<1>3. Born' = Born /\ Counted' = Counted
  BY SameHandlers
<1>. QED  BY <1>1, <1>2, <1>3
          DEF CountsAreConnections, CountExact, Handed, HandedCounted

(* A thread that is serving is counted, so that the counter is not zero    *)
(* when decrease_client() looks at it.                                     *)
LEMMA ReceiveFailsInv ==
    ASSUME LoopInv, NEW t \in Thread, ReceiveFails(t)
    PROVE  LoopInv'
<1> USE DEF ReceiveFails, LoopInv, mainvars, clients
<1>1. t \in Counted
  BY DEF Counted
<1>2. Cardinality(Counted) # 0
  BY <1>1, CountedFinite, FS_EmptySet
<1>3. clientes # 0
  BY <1>2, CountedFinite DEF CountExact, HandedCounted, Types
<1>4. handler' = [handler EXCEPT ![t] = "decrease"]
  BY <1>3
<1>5. Types'
  BY <1>4 DEF Types
<1>6. QueueArrived' /\ Accepted' = Accepted
  BY SameClients DEF QueueArrived
<1>7. Born' = Born /\ Counted' = Counted
  BY <1>4 DEF Born, Counted, Types
<1>. QED  BY <1>5, <1>6, <1>7
          DEF CountsAreConnections, CountExact, Handed, HandedCounted

LEMMA decrease_clientInv ==
    ASSUME LoopInv, NEW t \in Thread, decrease_client(t)
    PROVE  LoopInv'
<1> USE DEF decrease_client, LoopInv, mainvars, clients
<1>1. Counted' = Counted \ {t} /\ t \in Counted /\ Born' = Born
  BY DEF Counted, Born, Types
<1>2. Cardinality(Counted') = Cardinality(Counted) - 1
  BY <1>1, CountedFinite, FS_RemoveElement
<1>3. Cardinality(Counted) # 0
  BY <1>1, CountedFinite, FS_EmptySet
<1>4. clientes - 1 \in Nat
  BY <1>3, CountedFinite DEF CountExact, HandedCounted, Types
<1>5. Types'
  BY <1>4 DEF Types
<1>6. QueueArrived' /\ Accepted' = Accepted
  BY SameClients DEF QueueArrived
<1>7. CountsAreConnections'
  BY <1>1, <1>6 DEF CountsAreConnections, Handed
<1>8. CountExact'
  BY <1>2, CountedFinite DEF CountExact, HandedCounted, Types
<1>. QED  BY <1>5, <1>6, <1>7, <1>8

LEMMA CloseInv ==
    ASSUME LoopInv, NEW t \in Thread, Close(t)
    PROVE  LoopInv'
<1> USE DEF Close, LoopInv, mainvars
<1>1. Accepted' = Accepted /\ QueueArrived'
  BY ClosedKeeps
<1>2. Types'
  BY ClosedKeeps DEF Types
<1>3. Born' = Born /\ Counted' = Counted
  BY DEF Born, Counted, Types
<1>. QED  BY <1>1, <1>2, <1>3
          DEF CountsAreConnections, CountExact, Handed, HandedCounted

-----------------------------------------------------------------------------
(* The invariant, for every behaviour.                                     *)
THEOREM LoopInvariance == Spec => []LoopInv
<1>1. LoopInv /\ [Next]_vars => LoopInv'
  <2> SUFFICES ASSUME LoopInv, [Next]_vars PROVE LoopInv'
    OBVIOUS
  <2>1. CASE MainStep
    BY <2>1, AcceptInv, AcceptFailsInv, increase_clientInv, CreateThreadInv, CreateFailsInv
       DEF MainStep
  <2>2. ASSUME NEW t \in Thread, HandlerStep(t) PROVE LoopInv'
    BY <2>2, StartInv, AnswerInv, ReceiveFailsInv, decrease_clientInv, CloseInv
       DEF HandlerStep
  <2>3. ASSUME NEW c \in Conn, Connect(c) \/ HangUp(c) PROVE LoopInv'
    BY <2>3, ConnectInv, HangUpInv
  <2>4. CASE UNCHANGED vars
    <3>1. Accepted' = Accepted /\ Born' = Born /\ Counted' = Counted
      BY <2>4, SameClients, SameHandlers DEF vars, clients, threads
    <3>. QED  BY <2>4, <3>1 DEF vars, clients, mainvars, threads, LoopInv, Types,
                 QueueArrived, CountsAreConnections, CountExact, Handed, HandedCounted
  <2>. QED  BY <2>1, <2>2, <2>3, <2>4 DEF Next
<1>. QED  BY <1>1, InitInv, PTL DEF Spec

(* network_main_loop() and client_handler(): the main thread hands on only *)
(* descriptors accept() returned, and neither the counter of clients nor   *)
(* the number of threads never made exceeds the number of connections.     *)
THEOREM LoopTypeCorrectness == Spec => []TypeOK
<1>1. LoopInv => TypeOK
  <2> SUFFICES ASSUME LoopInv PROVE TypeOK
    OBVIOUS
  <2>1. clientes \in 0 .. Cardinality(Conn) /\ uncreated \in 0 .. Cardinality(Conn)
    BY CountedFinite
       DEF LoopInv, Types, CountsAreConnections, CountExact, Handed, HandedCounted
  <2>. QED  BY <2>1 DEF LoopInv, Types, TypeOK
<1>. QED  BY <1>1, LoopInvariance, PTL

(* increase_client() and decrease_client(): the counter is the number of   *)
(* threads in service, plus the connection being handed on, plus one for   *)
(* every thread that could not be made, for all interleavings of the main  *)
(* thread and the connection threads.  (It is not the number of connected  *)
(* clients it is printed as.)                                              *)
THEOREM ClientsAreCounted == Spec => []ClientsCounted
<1>1. LoopInv => ClientsCounted
  BY DEF LoopInv, CountExact, HandedCounted, Counted, ClientsCounted
<1>. QED  BY <1>1, LoopInvariance, PTL
=============================================================================
