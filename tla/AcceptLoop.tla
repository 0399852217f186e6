----------------------------- MODULE AcceptLoop -----------------------------
(***************************************************************************)
(* How one server gets a thread for each connection: network_main_loop()   *)
(* and client_handler() of network_server.c, increase_client() and         *)
(* decrease_client() of table_skel.c, over the descriptor table of the     *)
(* process.  What a thread does with a request is in TableSkel.            *)
(*                                                                         *)
(* The new thread is given the ADDRESS of the local variable connsockfd of *)
(* the main thread and reads it when it starts; the main thread may have   *)
(* been through accept() again by then (the variable keeps its place on    *)
(* the stack from one turn of the loop to the next).                       *)
(***************************************************************************)
EXTENDS Integers, FiniteSetsExt

CONSTANTS Conn,               \* client connections, each used once
          Unread,             \* those a request of which may not be received
          Fd,                 \* descriptor numbers accept() can return
          Thread,             \* client_handler threads; none starts twice
          ThreadsMayFail,     \* may pthread_create() fail?
          None                \* no connection

ASSUME FdAssumption == Fd \subseteq Nat /\ None \notin Conn
ASSUME UnreadAssumption == Unread \subseteq Conn
ASSUME FlagAssumption == ThreadsMayFail \in BOOLEAN
ASSUME FiniteAssumption == IsFiniteSet(Conn) /\ IsFiniteSet(Thread)

VARIABLES client,             \* per connection, what its client sees of it
          queue,              \* connections accept() has not returned yet
          fdtab,              \* per descriptor, the connection it stands for
          main,               \* where the main thread is
          connsockfd,         \* its local variable; -1 after a failed accept()
          handler,            \* per thread, where it is
          sockfd,             \* per thread, its own copy of the descriptor
          clientes,           \* stats->clientes
          answered,           \* ghost: connections that got an answer
          uncreated           \* ghost: how often pthread_create() failed

clients == <<client, queue, answered>>
mainvars == <<main, connsockfd, uncreated>>
threads == <<handler, sockfd>>
vars == <<clients, fdtab, mainvars, threads, clientes>>

Free == {f \in Fd : fdtab[f] = None}

(* The connection a thread's descriptor stands for now, if any.            *)
Peer(t) == IF sockfd[t] \in Fd THEN fdtab[sockfd[t]] ELSE None

(* close(): the client of the connection the number stands for sees it.    *)
Closed(fd) ==
    /\ fdtab' = IF fd \in Fd THEN [fdtab EXCEPT ![fd] = None] ELSE fdtab
    /\ client' = [c \in Conn |-> IF /\ fd \in Fd /\ fdtab[fd] = c
                                    /\ client[c] = "connected"
                                 THEN "closed" ELSE client[c]]
    /\ UNCHANGED <<queue, answered>>

Init ==
    /\ client = [c \in Conn |-> "away"]
    /\ queue = {}
    /\ fdtab = [f \in Fd |-> None]
    /\ main = "accept"
    /\ connsockfd = -1
    /\ handler = [t \in Thread |-> "unborn"]
    /\ sockfd = [t \in Thread |-> -1]
    /\ clientes = 0
    /\ answered = {}
    /\ uncreated = 0

-----------------------------------------------------------------------------
(* Clients: they connect, wait for answers and go away when they like.     *)
Connect(c) ==
    /\ client[c] = "away"
    /\ client' = [client EXCEPT ![c] = "connected"]
    /\ queue' = queue \cup {c}
    /\ UNCHANGED <<fdtab, mainvars, threads, clientes, answered>>

HangUp(c) ==
    /\ client[c] = "connected"
    /\ client' = [client EXCEPT ![c] = "gone"]
    /\ UNCHANGED <<fdtab, mainvars, threads, clientes, queue, answered>>

-----------------------------------------------------------------------------
(* network_main_loop().                                                    *)
MayAccept == main = "accept" /\ queue # {}

(* accept() takes the lowest descriptor that is free.                      *)
Accept ==
    /\ MayAccept /\ Free # {}
    /\ \E t \in Thread : handler[t] = "unborn"
    /\ \E c \in queue :
          /\ queue' = queue \ {c}
          /\ fdtab' = [fdtab EXCEPT ![Min(Free)] = c]
    /\ connsockfd' = Min(Free)
    /\ main' = "increase"
    /\ UNCHANGED <<client, threads, clientes, answered, uncreated>>

(* What a loop would do that took -1 for a connection.                     *)
AcceptFailsUnchecked ==
    /\ MayAccept /\ Free = {}
    /\ connsockfd' = -1
    /\ main' = "increase"
    /\ UNCHANGED <<clients, fdtab, threads, clientes, uncreated>>

(* With no descriptor left it returns -1, into the same variable.          *)
AcceptFails ==
    /\ MayAccept /\ Free = {}
    /\ connsockfd' = -1
    /\ UNCHANGED <<clients, fdtab, threads, clientes, main, uncreated>>

increase_client ==
    /\ main = "increase"
    /\ clientes' = clientes + 1
    /\ main' = "create"
    /\ UNCHANGED <<clients, fdtab, threads, connsockfd, uncreated>>

CreateThread ==
    /\ main = "create"
    /\ \E t \in Thread :
          /\ handler[t] = "unborn"
          /\ handler' = [handler EXCEPT ![t] = "created"]
    /\ main' = "accept"
    /\ UNCHANGED <<clients, fdtab, sockfd, connsockfd, clientes, uncreated>>

(* Without a thread the connection is closed; it stays counted.            *)
CreateFails ==
    /\ ThreadsMayFail
    /\ main = "create"
    /\ Closed(connsockfd)
    /\ uncreated' = uncreated + 1
    /\ main' = "accept"
    /\ UNCHANGED <<threads, connsockfd, clientes>>

-----------------------------------------------------------------------------
(* client_handler().                                                       *)

(* It reads the main thread's variable as it is now.                       *)
Start(t) ==
    /\ handler[t] = "created"
    /\ sockfd' = [sockfd EXCEPT ![t] = connsockfd]
    /\ handler' = [handler EXCEPT ![t] = "serving"]
    /\ UNCHANGED <<clients, fdtab, mainvars, clientes>>

(* One request taken from the connection the descriptor stands for, and    *)
(* its answer sent back there.                                             *)
Answer(t) ==
    /\ handler[t] = "serving"
    /\ \E c \in Conn : /\ Peer(t) = c
                       /\ client[c] = "connected"
                       /\ answered' = answered \cup {c}
    /\ UNCHANGED <<client, queue, fdtab, mainvars, threads, clientes>>

(* network_receive() returns NULL: the descriptor is -1 or closed, or the  *)
(* client is gone, or its bytes do not unpack (a server that sends without *)
(* a length), or there is no memory for them.                              *)
ReceivesNull(t) == Peer(t) \in Conn \ Unread => client[Peer(t)] # "connected"

(* What a handler would do that did not leave its loop for decrease_client.*)
ReceiveFailsUncounted(t) ==
    /\ handler[t] = "serving"
    /\ ReceivesNull(t)
    /\ handler' = [handler EXCEPT ![t] = "close"]
    /\ UNCHANGED <<clients, fdtab, mainvars, sockfd, clientes>>

(* Out of the loop, then.  The first thing decrease_client() does is to    *)
(* read stats->clientes without the mutex.                                 *)
ReceiveFails(t) ==
    /\ handler[t] = "serving"
    /\ ReceivesNull(t)
    /\ handler' = [handler EXCEPT ![t] = IF clientes # 0 THEN "decrease" ELSE "close"]
    /\ UNCHANGED <<clients, fdtab, mainvars, sockfd, clientes>>

decrease_client(t) ==
    /\ handler[t] = "decrease"
    /\ clientes' = clientes - 1
    /\ handler' = [handler EXCEPT ![t] = "close"]
    /\ UNCHANGED <<clients, fdtab, mainvars, sockfd>>

Close(t) ==
    /\ handler[t] = "close"
    /\ Closed(sockfd[t])
    /\ handler' = [handler EXCEPT ![t] = "exited"]
    /\ UNCHANGED <<mainvars, sockfd, clientes>>

MainStep == Accept \/ AcceptFails \/ increase_client \/ CreateThread \/ CreateFails
HandlerStep(t) ==
    Start(t) \/ Answer(t) \/ ReceiveFails(t) \/ decrease_client(t) \/ Close(t)

Next == \/ MainStep
        \/ \E t \in Thread : HandlerStep(t)
        \/ \E c \in Conn : Connect(c) \/ HangUp(c)

(* The scheduler lets every thread go on; clients do as they like.         *)
Fairness == WF_vars(MainStep) /\ \A t \in Thread : WF_vars(HandlerStep(t))

Spec == Init /\ [][Next]_vars /\ Fairness

-----------------------------------------------------------------------------
(* Types, and that the main thread only counts and hands on a descriptor   *)
(* accept() did return.                                                    *)
TypeOK ==
    /\ client \in [Conn -> {"away", "connected", "gone", "closed"}]
    /\ queue \subseteq Conn /\ answered \subseteq Conn
    /\ fdtab \in [Fd -> Conn \cup {None}]
    /\ main \in {"accept", "increase", "create"}
    /\ connsockfd \in Fd \cup {-1}
    /\ main # "accept" => connsockfd \in Fd
    /\ handler \in [Thread -> {"unborn", "created", "serving", "decrease", "close", "exited"}]
    /\ sockfd \in [Thread -> Fd \cup {-1}]
    /\ clientes \in 0 .. Cardinality(Conn)
    /\ uncreated \in 0 .. Cardinality(Conn)

(* stats->clientes counts the threads that have not ended their service,   *)
(* and the connection being handed on: the test of decrease_client() for   *)
(* zero, made outside the mutex, never loses a decrement and the counter   *)
(* never misses an increment, whatever descriptor a thread has read.  Its  *)
(* error is known: one for every thread that could not be made, whose      *)
(* connection, closed at once, is counted for ever (clients print it as    *)
(* "Clientes conectados", table_client.c:146, which it then is not).       *)
ClientsCounted ==
    clientes = uncreated
               + (IF main = "create" THEN 1 ELSE 0)
               + Cardinality({t \in Thread : handler[t] \in {"created", "serving", "decrease"}})

(* A client that connects and stays gets an answer (client_handler()       *)
(* receives from it, calls invoke() and sends the message back).           *)
EveryClientAnswered ==
    \A c \in Conn : client[c] = "connected" ~> c \in answered \/ client[c] = "gone"
=============================================================================
