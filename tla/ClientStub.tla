----------------------------- MODULE ClientStub -----------------------------
(***************************************************************************)
(* A client: the main thread of table_client.c with the operations of      *)
(* client_stub.c and network_client.c, and rtable_connect_zookeeper(),     *)
(* which main() calls once and ZooKeeper's thread on every change of the   *)
(* chain.  Both threads use the globals head and tail without a lock.      *)
(*                                                                         *)
(* The chain is as in Membership.  A server that is up takes connections   *)
(* (it listens before it registers; when its queue is full, connect()      *)
(* keeps asking for some two minutes, and a start is taken to be shorter)  *)
(* and answers in the end.  A pointer is the number of a block of memory;  *)
(* blocks no pointer leads to any more are never freed and forgotten here. *)
(* The client has a session of its own, which ends when ZooKeeper does not *)
(* hear of it for two seconds, and takes its watch with it.                *)
(***************************************************************************)
EXTENDS Membership

CONSTANTS MaxLosses,          \* bound: servers that die or lose their session
          Long,               \* the numbers of the servers with a longer
                              \* address than the others
          NULL,               \* no address, no request
          UNSET, FREED        \* a sockfd nobody has written; freed memory

ASSUME ClientAssumption ==
    /\ MaxLosses \in Nat /\ Long \subseteq Nat
    /\ Cardinality({NULL, UNSET, FREED}) = 3
    /\ {NULL, UNSET, FREED} \cap Server = {} /\ IsFiniteSet(Server)

VARIABLES disturbed,          \* ghost: the chain changed while main() connected
          watch, event,       \* the child watch is set; its event is on the way
          session,            \* ZooKeeper has not ended the client's session
          connecting,         \* per thread, where it is in
                              \* rtable_connect_zookeeper()
          head, tail,         \* the globals; 0 is the null pointer
          conn,               \* per block: the address and the socket in it
          main,               \* where the main thread is
          ptr, end,           \* its copy of head or tail, and which it is of
          answered,           \* the answer is on its way
          listed              \* ghost: the children are still as last listed

chainvars == <<members, disturbed>>
zk == <<watch, event, session, listed>>
pointers == <<head, tail, conn>>
request == <<ptr, end, answered>>
vars == <<chainvars, zk, connecting, pointers, main, request>>

Caller == {"main", "watcher"}
End == {"head", "tail"}
Block == 1 .. 4               \* head, tail, ptr and one about to be made
Blank == [addr |-> NULL, sock |-> UNSET]
Idle == [at |-> "idle", first |-> NULL, last |-> NULL]

(* Servers that have not joined yet are alike: let them join in one order. *)
NextToJoin == CHOOSE s \in Server : life[s] = "off" \/ \A t \in Server : life[t] # "off"
Up == {s \in Server : life[s] = "up"}
Running == main # "over"

Init ==
    /\ MembersInit
    /\ disturbed = FALSE
    /\ watch = FALSE /\ event = FALSE /\ session = TRUE /\ listed = FALSE
    /\ connecting = [c \in Caller |-> IF c = "main" THEN [Idle EXCEPT !.at = "list"] ELSE Idle]
    /\ head = 0 /\ tail = 0
    /\ conn = [b \in Block |-> Blank]
    /\ main = "connecting"
    /\ ptr = 0 /\ end = NULL /\ answered = FALSE

-----------------------------------------------------------------------------
(* The chain changes; a watch that is set fires, once.                     *)
Lost == {s \in Server : life[s] = "dead" \/ (life[s] = "up" /\ s \notin children)}
MayLose(s) == s \in Lost \/ Cardinality(Lost) < MaxLosses

Change ==
    /\ Running
    /\ \E s \in Server :
          \/ /\ MayLose(s) /\ Die(s)
             /\ UNCHANGED <<zk, disturbed>>
          \/ /\ (MayLose(s) /\ Expire(s)) \/ (s = NextToJoin /\ Join(s))
             /\ event' = (event \/ watch) /\ watch' = FALSE /\ listed' = FALSE
             /\ UNCHANGED session
             /\ disturbed' = (disturbed \/ connecting["main"].at \notin {"idle", "list"})
    /\ UNCHANGED <<connecting, pointers, main, request>>

(* connect_client_to_zk() allows 2000 ms.  connection_watcher_client() and *)
(* child_watcher_client() do nothing about it: the watch is gone, nobody   *)
(* asks for a new session.  An event the client has not looked at yet is   *)
(* still in its queue, or was on the way and is lost.                      *)
SessionEnds ==
    /\ Running /\ session
    /\ session' = FALSE /\ watch' = FALSE
    /\ event' \in {event, FALSE}
    /\ UNCHANGED <<chainvars, listed, connecting, pointers, main, request>>

-----------------------------------------------------------------------------
(* rtable_connect_zookeeper(), called by thread c.                         *)
At(c, where) == Running /\ connecting[c].at = where
Goes(c, where) == connecting' = [connecting EXCEPT ![c].at = where]

NoRequest == ptr' = 0 /\ end' = NULL /\ answered' = FALSE

(* The process ends, and its memory goes with it.                          *)
Exit ==
    /\ main' = "over" /\ connecting' = [t \in Caller |-> Idle]
    /\ head' = 0 /\ tail' = 0 /\ conn' = [b \in Block |-> Blank]
    /\ NoRequest
    /\ UNCHANGED <<chainvars, zk>>
KeepMain == UNCHANGED <<main, request>>

(* What a handler would do that leaves the main thread's work alone.       *)
ChildEventBetween ==
    /\ event /\ At("watcher", "idle") /\ main = "prompt"
    /\ event' = FALSE
    /\ Goes("watcher", "list")
    /\ UNCHANGED <<chainvars, watch, session, listed, pointers>> /\ KeepMain

(* child_watcher_client(), for a child event; it ignores the others.       *)
ChildEvent ==
    /\ event /\ At("watcher", "idle")
    /\ event' = FALSE
    /\ Goes("watcher", "list")
    /\ UNCHANGED <<chainvars, watch, session, listed, pointers>> /\ KeepMain

Lists(c, a, b) ==
    /\ session
    /\ listed' = TRUE
    /\ connecting' = [connecting EXCEPT ![c] = [at |-> "get tail", first |-> a, last |-> b]]
    /\ UNCHANGED <<chainvars, event, session, pointers>> /\ KeepMain

(* What zoo_get_children() would do here, which sets no watch.             *)
ListUnwatched(c) ==
    /\ At(c, "list") /\ children # {}
    /\ Lists(c, HeadOf(children), TailOf(children))
    /\ UNCHANGED watch

(* The children are listed twice; the first list is thrown away, and so is *)
(* a failure of that call, but the watch is set from then on.              *)
ListInVain(c) ==
    /\ At(c, "list")
    /\ watch' \in {watch, session}
    /\ Goes(c, "list again")
    /\ UNCHANGED <<chainvars, event, session, listed, pointers>> /\ KeepMain

(* What it would do that gave up on an empty chain, and went on without.   *)
ListOrNothing(c) ==
    /\ At(c, "list again") /\ session
    /\ watch' = TRUE
    /\ IF children # {}
       THEN /\ Lists(c, HeadOf(children), TailOf(children))
       ELSE /\ connecting' = [connecting EXCEPT ![c] = Idle] /\ main' = "prompt"
            /\ listed' = TRUE
            /\ UNCHANGED <<chainvars, event, session, pointers, request>>

(* What it would do that looked for the largest name twice.                *)
ListLast(c) ==
    /\ At(c, "list again") /\ children # {}
    /\ watch' = TRUE
    /\ Lists(c, TailOf(children), TailOf(children))

(* With no child (or no /chain) the client ends here: exit(), or a read    *)
(* through the null pointer data.                                          *)
List(c) ==
    /\ At(c, "list again") /\ children # {}
    /\ watch' = TRUE
    /\ Lists(c, HeadOf(children), TailOf(children))

GetTailAddress(c) ==
    /\ At(c, "get tail") /\ session
    /\ connecting[c].last \in children
    /\ Goes(c, "get head")
    /\ UNCHANGED <<chainvars, zk, pointers>> /\ KeepMain

(* buffer_len is now the length of the tail's address.  A longer address   *)
(* of the head is cut there: it leads nowhere, or to another server.       *)
Cut(c) == id[connecting[c].first] \in Long /\ id[connecting[c].last] \notin Long

GetHeadAddress(c) ==
    /\ At(c, "get head") /\ session
    /\ connecting[c].first \in children
    /\ \E a \in IF Cut(c) THEN Server \cup {NULL} ELSE {connecting[c].first} :
          connecting' = [connecting EXCEPT ![c].at = "make head", ![c].first = a]
    /\ UNCHANGED <<chainvars, zk, pointers>> /\ KeepMain

(* Each of these calls ends the client when it fails, because the node is  *)
(* gone, the session is, or for another reason.                            *)
CallFails(c) ==
    /\ \E where \in {"list again", "get tail", "get head"} : At(c, where)
    /\ Exit

(* Blocks that no pointer leads to are forgotten.                          *)
Kept(c, refs) == [b \in Block |-> IF b \in refs THEN c[b] ELSE Blank]
Fresh == Min(Block \ {head, tail, ptr})

(* What it would do that took leave of the old server first.               *)
MakeHeadReplacing(c) ==
    /\ At(c, "make head")
    /\ head' = Fresh
    /\ conn' = [Kept(conn, {tail, ptr}) EXCEPT ![Fresh].addr = connecting[c].first,
                                              ![IF head = 0 THEN Fresh ELSE head].sock =
                                                  IF head = 0 THEN UNSET ELSE FREED]
    /\ Goes(c, "connect head")
    /\ UNCHANGED <<chainvars, zk, tail>> /\ KeepMain

(* head = malloc(): the old one stays open, nobody knows of it any more.   *)
MakeHead(c) ==
    /\ At(c, "make head")
    /\ head' = Fresh
    /\ conn' = [Kept(conn, {tail, ptr}) EXCEPT ![Fresh].addr = connecting[c].first]
    /\ Goes(c, "connect head")
    /\ UNCHANGED <<chainvars, zk, tail>> /\ KeepMain

MakeTail(c) ==
    /\ At(c, "make tail")
    /\ tail' = Fresh
    /\ conn' = [Kept(conn, {head, ptr}) EXCEPT ![Fresh].addr = connecting[c].last]
    /\ Goes(c, "connect tail")
    /\ UNCHANGED <<chainvars, zk, head>> /\ KeepMain

(* network_connect(), on the global as it is by then, writes the socket    *)
(* when connect() succeeds and only then; what it returns is printed.      *)
network_connect(b) ==
    /\ conn' = IF conn[b].addr \in Up /\ conn[b].sock # FREED
               THEN [conn EXCEPT ![b].sock = conn[b].addr] ELSE conn
    /\ UNCHANGED <<chainvars, zk, head, tail>>

ConnectHead(c) == /\ At(c, "connect head") /\ Goes(c, "make tail")
                  /\ network_connect(head) /\ KeepMain

ConnectTailTo(c, b) ==
    /\ At(c, "connect tail")
    /\ network_connect(b)
    /\ connecting' = [connecting EXCEPT ![c] = Idle]
    /\ main' = IF c = "main" THEN "prompt" ELSE main
    /\ UNCHANGED request

(* What two calls for the head would do.                                   *)
ConnectHeadAgain(c) == ConnectTailTo(c, head)

ConnectTail(c) == ConnectTailTo(c, tail)

rtable_connect_zookeeper(c) ==
    \/ ListInVain(c) \/ List(c) \/ GetTailAddress(c) \/ GetHeadAddress(c) \/ CallFails(c)
    \/ MakeHead(c) \/ ConnectHead(c) \/ MakeTail(c) \/ ConnectTail(c)

-----------------------------------------------------------------------------
(* The operations, each a request and its answer on the global as it is    *)
(* when the operation begins (network_send_receive()).                     *)
Pointer(r) == IF r = "head" THEN head ELSE tail
Socket(r) == conn[Pointer(r)].sock

(* rtable_disconnect(): the block is freed, the global still leads to it.  *)
Fails(b) ==
    /\ conn' = Kept([conn EXCEPT ![b].sock = FREED], {head, tail})
    /\ main' = "prompt"
    /\ NoRequest
    /\ UNCHANGED <<chainvars, zk, connecting, head, tail>>

(* The request goes out on a connection whose server is up.                *)
Send(r) ==
    /\ main = "prompt"
    /\ Socket(r) \in Up
    /\ main' = "asked"
    /\ ptr' = Pointer(r) /\ end' = r
    /\ UNCHANGED <<chainvars, zk, connecting, pointers, answered>>

(* It does not: there is no memory for the request, the server is gone (an *)
(* error, or SIGPIPE first), there is no number of a connection in the     *)
(* block (no descriptor, or that of the terminal), or the block is freed   *)
(* (and now freed again, which ends the client, or is not noticed).        *)
SendFails(r) ==
    /\ main = "prompt"
    /\ \/ Socket(r) # FREED /\ Fails(Pointer(r))
       \/ Socket(r) \in (Server \ Up) \cup {FREED} /\ Exit
       \/ /\ Socket(r) = UNSET
          /\ main' = "stuck"
          /\ UNCHANGED <<chainvars, zk, connecting, pointers, request>>
       \/ Socket(r) = FREED /\ UNCHANGED vars

rtable_put_head == Send("head")
rtable_del_head == Send("head")
rtable_get_tail == Send("tail")
rtable_size_tail == Send("tail")
rtable_get_keys_tail == Send("tail")
rtable_get_table_tail == Send("tail")
rtable_stats_tail == Send("tail")

Serve ==
    /\ main = "asked" /\ ~answered
    /\ conn[ptr].sock \in Up
    /\ answered' = TRUE
    /\ UNCHANGED <<chainvars, zk, connecting, pointers, main, ptr, end>>

Receive ==
    /\ main = "asked" /\ answered
    /\ conn' = Kept(conn, {head, tail})
    /\ main' = "prompt"
    /\ NoRequest
    /\ UNCHANGED <<chainvars, zk, connecting, head, tail>>

(* The server dies, and an answer that is on its way may be lost with it,  *)
(* or the answer does not unpack: there is no memory for it, or it is over *)
(* 32767 bytes, a negative length nobody reads.  Then message_t__unpack()  *)
(* gets a null pointer, and may end the client.                            *)
ReceiveFails ==
    /\ main = "asked"
    /\ \/ (conn[ptr].sock \in Up => answered) /\ Fails(ptr)
       \/ answered /\ Exit

(* quit, the end of the input or a signal.                                 *)
Quit ==
    /\ main = "prompt"
    /\ Exit

Operation ==
    \/ rtable_put_head \/ rtable_del_head \/ rtable_get_tail \/ rtable_size_tail
    \/ rtable_get_keys_tail \/ rtable_get_table_tail \/ rtable_stats_tail
    \/ \E r \in End : SendFails(r)
NetworkStep == Serve \/ Receive \/ ReceiveFails

Next == \/ Change \/ SessionEnds \/ ChildEvent \/ Operation \/ NetworkStep \/ Quit
        \/ \E c \in Caller : rtable_connect_zookeeper(c)

(* Threads go on, servers answer; users and the chain do as they like.     *)
Fairness == /\ WF_vars(NetworkStep) /\ WF_vars(ChildEvent)
            /\ \A c \in Caller : WF_vars(rtable_connect_zookeeper(c))

Spec == Init /\ [][Next]_vars /\ Fairness

-----------------------------------------------------------------------------
(* Types, and that the prompt is never reached with null pointers, nor     *)
(* with pointers to the same block.                                        *)
TypeOK ==
    /\ life \in [Server -> {"off", "up", "dead"}] /\ children \subseteq Server
    /\ id \in [Server -> 0 .. Cardinality(Server)]
    /\ disturbed \in BOOLEAN
    /\ watch \in BOOLEAN /\ event \in BOOLEAN /\ session \in BOOLEAN
    /\ listed \in BOOLEAN
    /\ \A c \in Caller : /\ connecting[c].first \in Server \cup {NULL}
                         /\ connecting[c].last \in Server \cup {NULL}
    /\ {head, tail, ptr} \subseteq Block \cup {0}
    /\ conn \in [Block -> [addr : Server \cup {NULL}, sock : Server \cup {UNSET, FREED}]]
    /\ main \in {"connecting", "prompt", "asked", "stuck", "over"}
    /\ main \in {"prompt", "asked"} => head \in Block /\ tail \in Block \ {head}

AtRest ==
    /\ main \notin {"connecting", "over"} /\ ~event
    /\ \A c \in Caller : connecting[c] = Idle

(* The watch is set again in time: whenever the client has no event on the *)
(* way and is not listing the children, it has listed them as they are, as *)
(* long as ZooKeeper has not ended its session.                            *)
NoChangeMissed == AtRest /\ session => listed

(* A client that is not busy connecting writes to the first and reads from *)
(* the last server, once the nodes of the dead are gone; unless its own    *)
(* session ended, an operation was cut off and freed the pointer, the      *)
(* address of the head is longer than that of the tail, or the chain       *)
(* changed under main() when it connected.                                 *)
PointsAtEnds ==
    AtRest /\ session /\ children \subseteq Up /\ ~disturbed =>
        /\ Socket("tail") = TailOf(children) \/ Socket("tail") = FREED
        /\ \/ Socket("head") = HeadOf(children) \/ Socket("head") = FREED
           \/ id[HeadOf(children)] \in Long /\ id[TailOf(children)] \notin Long

(* An operation finds a block without a socket in head or tail only while  *)
(* a thread is connecting or about to, or when nobody is at the address in *)
(* it, while the client's session lasts: main() shows no prompt before,    *)
(* and no server that comes up is overlooked.                              *)
UnsetOnlyForNow ==
    main \in {"prompt", "asked"} => \A r \in End :
        Socket(r) = UNSET => \/ event \/ \E c \in Caller : connecting[c] # Idle
                             \/ conn[Pointer(r)].addr \notin Up \/ ~session

(* The watcher may replace head and tail while a request is out: the block *)
(* the main thread works on stays as it was, so the answer is read from    *)
(* the connection the request went to.                                     *)
PendingConnectionKept ==
    [][main = "asked" /\ main' = "asked" => ptr' = ptr /\ conn'[ptr] = conn[ptr]]_vars

(* Once the chain changes no more, the client comes to rest for good, with *)
(* the chain as it is listed if its session lasts, whatever its user does: *)
(* neither thread waits for the other, and the watcher does not call       *)
(* itself for ever.                                                        *)
Settles == <>[](main = "over" \/ (AtRest /\ (listed \/ ~session)))
=============================================================================
