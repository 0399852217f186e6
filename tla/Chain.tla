------------------------------- MODULE Chain --------------------------------
(***************************************************************************)
(* The chain of servers: how a server registers with ZooKeeper, copies the *)
(* table of its predecessor, finds its successor, follows the changes of   *)
(* the chain, and passes its writes on (init_zookeeper_connection() to     *)
(* zk_send_msg() of table_skel.c, and the writes of invoke()).             *)
(*                                                                         *)
(* ZooKeeper itself is external: an ephemeral sequential child of /chain   *)
(* per server, a list of children in no particular order, and one-shot     *)
(* watches.  A server that restarts is a new member of Server.  A table is *)
(* the set of its keys.  In a server that runs, memory does not run out    *)
(* here (module TableSkel has it).                                         *)
(***************************************************************************)
EXTENDS Integers, Sequences, FiniteSetsExt

CONSTANTS Server, Key,
          MaxWrites,          \* bound: writes the clients make
          MaxCrashes,         \* bound: servers that crash for no reason here,
                              \* and sessions that end before their server
          CallsMayFail,       \* may a call to ZooKeeper, or of a start, fail?
          NULL, UNSET         \* no server or link; memory nobody has written

ASSUME BoundAssumption == MaxWrites \in Nat /\ MaxCrashes \in Nat
ASSUME FlagAssumption == CallsMayFail \in BOOLEAN
ASSUME NullAssumption == /\ {NULL, UNSET} \cap (Server \cup Nat) = {}
                         /\ \A S \in SUBSET Server : S # NULL
                         /\ NULL # UNSET
ASSUME FiniteAssumption == IsFiniteSet(Server)

VARIABLES proc,               \* per server, where its main thread is
          chain,              \* does /chain exist?
          children,           \* the servers that have a child of /chain
          id,                 \* per server, the number of its child (0: none)
          watch, event,       \* a child watch is set; its event is on the way
          finding,            \* per server and thread, connect_next_server()
          next_server,
          next_in_chain,      \* next_server_in_chain, as a position in links
          links,              \* per server, the connections it has opened
          pred, copy,         \* the predecessor found and what it answered
          table,              \* per server, the keys of its table
          writing,            \* the write that holds the lock, until it has been
                              \* passed on; NULL
          lock,               \* the lock of the table, as far as it goes wrong
          written, crashes,   \* how many of them there were
          ended,              \* how many sessions ended before their server
          seen                \* ghost: the children as last listed; NULL when
                              \* ZooKeeper then refused child_watcher() a call

zk == <<chain, children, id>>
watches == <<watch, event>>
forward == <<next_server, next_in_chain>>
copying == <<pred, copy>>
store == <<table, writing>>
counts == <<written, crashes, ended>>
vars == <<proc, zk, watches, finding, forward, links, copying, store, lock,
          counts, seen>>

Caller == {"main", "watcher"}
Starting == {"create_chain", "create_node", "predecessor", "gettable", "size", "next"}
Alive == {s \in Server : proc[s] \in Starting \cup {"running"}}
Expelled == {s \in Alive : id[s] # 0 /\ s \notin children}
Message == [op : {"put", "del"}, key : Key]
Link == [to : Server, sent : SUBSET Message, open : BOOLEAN]
NewLink(t) == [to |-> t, sent |-> {}, open |-> TRUE]
Idle == [at |-> "idle", path |-> NULL]

Later(s) == {t \in children : id[t] > id[s]}
Earlier(s) == {t \in children : id[t] < id[s]}
Last(S) == CHOOSE s \in S : \A t \in S : id[s] >= id[t]

Init ==
    /\ proc = [s \in Server |-> "off"]
    /\ chain = FALSE /\ children = {} /\ id = [s \in Server |-> 0]
    /\ watch = [s \in Server |-> FALSE] /\ event = [s \in Server |-> FALSE]
    /\ finding = [s \in Server |-> [c \in Caller |-> Idle]]
    /\ next_server = [s \in Server |-> NULL]
    /\ next_in_chain = [s \in Server |-> NULL]
    /\ links = [s \in Server |-> <<>>]
    /\ pred = [s \in Server |-> NULL]
    /\ copy = [s \in Server |-> {}]
    /\ table = [s \in Server |-> {}] /\ writing = [s \in Server |-> NULL]
    /\ lock = [s \in Server |-> "free"]
    /\ written = 0 /\ crashes = 0 /\ ended = 0
    /\ seen = [s \in Server |-> {}]

Goes(s, where) == proc' = [proc EXCEPT ![s] = where]

(* The process ends, and its memory goes with it.                          *)
Dies(s) ==
    /\ Goes(s, "dead")
    /\ watch' = [watch EXCEPT ![s] = FALSE] /\ event' = [event EXCEPT ![s] = FALSE]
    /\ finding' = [finding EXCEPT ![s] = [c \in Caller |-> Idle]]
    /\ next_server' = [next_server EXCEPT ![s] = NULL]
    /\ next_in_chain' = [next_in_chain EXCEPT ![s] = NULL]
    /\ pred' = [pred EXCEPT ![s] = NULL] /\ copy' = [copy EXCEPT ![s] = {}]
    /\ table' = [table EXCEPT ![s] = {}] /\ writing' = [writing EXCEPT ![s] = NULL]
    /\ seen' = [seen EXCEPT ![s] = {}]

(* A change of the children: every watch set on them fires, once.          *)
Fire ==
    /\ event' = [s \in Server |-> event[s] \/ watch[s]]
    /\ watch' = [s \in Server |-> FALSE]

(* listen(sockfd, 0): a server that starts accepts nobody yet, and one     *)
(* connection waits for it; the next is made when it runs, or times out.   *)
Full(s) ==
    /\ proc[s] \in Starting
    /\ \E t \in Server : \/ proc[t] = "gettable" /\ pred[t] = s
                        \/ \E i \in DOMAIN links[t] : links[t][i].to = s

-----------------------------------------------------------------------------
(* init_zookeeper_connection(): register.                                  *)
Start(s) ==
    /\ proc[s] = "off"
    /\ Goes(s, IF chain THEN "create_node" ELSE "create_chain")
    /\ UNCHANGED <<zk, watches, finding, forward, links, copying, store, lock, counts, seen>>

(* Of two servers that found no /chain, the second to create it gives up.  *)
CreateChain(s) ==
    /\ proc[s] = "create_chain"
    /\ Goes(s, IF chain THEN "dead" ELSE "create_node")
    /\ chain' = TRUE
    /\ UNCHANGED <<children, id, watches, finding, forward, links, copying, store, lock, counts, seen>>

(* What a server would do that created its node again when it is unsure.   *)
CreateNodeTwice(s) ==
    /\ proc[s] \in {"create_node", "predecessor"}
    /\ children' = children \cup {s}
    /\ id' = [id EXCEPT ![s] = 1 + Max({id[t] : t \in Server})]
    /\ Fire
    /\ Goes(s, "predecessor")
    /\ UNCHANGED <<chain, finding, forward, links, copying, store, lock, counts, seen>>

CreateNode(s) ==
    /\ proc[s] = "create_node"
    /\ children' = children \cup {s}
    /\ id' = [id EXCEPT ![s] = 1 + Max({id[t] : t \in Server})]
    /\ Fire
    /\ Goes(s, "predecessor")
    /\ UNCHANGED <<chain, finding, forward, links, copying, store, lock, counts, seen>>

-----------------------------------------------------------------------------
(* connect_predecessor_server().                                           *)
FindPredecessor(s) ==
    /\ proc[s] = "predecessor" /\ s \notin Expelled
    /\ watch' = [watch EXCEPT ![s] = TRUE]
    /\ IF Earlier(s) = {}
       THEN Goes(s, "next") /\ UNCHANGED pred
       ELSE /\ Goes(s, "gettable")
            /\ pred' = [pred EXCEPT ![s] = Last(Earlier(s))]
    /\ UNCHANGED <<zk, event, finding, forward, links, copy, store, lock, counts, seen>>

(* The predecessor's node is gone, or nobody listens at its address any    *)
(* more, or the second of the two connections made to it times out: the    *)
(* server gives up (or reads through a null pointer).                      *)
PredecessorLost(s) ==
    /\ proc[s] \in {"gettable", "size"}
    /\ proc[pred[s]] = "dead" \/ Full(pred[s])
    /\ Dies(s)
    /\ UNCHANGED <<zk, links, lock, counts>>

(* A call to ZooKeeper or to the predecessor fails, memory runs out, or    *)
(* the table is more than fits an answer: the start is given up.           *)
CallFails(s) ==
    /\ CallsMayFail \/ s \in Expelled
    /\ proc[s] \in {"create_chain", "create_node", "predecessor", "gettable", "size"}
    /\ Dies(s)
    /\ UNCHANGED <<zk, links, lock, counts>>

(* A request that reads is answered: by a server that has come to accept   *)
(* connections, once nobody writes; behind a reader that never leaves, as  *)
(* long as no writer waits.                                                *)
Answers(t) == proc[t] = "running" /\ lock[t] # "stuck" /\ writing[t] = NULL

(* rtable_get_table().  GETTABLE of an empty table leaves its lock taken   *)
(* by a reader (module TableSkel).                                         *)
GetTable(s) ==
    /\ proc[s] = "gettable" /\ Answers(pred[s])
    /\ copy' = [copy EXCEPT ![s] = table[pred[s]]]
    /\ lock' = IF table[pred[s]] = {} THEN [lock EXCEPT ![pred[s]] = "leaked"] ELSE lock
    /\ Goes(s, "size")
    /\ UNCHANGED <<zk, watches, finding, forward, links, pred, store, counts, seen>>

(* rtable_size(), a second request, says how many entries to put: more     *)
(* than there are is a null pointer; with fewer the rest is left out.      *)
CopyEntries(s) ==
    \/ Cardinality(table[pred[s]]) > Cardinality(copy[s]) /\ Dies(s)
    \/ /\ Goes(s, "next")
       /\ \E put \in kSubset(Cardinality(table[pred[s]]), copy[s]) :
             table' = [table EXCEPT ![s] = put]
       /\ pred' = [pred EXCEPT ![s] = NULL] /\ copy' = [copy EXCEPT ![s] = {}]
       /\ UNCHANGED <<watches, finding, forward, writing, seen>>

(* What it would do with a lock that did not let readers in together: the  *)
(* GETTABLE of an empty table would block the request that follows it.     *)
CopyBehindReader(s) ==
    /\ proc[s] = "size" /\ Answers(pred[s]) /\ lock[pred[s]] = "free"
    /\ CopyEntries(s)
    /\ UNCHANGED <<zk, links, lock, counts>>

Copy(s) ==
    /\ proc[s] = "size" /\ Answers(pred[s])
    /\ CopyEntries(s)
    /\ UNCHANGED <<zk, links, lock, counts>>

-----------------------------------------------------------------------------
(* connect_next_server(), called by main() at the end of the start and by  *)
(* child_watcher() in ZooKeeper's own thread whenever the event arrives.   *)
Called(s, c) ==
    /\ finding[s][c] = Idle
    /\ IF c = "main" THEN proc[s] = "next" ELSE s \in Alive /\ event[s]
Heard(s, c) == event' = IF c = "watcher" THEN [event EXCEPT ![s] = FALSE] ELSE event

Returns(s, c) ==
    /\ finding' = [finding EXCEPT ![s][c] = Idle]
    /\ IF c = "main" THEN Goes(s, "running") ELSE UNCHANGED proc

(* main() ends then; child_watcher() waits for the next event.             *)
ReturnsMinus1(s, c) ==
    \/ c = "main" /\ Dies(s)
    \/ /\ c = "watcher"
       /\ finding' = [finding EXCEPT ![s][c] = Idle]
       /\ UNCHANGED <<proc, watch, forward, copying, store>>

(* What a loop would do that takes the first child other than itself.      *)
CandidatesAnyOther(s) == IF children = {s} THEN {s} ELSE children \ {s}

(* The first child of the list with an id above its own, else its own; the *)
(* list is not sorted, so it need not be the nearest (the comment at 748   *)
(* of table_skel.c says it is).                                            *)
Candidates(s) == IF Later(s) = {} THEN {s} ELSE Later(s)

(* What the code would do with zoo_get_children() and no watch of its own. *)
ListChildrenOnce(s, c) ==
    /\ Called(s, c) /\ Heard(s, c) /\ s \notin Expelled
    /\ seen' = [seen EXCEPT ![s] = children]
    /\ \E t \in Candidates(s) :
          finding' = [finding EXCEPT ![s][c] = [at |-> "get", path |-> t]]
    /\ UNCHANGED <<proc, zk, watch, forward, links, copying, store, lock, counts>>

ListChildren(s, c) ==
    /\ Called(s, c) /\ Heard(s, c) /\ s \notin Expelled
    /\ watch' = [watch EXCEPT ![s] = TRUE]
    /\ seen' = [seen EXCEPT ![s] = children]
    /\ \E t \in Candidates(s) :
          finding' = [finding EXCEPT ![s][c] = [at |-> "get", path |-> t]]
    /\ UNCHANGED <<proc, zk, forward, links, copying, store, lock, counts>>

(* The list cannot be had: no watch is set then, and the server may hear   *)
(* of no further change.                                                   *)
ListFails(s, c) ==
    /\ CallsMayFail \/ s \in Expelled
    /\ Called(s, c)
    /\ ReturnsMinus1(s, c)
    /\ c = "watcher" => Heard(s, c) /\ seen' = [seen EXCEPT ![s] = NULL]
    /\ UNCHANGED <<zk, links, lock, counts>>

(* zoo_get() of the chosen node, which may be gone by now.  The variable   *)
(* gets memory nobody has written before it gets the connection; when the  *)
(* server is its own choice the variable is left as it was.                *)
GetAddress(s, c) ==
    LET t == finding[s][c].path IN
    /\ s \in Alive /\ finding[s][c].at = "get"
    /\ \/ /\ t \notin children \/ CallsMayFail \/ s \in Expelled
          /\ ReturnsMinus1(s, c)
          /\ c = "watcher" =>
                /\ seen' = IF t \in children THEN [seen EXCEPT ![s] = NULL] ELSE seen
                /\ UNCHANGED event
       \/ /\ t = s /\ s \in children
          /\ next_server' = [next_server EXCEPT ![s] = NULL]
          /\ Returns(s, c)
          /\ UNCHANGED <<next_in_chain, watches, copying, store, seen>>
       \/ /\ t # s /\ t \in children /\ s \notin Expelled
          /\ next_server' = [next_server EXCEPT ![s] = t]
          /\ next_in_chain' = [next_in_chain EXCEPT ![s] = UNSET]
          /\ finding' = [finding EXCEPT ![s][c].at = "connect"]
          /\ UNCHANGED <<proc, watches, copying, store, seen>>
    /\ UNCHANGED <<zk, links, lock, counts>>

(* What it would do that did not look at what connect() returns.           *)
CreateServerConnectionUnchecked(s, c) ==
    LET t == finding[s][c].path IN
    /\ s \in Alive /\ finding[s][c].at = "connect"
    /\ links' = IF t \in Alive
                THEN [links EXCEPT ![s] = Append(@, NewLink(t))]
                ELSE links
    /\ next_in_chain' = [next_in_chain EXCEPT ![s] = Len(links[s]) + 1]
    /\ Returns(s, c)
    /\ UNCHANGED <<zk, watches, next_server, copying, store, lock, counts, seen>>

(* What it would do that used the connection the server has already made.  *)
CreateServerConnectionOnce(s, c) ==
    LET t == finding[s][c].path IN
    /\ s \in Alive /\ finding[s][c].at = "connect"
    /\ IF links[s] = <<>> /\ t \in Alive /\ ~Full(t)
       THEN links' = [links EXCEPT ![s] = <<NewLink(t)>>]
       ELSE UNCHANGED links
    /\ next_in_chain' = [next_in_chain EXCEPT ![s] = IF links'[s] = <<>> THEN NULL ELSE 1]
    /\ Returns(s, c)
    /\ UNCHANGED <<zk, watches, next_server, copying, store, lock, counts, seen>>

(* create_server_connection().  The connection there was stays open.       *)
CreateServerConnection(s, c) ==
    LET t == finding[s][c].path IN
    /\ s \in Alive /\ finding[s][c].at = "connect"
    /\ IF t \in Alive /\ ~Full(t)
       THEN /\ links' = [links EXCEPT ![s] = Append(@, NewLink(t))]
            /\ next_in_chain' = [next_in_chain EXCEPT ![s] = Len(links[s]) + 1]
       ELSE /\ next_in_chain' = [next_in_chain EXCEPT ![s] = NULL]
            /\ UNCHANGED links
    /\ Returns(s, c)
    /\ UNCHANGED <<zk, watches, next_server, copying, store, lock, counts, seen>>

ConnectNextServer(s, c) == \/ ListChildren(s, c)
                           \/ ListFails(s, c)
                           \/ GetAddress(s, c)
                           \/ CreateServerConnection(s, c)

-----------------------------------------------------------------------------
(* The writes of invoke().                                                 *)
Apply(s, m) ==
    table' = [table EXCEPT ![s] = IF m.op = "put" THEN @ \cup {m.key} ELSE @ \ {m.key}]

(* A write takes the lock and looks whether there is a successor.  Behind  *)
(* a reader that never leaves it waits for ever, and with it everyone who  *)
(* comes after.                                                            *)
Write(s, m) ==
    /\ writing[s] = NULL
    /\ \/ /\ lock[s] = "free" /\ next_in_chain[s] = NULL
          /\ Apply(s, m)
          /\ UNCHANGED <<writing, lock>>
       \/ /\ lock[s] = "free" /\ next_in_chain[s] # NULL
          /\ writing' = [writing EXCEPT ![s] = m]
          /\ UNCHANGED <<table, lock>>
       \/ /\ lock[s] = "leaked"
          /\ lock' = [lock EXCEPT ![s] = "stuck"]
          /\ UNCHANGED store

(* Of a client, to the server it has found at the head.                    *)
ClientWrite(s, k) ==
    /\ written < MaxWrites
    /\ proc[s] = "running" /\ Earlier(s) = {}
    /\ \E op \in {"put", "del"} : Write(s, [op |-> op, key |-> k])
    /\ written' = written + 1
    /\ UNCHANGED <<proc, zk, watches, finding, forward, links, copying, crashes, ended, seen>>

Linked(s) == next_in_chain[s] \in Nat
Peer(s) == links[s][next_in_chain[s]]
Broken(s) == ~Peer(s).open \/ Peer(s).to \notin Alive

(* zk_send_msg(), with the successor there is by now: the watcher may have *)
(* changed it.  Without a connection the bytes go nowhere (or to whom the  *)
(* memory nobody has written, or a descriptor number used again, says).    *)
PassedOn(s) ==
    /\ writing[s] # NULL /\ next_in_chain[s] # NULL
    /\ links' = IF Linked(s) /\ ~Broken(s)
                THEN [links EXCEPT ![s][next_in_chain[s]].sent = @ \cup {writing[s]}]
                ELSE links
    /\ Apply(s, writing[s])
    /\ writing' = [writing EXCEPT ![s] = NULL]
    /\ UNCHANGED <<proc, zk, watches, finding, forward, copying, lock, counts, seen>>

(* With a null pointer, or by SIGPIPE.                                     *)
DiesPassingOn(s) ==
    /\ writing[s] # NULL
    /\ Linked(s) => Broken(s)
    /\ Dies(s)
    /\ UNCHANGED <<zk, links, lock, counts>>

PassOn(s) == PassedOn(s) \/ DiesPassingOn(s)

(* A thread of server s reads what server t has sent on a connection,      *)
(* without the length network_receive() begins with (module Framing, run   *)
(* framing_chain).  What comes of it does not unpack and the connection is *)
(* closed, or by chance is taken for one of the writes in it.              *)
Misread(s, t, i) ==
    /\ proc[s] = "running"
    /\ links[t][i].to = s /\ links[t][i].open
    /\ \E m \in links[t][i].sent :
          \/ links' = [links EXCEPT ![t][i].open = FALSE] /\ UNCHANGED <<store, lock>>
          \/ /\ \E rest \in SUBSET (links[t][i].sent \ {m}) :
                   links' = [links EXCEPT ![t][i].sent = rest]
             /\ Write(s, m)
    /\ UNCHANGED <<proc, zk, watches, finding, forward, copying, counts, seen>>

-----------------------------------------------------------------------------
Crash(s) ==
    /\ s \in Alive /\ crashes + ended < MaxCrashes
    /\ crashes' = crashes + 1
    /\ Dies(s)
    /\ UNCHANGED <<zk, links, lock, written, ended>>

(* ZooKeeper ends the session of a dead server and removes its child.      *)
Expire(s) ==
    /\ proc[s] = "dead" /\ s \in children
    /\ children' = children \ {s}
    /\ Fire
    /\ UNCHANGED <<proc, chain, id, finding, forward, links, copying, store, lock, counts, seen>>

(* The session of a living server ends (no word from it in time).  From    *)
(* then on its calls to ZooKeeper fail; it hears of nothing, keeps its     *)
(* connections and serves whoever asks (connection_watcher() only notes    *)
(* that it is not connected).                                              *)
SessionEnds(s) ==
    /\ s \in Alive \cap children /\ crashes + ended < MaxCrashes
    /\ ended' = ended + 1
    /\ children' = children \ {s}
    /\ watch' = [t \in Server |-> FALSE]
    /\ event' = [t \in Server |-> event[t] \/ (watch[t] /\ t # s)]
    /\ UNCHANGED <<proc, chain, id, finding, forward, links, copying, store, lock, written, crashes, seen>>

StartStep(s) == \/ CallFails(s) \/ CreateChain(s) \/ CreateNode(s) \/ FindPredecessor(s)
                \/ PredecessorLost(s) \/ GetTable(s) \/ Copy(s)

Next ==
    \E s \in Server :
        \/ Start(s) \/ StartStep(s) \/ Crash(s) \/ SessionEnds(s) \/ Expire(s)
        \/ \E c \in Caller : ConnectNextServer(s, c)
        \/ \E k \in Key : ClientWrite(s, k)
        \/ PassOn(s)
        \/ \E t \in Server : \E i \in DOMAIN links[t] : Misread(s, t, i)

(* Nothing keeps a write from being passed on: whoever should read it has  *)
(* come to accept connections, and its thread waits for no lock.  (Else it *)
(* may wait until the connection takes more bytes.)                        *)
Flows(s) ==
    writing[s] # NULL /\ Linked(s) /\ ~Broken(s) => Answers(Peer(s).to)

(* Every thread of a server goes on and every session ends in time; nobody *)
(* has to start, write, crash or understand what is sent.                  *)
Fairness ==
    \A s \in Server :
        /\ WF_vars(StartStep(s)) /\ WF_vars(Expire(s))
        /\ WF_vars(Flows(s) /\ PassOn(s))
        /\ \A c \in Caller : WF_vars(ConnectNextServer(s, c))

Spec == Init /\ [][Next]_vars /\ Fairness

-----------------------------------------------------------------------------
(* Types, and that a connection a server writes to is one that it opened.  *)
TypeOK ==
    /\ proc \in [Server -> Starting \cup {"off", "running", "dead"}]
    /\ chain \in BOOLEAN /\ children \subseteq Server
    /\ id \in [Server -> 0 .. Cardinality(Server)]
    /\ watch \in [Server -> BOOLEAN] /\ event \in [Server -> BOOLEAN]
    /\ finding \in [Server -> [Caller -> [at : {"idle", "get", "connect"},
                                          path : Server \cup {NULL}]]]
    /\ next_server \in [Server -> Server \cup {NULL}]
    /\ \A s \in Server :
          /\ next_in_chain[s] \in {NULL, UNSET} \cup DOMAIN links[s]
          /\ links[s] \in Seq(Link)
    /\ pred \in [Server -> Server \cup {NULL}]
    /\ copy \in [Server -> SUBSET Key]
    /\ table \in [Server -> SUBSET Key]
    /\ writing \in [Server -> Message \cup {NULL}]
    /\ lock \in [Server -> {"free", "leaked", "stuck"}]
    /\ written \in 0 .. MaxWrites /\ crashes \in 0 .. MaxCrashes /\ ended \in 0 .. MaxCrashes
    /\ seen \in [Server -> (SUBSET Server) \cup {NULL}]

(* The server that s writes to, if any.                                    *)
Successor(s) == IF next_in_chain[s] \in {NULL, UNSET} THEN NULL
                ELSE links[s][next_in_chain[s]].to

(* Every connection a server opens, and every server it takes for its      *)
(* successor, is later in the chain: no write can come round to a server   *)
(* that has had it, however lists, crashes and failed calls interleave.    *)
LinksGoForward ==
    \A s \in Server :
        /\ \A i \in DOMAIN links[s] : id[links[s][i].to] > id[s]
        /\ next_server[s] # NULL => id[next_server[s]] > id[s]

(* No change of the chain is missed: a running server that has no event on *)
(* the way and no connect_next_server() under way has last listed the      *)
(* children as they are (child_watcher() sets its watch anew, and the two  *)
(* threads that call connect_next_server() do not lose an event between    *)
(* them), unless the last call child_watcher() made was refused.           *)
NoChangeMissed ==
    \A s \in Alive \ Expelled :
        proc[s] = "running" /\ ~event[s] /\ finding[s]["watcher"] = Idle
            => seen[s] \in {children, NULL}

(* When a server has died and its node is gone, its predecessor is not     *)
(* left writing to it: a server with others after it that is not busy      *)
(* connecting has a connection to one that lives, or none ("obter os       *)
(* meta-dados desse servidor [...] ligando-se a ele", table_skel.c:749),   *)
(* although two threads choose.  Excepted are a last call that was         *)
(* refused, and servers that live on without their node: the thread that   *)
(* comes last may still connect to one.                                    *)
ChainRepaired ==
    children \subseteq Alive /\ ended = 0 =>
        \A s \in children :
            /\ proc[s] = "running" /\ ~event[s] /\ seen[s] # NULL
            /\ \A c \in Caller : finding[s][c] = Idle
            /\ Later(s) # {}
            => Successor(s) \in Alive \cup {NULL}

(* As a client or another server sees it through ZooKeeper, the chain is   *)
(* as Membership says: a server joins once, behind all the others, keeps   *)
(* its place as long as its session, and never comes back.                 *)
life == [s \in Server |-> IF id[s] = 0 THEN "off"
                          ELSE IF s \in Alive THEN "up" ELSE "dead"]
Members == INSTANCE Membership
ImplementsMembership == Members!MembersSpec

(* Every start comes to an end: the server runs, or has given up.  A       *)
(* server that waits for its predecessor, which may itself be waiting for  *)
(* its own, does not wait for ever, although GETTABLE of an empty table    *)
(* has left the lock it then asks for again taken by a reader.  Excepted   *)
(* is a predecessor that answers no more, because a writer came in between *)
(* or because it holds its lock and waits to pass on a write.              *)
StartEnds ==
    \A s \in Server :
        proc[s] \in Starting ~>
            \/ proc[s] \notin Starting
            \/ [](proc[s] \in {"gettable", "size"} /\ ~Answers(pred[s]))
=============================================================================
