------------------------------ MODULE TableSkel ------------------------------
(***************************************************************************)
(* One server: the client_handler threads of network_server.c and the      *)
(* invoke() of table_skel.c they call, with the readers-writer lock, the   *)
(* table, the operation counter and the socket to the next server of the   *)
(* chain.                                                                  *)
(*                                                                         *)
(* A thread takes one step per access to what the threads share.  The      *)
(* calls of table.c are one step each, save table_put on a key that is     *)
(* there, which frees the old value (line 136) and then stores the new one *)
(* (line 137).  stats->counter is read and written without the mutex.      *)
(* next_server_in_chain is tested in one step and used in the next; the    *)
(* thread of ZooKeeper may assign it between the two.                      *)
(***************************************************************************)
EXTENDS RWLock, TableOps

CONSTANTS Freed,              \* what is read through a freed value
          Requests,           \* what clients ask: records [op, key, val]
          InitialTables,      \* tables network_main_loop() may start with
          AllocMayFail,       \* may malloc return NULL in invoke()?
          MaxOps              \* bound: requests received in one behaviour

ASSUME DataAssumption ==
    /\ IsFiniteSet(Key)
    /\ NULL \notin Key \cup Val
    /\ Freed \notin Val \cup {NULL}
    /\ Requests \subseteq [op : OpCodes, key : Key \cup {NULL},
                           val : Val \cup {NULL}]
    /\ \A r \in Requests : r.op \in {"get", "put", "del"} => r.key \in Key
    /\ InitialTables \subseteq [Key -> Val \cup {NULL}]
    /\ AllocMayFail \in BOOLEAN
    /\ MaxOps \in Nat

VARIABLES pc,         \* per thread, the next thing it does
          msg,        \* per thread, the MessageT it is handling
          table,      \* the table; Freed while a value is being replaced
          counter,    \* stats->counter
          loaded,     \* per thread, the value of counter it is adding one to
          link,       \* next_server_in_chain: "none" (NULL), "up" (the
                      \* successor there was in the beginning, alive) or
                      \* "other" (a dead or later one, memory never written)
          alive,      \* FALSE once a signal has ended the process
          forwarded,  \* ghost: the table the writes sent to "up" amount to
          halfway,    \* ghost: keys whose last write was not sent to it, or
                      \* sent and not applied here
          received, counted, written   \* ghosts: requests received, additions
                                       \* to counter, those of writers

chainVars == <<link, alive, forwarded, halfway>>
skelVars == <<pc, msg, table, counter, loaded, chainVars,
              received, counted, written>>
vars == <<lockVars, skelVars>>

(* Where a thread is:                                                      *)
(*   idle     blocked in network_receive()                                 *)
(*   called   at the switch of invoke(): to take the lock, then to work    *)
(*   forward  a writer that has seen that there is a next server           *)
(*   apply    a writer that has forwarded its message                      *)
(*   replace  in table_put, the old value freed                            *)
(*   keys     size known, keys to be listed                                *)
(*   entries  keys listed, values to be fetched one by one                 *)
(*   count, add   at stats->counter = stats->counter + 1: read, then write *)
(*   leave    at termina_ler() or termina_escrever()                       *)
(*   reply    back in client_handler(), to network_send() the message      *)
PC == {"idle", "called", "forward", "apply", "replace", "keys", "entries",
       "count", "add", "leave", "reply"}

table_size == Cardinality(Keys(table))

Init ==
    /\ LockInit
    /\ pc = [t \in Thread |-> "idle"]
    /\ msg = [t \in Thread |-> NoMsg]
    /\ table \in InitialTables
    /\ counter = 0
    /\ loaded = [t \in Thread |-> 0]
    /\ link \in {"none", "up"}
    /\ alive = TRUE
    /\ forwarded = table /\ halfway = {}
    /\ received = 0 /\ counted = 0 /\ written = 0

-----------------------------------------------------------------------------
(* Helpers: move the thread on, and what a step leaves alone.              *)

Goto(t, l) == pc' = [pc EXCEPT ![t] = l]
Becomes(t, m) == msg' = [msg EXCEPT ![t] = m]
KeepStats == UNCHANGED <<counter, loaded, counted, written>>
KeepLink == UNCHANGED chainVars
KeepRest == KeepStats /\ KeepLink /\ UNCHANGED received

(* The key a write changes where it is applied: none for a put of nothing. *)
Written(m) == IF m.op = "put" /\ m.val = NULL THEN {} ELSE {m.key}

(* A put that will not be applied, sent or not.                            *)
KeepUnapplied(t) ==
    /\ halfway' = halfway \cup Written(msg[t])
    /\ UNCHANGED <<link, alive, forwarded, received>> /\ KeepStats

At(t, l, ops) == pc[t] = l /\ msg[t].op \in ops
ReaderAt(t, l, ops) == At(t, l, ops) /\ phase[t] = "reading"
WriterAt(t, l, ops) == At(t, l, ops) /\ phase[t] = "writing"

(* invoke() returns while the thread is inside: the counters of the lock   *)
(* keep counting it.                                                       *)
AbandonAsReader(t) ==
    /\ Leave(t)
    /\ active_readers' = active_readers - 1
    /\ UNCHANGED <<waiting_writers, active_writers>>

Abandon(t) == Leave(t) /\ UNCHANGED counters

-----------------------------------------------------------------------------
(* client_handler(): a message arrives; an answer is sent.                 *)
Receive(t) ==
    /\ pc[t] = "idle"
    /\ received < MaxOps
    /\ \E r \in Requests : Becomes(t, Unpacked(r))
    /\ received' = received + 1
    /\ Goto(t, "called")
    /\ UNCHANGED <<lockVars, table>> /\ KeepStats /\ KeepLink

Reply(t) ==
    /\ pc[t] = "reply"
    /\ Becomes(t, NoMsg)
    /\ Goto(t, "idle")
    /\ UNCHANGED <<lockVars, table>> /\ KeepRest

(* The default case returns -1; client_handler() sends the message back.   *)
UnknownOp(t) ==
    /\ pc[t] = "called"
    /\ msg[t].op \notin ReaderOps \cup WriterOps
    /\ Goto(t, "reply")
    /\ UNCHANGED <<lockVars, msg, table>> /\ KeepRest

TakeLock(t) ==
    /\ \/ At(t, "called", ReaderOps) /\ comeca_ler(t)
       \/ At(t, "called", WriterOps) /\ comeca_escrever(t)
    /\ UNCHANGED skelVars

-----------------------------------------------------------------------------
(* The reading cases.                                                      *)

Stats(t) ==
    /\ ReaderAt(t, "called", {"stats"})
    /\ Becomes(t, [msg[t] EXCEPT !.st = "ok", !.n = counter])
    /\ Goto(t, "leave")
    /\ UNCHANGED <<lockVars, table>> /\ KeepRest

Size(t) ==
    /\ ReaderAt(t, "called", {"size"})
    /\ Becomes(t, [msg[t] EXCEPT !.st = "ok", !.n = table_size])
    /\ Goto(t, "count")
    /\ UNCHANGED <<lockVars, table>> /\ KeepRest

Get(t) ==
    /\ ReaderAt(t, "called", {"get"})
    /\ LET v == table[msg[t].key]
       IN  Becomes(t, [msg[t] EXCEPT !.st = IF v = NULL THEN "error" ELSE "ok",
                                     !.val = v])
    /\ Goto(t, "count")
    /\ UNCHANGED <<lockVars, table>> /\ KeepRest

(* table_get without memory for the copy of what it has found.             *)
GetErrors(t) ==
    /\ AllocMayFail
    /\ ReaderAt(t, "called", {"get"})
    /\ Becomes(t, [msg[t] EXCEPT !.st = "error", !.val = NULL])
    /\ Goto(t, "count")
    /\ UNCHANGED <<lockVars, table>> /\ KeepRest

(* GET without memory for the answer returns -1, still inside.             *)
GetFails(t) ==
    /\ AllocMayFail
    /\ ReaderAt(t, "called", {"get"})
    /\ table[msg[t].key] # NULL
    /\ Abandon(t)
    /\ Goto(t, "reply")
    /\ UNCHANGED <<msg, table>> /\ KeepRest

(* GETKEYS and GETTABLE ask for the size, then for the keys.  On an empty  *)
(* table GETTABLE breaks out of the switch before termina_ler().           *)
CountKeys(t) ==
    /\ ReaderAt(t, "called", {"getkeys", "gettable"})
    /\ Becomes(t, [msg[t] EXCEPT !.st = "ok", !.n = table_size])
    /\ IF msg[t].op = "gettable" /\ table_size = 0
         THEN Abandon(t) /\ Goto(t, "reply")
         ELSE Goto(t, "keys") /\ UNCHANGED lockVars
    /\ UNCHANGED table /\ KeepRest

ListKeys(t) ==
    /\ ReaderAt(t, "keys", {"getkeys", "gettable"})
    /\ Becomes(t, [msg[t] EXCEPT !.keys = Keys(table)])
    /\ Goto(t, IF msg[t].op = "getkeys" THEN "count" ELSE "entries")
    /\ UNCHANGED <<lockVars, table>> /\ KeepRest

(* GETKEYS without memory for the keys returns -1, still inside.  (So do   *)
(* later exits of GETKEYS and those of GETTABLE, but what they send back   *)
(* has pointers to freed or unwritten memory: undefined behaviour.)        *)
GetKeysFails(t) ==
    /\ AllocMayFail
    /\ ReaderAt(t, "keys", {"getkeys"})
    /\ table_size > 0
    /\ Becomes(t, [msg[t] EXCEPT !.st = "error", !.n = 0])
    /\ Abandon(t)
    /\ Goto(t, "reply")
    /\ UNCHANGED table /\ KeepRest

(* One turn of the loop of GETTABLE: table_get on the next key.            *)
FetchEntry(t) ==
    /\ ReaderAt(t, "entries", {"gettable"})
    /\ \E k \in msg[t].keys \ DOMAIN msg[t].entries :
         LET got == DOMAIN msg[t].entries \cup {k}
         IN  /\ Becomes(t, [msg[t] EXCEPT !.entries =
                     [j \in got |-> IF j = k THEN table[k]
                                             ELSE msg[t].entries[j]]])
             /\ Goto(t, IF got = msg[t].keys THEN "count" ELSE "entries")
    /\ UNCHANGED <<lockVars, table>> /\ KeepRest

-----------------------------------------------------------------------------
(* The writing cases.  The message goes to the next server first, and the  *)
(* operation goes on whatever becomes of it.                               *)

TestLink(t) ==
    /\ WriterAt(t, "called", WriterOps)
    /\ Goto(t, IF link = "none" THEN "apply" ELSE "forward")
    /\ UNCHANGED <<lockVars, msg, table>> /\ KeepRest

(* zk_send_msg() sends, or has no memory to do so, or what it writes is    *)
(* lost or goes elsewhere.                                                 *)
Forward(t) ==
    /\ WriterAt(t, "forward", WriterOps)
    /\ \/ /\ link = "up"
          /\ forwarded' = Effect(forwarded, msg[t])
          /\ halfway' = halfway \ Written(msg[t])
       \/ /\ link = "other" \/ AllocMayFail
          /\ halfway' = halfway \cup Written(msg[t])
          /\ UNCHANGED forwarded
    /\ Goto(t, "apply")
    /\ UNCHANGED <<lockVars, msg, table, link, alive, received>> /\ KeepStats

(* SIGPIPE, for which there is no handler, when the other end of a socket  *)
(* is closed: the next server's, or the client's that waited; a null       *)
(* pointer when next_server_in_chain has become NULL since its test.       *)
Killed(t) ==
    /\ pc[t] = "reply" \/ (pc[t] = "forward" /\ link \in {"other", "none"})
    /\ alive' = FALSE
    /\ UNCHANGED <<lockVars, pc, msg, table, link, forwarded, halfway, received>>
    /\ KeepStats

DelReportsAfter(t) ==
    /\ WriterAt(t, "apply", {"del"})
    /\ table' = [table EXCEPT ![msg[t].key] = NULL]
    /\ Becomes(t, Answer(table', msg[t]))
    /\ Goto(t, "count")
    /\ UNCHANGED lockVars /\ KeepRest

Del(t) ==
    /\ WriterAt(t, "apply", {"del"})
    /\ Becomes(t, Answer(table, msg[t]))
    /\ table' = [table EXCEPT ![msg[t].key] = NULL]
    /\ Goto(t, "count")
    /\ UNCHANGED lockVars /\ KeepRest

(* PUT with no entry, key or value, or without memory: -1, still inside.   *)
PutFailsAfterFree(t) ==
    /\ WriterAt(t, "apply", {"put"})
    /\ msg[t].val = NULL \/ AllocMayFail
    /\ table' = [table EXCEPT ![msg[t].key] = Freed]
    /\ Abandon(t)
    /\ Goto(t, "reply")
    /\ UNCHANGED msg /\ KeepUnapplied(t)

PutFails(t) ==
    /\ WriterAt(t, "apply", {"put"})
    /\ msg[t].val = NULL \/ AllocMayFail
    /\ Abandon(t)
    /\ Goto(t, "reply")
    /\ UNCHANGED <<msg, table>> /\ KeepUnapplied(t)

(* data_create or table_put fails: the answer is an error and the server   *)
(* goes on, although the message has been sent.                            *)
PutErrors(t) ==
    /\ AllocMayFail
    /\ WriterAt(t, "apply", {"put"})
    /\ msg[t].val # NULL
    /\ Becomes(t, [msg[t] EXCEPT !.st = "error"])
    /\ Goto(t, "count")
    /\ UNCHANGED <<lockVars, table>> /\ KeepUnapplied(t)

PutNew(t) ==
    /\ WriterAt(t, "apply", {"put"})
    /\ msg[t].val # NULL
    /\ table[msg[t].key] = NULL
    /\ table' = [table EXCEPT ![msg[t].key] = msg[t].val]
    /\ Becomes(t, [msg[t] EXCEPT !.st = "ok"])
    /\ Goto(t, "count")
    /\ UNCHANGED lockVars /\ KeepRest

PutFrees(t) ==
    /\ WriterAt(t, "apply", {"put"})
    /\ msg[t].val # NULL
    /\ table[msg[t].key] # NULL
    /\ table' = [table EXCEPT ![msg[t].key] = Freed]
    /\ Goto(t, "replace")
    /\ UNCHANGED <<lockVars, msg>> /\ KeepRest

PutStores(t) ==
    /\ WriterAt(t, "replace", {"put"})
    /\ table' = [table EXCEPT ![msg[t].key] = msg[t].val]
    /\ Becomes(t, [msg[t] EXCEPT !.st = "ok"])
    /\ Goto(t, "count")
    /\ UNCHANGED lockVars /\ KeepRest

-----------------------------------------------------------------------------
(* stats->counter = stats->counter + 1, then out of the lock.              *)

LoadCounter(t) ==
    /\ pc[t] = "count"
    /\ loaded' = [loaded EXCEPT ![t] = counter]
    /\ Goto(t, "add")
    /\ UNCHANGED <<lockVars, msg, table, counter, counted, written, received>>
    /\ KeepLink

StoreCounter(t) ==
    /\ pc[t] = "add"
    /\ counter' = loaded[t] + 1
    /\ counted' = counted + 1
    /\ written' = written + (IF phase[t] = "writing" THEN 1 ELSE 0)
    /\ Goto(t, "leave")
    /\ UNCHANGED <<lockVars, msg, table, loaded, received>> /\ KeepLink

ReleaseLock(t) ==
    /\ pc[t] = "leave"
    /\ termina_ler(t) \/ termina_escrever(t)
    /\ Goto(t, "reply")
    /\ UNCHANGED <<msg, table>> /\ KeepRest

(* The next server dies, or child_watcher() assigns next_server_in_chain:  *)
(* memory nobody has written, then NULL or a connection to another server. *)
SuccessorChanges ==
    /\ link' \in {"none", "other"} \ {link}
    /\ UNCHANGED <<lockVars, pc, msg, table, alive, forwarded, halfway, received>>
    /\ KeepStats

-----------------------------------------------------------------------------
Read(t) ==
    \/ Stats(t) \/ Size(t) \/ Get(t) \/ GetErrors(t) \/ GetFails(t)
    \/ CountKeys(t) \/ ListKeys(t) \/ GetKeysFails(t) \/ FetchEntry(t)

Write(t) ==
    \/ TestLink(t) \/ Forward(t) \/ Del(t) \/ PutFails(t) \/ PutErrors(t)
    \/ PutNew(t) \/ PutFrees(t) \/ PutStores(t)

Work(t) ==
    /\ alive
    /\ \/ UnknownOp(t) \/ TakeLock(t) \/ Read(t) \/ Write(t)
       \/ LoadCounter(t) \/ StoreCounter(t) \/ ReleaseLock(t)
       \/ Reply(t) \/ Killed(t)

Wake(t) == SpuriousWakeup(t) /\ UNCHANGED skelVars

Next ==
    /\ alive
    /\ \/ \E t \in Thread : Receive(t) \/ Work(t) \/ Wake(t)
       \/ SuccessorChanges

(* Threads are scheduled; clients need not ask, nor the chain change.      *)
Fairness == \A t \in Thread : WF_vars(Work(t))

Spec == Init /\ [][Next]_vars /\ Fairness

-----------------------------------------------------------------------------
(* Every thread is at a known place with a message of the right shape, and *)
(* no answer carries what was read through a freed value.                  *)
Gathered == UNION {[S -> Val] : S \in SUBSET Key}
Message == [op : OpCodes, key : Key \cup {NULL}, val : Val \cup {NULL},
            st : {"req", "ok", "error"}, n : Nat, keys : SUBSET Key,
            entries : Gathered]

TypeOK ==
    /\ LockTypeOK
    /\ pc \in [Thread -> PC]
    /\ msg \in [Thread -> Message]
    /\ table \in [Key -> Val \cup {NULL, Freed}]
    /\ forwarded \in [Key -> Val \cup {NULL}]
    /\ link \in {"none", "up", "other"}
    /\ alive \in BOOLEAN
    /\ halfway \subseteq Key
    /\ counter \in Nat /\ counted \in Nat /\ written \in Nat
    /\ loaded \in [Thread -> Nat]

(* How the place of a thread in invoke() goes with its place in the lock:  *)
(* it is inside exactly from the end of comeca_ to the start of termina_.  *)
(* Nothing of the answer is there before it is inside.                     *)
Placed ==
    \A t \in Thread :
        /\ msg[t].op \in {"get", "put", "del"} => msg[t].key \in Key
        /\ pc[t] \in {"idle", "reply"} => phase[t] = "out"
        /\ pc[t] = "called" => DOMAIN msg[t].entries = {}
        /\ pc[t] = "called" =>
               \/ phase[t] = "out"
               \/ msg[t].op \in ReaderOps
                     /\ phase[t] \in {"r_wait", "r_woken", "reading"}
               \/ msg[t].op \in WriterOps
                     /\ phase[t] \in {"w_wait", "w_woken", "writing"}
        /\ pc[t] \in {"keys", "entries"} =>
               msg[t].op \in {"getkeys", "gettable"} /\ phase[t] = "reading"
        /\ pc[t] \in {"forward", "apply"} =>
               msg[t].op \in WriterOps /\ phase[t] = "writing"
        /\ pc[t] = "replace" => /\ msg[t].op = "put" /\ msg[t].val # NULL
                                /\ phase[t] = "writing"
        /\ pc[t] \in {"count", "add", "leave"} =>
               \/ msg[t].op \in ReaderOps /\ phase[t] = "reading"
               \/ msg[t].op \in WriterOps /\ phase[t] = "writing"

(* A freed value is in the table only while a put replaces it.             *)
FreedInHand ==
    \A k \in Key : table[k] = Freed =>
        \E t \in Thread : pc[t] = "replace" /\ msg[t].key = k

(* GETKEYS and GETTABLE make several calls to table.c under one            *)
(* comeca_ler(): what they have gathered so far is what the table holds    *)
(* now, so size, keys and values belong to one table.                      *)
ReadersSeeOneTable ==
    \A t \in Readers : msg[t].op \in {"getkeys", "gettable"} =>
        /\ pc[t] \in {"keys", "entries", "count", "add", "leave"} =>
               msg[t].n = Cardinality(Keys(table))
        /\ pc[t] \in {"entries", "count", "add", "leave"} =>
               msg[t].keys = Keys(table)
        /\ \A k \in DOMAIN msg[t].entries : msg[t].entries[k] = table[k]

(* A write is sent to the next server before it is applied here, both      *)
(* under the lock: as long as the socket works, the writes sent amount to  *)
(* this server's table plus at most the write being applied, so the next   *)
(* server gets them in the order in which they happen here.                *)
InFlight == {t \in Thread : pc[t] \in {"apply", "replace"}}
ForwardedInOrder ==
    link = "up" =>
        /\ InFlight = {} => forwarded = table
        /\ \A t \in InFlight : forwarded = Effect(table, msg[t])

(* A write may fail on one of the two sides: zk_send_msg() has no memory   *)
(* to send it, or it is sent and the put then refused.  The server goes on *)
(* serving with a table that is not its successor's; but the two differ    *)
(* under no other key, and not under that one once a later write to it     *)
(* succeeds on both sides, however many writes and threads there are.      *)
DriftExplained ==
    link = "up" =>
        \A k \in Key \ halfway :
            /\ InFlight = {} => forwarded[k] = table[k]
            /\ \A t \in InFlight : forwarded[k] = Effect(table, msg[t])[k]

(* The operation counter is added to without the mutex, and readers may    *)
(* overwrite each other's additions, even with a smaller number.  What a   *)
(* writer adds is never lost: it is alone.                                 *)
CounterBounds == written <= counter /\ counter <= counted

(* client_handler() answers what it receives: a request that reached       *)
(* invoke() is followed by its answer, whatever the other clients ask,     *)
(* unless a signal ends the process first.                                 *)
InvokeReturns == \A t \in Thread : pc[t] = "called" ~> pc[t] = "idle" \/ ~alive

-----------------------------------------------------------------------------
(* The server implements AtomicTable.  A request is served at the last     *)
(* access to the table that its answer needs, a put at its first change.   *)

Served == {"replace", "count", "add", "leave", "reply"}

Turn == [t \in Thread |-> IF pc[t] = "idle" THEN "idle"
                          ELSE IF pc[t] \in Served THEN "served"
                          ELSE "pending"]

(* The value a put is about to store is there from its first change on.    *)
Replacing(k) == {t \in Thread : pc[t] = "replace" /\ msg[t].key = k}
Logical ==
    [k \in Key |-> IF table[k] = Freed /\ Replacing(k) # {}
                   THEN msg[CHOOSE t \in Replacing(k) : TRUE].val
                   ELSE table[k]]

(* The answer takes shape in the request; it is visible once served.       *)
Visible ==
    [t \in Thread |->
        CASE pc[t] = "replace" -> [msg[t] EXCEPT !.st = "ok"]
          [] msg[t].op = "stats" -> [msg[t] EXCEPT !.n = 0]
          [] Turn[t] = "pending" -> [msg[t] EXCEPT !.st = "req", !.n = 0,
                 !.keys = {}, !.entries = NoEntries]
          [] OTHER -> msg[t]]

Service == INSTANCE AtomicTable WITH
    store <- Logical, msg <- Visible, turn <- Turn, MayRefuse <- AllocMayFail

(* Every step of the server is a step of the atomic service or none.       *)
ImplementsAtomicTable == Service!Spec
=============================================================================
