----------------------------- MODULE AtomicTable -----------------------------
(***************************************************************************)
(* What one server promises its clients: each request is served at one     *)
(* instant between its arrival and its answer, as if it had the table to   *)
(* itself.  TableSkel implements this module.                              *)
(***************************************************************************)
EXTENDS TableOps

CONSTANTS Thread,             \* the client_handler threads of one server
          Requests,           \* what clients ask: records [op, key, val]
          InitialTables,      \* what connect_predecessor_server may have put
          MayRefuse           \* may a well-formed request be refused?

VARIABLES store,              \* the table
          msg,                \* per thread, the message being handled
          turn                \* per thread: "idle", "pending" or "served"

vars == <<store, msg, turn>>

(* Requests invoke() may turn down with -1: the message is sent back as it *)
(* came.                                                                   *)
Refusable(m) ==
    \/ m.op \notin ReaderOps \cup WriterOps
    \/ m.op = "put" /\ m.val = NULL
    \/ MayRefuse /\ m.op \in {"get", "put"}

Init ==
    /\ store \in InitialTables
    /\ msg = [t \in Thread |-> NoMsg]
    /\ turn = [t \in Thread |-> "idle"]

Receive(t) ==
    /\ turn[t] = "idle"
    /\ \E r \in Requests : msg' = [msg EXCEPT ![t] = Unpacked(r)]
    /\ turn' = [turn EXCEPT ![t] = "pending"]
    /\ UNCHANGED store

Serve(t) ==
    /\ turn[t] = "pending"
    /\ msg[t].op \in ReaderOps \cup WriterOps
    /\ msg[t].op = "put" => msg[t].val # NULL
    /\ msg' = [msg EXCEPT ![t] = Answer(store, msg[t])]
    /\ store' = Effect(store, msg[t])
    /\ turn' = [turn EXCEPT ![t] = "served"]

Refuse(t) ==
    /\ turn[t] = "pending"
    /\ Refusable(msg[t])
    /\ turn' = [turn EXCEPT ![t] = "served"]
    /\ UNCHANGED <<store, msg>>

(* An error is answered and nothing is changed.                            *)
Fail(t) ==
    /\ MayRefuse
    /\ turn[t] = "pending"
    /\ msg[t].op \in {"get", "put", "getkeys"}
    /\ turn' = [turn EXCEPT ![t] = "served"]
    /\ LET v == IF msg[t].op = "get" THEN NULL ELSE msg[t].val
       IN  msg' = [msg EXCEPT ![t] = [msg[t] EXCEPT !.st = "error", !.val = v]]
    /\ UNCHANGED store

Respond(t) ==
    /\ turn[t] = "served"
    /\ turn' = [turn EXCEPT ![t] = "idle"]
    /\ msg' = [msg EXCEPT ![t] = NoMsg]
    /\ UNCHANGED store

Next == \E t \in Thread :
    Receive(t) \/ Serve(t) \/ Refuse(t) \/ Fail(t) \/ Respond(t)

Spec == Init /\ [][Next]_vars
=============================================================================
