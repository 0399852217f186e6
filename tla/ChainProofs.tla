---------------------------- MODULE ChainProofs -----------------------------
(***************************************************************************)
(* Theorems about Chain, for any number of servers, keys, writes, crashes  *)
(* and sessions that end, whether or not calls to ZooKeeper fail and       *)
(* whatever the order in which it lists the children.                      *)
(*                                                                         *)
(* The invariant says per server what it has to remember of the chain: a   *)
(* server that has listed the children will hear of any change (Notified), *)
(* what ZooKeeper's thread has chosen is still there or an event is on its *)
(* way (WatcherChoice), and a connection to a server without a node is one *)
(* that something under way will replace (Replaced).                       *)
(***************************************************************************)
EXTENDS Chain, NatMinimum, FiniteSetTheorems, SequenceTheorems

Types ==
    /\ proc \in [Server -> Starting \cup {"off", "running", "dead"}]
    /\ chain \in BOOLEAN /\ children \subseteq Server
    /\ id \in [Server -> Nat]
    /\ watch \in [Server -> BOOLEAN] /\ event \in [Server -> BOOLEAN]
    /\ finding \in [Server -> [Caller -> {Idle} \cup [at : {"get", "connect"}, path : Server]]]
    /\ next_server \in [Server -> Server \cup {NULL}]
    /\ next_in_chain \in [Server -> Nat \cup {NULL, UNSET}]
    /\ links \in [Server -> Seq(Link)]
    /\ \A s \in Server : next_in_chain[s] \in {NULL, UNSET} \cup DOMAIN links[s]
    /\ pred \in [Server -> Server \cup {NULL}]
    /\ copy \in [Server -> SUBSET Key]
    /\ table \in [Server -> SUBSET Key]
    /\ writing \in [Server -> Message \cup {NULL}]
    /\ lock \in [Server -> {"free", "leaked", "stuck"}]
    /\ written \in 0 .. MaxWrites /\ crashes \in 0 .. MaxCrashes /\ ended \in 0 .. MaxCrashes
    /\ seen \in [Server -> (SUBSET Server) \cup {NULL}]

(* A server without a number has done nothing in the chain.                *)
Enrolled(s) ==
    /\ proc[s] \in {"off", "create_chain", "create_node"} => id[s] = 0
    /\ proc[s] \in {"predecessor", "gettable", "size", "next", "running"} => id[s] # 0
    /\ id[s] = 0 => /\ s \notin children /\ seen[s] = {} /\ links[s] = <<>>
                    /\ next_server[s] = NULL /\ next_in_chain[s] = NULL
                    /\ ~watch[s] /\ ~event[s]
                    /\ \A c \in Caller : finding[s][c] = Idle
    /\ proc[s] \in {"gettable", "size"} => pred[s] \in Server

(* Numbers are given one after the other.                                  *)
Enlisted == {s \in Server : id[s] # 0}
Numbered == \A s \in Server : id[s] <= Cardinality(Enlisted)

Forward(s) ==
    /\ \A i \in DOMAIN links[s] : id[links[s][i].to] > id[s]
    /\ next_server[s] # NULL => id[next_server[s]] > id[s]

Choice(s, c) ==
    finding[s][c] # Idle =>
        /\ seen[s] # {}
        /\ \/ finding[s][c].path = s /\ finding[s][c].at = "get"
           \/ id[finding[s][c].path] > id[s]

HasListed(s) == proc[s] = "running" \/ next_in_chain[s] # NULL => seen[s] # {}

Member(s) == s \in children /\ s \in Alive

(* While the last list is out of date the event is on its way.             *)
Notified(s) ==
    Member(s) /\ seen[s] \notin {{}, NULL} =>
        event[s] \/ (watch[s] /\ seen[s] = children)

WatcherChoice(s) ==
    Member(s) /\ finding[s]["watcher"] # Idle =>
        /\ seen[s] # NULL
        /\ \/ event[s]
           \/ finding[s]["watcher"].path = s /\ Later(s) = {}
           \/ finding[s]["watcher"].path # s /\ finding[s]["watcher"].path \in children

NobodyExpelled == ended = 0 => \A s \in Alive : id[s] # 0 => s \in children

Replaced(s) ==
    Member(s) /\ ended = 0 /\ Successor(s) \notin children \cup {NULL} =>
        \/ event[s] \/ seen[s] = NULL \/ Later(s) = {}
        \/ finding[s]["watcher"] # Idle
        \/ finding[s]["main"] # Idle /\ finding[s]["main"].path # s

Follows(s) ==
    /\ Forward(s) /\ HasListed(s) /\ Notified(s) /\ WatcherChoice(s) /\ Replaced(s)
    /\ \A c \in Caller : Choice(s, c)

ChainInv ==
    /\ Types /\ Numbered /\ NobodyExpelled
    /\ \A s \in Server : Enrolled(s) /\ Follows(s)

(* What the connections of two states have in common when only what is on  *)
(* its way on them differs.                                                *)
SameEnds(to, from) ==
    \A s \in Server : /\ DOMAIN to[s] = DOMAIN from[s]
                      /\ \A i \in DOMAIN from[s] : to[s][i].to = from[s][i].to

-----------------------------------------------------------------------------
(* The operators of the module.                                            *)

LEMMA EnlistedFinite ==
    /\ IsFiniteSet(Enlisted) /\ Cardinality(Enlisted) \in Nat
    /\ Cardinality(Enlisted) <= Cardinality(Server) /\ Cardinality(Server) \in Nat
<1>1. Enlisted \in SUBSET Server
  BY DEF Enlisted
<1>. QED  BY <1>1, FiniteAssumption, FS_Subset, FS_CardinalityType

LEMMA LastIsOne ==
    ASSUME Types, Numbered, NEW S \in SUBSET Server, S # {}
    PROVE  Last(S) \in S
<1>1. id \in [Server -> Nat] /\ \A s \in S : id[s] <= Cardinality(Enlisted)
  BY DEF Types, Numbered
<1>2. \E s \in S : \A t \in S : id[s] >= id[t]
  BY <1>1, GreatestValue, EnlistedFinite, Zenon
<1>. QED  BY <1>2, Zenon DEF Last

(* The number of a new child is above all there are.                       *)
LEMMA NextNumber ==
    ASSUME Types, Numbered, Server # {}
    PROVE  LET n == 1 + Max({id[t] : t \in Server})
           IN  /\ n \in Nat /\ n # 0 /\ n <= Cardinality(Enlisted) + 1
               /\ \A t \in Server : n > id[t]
<1> DEFINE m == Max({id[t] : t \in Server})
<1>0. /\ id \in [Server -> Nat] /\ Cardinality(Enlisted) \in Nat
      /\ \A t \in Server : id[t] <= Cardinality(Enlisted)
  BY EnlistedFinite DEF Types, Numbered
<1>1. m \in Nat /\ m <= Cardinality(Enlisted) /\ \A t \in Server : m >= id[t]
  BY <1>0, MaxValue, Zenon
<1> HIDE DEF m
<1>2. /\ 1 + m \in Nat /\ 1 + m # 0 /\ 1 + m <= Cardinality(Enlisted) + 1
      /\ \A t \in Server : 1 + m > id[t]
  BY <1>1, EnlistedFinite DEF Types
<1>. QED  BY <1>2 DEF m

(* Whatever its order, the list gives a later server when there is one.    *)
LEMMA CandidatesFollow ==
    ASSUME Types, NEW s \in Server, NEW t \in Candidates(s)
    PROVE  /\ t \in Server
           /\ \/ t = s /\ Later(s) = {}
              \/ t # s /\ t \in children /\ id[t] > id[s]
<1>1. Later(s) \in SUBSET Server
  BY DEF Later, Types
<1>3. Later(s) # {} => t \in Later(s)
  BY DEF Candidates
<1>4. CASE Later(s) = {}
  BY <1>4 DEF Candidates
<1>5. CASE Later(s) # {}
  BY <1>3, <1>5 DEF Later, Types
<1>. QED  BY <1>4, <1>5

LEMMA EndsAreServers ==
    ASSUME Types, NEW s \in Server, NEW i \in DOMAIN links[s]
    PROVE  links[s][i].to \in Server
<1>1. links[s] \in Seq(Link)
  BY DEF Types
<1>2. links[s][i] \in Link
  BY <1>1, ElementOfSeq, LenProperties
<1>. QED  BY <1>2 DEF Link

(* A connection with other writes on it, or closed, keeps its ends.        *)
LEMMA LinkKeepsEnds ==
    ASSUME Types, NEW s \in Server, NEW i \in DOMAIN links[s],
           NEW l \in Link, l.to = links[s][i].to
    PROVE  LET out == [links EXCEPT ![s][i] = l]
           IN  out \in [Server -> Seq(Link)] /\ SameEnds(out, links)
<1> DEFINE q == [links[s] EXCEPT ![i] = l]
           out == [links EXCEPT ![s] = q]
<1>1. links \in [Server -> Seq(Link)] /\ links[s] \in Seq(Link)
  BY DEF Types
<1>2. q \in Seq(Link) /\ DOMAIN q = DOMAIN links[s]
  BY <1>1, ExceptSeq, LenProperties
<1>3. \A j \in DOMAIN links[s] : q[j].to = links[s][j].to
  OBVIOUS
<1> HIDE DEF q
<1>4. out \in [Server -> Seq(Link)]
  BY <1>1, <1>2
<1>5. SameEnds(out, links)
  BY <1>1, <1>2, <1>3 DEF SameEnds
<1>6. out = [links EXCEPT ![s][i] = l]
  BY DEF q
<1>. QED  BY <1>4, <1>5, <1>6

-----------------------------------------------------------------------------
(* Steps that leave the chain as the servers know it: nobody becomes       *)
(* alive who has a number, and no connection changes its ends.             *)
Steady ==
    /\ UNCHANGED <<children, id, event, finding, next_server, next_in_chain, seen, ended>>
    /\ \A s \in Server :
          /\ watch[s] => watch'[s]
          /\ \/ proc'[s] = proc[s]
             \/ proc'[s] = "dead"
             \/ proc'[s] # "running" /\ (s \in Alive \/ id[s] = 0)
    /\ SameEnds(links', links)

LEMMA SteadyKeeps ==
    ASSUME ChainInv, Types', Steady
    PROVE  /\ Numbered' /\ NobodyExpelled'
           /\ \A s \in Server : Follows(s)'
<1> USE DEF ChainInv, Steady
<1>1. Numbered'
  <2>1. Enlisted' = Enlisted
    BY DEF Enlisted
  <2>. QED  BY <2>1 DEF Numbered
<1>2. ASSUME NEW s \in Server, id[s] # 0, s \in Alive'
      PROVE  s \in Alive
  <2>1. proc'[s] \in Starting \cup {"running"}
    BY <1>2 DEF Alive
  <2>2. proc'[s] # "dead"
    BY <2>1 DEF Starting
  <2>. QED  BY <1>2, <2>1, <2>2 DEF Alive
<1>3. NobodyExpelled'
  BY <1>2 DEF NobodyExpelled, Alive
<1>4. ASSUME NEW s \in Server PROVE Follows(s)'
  <2>1. Follows(s) /\ Enrolled(s)
    OBVIOUS
  <2>2. Later(s)' = Later(s)
    BY DEF Later
  <2>3. Member(s)' => Member(s)
    BY <1>2, <2>1 DEF Member, Enrolled
  <2>4. Successor(s)' = Successor(s)
    BY DEF Successor, SameEnds, Types
  <2>5. \A c \in Caller : Choice(s, c)'
    BY <2>1 DEF Follows, Choice
  <2>6. Forward(s)'
    BY <2>1 DEF Follows, Forward, SameEnds
  <2>7. HasListed(s)'
    BY <2>1 DEF Follows, HasListed
  <2>8. Notified(s)'
    BY <2>1, <2>3 DEF Follows, Notified
  <2>9. WatcherChoice(s)'
    BY <2>1, <2>2, <2>3 DEF Follows, WatcherChoice
  <2>10. Replaced(s)'
    BY <2>1, <2>2, <2>3, <2>4 DEF Follows, Replaced
  <2>. QED  BY <2>5, <2>6, <2>7, <2>8, <2>9, <2>10 DEF Follows
<1>. QED  BY <1>1, <1>3, <1>4

(* The death of a process, when it is noticed in its own code.             *)
LEMMA DiesInv ==
    ASSUME ChainInv, NEW s \in Server, Dies(s), UNCHANGED <<zk, links, lock, written>>,
           crashes' \in 0 .. MaxCrashes, ended' = ended
    PROVE  ChainInv'
<1> USE DEF ChainInv, Dies, Goes, zk
<1>1. Types'
  <2>2. finding' \in [Server -> [Caller -> {Idle} \cup [at : {"get", "connect"}, path : Server]]]
    BY DEF Types
  <2>. QED  BY <2>2 DEF Types
<1>2. Numbered'
  <2>1. Enlisted' = Enlisted
    BY DEF Enlisted
  <2>. QED  BY <2>1 DEF Numbered
<1>3. s \notin Alive' /\ \A t \in Server \ {s} : t \in Alive' <=> t \in Alive
  BY DEF Alive, Types, Starting
<1>4. NobodyExpelled'
  BY <1>3 DEF NobodyExpelled, Alive
<1>5. ASSUME NEW t \in Server PROVE Enrolled(t)' /\ Follows(t)'
  <2>1. Follows(t) /\ Enrolled(t)
    OBVIOUS
  <2>2. CASE t = s
    <3>1. Enrolled(t)'
      BY <2>1, <2>2 DEF Enrolled, Types
    <3>2. Forward(t)'
      BY <2>1, <2>2 DEF Follows, Forward, Types
    <3>3. HasListed(t)' /\ \A c \in Caller : Choice(t, c)'
      BY <2>2 DEF HasListed, Choice, Types
    <3>4. ~Member(t)'
      BY <1>3, <2>2 DEF Member
    <3>. QED  BY <3>1, <3>2, <3>3, <3>4 DEF Follows, Notified, WatcherChoice, Replaced
  <2>3. CASE t # s
    <3>1. /\ proc'[t] = proc[t] /\ watch'[t] = watch[t] /\ event'[t] = event[t]
          /\ finding'[t] = finding[t] /\ next_server'[t] = next_server[t]
          /\ next_in_chain'[t] = next_in_chain[t] /\ pred'[t] = pred[t]
          /\ seen'[t] = seen[t]
      BY <2>3 DEF Types
    <3>2. Member(t)' => Member(t)
      BY <1>3, <2>3 DEF Member
    <3>3. Later(t)' = Later(t) /\ Successor(t)' = Successor(t)
      BY <3>1 DEF Later, Successor
    <3> HIDE DEF Dies, ChainInv
    <3>4. Enrolled(t)'
      BY <2>1, <3>1 DEF Enrolled, zk
    <3>5. Forward(t)' /\ HasListed(t)' /\ \A c \in Caller : Choice(t, c)'
      BY <2>1, <3>1 DEF Follows, Forward, HasListed, Choice
    <3>6. Notified(t)'
      BY <2>1, <3>1, <3>2 DEF Follows, Notified
    <3>7. WatcherChoice(t)'
      BY <2>1, <3>1, <3>2, <3>3 DEF Follows, WatcherChoice
    <3>8. Replaced(t)'
      BY <2>1, <3>1, <3>2, <3>3 DEF Follows, Replaced
    <3>. QED  BY <3>4, <3>5, <3>6, <3>7, <3>8 DEF Follows
  <2>. QED  BY <2>2, <2>3
<1>. QED  BY <1>1, <1>2, <1>4, <1>5

LEMMA SteadyInv ==
    ASSUME ChainInv, Types', Steady, \A s \in Server : Enrolled(s)'
    PROVE  ChainInv'
  BY SteadyKeeps DEF ChainInv

-----------------------------------------------------------------------------
(* The start of a server.                                                  *)

LEMMA StartInv ==
    ASSUME ChainInv, NEW s \in Server, Start(s)
    PROVE  ChainInv'
<1> USE DEF Start, Goes, zk, watches, forward, copying, store, counts
<1>1. Types'
  BY DEF ChainInv, Types, Starting
<1>2. Steady
  BY DEF Steady, SameEnds, ChainInv, Types, Enrolled
<1>3. \A t \in Server : Enrolled(t)'
  BY DEF ChainInv, Types, Enrolled
<1>. QED  BY <1>1, <1>2, <1>3, SteadyInv

LEMMA CreateChainInv ==
    ASSUME ChainInv, NEW s \in Server, CreateChain(s)
    PROVE  ChainInv'
<1> USE DEF CreateChain, Goes, watches, forward, copying, store, counts
<1>1. Types'
  BY DEF ChainInv, Types, Starting
<1>2. Steady
  BY DEF Steady, SameEnds, ChainInv, Types, Enrolled
<1>3. \A t \in Server : Enrolled(t)'
  BY DEF ChainInv, Types, Enrolled
<1>. QED  BY <1>1, <1>2, <1>3, SteadyInv

LEMMA FindPredecessorInv ==
    ASSUME ChainInv, NEW s \in Server, FindPredecessor(s)
    PROVE  ChainInv'
<1> USE DEF FindPredecessor, Goes, zk, forward, store, counts
<1>1. Earlier(s) \in SUBSET Server
  BY DEF Earlier, ChainInv, Types
<1>2. Earlier(s) # {} => Last(Earlier(s)) \in Server
  BY <1>1, LastIsOne DEF ChainInv
<1>3. Types'
  <2>1. pred' \in [Server -> Server \cup {NULL}]
    BY <1>2 DEF ChainInv, Types
  <2>2. proc' \in [Server -> Starting \cup {"off", "running", "dead"}]
    <3>1. \E w \in {"next", "gettable"} : proc' = [proc EXCEPT ![s] = w]
      OBVIOUS
    <3>2. {"next", "gettable"} \subseteq Starting
      BY DEF Starting
    <3>. QED  BY <3>1, <3>2 DEF ChainInv, Types
  <2>. QED  BY <2>1, <2>2 DEF ChainInv, Types
<1>4. Steady
  <2>1. s \in Alive
    BY DEF Alive, Starting
  <2>2. \A t \in Server : proc'[t] = proc[t] \/ (proc'[t] # "running" /\ t \in Alive)
    BY <2>1 DEF ChainInv, Types
  <2>3. \A t \in Server : watch[t] => watch'[t]
    BY DEF ChainInv, Types
  <2>. QED  BY <2>2, <2>3 DEF Steady, SameEnds
<1>5. ASSUME NEW t \in Server PROVE Enrolled(t)'
  <2>1. Enrolled(t) /\ Enrolled(s)
    BY DEF ChainInv
  <2>2. CASE t # s
    BY <2>1, <2>2 DEF ChainInv, Types, Enrolled
  <2>3. CASE t = s
    <3>1. id'[s] # 0 /\ proc'[s] \in {"next", "gettable"}
      BY <2>1 DEF ChainInv, Types, Enrolled
    <3>2. proc'[s] = "gettable" => pred'[s] \in Server
      BY <1>2 DEF ChainInv, Types
    <3>. QED  BY <2>3, <3>1, <3>2 DEF Enrolled
  <2>. QED  BY <2>2, <2>3
<1>. QED  BY <1>3, <1>4, <1>5, SteadyInv

LEMMA PredecessorLostInv ==
    ASSUME ChainInv, NEW s \in Server, PredecessorLost(s)
    PROVE  ChainInv'
<1>1. crashes' \in 0 .. MaxCrashes /\ ended' = ended /\ written' = written
  BY DEF PredecessorLost, counts, ChainInv, Types
<1>. QED  BY <1>1, DiesInv DEF PredecessorLost

LEMMA CallFailsInv ==
    ASSUME ChainInv, NEW s \in Server, CallFails(s)
    PROVE  ChainInv'
<1>1. crashes' \in 0 .. MaxCrashes /\ ended' = ended /\ written' = written
  BY DEF CallFails, counts, ChainInv, Types
<1>. QED  BY <1>1, DiesInv DEF CallFails

LEMMA CrashInv ==
    ASSUME ChainInv, NEW s \in Server, Crash(s)
    PROVE  ChainInv'
<1>1. crashes' \in 0 .. MaxCrashes
  BY BoundAssumption DEF Crash, ChainInv, Types
<1>. QED  BY <1>1, DiesInv DEF Crash

LEMMA GetTableInv ==
    ASSUME ChainInv, NEW s \in Server, GetTable(s)
    PROVE  ChainInv'
<1> USE DEF GetTable, Goes, zk, watches, forward, store, counts
<1>1. pred[s] \in Server
  BY DEF ChainInv, Enrolled
<1>2. Types'
  <2>1. lock' \in [Server -> {"free", "leaked", "stuck"}]
    BY DEF ChainInv, Types
  <2>2. proc' \in [Server -> Starting \cup {"off", "running", "dead"}]
    BY DEF ChainInv, Types, Starting
  <2>3. copy' \in [Server -> SUBSET Key]
    BY <1>1 DEF ChainInv, Types
  <2>. QED  BY <2>1, <2>2, <2>3 DEF ChainInv, Types
<1>3. Steady
  BY DEF Steady, SameEnds, ChainInv, Types, Alive, Starting
<1>4. \A t \in Server : Enrolled(t)'
  BY DEF ChainInv, Types, Enrolled
<1>. QED  BY <1>2, <1>3, <1>4, SteadyInv

LEMMA CopyInv ==
    ASSUME ChainInv, NEW s \in Server, Copy(s)
    PROVE  ChainInv'
<1>1. CASE Dies(s)
  BY <1>1, DiesInv DEF Copy, counts, ChainInv, Types
<1>2. CASE ~Dies(s)
  <2>1. /\ proc[s] = "size"
        /\ Goes(s, "next")
        /\ \E put \in SUBSET Key : table' = [table EXCEPT ![s] = put]
        /\ pred' = [pred EXCEPT ![s] = NULL] /\ copy' = [copy EXCEPT ![s] = {}]
        /\ UNCHANGED <<watches, finding, forward, writing, seen, zk, links, lock, counts>>
    <3>1. PICK put \in SUBSET copy[s] :
              /\ Goes(s, "next")
              /\ table' = [table EXCEPT ![s] = put]
              /\ pred' = [pred EXCEPT ![s] = NULL] /\ copy' = [copy EXCEPT ![s] = {}]
              /\ UNCHANGED <<watches, finding, forward, writing, seen>>
      BY <1>2 DEF Copy, CopyEntries, kSubset
    <3>2. put \in SUBSET Key
      BY DEF ChainInv, Types
    <3>. QED  BY <3>1, <3>2 DEF Copy
  <2> USE <2>1 DEF Goes, zk, watches, forward, counts
  <2>2. Types'
    <3>1. copy' \in [Server -> SUBSET Key] /\ table' \in [Server -> SUBSET Key]
      BY DEF ChainInv, Types
    <3>2. proc' \in [Server -> Starting \cup {"off", "running", "dead"}]
      BY DEF ChainInv, Types, Starting
    <3>. QED  BY <3>1, <3>2 DEF ChainInv, Types
  <2>3. Steady
    BY DEF Steady, SameEnds, ChainInv, Types, Alive, Starting
  <2>4. \A t \in Server : Enrolled(t)'
    BY DEF ChainInv, Types, Enrolled
  <2>. QED  BY <2>2, <2>3, <2>4, SteadyInv
<1>. QED  BY <1>1, <1>2

-----------------------------------------------------------------------------
(* Writes.                                                                 *)

(* A step of the writes changes only what is in a table, or held, or on    *)
(* its way on a connection.                                                *)
LEMMA WritesInv ==
    ASSUME ChainInv,
           UNCHANGED <<proc, zk, watches, finding, forward, copying, crashes, ended, seen>>,
           links' \in [Server -> Seq(Link)], SameEnds(links', links),
           table' \in [Server -> SUBSET Key],
           writing' \in [Server -> Message \cup {NULL}],
           lock' \in [Server -> {"free", "leaked", "stuck"}],
           written' \in 0 .. MaxWrites
    PROVE  ChainInv'
<1> USE DEF zk, watches, forward, copying
<1>1. Types'
  <2>1. \A t \in Server : next_in_chain[t] \in {NULL, UNSET} \cup DOMAIN links'[t]
    BY DEF ChainInv, Types, SameEnds
  <2>. QED  BY <2>1 DEF ChainInv, Types
<1>2. Steady
  BY DEF Steady
<1>3. ASSUME NEW t \in Server PROVE Enrolled(t)'
  <2>1. Enrolled(t)
    BY DEF ChainInv
  <2>2. links[t] = <<>> => links'[t] = <<>>
    <3>1. DOMAIN links'[t] = DOMAIN links[t] /\ links'[t] \in Seq(Link) /\ links[t] \in Seq(Link)
      BY DEF SameEnds, ChainInv, Types
    <3>2. Len(links'[t]) = Len(links[t])
      BY <3>1, LenProperties
    <3>. QED  BY <3>1, <3>2, EmptySeq
  <2>. QED  BY <2>1, <2>2 DEF Enrolled
<1>. QED  BY <1>1, <1>2, <1>3, SteadyInv

LEMMA ApplyTypes ==
    ASSUME ChainInv, NEW s \in Server, NEW m \in Message, Apply(s, m)
    PROVE  table' \in [Server -> SUBSET Key]
<1>1. m.key \in Key /\ table \in [Server -> SUBSET Key]
  BY DEF Message, ChainInv, Types
<1>2. \/ table' = [table EXCEPT ![s] = table[s] \cup {m.key}]
      \/ table' = [table EXCEPT ![s] = table[s] \ {m.key}]
  BY DEF Apply
<1>. QED  BY <1>1, <1>2

LEMMA WriteTypes ==
    ASSUME ChainInv, NEW s \in Server, NEW m \in Message, Write(s, m)
    PROVE  /\ table' \in [Server -> SUBSET Key]
           /\ writing' \in [Server -> Message \cup {NULL}]
           /\ lock' \in [Server -> {"free", "leaked", "stuck"}]
<1>1. /\ table \in [Server -> SUBSET Key] /\ writing \in [Server -> Message \cup {NULL}]
      /\ lock \in [Server -> {"free", "leaked", "stuck"}]
  BY DEF ChainInv, Types
<1>2. \/ Apply(s, m) /\ UNCHANGED <<writing, lock>>
      \/ writing' = [writing EXCEPT ![s] = m] /\ UNCHANGED <<table, lock>>
      \/ lock' = [lock EXCEPT ![s] = "stuck"] /\ UNCHANGED <<table, writing>>
  BY DEF Write, store
<1>3. CASE Apply(s, m) /\ UNCHANGED <<writing, lock>>
  BY <1>1, <1>3, ApplyTypes
<1>4. CASE writing' = [writing EXCEPT ![s] = m] /\ UNCHANGED <<table, lock>>
  BY <1>1, <1>4
<1>5. CASE lock' = [lock EXCEPT ![s] = "stuck"] /\ UNCHANGED <<table, writing>>
  BY <1>1, <1>5
<1>. QED  BY <1>2, <1>3, <1>4, <1>5

LEMMA SameLinks == ChainInv => links \in [Server -> Seq(Link)] /\ SameEnds(links, links)
  BY DEF ChainInv, Types, SameEnds

LEMMA ClientWriteInv ==
    ASSUME ChainInv, NEW s \in Server, NEW k \in Key, ClientWrite(s, k)
    PROVE  ChainInv'
<1>1. PICK op \in {"put", "del"} : Write(s, [op |-> op, key |-> k])
  BY DEF ClientWrite
<1>2. [op |-> op, key |-> k] \in Message /\ written' \in 0 .. MaxWrites
  BY BoundAssumption DEF ClientWrite, ChainInv, Types, Message
<1>3. /\ UNCHANGED <<proc, zk, watches, finding, forward, copying, crashes, ended, seen>>
      /\ links' = links
  BY DEF ClientWrite
<1>. QED  BY <1>1, <1>2, <1>3, WriteTypes, SameLinks, WritesInv

LEMMA PassedOnInv ==
    ASSUME ChainInv, NEW s \in Server, PassedOn(s)
    PROVE  ChainInv'
<1> DEFINE m == writing[s]
           i == next_in_chain[s]
           l == [links[s][i] EXCEPT !.sent = links[s][i].sent \cup {m}]
<1>1. m \in Message
  BY DEF PassedOn, ChainInv, Types
<1>2. table' \in [Server -> SUBSET Key]
  BY <1>1, ApplyTypes DEF PassedOn
<1>3. links' \in [Server -> Seq(Link)] /\ SameEnds(links', links)
  <2>1. CASE links' = links
    BY <2>1, SameLinks
  <2>2. CASE links' # links
    <3>1. i \in Nat /\ links' = [links EXCEPT ![s][i].sent = @ \cup {m}]
      BY <2>2, Zenon DEF PassedOn, Linked
    <3>2. i \in DOMAIN links[s] /\ Types
      BY <3>1, NullAssumption DEF ChainInv, Types
    <3>3. links[s][i] \in Link
      BY <3>2, ElementOfSeq, LenProperties DEF Types
    <3>4. l \in Link /\ l.to = links[s][i].to
      BY <1>1, <3>3 DEF Link
    <3>5. links' = [links EXCEPT ![s][i] = l]
      BY <3>1
    <3> HIDE DEF l, i
    <3>. QED  BY <3>2, <3>4, <3>5, LinkKeepsEnds
  <2>. QED  BY <2>1, <2>2
<1>4. writing' \in [Server -> Message \cup {NULL}]
  BY DEF PassedOn, ChainInv, Types
<1>5. /\ UNCHANGED <<proc, zk, watches, finding, forward, copying, crashes, ended, seen>>
      /\ lock' \in [Server -> {"free", "leaked", "stuck"}] /\ written' \in 0 .. MaxWrites
  BY DEF PassedOn, counts, ChainInv, Types
<1>. QED  BY <1>2, <1>3, <1>4, <1>5, WritesInv

LEMMA PassOnInv ==
    ASSUME ChainInv, NEW s \in Server, PassOn(s)
    PROVE  ChainInv'
<1>1. CASE PassedOn(s)
  BY <1>1, PassedOnInv
<1>2. CASE DiesPassingOn(s)
  <2>1. crashes' \in 0 .. MaxCrashes /\ ended' = ended /\ written' = written
    BY <1>2 DEF DiesPassingOn, counts, ChainInv, Types
  <2>. QED  BY <1>2, <2>1, DiesInv DEF DiesPassingOn
<1>. QED  BY <1>1, <1>2 DEF PassOn

LEMMA MisreadInv ==
    ASSUME ChainInv, NEW s \in Server, NEW t \in Server, NEW i \in DOMAIN links[t],
           Misread(s, t, i)
    PROVE  ChainInv'
<1> DEFINE shut == [links[t][i] EXCEPT !.open = FALSE]
           Left(rest) == [links[t][i] EXCEPT !.sent = rest]
<1>1. Types /\ links[t][i] \in Link
  BY ElementOfSeq, LenProperties DEF ChainInv, Types
<1>2. /\ shut \in Link /\ shut.to = links[t][i].to
      /\ \A rest \in SUBSET links[t][i].sent :
             Left(rest) \in Link /\ Left(rest).to = links[t][i].to
  BY <1>1 DEF Link
<1>3. links[t][i].sent \subseteq Message
  BY <1>1 DEF Link
<1>4. /\ UNCHANGED <<proc, zk, watches, finding, forward, copying, crashes, ended, seen>>
      /\ written' \in 0 .. MaxWrites
  BY DEF Misread, counts, ChainInv, Types
<1>5. PICK m \in links[t][i].sent :
          \/ links' = [links EXCEPT ![t][i].open = FALSE] /\ UNCHANGED <<store, lock>>
          \/ /\ \E rest \in SUBSET (links[t][i].sent \ {m}) :
                   links' = [links EXCEPT ![t][i].sent = rest]
             /\ Write(s, m)
  BY DEF Misread
<1>6. links' \in [Server -> Seq(Link)] /\ SameEnds(links', links)
  <2>1. CASE links' = [links EXCEPT ![t][i].open = FALSE]
    <3>1. links' = [links EXCEPT ![t][i] = shut]
      BY <2>1
    <3> HIDE DEF shut
    <3>. QED  BY <1>1, <1>2, <3>1, LinkKeepsEnds
  <2>2. ASSUME NEW rest \in SUBSET (links[t][i].sent \ {m}),
               links' = [links EXCEPT ![t][i].sent = rest]
        PROVE  links' \in [Server -> Seq(Link)] /\ SameEnds(links', links)
    <3>1. links' = [links EXCEPT ![t][i] = Left(rest)]
      BY <2>2
    <3>2. Left(rest) \in Link /\ Left(rest).to = links[t][i].to
      BY <1>2
    <3> HIDE DEF Left
    <3>. QED  BY <1>1, <3>1, <3>2, LinkKeepsEnds
  <2>. QED  BY <1>5, <2>1, <2>2
<1> HIDE DEF shut, Left
<1>7. /\ table' \in [Server -> SUBSET Key]
      /\ writing' \in [Server -> Message \cup {NULL}]
      /\ lock' \in [Server -> {"free", "leaked", "stuck"}]
  <2>1. CASE UNCHANGED <<store, lock>>
    BY <1>1, <2>1 DEF store, Types
  <2>2. CASE Write(s, m)
    BY <1>3, <2>2, WriteTypes
  <2>. QED  BY <1>5, <2>1, <2>2
<1>. QED  BY <1>4, <1>6, <1>7, WritesInv

-----------------------------------------------------------------------------
(* Changes of the children.                                                *)

(* Whatever the change, a server whose watch it fires has only to wait for *)
(* the event; one without a watch has an event already, or has not listed, *)
(* or was refused.                                                         *)
LEMMA Hears ==
    ASSUME ChainInv, NEW s \in Server, Member(s),
           event'[s] = (event[s] \/ watch[s]),
           UNCHANGED <<finding[s], seen[s], next_in_chain[s], links[s]>>
    PROVE  Notified(s)' /\ WatcherChoice(s)' /\ Replaced(s)'
<1>1. /\ Notified(s) /\ WatcherChoice(s) /\ HasListed(s)
      /\ Choice(s, "watcher")
  BY DEF ChainInv, Follows, Caller
<1>2. seen[s] \in {{}, NULL} \/ event'[s]
  BY <1>1 DEF Notified
<1>3. Notified(s)'
  BY <1>2 DEF Notified
<1>4. WatcherChoice(s)'
  BY <1>1, <1>2 DEF WatcherChoice, Choice
<1>5. Successor(s)' # NULL => seen[s] # {}
  BY <1>1 DEF Successor, HasListed
<1>6. Replaced(s)'
  BY <1>2, <1>5 DEF Replaced
<1>. QED  BY <1>3, <1>4, <1>6

LEMMA CreateNodeInv ==
    ASSUME ChainInv, NEW s \in Server, CreateNode(s)
    PROVE  ChainInv'
<1> DEFINE n == 1 + Max({id[t] : t \in Server})
<1>1. n \in Nat /\ n # 0 /\ n <= Cardinality(Enlisted) + 1
  BY NextNumber DEF ChainInv
<1>2. /\ proc[s] = "create_node" /\ proc' = [proc EXCEPT ![s] = "predecessor"]
      /\ children' = children \cup {s} /\ id' = [id EXCEPT ![s] = n]
      /\ Fire
      /\ UNCHANGED <<chain, finding, forward, links, copying, store, lock, counts, seen>>
  BY DEF CreateNode, Goes
<1> HIDE DEF n
<1> USE <1>2 DEF forward, copying, store, counts
<1>3. id[s] = 0
  BY DEF ChainInv, Enrolled
<1>4. Types'
  <2>1. watch' \in [Server -> BOOLEAN] /\ event' \in [Server -> BOOLEAN]
    BY DEF Fire, ChainInv, Types
  <2>2. proc' \in [Server -> Starting \cup {"off", "running", "dead"}]
    BY DEF ChainInv, Types, Starting
  <2>3. id' \in [Server -> Nat]
    BY <1>1 DEF ChainInv, Types
  <2>. QED  BY <2>1, <2>2, <2>3 DEF ChainInv, Types
<1>5. Numbered'
  <2>1. Enlisted' = Enlisted \cup {s} /\ s \notin Enlisted
    BY <1>1, <1>3 DEF Enlisted, ChainInv, Types
  <2>2. Cardinality(Enlisted') = Cardinality(Enlisted) + 1
    BY <2>1, EnlistedFinite, FS_AddElement
  <2>. QED  BY <1>1, <2>2, EnlistedFinite DEF Numbered, ChainInv, Types
<1>6. Alive' = Alive
  BY DEF Alive, Starting, ChainInv, Types
<1>7. NobodyExpelled'
  BY <1>6 DEF NobodyExpelled, ChainInv, Types, Alive
<1>8. ASSUME NEW t \in Server PROVE Enrolled(t)' /\ Follows(t)'
  <2>1. Enrolled(t) /\ Follows(t)
    BY DEF ChainInv
  <2>2. event'[t] = (event[t] \/ watch[t]) /\ watch'[t] = FALSE
    BY DEF Fire
  <2>3. CASE t = s
    <3>1. /\ links[s] = <<>> /\ next_server[s] = NULL /\ next_in_chain[s] = NULL
          /\ seen[s] = {} /\ \A c \in Caller : finding[s][c] = Idle
      BY <1>3, <2>1, <2>3 DEF Enrolled
    <3>2. Enrolled(s)'
      BY <1>1 DEF Enrolled, ChainInv, Types
    <3>3. Forward(s)' /\ HasListed(s)' /\ \A c \in Caller : Choice(s, c)'
      BY <3>1 DEF Forward, HasListed, Choice, ChainInv, Types
    <3>4. Notified(s)' /\ WatcherChoice(s)' /\ Replaced(s)'
      BY <3>1 DEF Notified, WatcherChoice, Replaced, Successor, Caller
    <3>. QED  BY <2>3, <3>2, <3>3, <3>4 DEF Follows
  <2>4. CASE t # s
    <3>1. proc'[t] = proc[t] /\ id'[t] = id[t] /\ \A u \in Server : id'[u] >= id[u]
      BY <1>1, <1>3, <2>4 DEF ChainInv, Types
    <3>2. Enrolled(t)'
      BY <2>1, <2>2, <2>4, <3>1 DEF Enrolled
    <3>3. HasListed(t)'
      BY <2>1, <3>1 DEF Follows, HasListed
    <3>4. Forward(t)'
      <4>1. \A i \in DOMAIN links[t] : links[t][i].to \in Server
        BY EndsAreServers DEF ChainInv
      <4>2. next_server[t] # NULL => next_server[t] \in Server
        BY DEF ChainInv, Types
      <4>3. \A u \in Server : id[u] > id[t] => id'[u] > id'[t]
        BY <3>1, <1>4 DEF ChainInv, Types
      <4>. QED  BY <2>1, <4>1, <4>2, <4>3 DEF Follows, Forward
    <3>5. ASSUME NEW c \in Caller PROVE Choice(t, c)'
      <4>1. Choice(t, c)
        BY <2>1 DEF Follows
      <4>2. finding[t][c] # Idle => finding[t][c].path \in Server
        BY DEF ChainInv, Types
      <4>3. \A u \in Server : id[u] > id[t] => id'[u] > id'[t]
        BY <3>1, <1>4 DEF ChainInv, Types
      <4>. QED  BY <4>1, <4>2, <4>3 DEF Choice
    <3>6. Member(t)' => Member(t)
      BY <1>6, <2>4 DEF Member
    <3>7. Notified(t)' /\ WatcherChoice(t)' /\ Replaced(t)'
      <4>1. CASE Member(t)
        BY <2>2, <4>1, Hears
      <4>2. CASE ~Member(t)
        BY <3>6, <4>2 DEF Notified, WatcherChoice, Replaced
      <4>. QED  BY <4>1, <4>2
    <3>. QED  BY <3>2, <3>3, <3>4, <3>5, <3>7 DEF Follows
  <2>. QED  BY <2>3, <2>4
<1>. QED  BY <1>4, <1>5, <1>7, <1>8 DEF ChainInv

(* A server loses its node, after its death or before it.                  *)
LEMMA LeavesInv ==
    ASSUME ChainInv, NEW s \in Server,
           children' = children \ {s},
           watch' = [t \in Server |-> FALSE],
           event' \in [Server -> BOOLEAN],
           \A t \in Server : event'[t] = (event[t] \/ watch[t]) \/ (t = s /\ event'[t] = event[t]),
           UNCHANGED <<proc, chain, id, finding, forward, links, copying, store, lock, written, crashes, seen>>,
           ended' \in 0 .. MaxCrashes,
           ended' = 0 => ended = 0 /\ s \notin Alive
    PROVE  ChainInv'
<1> USE DEF forward, copying, store
<1>1. Types'
  BY DEF ChainInv, Types
<1>2. Numbered'
  <2>1. Enlisted' = Enlisted
    BY DEF Enlisted
  <2>. QED  BY <2>1 DEF Numbered, ChainInv
<1>3. Alive' = Alive
  BY DEF Alive
<1>4. NobodyExpelled'
  BY <1>3 DEF NobodyExpelled, ChainInv
<1>5. ASSUME NEW t \in Server PROVE Enrolled(t)' /\ Follows(t)'
  <2>1. Enrolled(t) /\ Follows(t)
    BY DEF ChainInv
  <2>2. Enrolled(t)'
    BY <2>1 DEF Enrolled
  <2>3. Forward(t)' /\ HasListed(t)' /\ \A c \in Caller : Choice(t, c)'
    BY <2>1 DEF Follows, Forward, HasListed, Choice
  <2>4. CASE Member(t)'
    <3>1. Member(t) /\ t # s
      BY <1>3, <2>4 DEF Member
    <3>2. Notified(t)' /\ WatcherChoice(t)' /\ Replaced(t)'
      BY <3>1, Hears
    <3>. QED  BY <2>2, <2>3, <3>2 DEF Follows
  <2>5. CASE ~Member(t)'
    BY <2>2, <2>3, <2>5 DEF Follows, Notified, WatcherChoice, Replaced
  <2>. QED  BY <2>4, <2>5
<1>. QED  BY <1>1, <1>2, <1>4, <1>5 DEF ChainInv

LEMMA ExpireInv ==
    ASSUME ChainInv, NEW s \in Server, Expire(s)
    PROVE  ChainInv'
<1>1. s \notin Alive
  BY DEF Expire, Alive, Starting
<1>2. /\ watch' = [t \in Server |-> FALSE]
      /\ event' \in [Server -> BOOLEAN]
      /\ \A t \in Server : event'[t] = (event[t] \/ watch[t])
  BY DEF Expire, Fire, ChainInv, Types
<1>3. ended' \in 0 .. MaxCrashes /\ ended' = ended /\ UNCHANGED <<written, crashes>>
  BY DEF Expire, counts, ChainInv, Types
<1>. QED  BY <1>1, <1>2, <1>3, LeavesInv DEF Expire

LEMMA SessionEndsInv ==
    ASSUME ChainInv, NEW s \in Server, SessionEnds(s)
    PROVE  ChainInv'
<1>1. /\ event' \in [Server -> BOOLEAN]
      /\ \A t \in Server : event'[t] = (event[t] \/ watch[t]) \/ (t = s /\ event'[t] = event[t])
  BY DEF SessionEnds, ChainInv, Types
<1>2. ended' \in 0 .. MaxCrashes /\ ended' # 0
  BY BoundAssumption DEF SessionEnds, ChainInv, Types
<1>. QED  BY <1>1, <1>2, LeavesInv DEF SessionEnds

-----------------------------------------------------------------------------
(* connect_next_server(), in both threads.                                 *)

(* What one server does there says nothing about the others.               *)
LEMMA OtherServer ==
    ASSUME ChainInv, NEW s \in Server,
           UNCHANGED <<children, id, ended>>,
           UNCHANGED <<proc[s], watch[s], event[s], finding[s], next_server[s],
                       next_in_chain[s], links[s], pred[s], seen[s]>>
    PROVE  Enrolled(s)' /\ Follows(s)'
<1>1. Enrolled(s) /\ Follows(s)
  BY DEF ChainInv
<1>2. Enrolled(s)'
  BY <1>1 DEF Enrolled
<1>3. (Member(s)' => Member(s)) /\ Later(s)' = Later(s) /\ Successor(s)' = Successor(s)
  BY DEF Member, Alive, Later, Successor
<1>4. Forward(s)' /\ HasListed(s)' /\ \A c \in Caller : Choice(s, c)'
  BY <1>1 DEF Follows, Forward, HasListed, Choice
<1>5. Notified(s)'
  BY <1>1, <1>3 DEF Follows, Notified
<1>6. WatcherChoice(s)'
  BY <1>1, <1>3 DEF Follows, WatcherChoice
<1>7. Replaced(s)'
  BY <1>1, <1>3 DEF Follows, Replaced
<1>. QED  BY <1>2, <1>4, <1>5, <1>6, <1>7 DEF Follows

LEMMA SameNumbers ==
    ASSUME ChainInv, UNCHANGED <<children, id, ended>>, Alive' \subseteq Alive
    PROVE  Numbered' /\ NobodyExpelled'
<1>1. Enlisted' = Enlisted
  BY DEF Enlisted
<1>. QED  BY <1>1 DEF ChainInv, Numbered, NobodyExpelled

(* How a step of connect_next_server() keeps the type of finding.          *)
LEMMA FindingType ==
    ASSUME Types, NEW s \in Server, NEW c \in Caller,
           NEW r \in {Idle} \cup [at : {"get", "connect"}, path : Server]
    PROVE  [finding EXCEPT ![s][c] = r] \in
               [Server -> [Caller -> {Idle} \cup [at : {"get", "connect"}, path : Server]]]
<1> DEFINE R == {Idle} \cup [at : {"get", "connect"}, path : Server]
<1>1. finding \in [Server -> [Caller -> R]] /\ r \in R
  BY DEF Types
<1> HIDE DEF R
<1>2. [finding EXCEPT ![s][c] = r] \in [Server -> [Caller -> R]]
  BY <1>1
<1>. QED  BY <1>2 DEF R

(* Who has a choice to act on has a number.                                *)
LEMMA UnderWay ==
    ASSUME ChainInv, NEW s \in Server, NEW c \in Caller, finding[s][c] # Idle
    PROVE  /\ id[s] # 0
           /\ finding[s][c].path \in Server
           /\ seen[s] # {}
           /\ \/ finding[s][c].path = s /\ finding[s][c].at = "get"
              \/ finding[s][c].path # s /\ id[finding[s][c].path] > id[s]
<1>1. id[s] # 0 /\ Choice(s, c)
  BY DEF ChainInv, Enrolled, Follows
<1>2. finding[s][c] \in [at : {"get", "connect"}, path : Server]
  BY DEF ChainInv, Types
<1>. QED  BY <1>1, <1>2 DEF Choice, ChainInv, Types

LEMMA ListChildrenInv ==
    ASSUME ChainInv, NEW s \in Server, NEW c \in Caller, ListChildren(s, c)
    PROVE  ChainInv'
<1>1. s \in Alive /\ id[s] # 0
  BY DEF ListChildren, Called, Alive, Starting, Caller, ChainInv, Enrolled
<1>2. Member(s)
  BY <1>1 DEF ListChildren, Expelled, Member
<1>3. PICK t \in Candidates(s) :
          finding' = [finding EXCEPT ![s][c] = [at |-> "get", path |-> t]]
  BY DEF ListChildren
<1>4. /\ t \in Server
      /\ \/ t = s /\ Later(s) = {}
         \/ t # s /\ t \in children /\ id[t] > id[s]
  BY CandidatesFollow DEF ChainInv
<1>5. /\ finding[s][c] = Idle
      /\ watch' = [watch EXCEPT ![s] = TRUE] /\ seen' = [seen EXCEPT ![s] = children]
      /\ event' = IF c = "watcher" THEN [event EXCEPT ![s] = FALSE] ELSE event
      /\ UNCHANGED <<proc, chain, children, id, next_server, next_in_chain, links, pred,
                     copy, store, lock, written, crashes, ended>>
  BY DEF ListChildren, Called, Heard, zk, forward, copying, counts
<1>6. Types'
  <2>1. finding' \in [Server -> [Caller -> {Idle} \cup [at : {"get", "connect"}, path : Server]]]
    BY <1>3, <1>4 DEF ChainInv, Types
  <2>. QED  BY <1>5, <2>1 DEF ChainInv, Types, store
<1>7. Numbered' /\ NobodyExpelled'
  BY <1>5, SameNumbers DEF Alive
<1>8. Enrolled(s)' /\ Follows(s)'
  <2>1. Enrolled(s) /\ Follows(s)
    BY DEF ChainInv
  <2>2. /\ watch'[s] /\ seen'[s] = children /\ children # {} /\ children # NULL
        /\ event[s] /\ c = "main" => event'[s]
    BY <1>2, <1>5, NullAssumption DEF ChainInv, Types, Member
  <2>3. /\ finding'[s][c] = [at |-> "get", path |-> t]
        /\ finding'[s][c] # Idle
        /\ \A d \in Caller \ {c} : finding'[s][d] = finding[s][d]
    BY <1>3 DEF ChainInv, Types, Idle
  <2>4. Later(s)' = Later(s) /\ Successor(s)' = Successor(s)
    BY <1>5 DEF Later, Successor
  <2>5. Enrolled(s)'
    BY <1>1, <1>5, <2>1 DEF Enrolled
  <2>6. Forward(s)' /\ HasListed(s)' /\ Notified(s)'
    BY <1>5, <2>1, <2>2 DEF Follows, Forward, HasListed, Notified
  <2>7. ASSUME NEW d \in Caller PROVE Choice(s, d)'
    <3>1. Choice(s, d)
      BY <2>1 DEF Follows
    <3>. QED  BY <1>4, <1>5, <2>2, <2>3, <3>1 DEF Choice
  <2>8. WatcherChoice(s)'
    <3>1. CASE c = "watcher"
      BY <1>4, <1>5, <2>2, <2>3, <2>4, <3>1 DEF WatcherChoice
    <3>2. CASE c = "main"
      <4>1. finding'[s]["watcher"] = finding[s]["watcher"]
        BY <2>3, <3>2 DEF Caller
      <4>. QED  BY <1>2, <1>5, <2>1, <2>2, <2>4, <3>2, <4>1 DEF Follows, WatcherChoice
    <3>. QED  BY <3>1, <3>2 DEF Caller
  <2>9. Replaced(s)'
    <3>1. CASE c = "watcher"
      BY <2>3, <3>1 DEF Replaced
    <3>2. CASE c = "main"
      BY <1>4, <2>3, <2>4, <3>2 DEF Replaced
    <3>. QED  BY <3>1, <3>2 DEF Caller
  <2>. QED  BY <2>5, <2>6, <2>7, <2>8, <2>9 DEF Follows
<1>9. ASSUME NEW u \in Server, u # s PROVE Enrolled(u)' /\ Follows(u)'
  BY <1>3, <1>5, <1>9, OtherServer DEF ChainInv, Types
<1>. QED  BY <1>6, <1>7, <1>8, <1>9 DEF ChainInv

(* child_watcher() returns after a call that ZooKeeper refused.            *)
LEMMA RefusedInv ==
    ASSUME ChainInv, NEW s \in Server, id[s] # 0,
           finding' = [finding EXCEPT ![s]["watcher"] = Idle],
           seen' = [seen EXCEPT ![s] = NULL],
           event' \in {event, [event EXCEPT ![s] = FALSE]},
           UNCHANGED <<proc, zk, watch, forward, links, copying, store, lock, counts>>
    PROVE  ChainInv'
<1> USE DEF zk, forward, copying, store, counts
<1>1. Types'
  <2>1. finding' \in [Server -> [Caller -> {Idle} \cup [at : {"get", "connect"}, path : Server]]]
    BY DEF ChainInv, Types
  <2>2. event' \in [Server -> BOOLEAN]
    BY DEF ChainInv, Types
  <2>. QED  BY <2>1, <2>2 DEF ChainInv, Types
<1>2. Numbered' /\ NobodyExpelled'
  BY SameNumbers DEF Alive
<1>3. Enrolled(s)' /\ Follows(s)'
  <2>1. Enrolled(s) /\ Follows(s)
    BY DEF ChainInv
  <2>2. /\ seen'[s] = NULL /\ NULL # {} /\ finding'[s]["watcher"] = Idle
        /\ \A c \in Caller : c # "watcher" => finding'[s][c] = finding[s][c]
    BY NullAssumption DEF ChainInv, Types, Caller
  <2>3. Enrolled(s)' /\ Forward(s)'
    BY <2>1 DEF Enrolled, Follows, Forward
  <2>4. HasListed(s)' /\ \A c \in Caller : Choice(s, c)'
    BY <2>1, <2>2 DEF Follows, HasListed, Choice
  <2>5. Notified(s)' /\ WatcherChoice(s)' /\ Replaced(s)'
    BY <2>2 DEF Notified, WatcherChoice, Replaced
  <2>. QED  BY <2>3, <2>4, <2>5 DEF Follows
<1>4. ASSUME NEW t \in Server, t # s PROVE Enrolled(t)' /\ Follows(t)'
  BY <1>4, OtherServer DEF ChainInv, Types
<1>. QED  BY <1>1, <1>2, <1>3, <1>4 DEF ChainInv

LEMMA ListFailsInv ==
    ASSUME ChainInv, NEW s \in Server, NEW c \in Caller, ListFails(s, c)
    PROVE  ChainInv'
<1>1. CASE c = "main"
  <2>1. Dies(s)
    BY <1>1 DEF ListFails, ReturnsMinus1
  <2>. QED  BY <2>1, DiesInv DEF ListFails, counts, ChainInv, Types
<1>2. CASE c = "watcher"
  <2>1. /\ finding[s]["watcher"] = Idle /\ event[s]
        /\ finding' = [finding EXCEPT ![s]["watcher"] = Idle]
        /\ event' = [event EXCEPT ![s] = FALSE] /\ seen' = [seen EXCEPT ![s] = NULL]
        /\ UNCHANGED <<proc, zk, watch, forward, links, copying, store, lock, counts>>
    BY <1>2 DEF ListFails, Called, Heard, ReturnsMinus1
  <2>2. id[s] # 0
    BY <2>1 DEF ChainInv, Enrolled
  <2>. QED  BY <2>1, <2>2, RefusedInv
<1>. QED  BY <1>1, <1>2 DEF Caller

(* child_watcher() finds the node it has chosen gone: it will hear of that.*)
LEMMA ChosenGoneInv ==
    ASSUME ChainInv, NEW s \in Server, s \in Alive, finding[s]["watcher"] # Idle,
           finding[s]["watcher"].path \notin children,
           finding' = [finding EXCEPT ![s]["watcher"] = Idle],
           UNCHANGED <<proc, zk, watches, forward, links, copying, store, lock, counts, seen>>
    PROVE  ChainInv'
<1> USE DEF zk, watches, forward, copying, store, counts
<1>1. Types'
  <2>1. finding' \in [Server -> [Caller -> {Idle} \cup [at : {"get", "connect"}, path : Server]]]
    BY DEF ChainInv, Types
  <2>. QED  BY <2>1 DEF ChainInv, Types
<1>2. Numbered' /\ NobodyExpelled'
  BY SameNumbers DEF Alive
<1>3. Enrolled(s)' /\ Follows(s)'
  <2>1. Enrolled(s) /\ Follows(s) /\ id[s] # 0
    BY UnderWay DEF ChainInv, Caller
  <2>2. /\ finding'[s]["watcher"] = Idle
        /\ \A c \in Caller : c # "watcher" => finding'[s][c] = finding[s][c]
    BY DEF ChainInv, Types, Caller
  <2>3. Enrolled(s)' /\ Forward(s)' /\ HasListed(s)'
    BY <2>1 DEF Enrolled, Follows, Forward, HasListed
  <2>4. \A c \in Caller : Choice(s, c)'
    BY <2>1, <2>2 DEF Follows, Choice
  <2>5. Member(s)' => Member(s) /\ event[s]
    BY <2>1 DEF Member, Alive, Follows, WatcherChoice
  <2>6. Notified(s)' /\ WatcherChoice(s)' /\ Replaced(s)'
    BY <2>2, <2>5 DEF Notified, WatcherChoice, Replaced
  <2>. QED  BY <2>3, <2>4, <2>6 DEF Follows
<1>4. ASSUME NEW t \in Server, t # s PROVE Enrolled(t)' /\ Follows(t)'
  BY <1>4, OtherServer DEF ChainInv, Types
<1>. QED  BY <1>1, <1>2, <1>3, <1>4 DEF ChainInv

(* A server that is its own choice has none after it, or will hear of it.  *)
LEMMA OwnChoiceInv ==
    ASSUME ChainInv, NEW s \in Server, NEW c \in Caller, s \in Alive,
           finding[s][c].at = "get", finding[s][c].path = s,
           next_server' = [next_server EXCEPT ![s] = NULL],
           Returns(s, c),
           UNCHANGED <<zk, watches, next_in_chain, links, copying, store, lock, counts, seen>>
    PROVE  ChainInv'
<1> USE DEF zk, watches, copying, store, counts
<1>0. finding[s][c] # Idle
  BY DEF Idle
<1>1. /\ finding' = [finding EXCEPT ![s][c] = Idle]
      /\ proc' = proc \/ (c = "main" /\ proc' = [proc EXCEPT ![s] = "running"])
  BY DEF Returns, Goes
<1>2. Types'
  <2>1. finding' \in [Server -> [Caller -> {Idle} \cup [at : {"get", "connect"}, path : Server]]]
    BY <1>1 DEF ChainInv, Types
  <2>2. proc' \in [Server -> Starting \cup {"off", "running", "dead"}]
    BY <1>1 DEF ChainInv, Types
  <2>3. next_server' \in [Server -> Server \cup {NULL}]
    BY DEF ChainInv, Types
  <2>. QED  BY <2>1, <2>2, <2>3 DEF ChainInv, Types
<1>3. Alive' = Alive
  BY <1>1 DEF Alive, ChainInv, Types
<1>4. Numbered' /\ NobodyExpelled'
  BY <1>3, SameNumbers
<1>5. Enrolled(s)' /\ Follows(s)'
  <2>1. Enrolled(s) /\ Follows(s) /\ id[s] # 0 /\ seen[s] # {}
    BY <1>0, UnderWay DEF ChainInv
  <2>2. /\ finding'[s][c] = Idle /\ next_server'[s] = NULL
        /\ proc'[s] = proc[s] \/ proc'[s] = "running"
        /\ \A d \in Caller : d # c => finding'[s][d] = finding[s][d]
    BY <1>1 DEF ChainInv, Types
  <2>3. Later(s)' = Later(s) /\ Successor(s)' = Successor(s) /\ (Member(s)' => Member(s))
    BY <1>3 DEF Later, Successor, Member
  <2>4. Enrolled(s)' /\ Forward(s)' /\ HasListed(s)'
    BY <2>1, <2>2 DEF Enrolled, Follows, Forward, HasListed
  <2>5. \A d \in Caller : Choice(s, d)'
    BY <2>1, <2>2 DEF Follows, Choice
  <2>6. Notified(s)'
    BY <2>1, <2>3 DEF Follows, Notified
  <2>7. WatcherChoice(s)'
    <3>1. CASE c = "watcher"
      BY <2>2, <3>1 DEF WatcherChoice
    <3>2. CASE c = "main"
      <4>1. finding'[s]["watcher"] = finding[s]["watcher"]
        BY <2>2, <3>2 DEF Caller
      <4>. QED  BY <2>1, <2>3, <4>1 DEF Follows, WatcherChoice
    <3>. QED  BY <3>1, <3>2 DEF Caller
  <2>8. Replaced(s)'
    <3>1. CASE c = "watcher"
      <4>1. Member(s) => event[s] \/ Later(s) = {}
        BY <1>0, <2>1, <3>1 DEF Follows, WatcherChoice
      <4>. QED  BY <2>3, <4>1 DEF Replaced
    <3>2. CASE c = "main"
      <4>1. finding'[s]["watcher"] = finding[s]["watcher"]
        BY <2>2, <3>2 DEF Caller
      <4>. QED  BY <2>1, <2>3, <3>2, <4>1 DEF Follows, Replaced
    <3>. QED  BY <3>1, <3>2 DEF Caller
  <2>. QED  BY <2>4, <2>5, <2>6, <2>7, <2>8 DEF Follows
<1>6. ASSUME NEW t \in Server, t # s PROVE Enrolled(t)' /\ Follows(t)'
  BY <1>1, <1>6, OtherServer DEF ChainInv, Types
<1>. QED  BY <1>2, <1>4, <1>5, <1>6 DEF ChainInv

LEMMA GetAddressInv ==
    ASSUME ChainInv, NEW s \in Server, NEW c \in Caller, GetAddress(s, c)
    PROVE  ChainInv'
<1> DEFINE t == finding[s][c].path
<1>0. s \in Alive /\ finding[s][c].at = "get" /\ finding[s][c] # Idle
  BY DEF GetAddress, Idle
<1>1. CASE /\ ReturnsMinus1(s, c)
           /\ c = "watcher" =>
                /\ seen' = IF t \in children THEN [seen EXCEPT ![s] = NULL] ELSE seen
                /\ UNCHANGED event
           /\ UNCHANGED <<zk, links, lock, counts>>
  <2>1. CASE c = "main"
    <3>1. Dies(s)
      BY <1>1, <2>1 DEF ReturnsMinus1
    <3>. QED  BY <1>1, <3>1, DiesInv DEF counts, ChainInv, Types
  <2>2. CASE c = "watcher"
    <3>1. /\ finding[s]["watcher"] # Idle
          /\ finding' = [finding EXCEPT ![s]["watcher"] = Idle]
          /\ UNCHANGED <<proc, zk, watch, event, forward, links, copying, store, lock, counts>>
      BY <1>0, <1>1, <2>2 DEF ReturnsMinus1
    <3>2. CASE t \in children
      <4>1. id[s] # 0 /\ seen' = [seen EXCEPT ![s] = NULL]
        BY <1>1, <2>2, <3>1, <3>2, UnderWay DEF Caller
      <4>. QED  BY <3>1, <4>1, RefusedInv
    <3>3. CASE t \notin children
      <4>1. UNCHANGED seen /\ finding[s]["watcher"].path \notin children
        BY <1>1, <2>2, <3>3
      <4>. QED  BY <1>0, <3>1, <4>1, ChosenGoneInv DEF watches
    <3>. QED  BY <3>2, <3>3
  <2>. QED  BY <2>1, <2>2 DEF Caller
<1>2. CASE /\ t = s
           /\ next_server' = [next_server EXCEPT ![s] = NULL]
           /\ Returns(s, c)
           /\ UNCHANGED <<next_in_chain, watches, copying, store, seen>>
           /\ UNCHANGED <<zk, links, lock, counts>>
  BY <1>0, <1>2, OwnChoiceInv
<1>3. CASE /\ t # s /\ t \in children
           /\ next_server' = [next_server EXCEPT ![s] = t]
           /\ next_in_chain' = [next_in_chain EXCEPT ![s] = UNSET]
           /\ finding' = [finding EXCEPT ![s][c].at = "connect"]
           /\ UNCHANGED <<proc, watches, copying, store, seen>>
           /\ UNCHANGED <<zk, links, lock, counts>>
  <2> USE <1>3 DEF zk, watches, copying, store, counts
  <2>1. t \in Server /\ id[t] > id[s] /\ id[s] # 0 /\ seen[s] # {}
    BY <1>0, UnderWay
  <2>2. finding[s][c] \in [at : {"get", "connect"}, path : Server]
    BY <1>0 DEF ChainInv, Types
  <2>3. finding' = [finding EXCEPT ![s][c] = [at |-> "connect", path |-> t]]
    <3>1. [finding[s][c] EXCEPT !.at = "connect"] = [at |-> "connect", path |-> t]
      BY <2>2
    <3>. QED  BY <3>1, Zenon
  <2>4. Types'
    <3>1. finding' \in [Server -> [Caller -> {Idle} \cup [at : {"get", "connect"}, path : Server]]]
      <4>1. [at |-> "connect", path |-> t] \in [at : {"get", "connect"}, path : Server]
        BY <2>1
      <4>. QED  BY <2>3, <4>1, FindingType DEF ChainInv
    <3>2. next_in_chain' \in [Server -> Nat \cup {NULL, UNSET}]
      BY DEF ChainInv, Types
    <3>3. next_server' \in [Server -> Server \cup {NULL}]
      BY <2>1 DEF ChainInv, Types
    <3>. QED  BY <3>1, <3>2, <3>3 DEF ChainInv, Types
  <2>5. Numbered' /\ NobodyExpelled'
    BY SameNumbers DEF Alive
  <2>6. Enrolled(s)' /\ Follows(s)'
    <3>1. Enrolled(s) /\ Follows(s)
      BY DEF ChainInv
    <3>2. /\ finding'[s][c] = [at |-> "connect", path |-> t]
          /\ next_server'[s] = t /\ next_in_chain'[s] = UNSET
          /\ \A d \in Caller : d # c => finding'[s][d] = finding[s][d]
      BY <2>3 DEF ChainInv, Types
    <3>3. Later(s)' = Later(s) /\ (Member(s)' => Member(s))
      BY DEF Later, Member, Alive
    <3>4. Enrolled(s)' /\ Forward(s)' /\ HasListed(s)'
      BY <2>1, <3>1, <3>2 DEF Enrolled, Follows, Forward, HasListed
    <3>5. \A d \in Caller : Choice(s, d)'
      BY <2>1, <3>1, <3>2 DEF Follows, Choice
    <3>6. Notified(s)'
      BY <3>1, <3>3 DEF Follows, Notified
    <3>7. WatcherChoice(s)'
      <4>1. CASE c = "watcher"
        BY <1>0, <3>1, <3>2, <3>3, <4>1 DEF Follows, WatcherChoice
      <4>2. CASE c = "main"
        <5>1. finding'[s]["watcher"] = finding[s]["watcher"]
          BY <3>2, <4>2 DEF Caller
        <5>. QED  BY <3>1, <3>3, <5>1 DEF Follows, WatcherChoice
      <4>. QED  BY <4>1, <4>2 DEF Caller
    <3>8. Successor(s)' = NULL
      BY <3>2 DEF Successor
    <3>9. Replaced(s)'
      BY <3>8 DEF Replaced
    <3>. QED  BY <3>4, <3>5, <3>6, <3>7, <3>9 DEF Follows
  <2>7. ASSUME NEW u \in Server, u # s PROVE Enrolled(u)' /\ Follows(u)'
    BY <2>3, <2>7, OtherServer DEF ChainInv, Types
  <2>. QED  BY <2>4, <2>5, <2>6, <2>7 DEF ChainInv
<1>. QED  BY <1>1, <1>2, <1>3 DEF GetAddress

LEMMA CreateServerConnectionInv ==
    ASSUME ChainInv, NEW s \in Server, NEW c \in Caller, CreateServerConnection(s, c)
    PROVE  ChainInv'
<1> DEFINE t == finding[s][c].path
           l == NewLink(t)
           n == Len(links[s]) + 1
<1>1. /\ s \in Alive /\ finding[s][c].at = "connect" /\ finding[s][c] # Idle
      /\ Returns(s, c)
      /\ UNCHANGED <<zk, watches, next_server, copying, store, lock, counts, seen>>
  BY DEF CreateServerConnection, Idle
<1>2. t \in Server /\ id[t] > id[s] /\ id[s] # 0 /\ seen[s] # {}
  BY <1>1, UnderWay
<1>3. \/ /\ t \in Alive /\ links' = [links EXCEPT ![s] = Append(links[s], l)]
         /\ next_in_chain' = [next_in_chain EXCEPT ![s] = n]
      \/ links' = links /\ next_in_chain' = [next_in_chain EXCEPT ![s] = NULL]
  BY DEF CreateServerConnection
<1>4. /\ finding' = [finding EXCEPT ![s][c] = Idle]
      /\ proc' = proc \/ (c = "main" /\ proc' = [proc EXCEPT ![s] = "running"])
  BY <1>1 DEF Returns, Goes
<1>5. links[s] \in Seq(Link) /\ l \in Link
  BY <1>2 DEF ChainInv, Types, Link, NewLink
<1>6. /\ Append(links[s], l) \in Seq(Link)
      /\ DOMAIN Append(links[s], l) = 1 .. n /\ n \in 1 .. n /\ n \in Nat
      /\ \A i \in 1 .. Len(links[s]) : Append(links[s], l)[i] = links[s][i]
      /\ Append(links[s], l)[n] = l
      /\ \A i \in 1 .. n : i = n \/ i \in DOMAIN links[s]
      /\ DOMAIN links[s] = 1 .. Len(links[s])
  BY <1>5, AppendProperties, LenProperties
<1> HIDE DEF l, n
<1> USE DEF zk, watches, copying, store, counts
<1>7. Types'
  <2>1. finding' \in [Server -> [Caller -> {Idle} \cup [at : {"get", "connect"}, path : Server]]]
    BY <1>4 DEF ChainInv, Types
  <2>2. proc' \in [Server -> Starting \cup {"off", "running", "dead"}]
    BY <1>4 DEF ChainInv, Types
  <2>3. links' \in [Server -> Seq(Link)]
    BY <1>3, <1>6 DEF ChainInv, Types
  <2>4. next_in_chain' \in [Server -> Nat \cup {NULL, UNSET}]
    BY <1>3, <1>6 DEF ChainInv, Types
  <2>5. \A u \in Server : next_in_chain'[u] \in {NULL, UNSET} \cup DOMAIN links'[u]
    BY <1>3, <1>6 DEF ChainInv, Types
  <2>. QED  BY <1>1, <2>1, <2>2, <2>3, <2>4, <2>5 DEF ChainInv, Types
<1>8. Alive' = Alive
  BY <1>1, <1>4 DEF Alive, ChainInv, Types
<1>9. Numbered' /\ NobodyExpelled'
  BY <1>1, <1>8, SameNumbers
<1>10. Enrolled(s)' /\ Follows(s)'
  <2>1. Enrolled(s) /\ Follows(s)
    BY DEF ChainInv
  <2>2. /\ finding'[s][c] = Idle
        /\ proc'[s] = proc[s] \/ proc'[s] = "running"
        /\ \A d \in Caller : d # c => finding'[s][d] = finding[s][d]
    BY <1>4 DEF ChainInv, Types
  <2>3. Later(s)' = Later(s) /\ (Member(s)' => Member(s))
    BY <1>1, <1>8 DEF Later, Member
  <2>4. Enrolled(s)' /\ HasListed(s)'
    BY <1>1, <1>2, <2>1, <2>2, <1>4 DEF Enrolled, HasListed, ChainInv, Types
  <2>5. Forward(s)'
    <3>1. l.to = t
      BY DEF l, NewLink
    <3>2. links'[s] = links[s] \/ links'[s] = Append(links[s], l)
      BY <1>3 DEF ChainInv, Types
    <3>3. \A i \in DOMAIN links'[s] : id[links'[s][i].to] > id[s]
      BY <1>2, <1>6, <2>1, <3>1, <3>2 DEF Follows, Forward
    <3>. QED  BY <1>1, <2>1, <3>3 DEF Follows, Forward
  <2>6. \A d \in Caller : Choice(s, d)'
    BY <1>1, <2>1, <2>2 DEF Follows, Choice
  <2>7. Notified(s)'
    BY <1>1, <2>1, <2>3 DEF Follows, Notified
  <2>8. WatcherChoice(s)'
    <3>1. CASE c = "watcher"
      BY <2>2, <3>1 DEF WatcherChoice
    <3>2. CASE c = "main"
      <4>1. finding'[s]["watcher"] = finding[s]["watcher"]
        BY <2>2, <3>2 DEF Caller
      <4>. QED  BY <1>1, <2>1, <2>3, <4>1 DEF Follows, WatcherChoice
    <3>. QED  BY <3>1, <3>2 DEF Caller
  <2>9. Replaced(s)'
    <3>1. Successor(s)' = NULL \/ (Successor(s)' = t /\ t \in Alive)
      BY <1>3, <1>6 DEF Successor, ChainInv, Types, l, NewLink
    <3>2. ended = 0 /\ t \in Alive => t \in children
      BY <1>2 DEF ChainInv, NobodyExpelled, Types
    <3>. QED  BY <1>1, <3>1, <3>2 DEF Replaced
  <2>. QED  BY <2>4, <2>5, <2>6, <2>7, <2>8, <2>9 DEF Follows
<1>11. ASSUME NEW u \in Server, u # s PROVE Enrolled(u)' /\ Follows(u)'
  BY <1>1, <1>3, <1>4, <1>11, OtherServer DEF ChainInv, Types
<1>. QED  BY <1>7, <1>9, <1>10, <1>11 DEF ChainInv

-----------------------------------------------------------------------------
LEMMA InitInv == Init => ChainInv
<1> SUFFICES ASSUME Init PROVE ChainInv
  OBVIOUS
<1> USE DEF Init
<1>1. Types
  <2>2. [s \in Server |-> <<>>] \in [Server -> Seq(Link)]
    BY EmptySeq
  <2>3. finding \in [Server -> [Caller -> {Idle} \cup [at : {"get", "connect"}, path : Server]]]
    OBVIOUS
  <2>4. /\ copy \in [Server -> SUBSET Key] /\ table \in [Server -> SUBSET Key]
        /\ writing \in [Server -> Message \cup {NULL}]
    OBVIOUS
  <2>5. links \in [Server -> Seq(Link)]
    BY <2>2
  <2>6. /\ proc \in [Server -> Starting \cup {"off", "running", "dead"}]
        /\ written \in 0 .. MaxWrites /\ crashes \in 0 .. MaxCrashes /\ ended \in 0 .. MaxCrashes
        /\ seen \in [Server -> (SUBSET Server) \cup {NULL}]
    BY BoundAssumption
  <2>. QED  BY <2>3, <2>4, <2>5, <2>6 DEF Types
<1>2. Numbered
  BY EnlistedFinite DEF Numbered
<1>3. Alive = {}
  BY DEF Alive, Starting
<1>4. NobodyExpelled
  BY <1>3 DEF NobodyExpelled
<1>5. ASSUME NEW s \in Server PROVE Enrolled(s) /\ Follows(s)
  <2>1. Enrolled(s)
    BY DEF Enrolled
  <2>2. DOMAIN links[s] = {}
    BY EmptySeq, LenProperties
  <2>3. Forward(s) /\ HasListed(s) /\ \A c \in Caller : Choice(s, c)
    BY <2>2 DEF Forward, HasListed, Choice
  <2>4. Notified(s) /\ WatcherChoice(s) /\ Replaced(s)
    BY DEF Notified, WatcherChoice, Replaced, Member
  <2>. QED  BY <2>1, <2>3, <2>4 DEF Follows
<1>. QED  BY <1>1, <1>2, <1>4, <1>5 DEF ChainInv

LEMMA ConnectNextServerInv ==
    ASSUME ChainInv, NEW s \in Server, NEW c \in Caller, ConnectNextServer(s, c)
    PROVE  ChainInv'
  BY ListChildrenInv, ListFailsInv, GetAddressInv, CreateServerConnectionInv
     DEF ConnectNextServer

LEMMA StutterInv ==
    ASSUME ChainInv, UNCHANGED vars
    PROVE  ChainInv'
<1> USE DEF vars, zk, watches, forward, copying, store, counts
<1>1. Types'
  BY DEF ChainInv, Types
<1>2. Numbered' /\ NobodyExpelled'
  BY SameNumbers DEF Alive
<1>3. \A s \in Server : Enrolled(s)' /\ Follows(s)'
  BY OtherServer
<1>. QED  BY <1>1, <1>2, <1>3 DEF ChainInv

(* The invariant, for every behaviour.                                     *)
THEOREM ChainInvariance == Spec => []ChainInv
<1>1. ChainInv /\ [Next]_vars => ChainInv'
  <2> SUFFICES ASSUME ChainInv, [Next]_vars PROVE ChainInv'
    OBVIOUS
  <2>1. ASSUME NEW s \in Server,
               Start(s) \/ StartStep(s) \/ Crash(s) \/ SessionEnds(s) \/ Expire(s)
        PROVE  ChainInv'
    BY <2>1, StartInv, CallFailsInv, CreateChainInv, CreateNodeInv, FindPredecessorInv,
       PredecessorLostInv, GetTableInv, CopyInv, CrashInv, SessionEndsInv, ExpireInv
       DEF StartStep
  <2>2. ASSUME NEW s \in Server, NEW c \in Caller, ConnectNextServer(s, c)
        PROVE  ChainInv'
    BY <2>2, ConnectNextServerInv
  <2>3. ASSUME NEW s \in Server, NEW k \in Key, ClientWrite(s, k)
        PROVE  ChainInv'
    BY <2>3, ClientWriteInv
  <2>4. ASSUME NEW s \in Server, NEW t \in Server, NEW i \in DOMAIN links[t], Misread(s, t, i)
        PROVE  ChainInv'
    BY <2>4, MisreadInv
  <2>5. ASSUME NEW s \in Server, PassOn(s) PROVE ChainInv'
    BY <2>5, PassOnInv
  <2>6. CASE UNCHANGED vars
    BY <2>6, StutterInv
  <2>. QED  BY <2>1, <2>2, <2>3, <2>4, <2>5, <2>6, Zenon DEF Next
<1>. QED  BY <1>1, InitInv, PTL DEF Spec

(* The globals of table_skel.c keep their types, next_server_in_chain is a *)
(* connection the server has opened or memory nobody has written, and the  *)
(* number of a child is at most the number of servers.                     *)
THEOREM ChainTypeCorrectness == Spec => []TypeOK
<1>1. ChainInv => TypeOK
  <2> SUFFICES ASSUME ChainInv PROVE TypeOK
    OBVIOUS
  <2>1. id \in [Server -> 0 .. Cardinality(Server)]
    BY EnlistedFinite DEF ChainInv, Types, Numbered
  <2>2. finding \in [Server -> [Caller -> [at : {"idle", "get", "connect"},
                                           path : Server \cup {NULL}]]]
    <3>1. {Idle} \cup [at : {"get", "connect"}, path : Server]
              \subseteq [at : {"idle", "get", "connect"}, path : Server \cup {NULL}]
      BY DEF Idle
    <3>. QED  BY <3>1 DEF ChainInv, Types
  <2>3. \A s \in Server : links[s] \in Seq(Link)
    BY DEF ChainInv, Types
  <2>. QED  BY <2>1, <2>2, <2>3 DEF ChainInv, Types, TypeOK
<1>. QED  BY <1>1, ChainInvariance, PTL

(* connect_next_server() never makes a connection to a server before its   *)
(* own, so that no write comes round to a server that has had it.          *)
THEOREM ConnectionsGoForward == Spec => []LinksGoForward
<1>1. ChainInv => LinksGoForward
  BY DEF ChainInv, Follows, Forward, LinksGoForward
<1>. QED  BY <1>1, ChainInvariance, PTL

(* child_watcher() and the main thread lose no change of the children      *)
(* between them, unless the last call to ZooKeeper was refused.            *)
THEOREM ChangesAreNoticed == Spec => []NoChangeMissed
<1>1. ChainInv => NoChangeMissed
  <2> SUFFICES ASSUME ChainInv,
                      NEW s \in Alive \ Expelled, proc[s] = "running", ~event[s]
               PROVE  seen[s] \in {children, NULL}
    BY Zenon DEF NoChangeMissed
  <2>1. s \in Server /\ Enrolled(s) /\ Notified(s) /\ HasListed(s)
    BY DEF ChainInv, Follows, Alive
  <2>2. Member(s)
    BY <2>1 DEF Enrolled, Expelled, Member
  <2>. QED  BY <2>1, <2>2 DEF Notified, HasListed
<1>. QED  BY <1>1, ChainInvariance, PTL

(* A server whose successor died and lost its node does not go on writing  *)
(* to it, although two threads choose successors from lists of different   *)
(* age.                                                                    *)
THEOREM ChainGetsRepaired == Spec => []ChainRepaired
<1>1. ChainInv => ChainRepaired
  <2> SUFFICES ASSUME ChainInv, children \subseteq Alive, ended = 0,
                      NEW s \in children, ~event[s], seen[s] # NULL,
                      \A c \in Caller : finding[s][c] = Idle, Later(s) # {}
               PROVE  Successor(s) \in Alive \cup {NULL}
    BY Zenon DEF ChainRepaired
  <2>1. s \in Server /\ Member(s) /\ Replaced(s)
    BY DEF ChainInv, Types, Follows, Member
  <2>2. Successor(s) \in children \cup {NULL}
    BY <2>1 DEF Replaced, Caller
  <2>. QED  BY <2>2
<1>. QED  BY <1>1, ChainInvariance, PTL

-----------------------------------------------------------------------------
(* The refinement of Membership: what a step of the code is to somebody    *)
(* who sees only the children of /chain and which servers answer.          *)

(* A step that changes no child is the death of one server, or nothing.    *)
LEMMA HiddenStep ==
    ASSUME ChainInv, NEW s \in Server,
           UNCHANGED <<children, id>>,
           \A t \in Server \ {s} : proc'[t] = proc[t],
           s \in Alive' => s \in Alive \/ id[s] = 0
    PROVE  [Members!MembersNext]_(Members!members)
<1>1. \A t \in Server : t # s => (t \in Alive' <=> t \in Alive)
  BY DEF Alive
<1>2. CASE life' = life
  BY <1>2 DEF Members!members
<1>3. CASE life' # life
  <2>1. life'[s] # life[s]
    <3> SUFFICES ASSUME life'[s] = life[s] PROVE life' = life
      BY <1>3
    <3>. QED  BY <1>1 DEF life
  <2>2. s \in Alive /\ s \notin Alive' /\ id[s] # 0
    BY <2>1 DEF life
  <2>3. life[s] = "up" /\ life' = [life EXCEPT ![s] = "dead"]
    BY <1>1, <2>2 DEF life
  <2>4. Members!Die(s)
    BY <2>3 DEF Members!Die
  <2>. QED  BY <2>4 DEF Members!MembersNext
<1>. QED  BY <1>2, <1>3

LEMMA JoinStep ==
    ASSUME ChainInv, NEW s \in Server, CreateNode(s)
    PROVE  Members!Join(s)
<1> DEFINE n == 1 + Max({id[t] : t \in Server})
<1>1. n # 0 /\ id[s] = 0
  BY NextNumber DEF ChainInv, Enrolled, CreateNode
<1>2. /\ id' = [id EXCEPT ![s] = n] /\ children' = children \cup {s}
      /\ proc[s] = "create_node" /\ proc' = [proc EXCEPT ![s] = "predecessor"]
  BY DEF CreateNode, Goes
<1> HIDE DEF n
<1>3. Alive' = Alive /\ s \in Alive
  BY <1>2 DEF Alive, Starting, ChainInv, Types
<1>4. life[s] = "off" /\ life' = [life EXCEPT ![s] = "up"]
  BY <1>1, <1>2, <1>3 DEF life, ChainInv, Types
<1>. QED  BY <1>2, <1>4 DEF Members!Join, Members!Max, Max, n

LEMMA LeaveStep ==
    ASSUME NEW s \in children, children' = children \ {s}, UNCHANGED <<proc, id>>
    PROVE  Members!Expire(s)
<1>1. Alive' = Alive
  BY DEF Alive
<1>2. life' = life
  BY <1>1 DEF life
<1>. QED  BY <1>2 DEF Members!Expire

(* The process of one server goes on or ends.                              *)
LEMMA OneProcess ==
    ASSUME ChainInv, NEW s \in Server,
           UNCHANGED <<children, id>>,
           proc' = proc \/ \E w : Goes(s, w),
           proc'[s] = proc[s] \/ proc'[s] = "dead" \/ s \in Alive \/ id[s] = 0
    PROVE  [Members!MembersNext]_(Members!members)
<1>1. \A t \in Server \ {s} : proc'[t] = proc[t]
  BY DEF Goes, ChainInv, Types
<1>2. s \in Alive' => s \in Alive \/ id[s] = 0
  BY DEF Alive, Starting
<1>. QED  BY <1>1, <1>2, HiddenStep

LEMMA StartStepIsAStep ==
    ASSUME ChainInv, NEW s \in Server, Start(s) \/ StartStep(s) \/ Crash(s)
    PROVE  [Members!MembersNext]_(Members!members)
<1>1. CASE Start(s)
  <2>1. id[s] = 0
    BY <1>1 DEF Start, ChainInv, Enrolled
  <2>. QED  BY <1>1, <2>1, OneProcess DEF Start, zk
<1>2. CASE CreateChain(s)
  <2>1. id[s] = 0
    BY <1>2 DEF CreateChain, ChainInv, Enrolled
  <2>. QED  BY <1>2, <2>1, OneProcess DEF CreateChain
<1>3. CASE CreateNode(s)
  BY <1>3, JoinStep DEF Members!MembersNext
<1>4. CASE FindPredecessor(s)
  <2>1. s \in Alive /\ UNCHANGED <<children, id>> /\ \E w : Goes(s, w)
    BY <1>4 DEF FindPredecessor, zk, Alive, Starting
  <2>. QED  BY <2>1, OneProcess
<1>5. CASE PredecessorLost(s) \/ CallFails(s) \/ Crash(s)
  <2>1. UNCHANGED <<children, id>> /\ Goes(s, "dead")
    BY <1>5 DEF PredecessorLost, CallFails, Crash, zk, Dies
  <2>2. proc'[s] = "dead"
    BY <2>1 DEF Goes, ChainInv, Types
  <2>. QED  BY <2>1, <2>2, OneProcess
<1>6. CASE GetTable(s)
  <2>1. s \in Alive /\ UNCHANGED <<children, id>> /\ \E w : Goes(s, w)
    BY <1>6 DEF GetTable, zk, Alive, Starting
  <2>. QED  BY <2>1, OneProcess
<1>7. CASE Copy(s)
  <2>1. s \in Alive /\ UNCHANGED <<children, id>> /\ \E w : Goes(s, w)
    BY <1>7 DEF Copy, CopyEntries, Dies, zk, Alive, Starting
  <2>. QED  BY <2>1, OneProcess
<1>. QED  BY <1>1, <1>2, <1>3, <1>4, <1>5, <1>6, <1>7 DEF StartStep

LEMMA ConnectIsAStep ==
    ASSUME ChainInv, NEW s \in Server, NEW c \in Caller, ConnectNextServer(s, c)
    PROVE  [Members!MembersNext]_(Members!members)
<1>1. s \in Alive
  BY DEF ConnectNextServer, ListChildren, ListFails, GetAddress, CreateServerConnection,
         Called, Alive, Starting, Caller
<1>2. UNCHANGED <<children, id>>
  BY DEF ConnectNextServer, ListChildren, ListFails, GetAddress, CreateServerConnection, zk
<1>3. proc' = proc \/ \E w : Goes(s, w)
  BY DEF ConnectNextServer, ListChildren, ListFails, GetAddress, CreateServerConnection,
         ReturnsMinus1, Returns, Dies
<1>. QED  BY <1>1, <1>2, <1>3, OneProcess

LEMMA PassOnIsAStep ==
    ASSUME ChainInv, NEW s \in Server, PassOn(s)
    PROVE  [Members!MembersNext]_(Members!members)
<1>1. (proc' = proc \/ Goes(s, "dead")) /\ UNCHANGED zk
  BY DEF PassOn, PassedOn, DiesPassingOn, Dies, zk
<1>2. proc'[s] = proc[s] \/ proc'[s] = "dead"
  BY <1>1 DEF Goes, ChainInv, Types
<1>. QED  BY <1>1, <1>2, OneProcess DEF zk

(* Every step of Chain is a step of Membership or none at all: a server    *)
(* joins once, behind all others, keeps its place until its session ends   *)
(* and never comes back, whatever the servers do in between.               *)
THEOREM ChainImplementsMembership == Spec => ImplementsMembership
<1>1. Init => Members!MembersInit
  <2> SUFFICES ASSUME Init PROVE Members!MembersInit
    OBVIOUS
  <2>1. life = [s \in Server |-> "off"]
    BY DEF Init, life
  <2>. QED  BY <2>1 DEF Init, Members!MembersInit
<1>2. ChainInv /\ [Next]_vars => [Members!MembersNext]_(Members!members)
  <2> SUFFICES ASSUME ChainInv, [Next]_vars
               PROVE  [Members!MembersNext]_(Members!members)
    OBVIOUS
  <2>1. ASSUME NEW s \in Server, Start(s) \/ StartStep(s) \/ Crash(s)
        PROVE  [Members!MembersNext]_(Members!members)
    BY <2>1, StartStepIsAStep
  <2>2. ASSUME NEW s \in Server, SessionEnds(s) \/ Expire(s)
        PROVE  [Members!MembersNext]_(Members!members)
    <3>1. s \in children /\ children' = children \ {s} /\ UNCHANGED <<proc, id>>
      BY <2>2 DEF SessionEnds, Expire
    <3>2. Members!Expire(s)
      BY <3>1, LeaveStep
    <3>. QED  BY <3>2 DEF Members!MembersNext
  <2>3. ASSUME NEW s \in Server, NEW c \in Caller, ConnectNextServer(s, c)
        PROVE  [Members!MembersNext]_(Members!members)
    BY <2>3, ConnectIsAStep
  <2>4. ASSUME NEW s \in Server, PassOn(s)
        PROVE  [Members!MembersNext]_(Members!members)
    BY <2>4, PassOnIsAStep
  <2>5. ASSUME UNCHANGED <<proc, zk>>
        PROVE  [Members!MembersNext]_(Members!members)
    <3>1. Alive' = Alive /\ UNCHANGED <<id, children>>
      BY <2>5 DEF zk, Alive
    <3>2. life' = life
      BY <3>1 DEF life
    <3>. QED  BY <3>1, <3>2 DEF Members!members
  <2>6. ASSUME NEW s \in Server, NEW k \in Key, ClientWrite(s, k)
        PROVE  UNCHANGED <<proc, zk>>
    BY <2>6 DEF ClientWrite
  <2>7. ASSUME NEW s \in Server, NEW t \in Server, NEW i \in DOMAIN links[t], Misread(s, t, i)
        PROVE  UNCHANGED <<proc, zk>>
    BY <2>7 DEF Misread
  <2>8. CASE UNCHANGED vars
    BY <2>5, <2>8 DEF vars
  <2>. QED  BY <2>1, <2>2, <2>3, <2>4, <2>5, <2>6, <2>7, <2>8, Zenon DEF Next
<1>. QED  BY <1>1, <1>2, ChainInvariance, PTL DEF Spec, ImplementsMembership, Members!MembersSpec
=============================================================================
