-------------------------- MODULE ClientStubProofs --------------------------
(***************************************************************************)
(* Theorems about ClientStub, for any number of servers and losses and any *)
(* lengths of their addresses.                                             *)
(*                                                                         *)
(* The invariant follows a thread through rtable_connect_zookeeper(): what *)
(* it has read of the chain holds as long as the children are as listed    *)
(* (Reads), what it has put in head and tail is repaired before it is done *)
(* (HeadTried, TailTried), and unless the chain changes while main()       *)
(* connects, only one of the two threads is in it (OneAtATime).            *)
(***************************************************************************)
EXTENDS ClientStub, NatMinimum, FiniteSetTheorems

Places == {"idle", "list", "list again", "get tail", "get head", "make head",
           "connect head", "make tail", "connect tail"}

(* Before a thread has made a new head, or is to connect it.               *)
BeforeHead == {"list", "list again", "get tail", "get head", "make head", "connect head"}

Types ==
    /\ life \in [Server -> {"off", "up", "dead"}] /\ children \subseteq Server
    /\ id \in [Server -> Nat]
    /\ disturbed \in BOOLEAN
    /\ watch \in BOOLEAN /\ event \in BOOLEAN /\ session \in BOOLEAN /\ listed \in BOOLEAN
    /\ connecting \in [Caller -> [at : Places, first : Server \cup {NULL},
                                  last : Server \cup {NULL}]]
    /\ head \in Block \cup {0} /\ tail \in Block \cup {0} /\ ptr \in Block \cup {0}
    /\ conn \in [Block -> [addr : Server \cup {NULL}, sock : Server \cup {UNSET, FREED}]]
    /\ main \in {"connecting", "prompt", "asked", "stuck", "over"}

Enlisted == {s \in Server : id[s] # 0}
Numbered ==
    /\ \A s \in Server : id[s] <= Cardinality(Enlisted)
    /\ \A s \in Server : life[s] = "off" => id[s] = 0

(* The main thread has a head and a tail when it shows its prompt.         *)
Pointers ==
    /\ \A c \in Caller :
          /\ connecting[c].at = "idle" => connecting[c] = Idle
          /\ connecting[c].at \in {"connect head", "make tail", "connect tail"} => head # 0
          /\ connecting[c].at = "connect tail" => tail # 0
    /\ main = "connecting" <=> connecting["main"].at # "idle"
    /\ main = "over" => connecting["watcher"].at = "idle"
    /\ main \in {"prompt", "asked", "stuck"} => head # 0 /\ tail # 0
    /\ head # 0 => head # tail
    /\ main = "asked" <=> ptr # 0

(* A socket is connected to the address in its block; a request is out on  *)
(* a connection.                                                           *)
Sockets ==
    /\ \A b \in Block : conn[b].sock \in Server => conn[b].sock = conn[b].addr
    /\ main = "asked" => conn[ptr].sock \in Server

(* A change of what was listed fires the watch, while the session lasts.   *)
Watched ==
    /\ listed => children # {}
    /\ listed /\ session => watch
    /\ Running /\ session =>
          \/ listed \/ event
          \/ \E c \in Caller : connecting[c].at \in {"list", "list again"}

(* A pointer without a socket is one that will be replaced or connected,   *)
(* or nobody is at its address; a server that comes up where the client    *)
(* found nobody is a change of the chain.                                  *)
HeadTried ==
    session /\ head # 0 /\ conn[head].sock = UNSET /\ conn[head].addr \in Up =>
        event \/ \E c \in Caller : connecting[c].at \in BeforeHead
TailTried ==
    session /\ tail # 0 /\ conn[tail].sock = UNSET /\ conn[tail].addr \in Up =>
        event \/ \E c \in Caller : connecting[c].at # "idle"

OneAtATime ==
    main = "connecting" =>
        /\ ~event /\ connecting["watcher"].at = "idle"
        /\ connecting["main"].at = "list" => ~watch

HeadIsLong == id[HeadOf(children)] \in Long /\ id[TailOf(children)] \notin Long

(* Neither thread is in rtable_connect_zookeeper().                        *)
Rests == main \notin {"connecting", "over"} /\ connecting["watcher"].at = "idle"

Reads(c) ==
    LET now == connecting[c] IN
    /\ now.at \in {"get tail", "get head"} =>
          now.first = HeadOf(children) /\ now.last = TailOf(children)
    /\ now.at \in {"make head", "connect head", "make tail", "connect tail"} =>
          /\ now.last = TailOf(children)
          /\ now.first = HeadOf(children) \/ HeadIsLong
    /\ now.at = "connect head" => conn[head].addr = now.first
    /\ now.at = "connect tail" => conn[tail].addr = now.last

HeadRight ==
    \/ conn[head].sock \in {HeadOf(children), FREED}
    \/ HeadIsLong
    \/ HeadOf(children) \notin Up
TailRight == conn[tail].sock \in {TailOf(children), FREED} \/ TailOf(children) \notin Up

Undisturbed ==
    ~disturbed =>
        /\ OneAtATime
        /\ listed => /\ \A c \in Caller : Reads(c)
                     /\ Rests \/ (\E c \in Caller :
                                     connecting[c].at \in {"make tail", "connect tail"})
                            => HeadRight
                     /\ Rests => TailRight

StubInv == /\ Types /\ Numbered /\ Pointers /\ Sockets
           /\ Watched /\ HeadTried /\ TailTried /\ Undisturbed

-----------------------------------------------------------------------------
(* The operators of the module.                                            *)

LEMMA Sentinels ==
    /\ NULL # UNSET /\ NULL # FREED /\ UNSET # FREED
    /\ NULL \notin Server /\ UNSET \notin Server /\ FREED \notin Server
<1>1. ASSUME NEW a, NEW b PROVE Cardinality({a, b}) <= 2
  <2>1. IsFiniteSet({a}) /\ Cardinality({a}) = 1
    BY FS_Singleton
  <2>2. Cardinality({a} \cup {b}) = IF b \in {a} THEN 1 ELSE 2
    BY <2>1, FS_AddElement
  <2>3. {a, b} = {a} \cup {b}
    OBVIOUS
  <2>. QED  BY <2>2, <2>3
<1>2. Cardinality({NULL, UNSET, FREED}) = 3
  BY ClientAssumption
<1>3. NULL # UNSET
  <2> SUFFICES ASSUME NULL = UNSET PROVE FALSE
    OBVIOUS
  <2>1. {NULL, UNSET, FREED} = {UNSET, FREED}
    OBVIOUS
  <2>2. Cardinality({UNSET, FREED}) <= 2
    BY <1>1
  <2>3. Cardinality({UNSET, FREED}) = 3
    BY <1>2, <2>1
  <2>. QED  BY <2>2, <2>3
<1>4. NULL # FREED
  <2> SUFFICES ASSUME NULL = FREED PROVE FALSE
    OBVIOUS
  <2>1. {NULL, UNSET, FREED} = {UNSET, FREED}
    OBVIOUS
  <2>2. Cardinality({UNSET, FREED}) <= 2
    BY <1>1
  <2>3. Cardinality({UNSET, FREED}) = 3
    BY <1>2, <2>1
  <2>. QED  BY <2>2, <2>3
<1>5. UNSET # FREED
  <2> SUFFICES ASSUME UNSET = FREED PROVE FALSE
    OBVIOUS
  <2>1. {NULL, UNSET, FREED} = {NULL, FREED}
    OBVIOUS
  <2>2. Cardinality({NULL, FREED}) <= 2
    BY <1>1
  <2>3. Cardinality({NULL, FREED}) = 3
    BY <1>2, <2>1
  <2>. QED  BY <2>2, <2>3
<1>6. NULL \notin Server /\ UNSET \notin Server /\ FREED \notin Server
  BY ClientAssumption
<1>. QED  BY <1>3, <1>4, <1>5, <1>6

LEMMA EnlistedFinite ==
    /\ IsFiniteSet(Enlisted) /\ Cardinality(Enlisted) \in Nat
    /\ Cardinality(Enlisted) <= Cardinality(Server) /\ Cardinality(Server) \in Nat
<1>1. Enlisted \in SUBSET Server
  BY DEF Enlisted
<1>. QED  BY <1>1, ClientAssumption, FS_Subset, FS_CardinalityType

(* The ends of a chain that is not empty are servers of the chain.         *)
LEMMA EndsAreMembers ==
    ASSUME Types, Numbered, children # {}
    PROVE  /\ HeadOf(children) \in children /\ TailOf(children) \in children
           /\ HeadOf(children) \in Server /\ TailOf(children) \in Server
<1>1. /\ id \in [Server -> Nat] /\ children \in SUBSET Server
      /\ Cardinality(Enlisted) \in Nat
      /\ \A s \in children : id[s] <= Cardinality(Enlisted)
  BY EnlistedFinite DEF Types, Numbered
<1>2. \E s \in children : \A t \in children : id[s] <= id[t]
  BY <1>1, LeastValue, Zenon
<1>3. \E s \in children : \A t \in children : id[s] >= id[t]
  BY <1>1, GreatestValue, Zenon
<1>4. HeadOf(children) \in children
  BY <1>2, Zenon DEF HeadOf
<1>5. TailOf(children) \in children
  BY <1>3, Zenon DEF TailOf
<1>. QED  BY <1>1, <1>4, <1>5

(* A new block is not one that a pointer leads to.                         *)
LEMMA FreshIsNew ==
    ASSUME Types
    PROVE  Fresh \in Block /\ Fresh \notin {head, tail, ptr}
<1> DEFINE F == Block \ {head, tail, ptr}
<1>1. F # {}
  <2>1. 1 \in Block /\ 2 \in Block /\ 3 \in Block /\ 4 \in Block
    BY DEF Block
  <2>. QED  BY <2>1
<1>2. F \in SUBSET Nat
  BY DEF Block
<1>3. \E b \in F : \A d \in F : b <= d
  <2> HIDE DEF F
  <2>. QED  BY <1>1, <1>2, LeastNat, Zenon
<1>4. Min(F) \in F
  <2> HIDE DEF F
  <2>. QED  BY <1>3, Zenon DEF Min
<1>. QED  BY <1>4 DEF Fresh

LEMMA RecordChange ==
    ASSUME NEW q \in [at : Places, first : Server \cup {NULL}, last : Server \cup {NULL}],
           NEW where, NEW a
    PROVE  [[q EXCEPT !.at = where] EXCEPT !.first = a] =
               [at |-> where, first |-> a, last |-> q.last]
<1>1. [q EXCEPT !.at = where] = [at |-> where, first |-> q.first, last |-> q.last]
  OBVIOUS
<1> DEFINE p == [at |-> where, first |-> q.first, last |-> q.last]
<1>2. [p EXCEPT !.first = a] = [at |-> where, first |-> a, last |-> q.last]
  OBVIOUS
<1> HIDE DEF p
<1>3. [q EXCEPT !.at = where] = p
  BY <1>1 DEF p
<1>. QED  BY <1>2, <1>3, Zenon

(* What a step of one thread does to connecting.                           *)
LEMMA GoesType ==
    ASSUME Types, NEW c \in Caller, NEW where \in Places, Goes(c, where)
    PROVE  /\ connecting' \in [Caller -> [at : Places, first : Server \cup {NULL},
                                          last : Server \cup {NULL}]]
           /\ connecting'[c].at = where
           /\ connecting'[c].first = connecting[c].first
           /\ connecting'[c].last = connecting[c].last
           /\ \A d \in Caller : d # c => connecting'[d] = connecting[d]
<1> DEFINE R == [at : Places, first : Server \cup {NULL}, last : Server \cup {NULL}]
           r == [connecting[c] EXCEPT !.at = where]
<1>1. connecting \in [Caller -> R] /\ connecting[c] \in R
  BY DEF Types
<1>2. r = [at |-> where, first |-> connecting[c].first, last |-> connecting[c].last]
  BY <1>1
<1>3. r \in R
  BY <1>1, <1>2
<1>4. connecting' = [connecting EXCEPT ![c] = r]
  BY DEF Goes
<1> HIDE DEF R, r
<1>5. connecting' \in [Caller -> R] /\ connecting'[c] = r
      /\ \A d \in Caller : d # c => connecting'[d] = connecting[d]
  BY <1>1, <1>3, <1>4
<1>. QED  BY <1>2, <1>5 DEF R

(* Unless the chain changes under main(), the other thread is idle.        *)
LEMMA OnlyOne ==
    ASSUME StubInv, ~disturbed, NEW c \in Caller, connecting[c].at # "idle",
           NEW d \in Caller, d # c
    PROVE  connecting[d].at = "idle"
  BY DEF StubInv, Undisturbed, OneAtATime, Pointers, Caller

-----------------------------------------------------------------------------
LEMMA InitInv == Init => StubInv
<1> SUFFICES ASSUME Init PROVE StubInv
  OBVIOUS
<1> USE DEF Init, MembersInit
<1>1. /\ connecting["main"] = [at |-> "list", first |-> NULL, last |-> NULL]
      /\ connecting["watcher"] = Idle
      /\ connecting \in [Caller -> [at : Places, first : Server \cup {NULL},
                                    last : Server \cup {NULL}]]
  BY DEF Caller, Idle, Places
<1>2. Types
  BY <1>1 DEF Types, Blank
<1>3. Numbered
  BY EnlistedFinite DEF Numbered
<1>4. Pointers
  BY <1>1 DEF Pointers, Caller, Idle
<1>5. Sockets
  BY Sentinels DEF Sockets, Blank
<1>6. Watched /\ HeadTried /\ TailTried
  BY <1>1 DEF Watched, HeadTried, TailTried, Caller
<1>7. Undisturbed
  BY <1>1 DEF Undisturbed, OneAtATime, Idle
<1>. QED  BY <1>2, <1>3, <1>4, <1>5, <1>6, <1>7 DEF StubInv

(* The chain changes.                                                      *)

LEMMA JoinNumbers ==
    ASSUME Types, Numbered, NEW s \in Server, Join(s)
    PROVE  /\ id' \in [Server -> Nat] /\ Numbered'
<1> DEFINE n == 1 + Max({id[t] : t \in Server})
<1>1. /\ id \in [Server -> Nat] /\ Cardinality(Enlisted) \in Nat
      /\ \A t \in Server : id[t] <= Cardinality(Enlisted)
  BY EnlistedFinite DEF Types, Numbered
<1>2. n \in Nat /\ n # 0 /\ n <= Cardinality(Enlisted) + 1
  <2> DEFINE m == Max({id[t] : t \in Server})
  <2>1. m \in Nat /\ m <= Cardinality(Enlisted)
    BY <1>1, MaxValue, Zenon
  <2> HIDE DEF m
  <2>2. 1 + m \in Nat /\ 1 + m # 0 /\ 1 + m <= Cardinality(Enlisted) + 1
    BY <1>1, <2>1
  <2>. QED  BY <2>2 DEF m
<1>3. id' = [id EXCEPT ![s] = n] /\ life' = [life EXCEPT ![s] = "up"] /\ id[s] = 0
  BY DEF Join, Numbered
<1> HIDE DEF n
<1>4. Enlisted' = Enlisted \cup {s} /\ s \notin Enlisted
  BY <1>1, <1>2, <1>3 DEF Enlisted
<1>5. Cardinality(Enlisted') = Cardinality(Enlisted) + 1
  BY <1>4, EnlistedFinite, FS_AddElement
<1>6. id' \in [Server -> Nat]
  BY <1>1, <1>2, <1>3
<1>7. \A t \in Server : id'[t] <= Cardinality(Enlisted')
  BY <1>1, <1>2, <1>3, <1>5
<1>8. \A t \in Server : life'[t] = "off" => id'[t] = 0
  BY <1>3 DEF Numbered, Types
<1>. QED  BY <1>6, <1>7, <1>8 DEF Numbered

LEMMA DieInv ==
    ASSUME StubInv, NEW s \in Server, Die(s),
           UNCHANGED <<zk, disturbed, connecting, pointers, main, request>>
    PROVE  StubInv'
<1> USE DEF zk, pointers, request
<1>1. life' = [life EXCEPT ![s] = "dead"] /\ UNCHANGED <<children, id>>
  BY DEF Die
<1>2. Types'
  BY <1>1 DEF StubInv, Types
<1>3. Numbered'
  <2>1. Enlisted' = Enlisted
    BY <1>1 DEF Enlisted
  <2>. QED  BY <1>1, <2>1 DEF StubInv, Numbered, Types
<1>4. Pointers' /\ Sockets' /\ Watched'
  BY <1>1 DEF StubInv, Pointers, Sockets, Watched, Running
<1>5. Up' \subseteq Up
  BY <1>1 DEF Up, StubInv, Types
<1>6. HeadTried' /\ TailTried'
  BY <1>5 DEF StubInv, HeadTried, TailTried
<1>7. Undisturbed'
  <2>1. HeadOf(children)' = HeadOf(children) /\ TailOf(children)' = TailOf(children)
    BY <1>1 DEF HeadOf, TailOf
  <2>2. \A c \in Caller : Reads(c) => Reads(c)'
    BY <1>1, <2>1 DEF Reads, HeadIsLong
  <2>3. (HeadRight => HeadRight') /\ (TailRight => TailRight')
    BY <1>1, <1>5, <2>1 DEF HeadRight, TailRight, HeadIsLong
  <2>. QED  BY <2>2, <2>3 DEF StubInv, Undisturbed, OneAtATime, Rests
<1>. QED  BY <1>2, <1>3, <1>4, <1>6, <1>7 DEF StubInv

(* A change of the children is one that was not listed; the watch fires.   *)
LEMMA ChildrenChangeInv ==
    ASSUME StubInv, Running, NEW s \in Server, Expire(s) \/ Join(s),
           event' = (event \/ watch), watch' = FALSE, listed' = FALSE,
           disturbed' = (disturbed \/ connecting["main"].at \notin {"idle", "list"}),
           UNCHANGED <<session, connecting, pointers, main, request>>
    PROVE  StubInv'
<1> USE DEF pointers, request, Running
<1>1. id' \in [Server -> Nat] /\ Numbered'
  <2>1. CASE Join(s)
    BY <2>1, JoinNumbers DEF StubInv
  <2>2. CASE Expire(s)
    <3>1. Enlisted' = Enlisted
      BY <2>2 DEF Enlisted, Expire
    <3>. QED  BY <2>2, <3>1 DEF Expire, StubInv, Types, Numbered
  <2>. QED  BY <2>1, <2>2
<1>2. Types'
  <2>1. children' \subseteq Server /\ life' \in [Server -> {"off", "up", "dead"}]
    BY DEF Join, Expire, StubInv, Types
  <2>. QED  BY <1>1, <2>1 DEF StubInv, Types
<1>3. Pointers' /\ Sockets'
  BY DEF StubInv, Pointers, Sockets
<1>4. session => event' \/ \E c \in Caller : connecting[c].at \in {"list", "list again"}
  BY DEF StubInv, Watched
<1>5. Watched'
  BY <1>4 DEF Watched, Running
<1>6. HeadTried' /\ TailTried'
  BY <1>4 DEF HeadTried, TailTried, BeforeHead
<1>7. Undisturbed'
  <2> SUFFICES ASSUME ~disturbed' PROVE OneAtATime'
    BY DEF Undisturbed
  <2>1. ~disturbed /\ connecting["main"].at \in {"idle", "list"}
    OBVIOUS
  <2>2. main = "connecting" => ~event' /\ connecting["watcher"].at = "idle"
    BY <2>1 DEF StubInv, Undisturbed, OneAtATime, Pointers
  <2>. QED  BY <2>2 DEF OneAtATime
<1>. QED  BY <1>1, <1>2, <1>3, <1>5, <1>6, <1>7 DEF StubInv

-----------------------------------------------------------------------------
(* The steps of rtable_connect_zookeeper().                                *)

(* In a step of thread c within it, that reads or lists: what the parts    *)
(* about main(), the pointers and the blocks say does not change.          *)
LEMMA WithinPointers ==
    ASSUME StubInv, NEW c \in Caller, connecting[c].at # "idle", connecting'[c].at # "idle",
           connecting'[c].at = "connect head" => head' # 0,
           connecting'[c].at \in {"make tail", "connect tail"} => head' # 0,
           connecting'[c].at = "connect tail" => tail' # 0,
           \A d \in Caller : d # c => connecting'[d] = connecting[d],
           UNCHANGED <<main, request>>, head # 0 => head' # 0, tail # 0 => tail' # 0,
           head' # 0 => head' # tail'
    PROVE  Pointers'
<1> USE DEF request
<1>1. Pointers
  BY DEF StubInv
<1>2. \A d \in Caller :
          /\ connecting'[d].at = "idle" => connecting'[d] = Idle
          /\ connecting'[d].at \in {"connect head", "make tail", "connect tail"} => head' # 0
          /\ connecting'[d].at = "connect tail" => tail' # 0
  BY <1>1 DEF Pointers
<1>3. "main" \in Caller /\ "watcher" \in Caller
  BY DEF Caller
<1>4. main = "connecting" <=> connecting'["main"].at # "idle"
  BY <1>1, <1>3 DEF Pointers
<1>5. main = "over" => connecting'["watcher"].at = "idle"
  BY <1>1, <1>3 DEF Pointers
<1>. QED  BY <1>1, <1>2, <1>4, <1>5 DEF Pointers

(* In such a step, what holds when nobody disturbs it is what thread c     *)
(* knows now.                                                              *)
LEMMA WithinUndisturbed ==
    ASSUME StubInv, NEW c \in Caller, connecting[c].at # "idle", connecting'[c].at # "idle",
           connecting'[c].at # "list",
           \A d \in Caller : d # c => connecting'[d] = connecting[d],
           UNCHANGED <<main, disturbed, event>>,
           ~disturbed /\ listed' =>
              /\ Reads(c)'
              /\ connecting'[c].at \in {"make tail", "connect tail"} => HeadRight'
    PROVE  Undisturbed'
<1> SUFFICES ASSUME ~disturbed PROVE Undisturbed'
  BY DEF Undisturbed
<1>1. \A d \in Caller : d # c => connecting[d].at = "idle" /\ connecting'[d].at = "idle"
  BY OnlyOne
<1>2. OneAtATime'
  <2>1. OneAtATime
    BY DEF StubInv, Undisturbed
  <2>2. "main" \in Caller /\ "watcher" \in Caller
    BY DEF Caller
  <2>3. main = "connecting" => ~event /\ connecting["watcher"].at = "idle" /\ c = "main"
    BY <2>1, <2>2, <1>1 DEF OneAtATime, StubInv, Pointers, Caller
  <2>. QED  BY <2>2, <2>3 DEF OneAtATime
<1>3. ~Rests'
  BY DEF Rests, StubInv, Pointers, Caller
<1>4. \A d \in Caller : listed' => Reads(d)'
  BY <1>1 DEF Reads
<1>5. listed' /\ (\E d \in Caller : connecting'[d].at \in {"make tail", "connect tail"})
         => HeadRight'
  BY <1>1
<1>. QED  BY <1>2, <1>3, <1>4, <1>5 DEF Undisturbed

(* A step that neither moves a pointer nor touches a block, from before a  *)
(* new head is made.                                                       *)
LEMMA ReadingInv ==
    ASSUME StubInv, NEW c \in Caller,
           connecting[c].at \in {"list", "list again", "get tail", "get head"},
           connecting'[c].at \in {"list again", "get tail", "get head", "make head"},
           connecting' \in [Caller -> [at : Places, first : Server \cup {NULL},
                                       last : Server \cup {NULL}]],
           \A d \in Caller : d # c => connecting'[d] = connecting[d],
           UNCHANGED <<chainvars, event, session, pointers, main, request>>,
           watch' \in BOOLEAN, listed' \in BOOLEAN, Watched',
           ~disturbed /\ listed' => Reads(c)'
    PROVE  StubInv'
<1> USE DEF chainvars, members, pointers, request
<1>1. Types'
  BY DEF StubInv, Types
<1>2. Numbered' /\ Sockets'
  BY DEF StubInv, Numbered, Sockets, Enlisted
<1>3. Pointers'
  BY WithinPointers DEF StubInv, Pointers
<1>4. HeadTried' /\ TailTried'
  BY DEF StubInv, HeadTried, TailTried, BeforeHead, Up
<1>5. Undisturbed'
  BY WithinUndisturbed
<1>. QED  BY <1>1, <1>2, <1>3, <1>4, <1>5 DEF StubInv

LEMMA ListInVainInv == ASSUME StubInv, NEW c \in Caller, ListInVain(c) PROVE StubInv'
<1> USE DEF ListInVain, At, KeepMain
<1>1. /\ connecting' \in [Caller -> [at : Places, first : Server \cup {NULL},
                                     last : Server \cup {NULL}]]
      /\ connecting'[c].at = "list again"
      /\ \A d \in Caller : d # c => connecting'[d] = connecting[d]
  <2>1. Types /\ "list again" \in Places /\ Goes(c, "list again")
    BY DEF StubInv, Places
  <2>. QED  BY <2>1, GoesType, Zenon
<1>2. Watched'
  <2>1. watch /\ session => watch'
    BY DEF StubInv, Types
  <2>. QED  BY <1>1, <2>1 DEF StubInv, Watched, chainvars, members
<1>3. Reads(c)'
  BY <1>1 DEF Reads
<1>4. watch' \in BOOLEAN /\ listed' \in BOOLEAN
  BY DEF StubInv, Types
<1>. QED  BY <1>1, <1>2, <1>3, <1>4, ReadingInv

LEMMA ListInv == ASSUME StubInv, NEW c \in Caller, List(c) PROVE StubInv'
<1> USE DEF List, Lists, At, KeepMain
<1> DEFINE r == [at |-> "get tail", first |-> HeadOf(children), last |-> TailOf(children)]
           R == [at : Places, first : Server \cup {NULL}, last : Server \cup {NULL}]
<1>1. HeadOf(children) \in Server /\ TailOf(children) \in Server
  BY EndsAreMembers DEF StubInv
<1>2. r \in R
  BY <1>1 DEF Places
<1>3. connecting' = [connecting EXCEPT ![c] = r] /\ connecting \in [Caller -> R]
  BY DEF StubInv, Types
<1>4. /\ connecting' \in [Caller -> R] /\ connecting'[c] = r
      /\ \A d \in Caller : d # c => connecting'[d] = connecting[d]
  <2> HIDE DEF r, R
  <2>. QED  BY <1>2, <1>3
<1>5. HeadOf(children)' = HeadOf(children) /\ TailOf(children)' = TailOf(children)
  BY DEF HeadOf, TailOf, chainvars, members
<1>6. Watched'
  BY DEF Watched, chainvars, members
<1>7. Reads(c)'
  BY <1>4, <1>5 DEF Reads
<1>. QED  BY <1>4, <1>6, <1>7, ReadingInv

LEMMA GetTailAddressInv == ASSUME StubInv, NEW c \in Caller, GetTailAddress(c) PROVE StubInv'
<1> USE DEF GetTailAddress, At, KeepMain, zk
<1>1. /\ connecting' \in [Caller -> [at : Places, first : Server \cup {NULL},
                                     last : Server \cup {NULL}]]
      /\ connecting'[c].at = "get head"
      /\ connecting'[c].first = connecting[c].first
      /\ connecting'[c].last = connecting[c].last
      /\ \A d \in Caller : d # c => connecting'[d] = connecting[d]
  <2>1. Types /\ "get head" \in Places /\ Goes(c, "get head")
    BY DEF StubInv, Places
  <2>. QED  BY <2>1, GoesType, Zenon
<1>2. Watched'
  BY <1>1 DEF StubInv, Watched, Running, chainvars, members
<1>3. ~disturbed /\ listed' => Reads(c)'
  <2>1. HeadOf(children)' = HeadOf(children) /\ TailOf(children)' = TailOf(children)
    BY DEF HeadOf, TailOf, chainvars, members
  <2>2. ~disturbed /\ listed => Reads(c)
    BY DEF StubInv, Undisturbed
  <2>3. ~disturbed /\ listed => /\ connecting[c].first = HeadOf(children)
                                /\ connecting[c].last = TailOf(children)
    BY <2>2 DEF Reads
  <2>. QED  BY <1>1, <2>1, <2>3 DEF Reads
<1>4. watch' \in BOOLEAN /\ listed' \in BOOLEAN
  BY DEF StubInv, Types
<1>5. connecting'[c].at = "get head" /\ connecting[c].at = "get tail"
  BY <1>1
<1>. QED  BY <1>1, <1>2, <1>3, <1>4, <1>5, ReadingInv

LEMMA GetHeadAddressInv == ASSUME StubInv, NEW c \in Caller, GetHeadAddress(c) PROVE StubInv'
<1> DEFINE R == [at : Places, first : Server \cup {NULL}, last : Server \cup {NULL}]
<1>1. connecting \in [Caller -> R] /\ connecting[c] \in R
  BY DEF StubInv, Types
<1>2. /\ connecting[c].at = "get head"
      /\ UNCHANGED <<chainvars, zk, pointers, main, request>>
  BY DEF GetHeadAddress, At, KeepMain
<1>3. PICK a \in IF Cut(c) THEN Server \cup {NULL} ELSE {connecting[c].first} :
          connecting' = [connecting EXCEPT ![c].at = "make head", ![c].first = a]
  BY DEF GetHeadAddress
<1>4. a \in Server \cup {NULL}
  BY <1>1, <1>3
<1> DEFINE r == [at |-> "make head", first |-> a, last |-> connecting[c].last]
<1>5. r \in R /\ connecting' = [connecting EXCEPT ![c] = r]
  <2>1. r \in R
    BY <1>1, <1>4 DEF Places
  <2>2. [connecting EXCEPT ![c].at = "make head", ![c].first = a] =
            [[connecting EXCEPT ![c] = [connecting[c] EXCEPT !.at = "make head"]]
                EXCEPT ![c].first = a]
    BY <1>1
  <2>4. [connecting EXCEPT ![c].at = "make head", ![c].first = a] =
            [connecting EXCEPT ![c] = [[connecting[c] EXCEPT !.at = "make head"]
                                         EXCEPT !.first = a]]
    BY <1>1, <2>2
  <2>5. [[connecting[c] EXCEPT !.at = "make head"] EXCEPT !.first = a] = r
    BY <1>1, RecordChange, Zenon
  <2>. QED  BY <1>3, <2>1, <2>4, <2>5
<1>6. /\ connecting' \in [Caller -> R] /\ connecting'[c] = r
      /\ \A d \in Caller : d # c => connecting'[d] = connecting[d]
  <2> HIDE DEF r, R
  <2>. QED  BY <1>1, <1>5
<1>7. /\ connecting'[c].at = "make head" /\ connecting'[c].first = a
      /\ connecting'[c].last = connecting[c].last
  <2>1. r.at = "make head" /\ r.first = a /\ r.last = connecting[c].last
    OBVIOUS
  <2> HIDE DEF r, R
  <2>. QED  BY <1>6, <2>1
<1>8. Watched'
  BY <1>2, <1>6, <1>7 DEF StubInv, Watched, Running, chainvars, members, zk
<1>9. ~disturbed /\ listed' => Reads(c)'
  <2>1. /\ HeadOf(children)' = HeadOf(children) /\ TailOf(children)' = TailOf(children)
        /\ listed' = listed /\ (HeadIsLong' <=> HeadIsLong)
    BY <1>2 DEF HeadOf, TailOf, HeadIsLong, chainvars, members, zk
  <2>2. ~disturbed /\ listed => /\ connecting[c].first = HeadOf(children)
                                /\ connecting[c].last = TailOf(children)
    BY <1>2 DEF StubInv, Undisturbed, Reads
  <2>3. ~disturbed /\ listed => a = HeadOf(children) \/ HeadIsLong
    BY <1>3, <2>2 DEF Cut, HeadIsLong
  <2>. QED  BY <1>7, <2>1, <2>2, <2>3 DEF Reads
<1>10. watch' \in BOOLEAN /\ listed' \in BOOLEAN /\ UNCHANGED <<event, session>>
  BY <1>2 DEF StubInv, Types, zk
<1>. QED  BY <1>2, <1>6, <1>7, <1>8, <1>9, <1>10, ReadingInv

(* Blocks are made and connected.                                          *)

Connections == [addr : Server \cup {NULL}, sock : Server \cup {UNSET, FREED}]

LEMMA KeptType ==
    ASSUME NEW f \in [Block -> Connections], NEW refs
    PROVE  /\ Kept(f, refs) \in [Block -> Connections]
           /\ \A b \in Block : Kept(f, refs)[b] = IF b \in refs THEN f[b] ELSE Blank
<1>1. Blank \in Connections
  BY DEF Blank, Connections
<1>. QED  BY <1>1 DEF Kept

(* A block is made, for an address, and those no pointer leads to are      *)
(* forgotten.                                                              *)
LEMMA NewBlock ==
    ASSUME Types, NEW a \in Server \cup {NULL}, NEW refs \in SUBSET {head, tail, ptr},
           conn' = [Kept(conn, refs) EXCEPT ![Fresh].addr = a]
    PROVE  /\ conn' \in [Block -> Connections]
           /\ conn'[Fresh].addr = a /\ conn'[Fresh].sock = UNSET
           /\ \A b \in Block \cap refs : conn'[b] = conn[b]
           /\ \A b \in Block : b # Fresh /\ b \notin refs => conn'[b] = Blank
<1>1. Fresh \in Block /\ Fresh \notin refs
  BY FreshIsNew
<1> DEFINE k == Kept(conn, refs)
           w == [addr |-> a, sock |-> UNSET]
<1>2. /\ k \in [Block -> Connections]
      /\ \A b \in Block : k[b] = IF b \in refs THEN conn[b] ELSE Blank
  <2>1. conn \in [Block -> Connections]
    BY DEF Types, Connections
  <2>. QED  BY <2>1, KeptType
<1> HIDE DEF k
<1>3. k[Fresh] = [addr |-> NULL, sock |-> UNSET]
  BY <1>1, <1>2 DEF Blank
<1>4. [k[Fresh] EXCEPT !.addr = a] = w
  BY <1>3
<1>5. w \in Connections
  BY DEF Connections
<1>6. w.addr = a /\ w.sock = UNSET
  OBVIOUS
<1>7. conn' = [k EXCEPT ![Fresh] = w]
  BY <1>4 DEF k
<1> HIDE DEF w
<1>8. conn' \in [Block -> Connections] /\ conn'[Fresh] = w
      /\ \A b \in Block : b # Fresh => conn'[b] = k[b]
  BY <1>1, <1>2, <1>5, <1>7
<1>. QED  BY <1>1, <1>2, <1>6, <1>8

(* network_connect() writes the socket of one block or none.               *)
LEMMA Connected ==
    ASSUME Types, Sockets, NEW b \in Block, network_connect(b)
    PROVE  /\ conn' \in [Block -> Connections]
           /\ \A d \in Block : conn'[d].addr = conn[d].addr
           /\ \A d \in Block : d # b => conn'[d] = conn[d]
           /\ conn'[b].sock \in Server => conn'[b].sock = conn[b].addr
           /\ conn[b].sock \in Server => conn'[b] = conn[b]
           /\ conn'[b].addr \in Up =>
                 conn'[b].sock = conn'[b].addr \/ conn'[b].sock = FREED
           /\ conn'[b].sock = FREED <=> conn[b].sock = FREED
<1>1. conn \in [Block -> Connections] /\ conn[b] \in Connections
  BY DEF Types, Connections
<1>2. CASE conn' = conn /\ (conn[b].addr \in Up => conn[b].sock = FREED)
  BY <1>1, <1>2 DEF Sockets
<1>3. CASE /\ conn[b].addr \in Up /\ conn[b].sock # FREED
           /\ conn' = [conn EXCEPT ![b].sock = conn[b].addr]
  <2> DEFINE w == [addr |-> conn[b].addr, sock |-> conn[b].addr]
  <2>1. conn[b].addr \in Server
    BY <1>3 DEF Up
  <2>2. [conn[b] EXCEPT !.sock = conn[b].addr] = w
    BY <1>1 DEF Connections
  <2>3. w \in Connections /\ w.addr = conn[b].addr /\ w.sock = conn[b].addr
    BY <2>1 DEF Connections
  <2>4. conn[b].sock \in Server => conn[b] = w
    BY <1>1 DEF Connections, Sockets
  <2>5. conn' = [conn EXCEPT ![b] = w]
    BY <1>3, <2>2
  <2> HIDE DEF w
  <2>6. conn' \in [Block -> Connections] /\ conn'[b] = w
        /\ \A d \in Block : d # b => conn'[d] = conn[d]
    BY <1>1, <2>3, <2>5
  <2>. QED  BY <1>3, <2>1, <2>3, <2>4, <2>6, Sentinels
<1>. QED  BY <1>2, <1>3 DEF network_connect

LEMMA MakeHeadInv == ASSUME StubInv, NEW c \in Caller, MakeHead(c) PROVE StubInv'
<1> DEFINE refs == {tail, ptr}
<1>1. /\ connecting[c].at = "make head" /\ head' = Fresh
      /\ conn' = [Kept(conn, refs) EXCEPT ![Fresh].addr = connecting[c].first]
      /\ Goes(c, "connect head")
      /\ UNCHANGED <<chainvars, zk, tail, main, request>>
  BY DEF MakeHead, At, KeepMain
<1>2. Types /\ connecting[c].first \in Server \cup {NULL} /\ "connect head" \in Places
      /\ refs \in SUBSET {head, tail, ptr}
  BY DEF StubInv, Types, Places
<1>3. Fresh \in Block /\ Fresh \notin {head, tail, ptr} /\ Fresh # 0
  <2>1. 0 \notin Block
    BY DEF Block
  <2>. QED  BY <1>2, <2>1, FreshIsNew
<1>4. /\ connecting' \in [Caller -> [at : Places, first : Server \cup {NULL},
                                     last : Server \cup {NULL}]]
      /\ connecting'[c].at = "connect head"
      /\ connecting'[c].first = connecting[c].first
      /\ connecting'[c].last = connecting[c].last
      /\ \A d \in Caller : d # c => connecting'[d] = connecting[d]
  BY <1>1, <1>2, GoesType, Zenon
<1>5. /\ conn' \in [Block -> Connections]
      /\ conn'[Fresh].addr = connecting[c].first /\ conn'[Fresh].sock = UNSET
      /\ \A b \in Block \cap refs : conn'[b] = conn[b]
      /\ \A b \in Block : b # Fresh /\ b \notin refs => conn'[b] = Blank
  <2> HIDE DEF refs
  <2>. QED  BY <1>1, <1>2, NewBlock, Zenon
<1>6. Types'
  BY <1>1, <1>3, <1>4, <1>5 DEF StubInv, Types, chainvars, members, zk, request, Connections
<1>7. Numbered'
  BY <1>1 DEF StubInv, Numbered, Enlisted, chainvars, members
<1>8. Pointers'
  BY <1>1, <1>3, <1>4, WithinPointers
<1>9. Sockets'
  <2>1. Blank.sock = UNSET
    BY DEF Blank
  <2>2. main' = "asked" => ptr' = ptr /\ ptr \in Block \cap refs
    BY <1>1 DEF StubInv, Types, Pointers, request
  <2>. QED  BY <1>1, <1>5, <2>1, <2>2, Sentinels DEF StubInv, Sockets
<1>10. Watched'
  BY <1>1, <1>4 DEF StubInv, Watched, Running, chainvars, members, zk
<1>11. HeadTried' /\ TailTried'
  BY <1>4 DEF HeadTried, TailTried, BeforeHead
<1>12. Undisturbed'
  <2>1. /\ HeadOf(children)' = HeadOf(children) /\ TailOf(children)' = TailOf(children)
        /\ listed' = listed /\ (HeadIsLong' <=> HeadIsLong)
        /\ UNCHANGED <<main, disturbed, event>>
    BY <1>1 DEF HeadOf, TailOf, HeadIsLong, chainvars, members, zk
  <2>2. ~disturbed /\ listed =>
            /\ connecting[c].last = TailOf(children)
            /\ connecting[c].first = HeadOf(children) \/ HeadIsLong
    BY <1>1 DEF StubInv, Undisturbed, Reads
  <2>3. ~disturbed /\ listed' => Reads(c)'
    BY <1>1, <1>4, <1>5, <2>1, <2>2 DEF Reads
  <2>. QED  BY <1>1, <1>4, <2>1, <2>3, WithinUndisturbed
<1>. QED  BY <1>6, <1>7, <1>8, <1>9, <1>10, <1>11, <1>12 DEF StubInv

LEMMA ConnectHeadInv == ASSUME StubInv, NEW c \in Caller, ConnectHead(c) PROVE StubInv'
<1>1. /\ connecting[c].at = "connect head" /\ network_connect(head)
      /\ Goes(c, "make tail")
      /\ UNCHANGED <<chainvars, zk, head, tail, main, request>>
  BY DEF ConnectHead, At, KeepMain, network_connect
<1>2. Types /\ Sockets /\ "make tail" \in Places /\ head \in Block /\ head # 0 /\ head # tail
  BY <1>1 DEF StubInv, Types, Places, Pointers
<1>3. /\ connecting' \in [Caller -> [at : Places, first : Server \cup {NULL},
                                     last : Server \cup {NULL}]]
      /\ connecting'[c].at = "make tail"
      /\ connecting'[c].first = connecting[c].first
      /\ connecting'[c].last = connecting[c].last
      /\ \A d \in Caller : d # c => connecting'[d] = connecting[d]
  BY <1>1, <1>2, GoesType, Zenon
<1>4. /\ conn' \in [Block -> Connections]
      /\ \A d \in Block : conn'[d].addr = conn[d].addr
      /\ \A d \in Block : d # head => conn'[d] = conn[d]
      /\ conn'[head].sock \in Server => conn'[head].sock = conn[head].addr
      /\ conn[head].sock \in Server => conn'[head] = conn[head]
      /\ conn'[head].addr \in Up =>
            conn'[head].sock = conn'[head].addr \/ conn'[head].sock = FREED
      /\ conn'[head].sock = FREED <=> conn[head].sock = FREED
  BY <1>1, <1>2, Connected, Zenon
<1>5. Types'
  BY <1>1, <1>3, <1>4 DEF StubInv, Types, chainvars, members, zk, request, Connections
<1>6. Numbered'
  BY <1>1 DEF StubInv, Numbered, Enlisted, chainvars, members
<1>7. Pointers'
  BY <1>1, <1>2, <1>3, WithinPointers
<1>8. Sockets'
  <2>1. \A b \in Block : conn'[b].sock \in Server => conn'[b].sock = conn'[b].addr
    BY <1>2, <1>4 DEF Sockets
  <2>2. main' = "asked" => ptr' = ptr /\ ptr \in Block /\ conn[ptr].sock \in Server
    BY <1>1, <1>2 DEF StubInv, Types, Pointers, Sockets, request
  <2>. QED  BY <1>1, <1>4, <2>1, <2>2 DEF Sockets
<1>9. Watched'
  BY <1>1, <1>3 DEF StubInv, Watched, Running, chainvars, members, zk
<1>10. UNCHANGED <<head, tail, life>> /\ Up' = Up
  BY <1>1 DEF Up, chainvars, members
<1>11. HeadTried' /\ TailTried'
  <2>1. conn'[head].addr \in Up => conn'[head].sock # UNSET
    BY <1>4, Sentinels DEF Up
  <2>. QED  BY <1>3, <1>10, <2>1 DEF HeadTried, TailTried
<1>12. Undisturbed'
  <2>1. /\ HeadOf(children)' = HeadOf(children) /\ TailOf(children)' = TailOf(children)
        /\ listed' = listed /\ (HeadIsLong' <=> HeadIsLong)
        /\ UNCHANGED <<main, disturbed, event>>
    BY <1>1 DEF HeadOf, TailOf, HeadIsLong, chainvars, members, zk
  <2>2. ~disturbed /\ listed =>
            /\ connecting[c].last = TailOf(children)
            /\ connecting[c].first = HeadOf(children) \/ HeadIsLong
            /\ conn[head].addr = connecting[c].first
    BY <1>1 DEF StubInv, Undisturbed, Reads
  <2>3. ~disturbed /\ listed' => Reads(c)'
    BY <1>3, <2>1, <2>2 DEF Reads
  <2>4. ~disturbed /\ listed' => HeadRight'
    BY <1>2, <1>4, <1>10, <2>1, <2>2 DEF HeadRight
  <2>. QED  BY <1>1, <1>3, <2>1, <2>3, <2>4, WithinUndisturbed
<1>. QED  BY <1>5, <1>6, <1>7, <1>8, <1>9, <1>11, <1>12 DEF StubInv

LEMMA MakeTailInv == ASSUME StubInv, NEW c \in Caller, MakeTail(c) PROVE StubInv'
<1> DEFINE refs == {head, ptr}
<1>1. /\ connecting[c].at = "make tail" /\ tail' = Fresh
      /\ conn' = [Kept(conn, refs) EXCEPT ![Fresh].addr = connecting[c].last]
      /\ Goes(c, "connect tail")
      /\ UNCHANGED <<chainvars, zk, head, main, request>>
  BY DEF MakeTail, At, KeepMain
<1>2. /\ Types /\ connecting[c].last \in Server \cup {NULL} /\ "connect tail" \in Places
      /\ refs \in SUBSET {head, tail, ptr} /\ head \in Block /\ head # 0
  BY <1>1 DEF StubInv, Types, Places, Pointers
<1>3. Fresh \in Block /\ Fresh \notin {head, tail, ptr} /\ Fresh # 0
  <2>1. 0 \notin Block
    BY DEF Block
  <2>. QED  BY <1>2, <2>1, FreshIsNew
<1>4. /\ connecting' \in [Caller -> [at : Places, first : Server \cup {NULL},
                                     last : Server \cup {NULL}]]
      /\ connecting'[c].at = "connect tail"
      /\ connecting'[c].first = connecting[c].first
      /\ connecting'[c].last = connecting[c].last
      /\ \A d \in Caller : d # c => connecting'[d] = connecting[d]
  BY <1>1, <1>2, GoesType, Zenon
<1>5. /\ conn' \in [Block -> Connections]
      /\ conn'[Fresh].addr = connecting[c].last /\ conn'[Fresh].sock = UNSET
      /\ \A b \in Block \cap refs : conn'[b] = conn[b]
      /\ \A b \in Block : b # Fresh /\ b \notin refs => conn'[b] = Blank
  <2> HIDE DEF refs
  <2>. QED  BY <1>1, <1>2, NewBlock, Zenon
<1>6. Types'
  BY <1>1, <1>3, <1>4, <1>5 DEF StubInv, Types, chainvars, members, zk, request, Connections
<1>7. Numbered'
  BY <1>1 DEF StubInv, Numbered, Enlisted, chainvars, members
<1>8. Pointers'
  BY <1>1, <1>2, <1>3, <1>4, WithinPointers
<1>9. Sockets'
  <2>1. Blank.sock = UNSET
    BY DEF Blank
  <2>2. main' = "asked" => ptr' = ptr /\ ptr \in Block \cap refs
    BY <1>1 DEF StubInv, Types, Pointers, request
  <2>. QED  BY <1>1, <1>5, <2>1, <2>2, Sentinels DEF StubInv, Sockets
<1>10. Watched'
  BY <1>1, <1>4 DEF StubInv, Watched, Running, chainvars, members, zk
<1>11. conn'[head] = conn[head] /\ UNCHANGED <<head, life, event, session>>
  BY <1>1, <1>2, <1>5 DEF chainvars, members, zk
<1>12. HeadTried' /\ TailTried'
  <2>1. HeadTried'
    BY <1>1, <1>2, <1>4, <1>11 DEF StubInv, HeadTried, BeforeHead, Up
  <2>2. TailTried'
    BY <1>4 DEF TailTried
  <2>. QED  BY <2>1, <2>2
<1>13. Undisturbed'
  <2>1. /\ HeadOf(children)' = HeadOf(children) /\ TailOf(children)' = TailOf(children)
        /\ listed' = listed /\ (HeadIsLong' <=> HeadIsLong)
        /\ UNCHANGED <<main, disturbed, event>>
    BY <1>1 DEF HeadOf, TailOf, HeadIsLong, chainvars, members, zk
  <2>2. ~disturbed /\ listed =>
            /\ connecting[c].last = TailOf(children)
            /\ connecting[c].first = HeadOf(children) \/ HeadIsLong
            /\ HeadRight
    BY <1>1 DEF StubInv, Undisturbed, Reads
  <2>3. ~disturbed /\ listed' => Reads(c)'
    BY <1>1, <1>4, <1>5, <2>1, <2>2 DEF Reads
  <2>4. ~disturbed /\ listed' => HeadRight'
    BY <1>11, <2>1, <2>2 DEF HeadRight, Up
  <2>. QED  BY <1>1, <1>4, <2>1, <2>3, <2>4, WithinUndisturbed
<1>. QED  BY <1>6, <1>7, <1>8, <1>9, <1>10, <1>12, <1>13 DEF StubInv

(* The thread is done, and main() goes on to its prompt.                   *)
LEMMA ConnectTailInv == ASSUME StubInv, NEW c \in Caller, ConnectTail(c) PROVE StubInv'
<1>1. /\ connecting[c].at = "connect tail" /\ network_connect(tail)
      /\ connecting' = [connecting EXCEPT ![c] = Idle]
      /\ main # "over" /\ main' = IF c = "main" THEN "prompt" ELSE main
      /\ UNCHANGED <<chainvars, zk, head, tail, request>>
  BY DEF ConnectTail, ConnectTailTo, At, network_connect, Running
<1>2. /\ Types /\ Sockets /\ Pointers
      /\ head \in Block /\ head # 0 /\ head # tail /\ tail \in Block /\ tail # 0
  BY <1>1 DEF StubInv, Types, Pointers
<1>3. /\ connecting' \in [Caller -> [at : Places, first : Server \cup {NULL},
                                     last : Server \cup {NULL}]]
      /\ connecting'[c] = Idle /\ Idle.at = "idle"
      /\ \A d \in Caller : d # c => connecting'[d] = connecting[d]
  <2> DEFINE R == [at : Places, first : Server \cup {NULL}, last : Server \cup {NULL}]
  <2>1. Idle \in R /\ Idle.at = "idle"
    BY DEF Idle, Places
  <2>2. connecting \in [Caller -> R]
    BY <1>2 DEF Types
  <2> HIDE DEF R
  <2>3. connecting' \in [Caller -> R] /\ connecting'[c] = Idle
        /\ \A d \in Caller : d # c => connecting'[d] = connecting[d]
    BY <1>1, <2>1, <2>2
  <2>. QED  BY <2>1, <2>3 DEF R
<1>4. /\ conn' \in [Block -> Connections]
      /\ \A d \in Block : conn'[d].addr = conn[d].addr
      /\ \A d \in Block : d # tail => conn'[d] = conn[d]
      /\ conn'[tail].sock \in Server => conn'[tail].sock = conn[tail].addr
      /\ conn[tail].sock \in Server => conn'[tail] = conn[tail]
      /\ conn'[tail].addr \in Up =>
            conn'[tail].sock = conn'[tail].addr \/ conn'[tail].sock = FREED
      /\ conn'[tail].sock = FREED <=> conn[tail].sock = FREED
  BY <1>1, <1>2, Connected, Zenon
<1>5. Types'
  <2>1. main' \in {"connecting", "prompt", "asked", "stuck", "over"}
    BY <1>1, <1>2 DEF Types
  <2>. QED  BY <1>1, <1>2, <1>3, <1>4, <2>1 DEF Types, chainvars, members, zk, request, Connections
<1>6. Numbered'
  BY <1>1 DEF StubInv, Numbered, Enlisted, chainvars, members
<1>7. "main" \in Caller /\ "watcher" \in Caller /\ "main" # "watcher"
      /\ (c = "main" \/ c = "watcher")
  BY DEF Caller
<1>8. c = "main" => main = "connecting" /\ ptr = 0
  BY <1>1, <1>2, <1>7 DEF Pointers
<1>9. Pointers'
  <2>1. /\ ptr' = ptr /\ head' = head /\ tail' = tail
    BY <1>1 DEF request
  <2>2. main' = "connecting" <=> connecting'["main"].at # "idle"
    BY <1>1, <1>2, <1>3, <1>7 DEF Pointers
  <2>3. \A d \in Caller :
          /\ connecting'[d].at = "idle" => connecting'[d] = Idle
          /\ connecting'[d].at \in {"connect head", "make tail", "connect tail"} => head' # 0
          /\ connecting'[d].at = "connect tail" => tail' # 0
    BY <1>2, <1>3, <2>1 DEF Pointers
  <2>4. main' # "over" /\ (main' = "asked" <=> ptr' # 0)
    BY <1>1, <1>2, <1>8, <2>1 DEF Pointers
  <2>. QED  BY <1>2, <2>1, <2>2, <2>3, <2>4 DEF Pointers
<1>10. Sockets'
  <2>1. \A b \in Block : conn'[b].sock \in Server => conn'[b].sock = conn'[b].addr
    BY <1>2, <1>4 DEF Sockets
  <2>2. main' = "asked" => ptr' = ptr /\ ptr \in Block /\ conn[ptr].sock \in Server
    BY <1>1, <1>2 DEF Types, Pointers, Sockets, request
  <2>. QED  BY <1>1, <1>4, <2>1, <2>2 DEF Sockets
<1>11. UNCHANGED <<head, tail, life, children, event, watch, session, listed, disturbed>> /\ Up' = Up
       /\ conn'[head] = conn[head]
  BY <1>1, <1>2, <1>4 DEF Up, chainvars, members, zk
<1>12. Watched'
  BY <1>1, <1>3, <1>11 DEF StubInv, Watched, Running
<1>13. HeadTried' /\ TailTried'
  <2>1. HeadTried'
    BY <1>1, <1>2, <1>3, <1>11 DEF StubInv, HeadTried, BeforeHead
  <2>2. conn'[tail].addr \in Up => conn'[tail].sock # UNSET
    BY <1>4, Sentinels DEF Up
  <2>3. TailTried'
    BY <1>11, <2>2 DEF TailTried
  <2>. QED  BY <2>1, <2>3
<1>14. Undisturbed'
  <2> SUFFICES ASSUME ~disturbed PROVE Undisturbed'
    BY <1>11 DEF Undisturbed
  <2>1. /\ HeadOf(children)' = HeadOf(children) /\ TailOf(children)' = TailOf(children)
        /\ (HeadIsLong' <=> HeadIsLong)
    BY <1>1 DEF HeadOf, TailOf, HeadIsLong, chainvars, members, zk
  <2>2. \A d \in Caller : connecting'[d].at = "idle"
    BY <1>1, <1>3, OnlyOne
  <2>3. main' # "connecting"
    BY <1>7, <1>9, <2>2 DEF Pointers
  <2>4. listed => connecting[c].last = TailOf(children) /\ HeadRight
                  /\ conn[tail].addr = connecting[c].last
    BY <1>1 DEF StubInv, Undisturbed, Reads
  <2>5. listed' => HeadRight'
    BY <1>11, <2>1, <2>4 DEF HeadRight
  <2>6. listed' => TailRight'
    BY <1>2, <1>4, <1>11, <2>1, <2>4 DEF TailRight
  <2>7. \A d \in Caller : Reads(d)'
    BY <2>2 DEF Reads
  <2>. QED  BY <2>3, <2>5, <2>6, <2>7 DEF Undisturbed, OneAtATime
<1>. QED  BY <1>5, <1>6, <1>9, <1>10, <1>12, <1>13, <1>14 DEF StubInv

(* The client ends.                                                        *)
LEMMA ExitInv == ASSUME StubInv, Exit PROVE StubInv'
<1>1. /\ main' = "over" /\ connecting' = [t \in Caller |-> Idle]
      /\ head' = 0 /\ tail' = 0 /\ conn' = [b \in Block |-> Blank]
      /\ ptr' = 0 /\ UNCHANGED <<chainvars, zk>>
  BY DEF Exit, NoRequest
<1>2. \A c \in Caller : connecting'[c] = Idle /\ connecting'[c].at = "idle"
  BY <1>1 DEF Idle
<1>3. Types'
  <2>1. Idle \in [at : Places, first : Server \cup {NULL}, last : Server \cup {NULL}]
    BY DEF Idle, Places
  <2>2. Blank \in [addr : Server \cup {NULL}, sock : Server \cup {UNSET, FREED}]
    BY DEF Blank
  <2>. QED  BY <1>1, <2>1, <2>2 DEF StubInv, Types, chainvars, members, zk
<1>4. Numbered'
  BY <1>1 DEF StubInv, Numbered, Enlisted, chainvars, members
<1>5. Pointers'
  BY <1>1, <1>2 DEF Pointers, Caller
<1>6. Sockets'
  BY <1>1, Sentinels DEF Sockets, Blank
<1>7. Watched' /\ HeadTried' /\ TailTried'
  BY <1>1 DEF StubInv, Watched, HeadTried, TailTried, Running, chainvars, members, zk
<1>8. Undisturbed'
  BY <1>1, <1>2 DEF Undisturbed, OneAtATime, Reads, Rests
<1>. QED  BY <1>3, <1>4, <1>5, <1>6, <1>7, <1>8 DEF StubInv

LEMMA ChildEventInv == ASSUME StubInv, ChildEvent PROVE StubInv'
<1>1. /\ event /\ event' = FALSE /\ connecting["watcher"].at = "idle" /\ main # "over"
      /\ Goes("watcher", "list")
      /\ UNCHANGED <<chainvars, watch, session, listed, pointers, main, request>>
  BY DEF ChildEvent, At, KeepMain, Running
<1>2. Types /\ "watcher" \in Caller /\ "main" \in Caller /\ "main" # "watcher"
      /\ "list" \in Places
  BY DEF StubInv, Caller, Places
<1>3. /\ connecting' \in [Caller -> [at : Places, first : Server \cup {NULL},
                                     last : Server \cup {NULL}]]
      /\ connecting'["watcher"].at = "list"
      /\ \A d \in Caller : d # "watcher" => connecting'[d] = connecting[d]
  BY <1>1, <1>2, GoesType, Zenon
<1> USE DEF chainvars, members, pointers, request
<1>4. Types'
  BY <1>1, <1>3 DEF StubInv, Types
<1>5. Numbered' /\ Sockets'
  BY <1>1 DEF StubInv, Numbered, Sockets, Enlisted
<1>6. Pointers'
  <2>1. \A d \in Caller :
          /\ connecting'[d].at = "idle" => connecting'[d] = Idle
          /\ connecting'[d].at \in {"connect head", "make tail", "connect tail"} => head # 0
          /\ connecting'[d].at = "connect tail" => tail # 0
    BY <1>3 DEF StubInv, Pointers
  <2>. QED  BY <1>1, <1>2, <1>3, <2>1 DEF StubInv, Pointers
<1>7. Watched'
  BY <1>1, <1>2, <1>3 DEF StubInv, Watched
<1>8. HeadTried' /\ TailTried'
  BY <1>2, <1>3 DEF HeadTried, TailTried, BeforeHead
<1>9. Undisturbed'
  <2> SUFFICES ASSUME ~disturbed PROVE Undisturbed'
    BY <1>1 DEF Undisturbed
  <2>1. main # "connecting" /\ connecting["main"].at = "idle"
    BY <1>1, <1>2 DEF StubInv, Undisturbed, OneAtATime, Pointers
  <2>2. \A d \in Caller : d = "main" \/ d = "watcher"
    BY DEF Caller
  <2>3. \A d \in Caller : connecting'[d].at \in {"idle", "list"}
    BY <1>2, <1>3, <2>1, <2>2
  <2>4. \A d \in Caller : Reads(d)'
    BY <2>3 DEF Reads
  <2>. QED  BY <1>1, <1>3, <2>1, <2>3, <2>4 DEF Undisturbed, OneAtATime, Rests
<1>. QED  BY <1>4, <1>5, <1>6, <1>7, <1>8, <1>9 DEF StubInv

-----------------------------------------------------------------------------
(* The main thread works on the blocks it finds; at most, it frees one.    *)
LEMMA OperationStep ==
    ASSUME StubInv, UNCHANGED <<chainvars, zk, connecting, head, tail>>,
           main \in {"prompt", "asked"}, main' \in {"prompt", "asked", "stuck"},
           ptr' \in Block \cup {0}, main' = "asked" <=> ptr' # 0,
           conn' \in [Block -> Connections], Sockets',
           \A b \in Block \cap {head, tail} :
              /\ conn'[b].addr = conn[b].addr
              /\ conn'[b].sock \in {conn[b].sock, FREED}
    PROVE  StubInv'
<1> USE DEF chainvars, members, zk
<1>1. Types'
  BY DEF StubInv, Types, Connections
<1>2. Numbered'
  BY DEF StubInv, Numbered, Enlisted
<1>3. Pointers'
  BY DEF StubInv, Pointers
<1>4. Watched'
  BY DEF StubInv, Watched, Running
<1>5. head \in Block /\ tail \in Block
  BY DEF StubInv, Pointers, Types
<1>6. HeadTried' /\ TailTried'
  BY <1>5, Sentinels DEF StubInv, HeadTried, TailTried, Up
<1>7. Undisturbed'
  <2>1. /\ HeadOf(children)' = HeadOf(children) /\ TailOf(children)' = TailOf(children)
        /\ (HeadIsLong' <=> HeadIsLong) /\ Up' = Up
    BY DEF HeadOf, TailOf, HeadIsLong, Up
  <2>2. \A c \in Caller : Reads(c) => Reads(c)'
    BY <1>5, <2>1 DEF Reads, StubInv, Pointers
  <2>3. (HeadRight => HeadRight') /\ (TailRight => TailRight')
    BY <1>5, <2>1 DEF HeadRight, TailRight
  <2>. QED  BY <2>2, <2>3 DEF StubInv, Undisturbed, OneAtATime, Rests
<1>. QED  BY <1>1, <1>2, <1>3, <1>4, <1>6, <1>7 DEF StubInv

LEMMA SendInv == ASSUME StubInv, NEW r \in End, Send(r) PROVE StubInv'
<1> DEFINE p == Pointer(r)
<1>1. /\ main = "prompt" /\ main' = "asked" /\ ptr' = p
      /\ conn[p].sock \in Up /\ UNCHANGED <<chainvars, zk, connecting, head, tail, conn>>
  BY DEF Send, Socket, pointers
<1>2. p \in Block /\ p # 0
  BY <1>1 DEF StubInv, Types, Pointers, Pointer
<1>3. Sockets'
  BY <1>1, <1>2 DEF StubInv, Sockets, Up
<1>4. conn' \in [Block -> Connections]
  BY <1>1 DEF StubInv, Types, Connections
<1>. QED  BY <1>1, <1>2, <1>3, <1>4, OperationStep

LEMMA FailsInv ==
    ASSUME StubInv, main \in {"prompt", "asked"}, NEW p \in Block, Fails(p)
    PROVE  StubInv'
<1> DEFINE f == [conn EXCEPT ![p].sock = FREED]
           w == [addr |-> conn[p].addr, sock |-> FREED]
<1>1. /\ conn' = Kept(f, {head, tail}) /\ main' = "prompt" /\ ptr' = 0
      /\ UNCHANGED <<chainvars, zk, connecting, head, tail>>
  BY DEF Fails, NoRequest
<1>2. conn \in [Block -> Connections] /\ conn[p] \in Connections
  BY DEF StubInv, Types, Connections
<1>3. [conn[p] EXCEPT !.sock = FREED] = w
  BY <1>2 DEF Connections
<1>4. w \in Connections /\ w.addr = conn[p].addr /\ w.sock = FREED
  BY <1>2 DEF Connections
<1>5. f = [conn EXCEPT ![p] = w]
  BY <1>3
<1> HIDE DEF f, w
<1>6. f \in [Block -> Connections] /\ f[p] = w /\ \A b \in Block : b # p => f[b] = conn[b]
  BY <1>2, <1>4, <1>5
<1>7. /\ conn' \in [Block -> Connections]
      /\ \A b \in Block : conn'[b] = IF b \in {head, tail} THEN f[b] ELSE Blank
  <2> DEFINE refs == {head, tail}
  <2> HIDE DEF refs
  <2>1. conn' = Kept(f, refs)
    BY <1>1 DEF refs
  <2>2. /\ Kept(f, refs) \in [Block -> Connections]
        /\ \A b \in Block : Kept(f, refs)[b] = IF b \in refs THEN f[b] ELSE Blank
    BY <1>6, KeptType
  <2>. QED  BY <2>1, <2>2 DEF refs
<1>8. Sockets'
  <2>1. Blank.sock = UNSET
    BY DEF Blank
  <2>. QED  BY <1>1, <1>4, <1>6, <1>7, <2>1, Sentinels DEF StubInv, Sockets
<1>9. \A b \in Block \cap {head, tail} :
          conn'[b].addr = conn[b].addr /\ conn'[b].sock \in {conn[b].sock, FREED}
  BY <1>4, <1>6, <1>7
<1>. QED  BY <1>1, <1>7, <1>8, <1>9, OperationStep

LEMMA SendFailsInv == ASSUME StubInv, NEW r \in End, SendFails(r) PROVE StubInv'
<1>1. main = "prompt" /\ Pointer(r) \in Block
  BY DEF SendFails, StubInv, Types, Pointers, Pointer
<1>2. CASE Fails(Pointer(r))
  BY <1>1, <1>2, FailsInv
<1>3. CASE Exit
  BY <1>3, ExitInv
<1>4. CASE main' = "stuck" /\ UNCHANGED <<chainvars, zk, connecting, pointers, request>>
  <2>1. ptr' = 0 /\ UNCHANGED <<chainvars, zk, connecting, head, tail, conn>>
    BY <1>1, <1>4 DEF pointers, request, StubInv, Pointers
  <2>2. conn' \in [Block -> Connections] /\ Sockets'
    BY <1>1, <1>4, <2>1 DEF StubInv, Types, Connections, Sockets
  <2>. QED  BY <1>1, <1>4, <2>1, <2>2, OperationStep
<1>5. CASE UNCHANGED vars
  <2>1. ptr' = 0 /\ main' = main /\ UNCHANGED <<chainvars, zk, connecting, head, tail, conn>>
    BY <1>1, <1>5 DEF vars, pointers, request, StubInv, Pointers
  <2>2. conn' \in [Block -> Connections] /\ Sockets'
    BY <1>1, <2>1 DEF StubInv, Types, Connections, Sockets
  <2>. QED  BY <1>1, <2>1, <2>2, OperationStep
<1>. QED  BY <1>2, <1>3, <1>4, <1>5 DEF SendFails

LEMMA NetworkStepInv == ASSUME StubInv, NetworkStep PROVE StubInv'
<1>1. main = "asked" /\ ptr \in Block
  BY DEF NetworkStep, Serve, Receive, ReceiveFails, StubInv, Pointers, Types
<1>2. conn \in [Block -> Connections]
  BY DEF StubInv, Types, Connections
<1>3. CASE Serve
  <2>1. ptr' = ptr /\ main' = main /\ UNCHANGED <<chainvars, zk, connecting, head, tail, conn>>
    BY <1>3 DEF Serve, pointers
  <2>2. Sockets'
    BY <2>1 DEF StubInv, Sockets
  <2>3. ptr' # 0
    BY <1>1, <2>1 DEF StubInv, Pointers
  <2>. QED  BY <1>1, <1>2, <2>1, <2>2, <2>3, OperationStep
<1>4. CASE Receive
  <2> DEFINE refs == {head, tail}
  <2>1. /\ conn' = Kept(conn, refs) /\ main' = "prompt" /\ ptr' = 0
        /\ UNCHANGED <<chainvars, zk, connecting, head, tail>>
    BY <1>4 DEF Receive, NoRequest
  <2>2. /\ conn' \in [Block -> Connections]
        /\ \A b \in Block : conn'[b] = IF b \in refs THEN conn[b] ELSE Blank
    <3> HIDE DEF refs
    <3>1. /\ Kept(conn, refs) \in [Block -> Connections]
          /\ \A b \in Block : Kept(conn, refs)[b] = IF b \in refs THEN conn[b] ELSE Blank
      BY <1>2, KeptType
    <3>. QED  BY <2>1, <3>1
  <2>3. Sockets'
    <3>1. Blank.sock = UNSET
      BY DEF Blank
    <3>. QED  BY <2>1, <2>2, <3>1, Sentinels DEF StubInv, Sockets
  <2>. QED  BY <1>1, <2>1, <2>2, <2>3, OperationStep
<1>5. CASE ReceiveFails
  BY <1>1, <1>5, FailsInv, ExitInv DEF ReceiveFails
<1>. QED  BY <1>3, <1>4, <1>5 DEF NetworkStep

LEMMA ChangeInv == ASSUME StubInv, Change PROVE StubInv'
<1>1. PICK s \in Server :
          \/ /\ MayLose(s) /\ Die(s)
             /\ UNCHANGED <<zk, disturbed>>
          \/ /\ (MayLose(s) /\ Expire(s)) \/ (s = NextToJoin /\ Join(s))
             /\ event' = (event \/ watch) /\ watch' = FALSE /\ listed' = FALSE
             /\ UNCHANGED session
             /\ disturbed' = (disturbed \/ connecting["main"].at \notin {"idle", "list"})
  BY DEF Change
<1>2. Running /\ UNCHANGED <<connecting, pointers, main, request>>
  BY DEF Change
<1>3. CASE Die(s) /\ UNCHANGED <<zk, disturbed>>
  BY <1>2, <1>3, DieInv
<1>4. CASE /\ Expire(s) \/ Join(s)
           /\ event' = (event \/ watch) /\ watch' = FALSE /\ listed' = FALSE
           /\ UNCHANGED session
           /\ disturbed' = (disturbed \/ connecting["main"].at \notin {"idle", "list"})
  BY <1>2, <1>4, ChildrenChangeInv
<1>. QED  BY <1>1, <1>3, <1>4

(* The client's own session ends: nobody notices.                          *)
LEMMA SessionEndsInv == ASSUME StubInv, SessionEnds PROVE StubInv'
<1>1. /\ session' = FALSE /\ watch' = FALSE /\ event' \in {event, FALSE}
      /\ UNCHANGED <<chainvars, listed, connecting, pointers, main, request>>
  BY DEF SessionEnds
<1> USE DEF chainvars, members, pointers, request
<1>2. Types'
  BY <1>1 DEF StubInv, Types
<1>3. Numbered' /\ Pointers' /\ Sockets'
  BY <1>1 DEF StubInv, Numbered, Enlisted, Pointers, Sockets
<1>4. Watched' /\ HeadTried' /\ TailTried'
  BY <1>1 DEF StubInv, Watched, HeadTried, TailTried
<1>5. Undisturbed'
  <2>1. /\ HeadOf(children)' = HeadOf(children) /\ TailOf(children)' = TailOf(children)
        /\ (HeadIsLong' <=> HeadIsLong) /\ Up' = Up
    BY <1>1 DEF HeadOf, TailOf, HeadIsLong, Up
  <2>2. \A c \in Caller : Reads(c) => Reads(c)'
    BY <1>1, <2>1 DEF Reads
  <2>3. (HeadRight => HeadRight') /\ (TailRight => TailRight')
    BY <1>1, <2>1 DEF HeadRight, TailRight
  <2>. QED  BY <1>1, <2>2, <2>3 DEF StubInv, Undisturbed, OneAtATime, Rests
<1>. QED  BY <1>2, <1>3, <1>4, <1>5 DEF StubInv

LEMMA StutterInv == ASSUME StubInv, UNCHANGED vars PROVE StubInv'
<1> USE DEF vars, chainvars, members, zk, pointers, request
<1>1. Types' /\ Numbered' /\ Pointers' /\ Sockets'
  BY DEF StubInv, Types, Numbered, Enlisted, Pointers, Sockets
<1>2. Watched' /\ HeadTried' /\ TailTried'
  BY DEF StubInv, Watched, Running, HeadTried, TailTried, Up
<1>3. Undisturbed'
  <2>1. /\ HeadOf(children)' = HeadOf(children) /\ TailOf(children)' = TailOf(children)
        /\ (HeadIsLong' <=> HeadIsLong) /\ Up' = Up
    BY DEF HeadOf, TailOf, HeadIsLong, Up
  <2>2. \A c \in Caller : Reads(c) => Reads(c)'
    BY <2>1 DEF Reads
  <2>3. (HeadRight => HeadRight') /\ (TailRight => TailRight')
    BY <2>1 DEF HeadRight, TailRight
  <2>. QED  BY <2>2, <2>3 DEF StubInv, Undisturbed, OneAtATime, Rests
<1>. QED  BY <1>1, <1>2, <1>3 DEF StubInv

LEMMA StepInv == ASSUME StubInv, [Next]_vars PROVE StubInv'
<1>1. "head" \in End /\ "tail" \in End
  BY DEF End
<1>2. CASE Operation
  <2>1. CASE \E r \in End : Send(r)
    BY <2>1, SendInv
  <2>2. CASE \E r \in End : SendFails(r)
    BY <2>2, SendFailsInv
  <2>. QED  BY <1>1, <1>2, <2>1, <2>2
            DEF Operation, rtable_put_head, rtable_del_head, rtable_get_tail,
                rtable_size_tail, rtable_get_keys_tail, rtable_get_table_tail,
                rtable_stats_tail
<1>3. CASE \E c \in Caller : rtable_connect_zookeeper(c)
  <2>1. PICK c \in Caller : rtable_connect_zookeeper(c)
    BY <1>3
  <2>2. CASE CallFails(c)
    BY <2>2, ExitInv DEF CallFails
  <2>. QED  BY <2>1, <2>2, ListInVainInv, ListInv, GetTailAddressInv, GetHeadAddressInv,
               MakeHeadInv, ConnectHeadInv, MakeTailInv, ConnectTailInv
            DEF rtable_connect_zookeeper
<1>4. CASE Quit
  BY <1>4, ExitInv DEF Quit
<1>. QED  BY <1>2, <1>3, <1>4, ChangeInv, SessionEndsInv, ChildEventInv,
          NetworkStepInv, StutterInv DEF Next

-----------------------------------------------------------------------------
(* StubInv holds in every state of a client.                               *)
THEOREM StubInvariance == Spec => []StubInv
<1>1. Init => StubInv
  BY InitInv
<1>2. StubInv /\ [Next]_vars => StubInv'
  BY StepInv
<1>. QED  BY <1>1, <1>2, PTL DEF Spec

(* Every variable has its type; the numbers of the nodes are bounded by    *)
(* the number of servers, and the prompt shows with two pointers to two    *)
(* blocks.                                                                 *)
THEOREM StubTypeCorrectness == Spec => []TypeOK
<1>1. StubInv => TypeOK
  <2> SUFFICES ASSUME StubInv PROVE TypeOK
    OBVIOUS
  <2>1. id \in [Server -> 0 .. Cardinality(Server)]
    <3>1. /\ id \in [Server -> Nat] /\ \A s \in Server : id[s] <= Cardinality(Enlisted)
      BY DEF StubInv, Types, Numbered
    <3>. QED  BY <3>1, EnlistedFinite
  <2>2. main \in {"prompt", "asked"} => head \in Block /\ tail \in Block \ {head}
    BY DEF StubInv, Types, Pointers
  <2>. QED  BY <2>1, <2>2 DEF StubInv, Types, TypeOK
<1>. QED  BY <1>1, StubInvariance, PTL

(* The client never sleeps through a change of the chain while its session *)
(* lasts: at rest, it has listed the children as they are (the watch that  *)
(* rtable_connect_zookeeper() sets by its second listing).                 *)
THEOREM ChangesReachTheClient == Spec => []NoChangeMissed
<1>1. StubInv => NoChangeMissed
  <2>1. Idle.at = "idle"
    BY DEF Idle
  <2>. QED  BY <2>1 DEF StubInv, Watched, NoChangeMissed, AtRest, Running
<1>. QED  BY <1>1, StubInvariance, PTL

(* A client at rest, with a session, writes to the first and reads from    *)
(* the last server.                                                        *)
THEOREM ClientPointsAtEnds == Spec => []PointsAtEnds
<1>1. StubInv => PointsAtEnds
  <2> SUFFICES ASSUME StubInv, AtRest, session, children \subseteq Up, ~disturbed
               PROVE  /\ Socket("tail") = TailOf(children) \/ Socket("tail") = FREED
                      /\ \/ Socket("head") = HeadOf(children) \/ Socket("head") = FREED
                         \/ id[HeadOf(children)] \in Long /\ id[TailOf(children)] \notin Long
    BY DEF PointsAtEnds
  <2>1. Rests /\ listed /\ children # {}
    <3>1. Idle.at = "idle" /\ "watcher" \in Caller
      BY DEF Idle, Caller
    <3>. QED  BY <3>1 DEF AtRest, Rests, StubInv, Watched, Running
  <2>2. HeadOf(children) \in Up /\ TailOf(children) \in Up
    BY <2>1, EndsAreMembers DEF StubInv
  <2>3. HeadRight /\ TailRight
    BY <2>1 DEF StubInv, Undisturbed
  <2>. QED  BY <2>2, <2>3 DEF HeadRight, TailRight, HeadIsLong, Socket, Pointer
<1>. QED  BY <1>1, StubInvariance, PTL

(* A head or tail without a socket is replaced or connected before the     *)
(* client rests, or nobody is at its address, while its session lasts.     *)
THEOREM UnsetPointersAreReplaced == Spec => []UnsetOnlyForNow
<1>1. StubInv => UnsetOnlyForNow
  <2> SUFFICES ASSUME StubInv, main \in {"prompt", "asked"}, NEW r \in End,
                      Socket(r) = UNSET, conn[Pointer(r)].addr \in Up, session
               PROVE  event \/ \E c \in Caller : connecting[c] # Idle
    BY DEF UnsetOnlyForNow
  <2>1. head # 0 /\ tail # 0
    BY DEF StubInv, Pointers
  <2>2. event \/ \E c \in Caller : connecting[c].at # "idle"
    <3>1. CASE r = "head"
      BY <2>1, <3>1 DEF StubInv, HeadTried, Socket, Pointer, BeforeHead
    <3>2. CASE r = "tail"
      BY <2>1, <3>2 DEF StubInv, TailTried, Socket, Pointer
    <3>. QED  BY <3>1, <3>2 DEF End
  <2>. QED  BY <2>2 DEF Idle
<1>. QED  BY <1>1, StubInvariance, PTL

(* While a request is out, the block it went through stays as it is, also  *)
(* when the watcher replaces head and tail meanwhile.                      *)
THEOREM AnswerComesFromWhereItWasAsked == Spec => PendingConnectionKept
<1> DEFINE Keeps == main = "asked" /\ main' = "asked" => ptr' = ptr /\ conn'[ptr] = conn[ptr]
<1>1. ASSUME StubInv, [Next]_vars PROVE Keeps
  <2> SUFFICES ASSUME main = "asked", main' = "asked"
               PROVE  ptr' = ptr /\ conn'[ptr] = conn[ptr]
    OBVIOUS
  <2>1. Types /\ Sockets /\ ptr \in Block /\ conn[ptr].sock \in Server
    BY <1>1 DEF StubInv, Types, Pointers, Sockets
  <2>2. CASE \E c \in Caller : rtable_connect_zookeeper(c)
    <3>1. PICK c \in Caller : rtable_connect_zookeeper(c)
      BY <2>2
    <3>2. CASE ListInVain(c) \/ List(c) \/ GetTailAddress(c) \/ GetHeadAddress(c)
      BY <3>2 DEF ListInVain, List, Lists, GetTailAddress, GetHeadAddress, KeepMain,
                  pointers, request
    <3>3. CASE CallFails(c)
      BY <3>3 DEF CallFails, Exit
    <3>4. CASE MakeHead(c)
      <4> DEFINE refs == {tail, ptr}
      <4>1. /\ conn' = [Kept(conn, refs) EXCEPT ![Fresh].addr = connecting[c].first]
            /\ ptr' = ptr /\ connecting[c].first \in Server \cup {NULL}
            /\ refs \in SUBSET {head, tail, ptr} /\ ptr \in refs
        BY <2>1, <3>4 DEF MakeHead, KeepMain, request, Types
      <4> HIDE DEF refs
      <4>2. \A b \in Block \cap refs : conn'[b] = conn[b]
        BY <2>1, <4>1, NewBlock, Zenon
      <4>. QED  BY <2>1, <4>1, <4>2
    <3>5. CASE MakeTail(c)
      <4> DEFINE refs == {head, ptr}
      <4>1. /\ conn' = [Kept(conn, refs) EXCEPT ![Fresh].addr = connecting[c].last]
            /\ ptr' = ptr /\ connecting[c].last \in Server \cup {NULL}
            /\ refs \in SUBSET {head, tail, ptr} /\ ptr \in refs
        BY <2>1, <3>5 DEF MakeTail, KeepMain, request, Types
      <4> HIDE DEF refs
      <4>2. \A b \in Block \cap refs : conn'[b] = conn[b]
        BY <2>1, <4>1, NewBlock, Zenon
      <4>. QED  BY <2>1, <4>1, <4>2
    <3>6. ASSUME NEW b \in Block, network_connect(b) PROVE conn'[ptr] = conn[ptr]
      BY <2>1, <3>6, Connected
    <3>7. CASE ConnectHead(c)
      <4>1. network_connect(head) /\ head \in Block /\ ptr' = ptr
        BY <1>1, <3>7 DEF ConnectHead, At, KeepMain, request, StubInv, Pointers, Types
      <4>. QED  BY <3>6, <4>1
    <3>8. CASE ConnectTail(c)
      <4>1. network_connect(tail) /\ tail \in Block /\ ptr' = ptr
        BY <1>1, <3>8 DEF ConnectTail, ConnectTailTo, At, request, StubInv, Pointers, Types
      <4>. QED  BY <3>6, <4>1
    <3>. QED  BY <3>1, <3>2, <3>3, <3>4, <3>5, <3>7, <3>8 DEF rtable_connect_zookeeper
  <2>3. CASE Change \/ SessionEnds \/ ChildEvent
    BY <2>3 DEF Change, SessionEnds, ChildEvent, KeepMain, pointers, request
  <2>4. CASE Operation
    BY <2>4 DEF Operation, Exit, Fails, rtable_put_head, rtable_del_head, rtable_get_tail,
                rtable_size_tail, rtable_get_keys_tail, rtable_get_table_tail,
                rtable_stats_tail, Send, SendFails
  <2>5. CASE NetworkStep
    BY <2>5 DEF NetworkStep, Serve, Receive, ReceiveFails, Fails, Exit, pointers
  <2>6. CASE Quit
    BY <2>6 DEF Quit
  <2>7. CASE UNCHANGED vars
    BY <2>7 DEF vars, pointers, request
  <2>. QED  BY <1>1, <2>2, <2>3, <2>4, <2>5, <2>6, <2>7 DEF Next
<1> HIDE DEF Keeps
<1>2. StubInv /\ [Next]_vars => [Keeps]_vars
  BY <1>1
<1>3. Spec => [][Keeps]_vars
  BY <1>2, StubInvariance, PTL DEF Spec
<1>. QED  BY <1>3 DEF Keeps, PendingConnectionKept
=============================================================================
