--------------------------- MODULE TableSkelProofs ---------------------------
(***************************************************************************)
(* Theorems about TableSkel, for every set of threads, keys, values,       *)
(* requests and initial tables, with and without failures of malloc.       *)
(***************************************************************************)
EXTENDS TableSkel, RWLockProofs

SkelInv ==
    /\ TypeOK
    /\ LockInv
    /\ Placed
    /\ FreedInHand
    /\ ReadersSeeOneTable

-----------------------------------------------------------------------------
(* What the lock gives to the threads that are inside.                     *)

LEMMA WriterAlone ==
    ASSUME LockInv, NEW t \in Thread, phase[t] = "writing"
    PROVE  \A u \in Thread : u # t => phase[u] \notin {"reading", "writing"}
<1>1. t \in Writers
  BY DEF Writers
<1>2. Readers = {} /\ Writers = {t}
  BY <1>1, InvMutualExclusion DEF MutualExclusion
<1>. QED  BY <1>2 DEF Readers, Writers

LEMMA ReaderExcludesWriters ==
    ASSUME LockInv, NEW t \in Thread, phase[t] = "reading"
    PROVE  \A u \in Thread : phase[u] # "writing"
<1>. SUFFICES ASSUME NEW u \in Thread, phase[u] = "writing" PROVE FALSE
  OBVIOUS
<1>. QED  BY WriterAlone

(* A reader never meets a freed value.                                     *)
LEMMA ReaderSeesNoFreed ==
    ASSUME SkelInv, NEW t \in Thread, phase[t] = "reading"
    PROVE  \A k \in Key : table[k] \in Val \cup {NULL}
<1>1. \A u \in Thread : pc[u] # "replace"
  BY ReaderExcludesWriters DEF SkelInv, Placed
<1>. QED  BY <1>1 DEF SkelInv, FreedInHand, TypeOK

(* A thread that returns from invoke() while inside leaves the counters    *)
(* too high, which LockInv allows.                                         *)
LEMMA AbandonInv ==
    ASSUME LockInv, NEW t \in Thread, phase[t] \in {"reading", "writing"},
           Abandon(t)
    PROVE  LockInv'
<1> USE DEF Abandon, Leave, counters, LockInv, LockTypeOK
<1>1. LockTypeOK'
  BY DEF Phase
<1>2. /\ Readers' \subseteq Readers
      /\ Writers' \subseteq Writers
      /\ WaitingWriters' = WaitingWriters
  BY DEF Readers, Writers, WaitingWriters
<1>3. /\ Cardinality(Readers') <= Cardinality(Readers)
      /\ Cardinality(Writers') <= Cardinality(Writers)
      /\ Cardinality(Readers') \in Nat /\ Cardinality(Writers') \in Nat
  BY <1>2, CountedSetsFinite, FS_Subset, FS_CardinalityType
<1>4. ReaderMustWait' = ReaderMustWait /\ WriterMustWait' = WriterMustWait
  BY DEF ReaderMustWait, WriterMustWait
<1>. QED  BY <1>1, <1>2, <1>3, <1>4, CountedSetsFinite

LEMMA LockUntouched ==
    LockInv /\ UNCHANGED lockVars => LockInv'
  BY LockIdle

-----------------------------------------------------------------------------
(* Messages.                                                               *)

LEMMA NoMsgType == NoMsg \in Message /\ DOMAIN NoMsg.entries = {}
<1>1. NoEntries \in [{} -> Val] /\ DOMAIN NoEntries = {}
  BY DEF NoEntries
<1>2. NoEntries \in Gathered
  <2>1. [{} -> Val] \in {[S -> Val] : S \in SUBSET Key}
    OBVIOUS
  <2>. QED  BY <1>1, <2>1 DEF Gathered
<1>. QED  BY <1>1, <1>2 DEF NoMsg, Message, OpCodes

LEMMA GatheredType ==
    ASSUME NEW e \in Gathered
    PROVE  DOMAIN e \in SUBSET Key /\ e \in [DOMAIN e -> Val]
  BY DEF Gathered

LEMMA UnpackedType ==
    ASSUME NEW r \in Requests
    PROVE  /\ Unpacked(r) \in Message
           /\ Unpacked(r).op = r.op /\ Unpacked(r).key = r.key
           /\ DOMAIN Unpacked(r).entries = {}
  BY NoMsgType, DataAssumption DEF Unpacked, NoMsg, Message

LEMMA TableSizeType ==
    ASSUME NEW f PROVE Cardinality(Keys(f)) \in Nat /\ Keys(f) \subseteq Key
<1>1. Keys(f) \subseteq Key
  BY DEF Keys
<1>. QED  BY <1>1, DataAssumption, FS_Subset, FS_CardinalityType

-----------------------------------------------------------------------------
(* client_handler().                                                       *)

LEMMA InitSkelInv == Init => SkelInv
<1> SUFFICES ASSUME Init PROVE SkelInv
  OBVIOUS
<1>1. LockInv
  BY InitInv DEF Init
<1>2. TypeOK
  BY <1>1, NoMsgType, DataAssumption DEF Init, TypeOK, LockInv, PC
<1>3. Placed
  BY NoMsgType DEF Init, Placed, LockInit, NoMsg
<1>4. FreedInHand
  BY DataAssumption DEF Init, FreedInHand
<1>5. ReadersSeeOneTable
  BY DEF Init, LockInit, ReadersSeeOneTable, Readers
<1>. QED  BY <1>1, <1>2, <1>3, <1>4, <1>5 DEF SkelInv

LEMMA ReceiveInv ==
    ASSUME SkelInv, NEW t \in Thread, Receive(t)
    PROVE  SkelInv'
<1> USE DEF SkelInv, Receive, Goto, Becomes, KeepStats, KeepLink, chainVars, lockVars
<1>1. LockInv'
  BY LockUntouched
<1>2. PICK r \in Requests : msg' = [msg EXCEPT ![t] = Unpacked(r)]
  OBVIOUS
<1>3. TypeOK'
  BY <1>1, <1>2, UnpackedType DEF TypeOK, LockInv, PC
<1>4. phase[t] = "out" /\ t \notin Readers
  BY DEF Placed, Readers
<1>5. Placed'
  BY <1>2, <1>4, UnpackedType, DataAssumption DEF Placed, TypeOK
<1>6. FreedInHand'
  BY <1>2 DEF FreedInHand, TypeOK
<1>7. ReadersSeeOneTable'
  BY <1>2, <1>4 DEF ReadersSeeOneTable, Readers, TypeOK
<1>. QED  BY <1>1, <1>3, <1>5, <1>6, <1>7

LEMMA ReplyInv ==
    ASSUME SkelInv, NEW t \in Thread, Reply(t)
    PROVE  SkelInv'
<1> USE DEF SkelInv, Reply, Goto, Becomes, KeepRest, KeepStats, KeepLink, chainVars, lockVars
<1>1. LockInv'
  BY LockUntouched
<1>2. TypeOK'
  BY <1>1, NoMsgType DEF TypeOK, LockInv, PC
<1>3. phase[t] = "out" /\ t \notin Readers
  BY DEF Placed, Readers
<1>4. Placed'
  BY <1>3, NoMsgType DEF Placed, TypeOK, NoMsg
<1>5. FreedInHand'
  BY DEF FreedInHand, TypeOK
<1>6. ReadersSeeOneTable'
  BY <1>3 DEF ReadersSeeOneTable, Readers, TypeOK
<1>. QED  BY <1>1, <1>2, <1>4, <1>5, <1>6

LEMMA UnknownOpInv ==
    ASSUME SkelInv, NEW t \in Thread, UnknownOp(t)
    PROVE  SkelInv'
<1> USE DEF SkelInv, UnknownOp, Goto, KeepRest, KeepStats, KeepLink, chainVars, lockVars
<1>1. LockInv'
  BY LockUntouched
<1>2. TypeOK'
  BY <1>1 DEF TypeOK, LockInv, PC
<1>3. phase[t] = "out" /\ t \notin Readers
  BY DEF Placed, Readers
<1>4. Placed'
  BY <1>3 DEF Placed, TypeOK
<1>5. FreedInHand'
  BY DEF FreedInHand, TypeOK
<1>6. ReadersSeeOneTable'
  BY <1>3 DEF ReadersSeeOneTable, Readers, TypeOK
<1>. QED  BY <1>1, <1>2, <1>4, <1>5, <1>6

-----------------------------------------------------------------------------
(* Into and out of the lock.                                               *)

(* What the functions of the lock do to the phases.                        *)
LEMMA PhasesEntering ==
    ASSUME LockTypeOK, NEW t \in Thread
    PROVE  /\ comeca_ler(t) =>
                 /\ phase[t] \in {"out", "r_woken"}
                 /\ phase'[t] \in {"r_wait", "reading"}
                 /\ \A u \in Thread \ {t} : phase'[u] = phase[u]
           /\ comeca_escrever(t) =>
                 /\ phase[t] \in {"out", "w_woken"}
                 /\ phase'[t] \in {"w_wait", "writing"}
                 /\ \A u \in Thread \ {t} : phase'[u] = phase[u]
  BY DEF LockTypeOK, comeca_ler, ReaderSleeps, ReaderEnters, comeca_escrever,
         WriterArrivesAndSleeps, WriterArrivesAndEnters, WriterSleepsAgain,
         WriterEnters

Woken(u) == \/ phase'[u] = phase[u]
            \/ phase[u] = "r_wait" /\ phase'[u] = "r_woken"
            \/ phase[u] = "w_wait" /\ phase'[u] = "w_woken"

LEMMA PhasesLeaving ==
    ASSUME LockTypeOK, NEW t \in Thread, termina_ler(t) \/ termina_escrever(t)
    PROVE  /\ phase'[t] = "out"
           /\ \A u \in Thread \ {t} : Woken(u)
  BY DEF LockTypeOK, termina_ler, termina_escrever, Leave, LeaveAndWake, Woken

LEMMA TakeLockInv ==
    ASSUME SkelInv, NEW t \in Thread, TakeLock(t)
    PROVE  SkelInv'
<1> USE DEF SkelInv, TakeLock, skelVars, chainVars
<1>1. LockInv'
  BY LockStep
<1>2. TypeOK'
  BY <1>1 DEF TypeOK, LockInv
<1>3. /\ pc[t] = "called"
      /\ \/ /\ msg[t].op \in ReaderOps
            /\ phase'[t] \in {"r_wait", "reading"}
         \/ /\ msg[t].op \in WriterOps
            /\ phase'[t] \in {"w_wait", "writing"}
      /\ \A u \in Thread \ {t} : phase'[u] = phase[u]
  BY PhasesEntering DEF At, LockInv
<1>4. Placed'
  BY <1>3 DEF Placed
<1>5. FreedInHand'
  BY DEF FreedInHand
<1>6. ReadersSeeOneTable'
  BY <1>3 DEF ReadersSeeOneTable, Readers, Placed
<1>. QED  BY <1>1, <1>2, <1>4, <1>5, <1>6

LEMMA ReleaseLockInv ==
    ASSUME SkelInv, NEW t \in Thread, ReleaseLock(t)
    PROVE  SkelInv'
<1> USE DEF SkelInv, ReleaseLock, Goto, KeepRest, KeepStats, KeepLink, chainVars
<1>1. LockInv'
  BY LockStep
<1>2. TypeOK'
  BY <1>1 DEF TypeOK, LockInv, PC
<1>3. phase'[t] = "out" /\ \A u \in Thread \ {t} : Woken(u)
  BY PhasesLeaving DEF LockInv
<1>4. Placed'
  BY <1>3 DEF Placed, TypeOK, Woken
<1>5. FreedInHand'
  BY DEF FreedInHand, TypeOK
<1>6. ReadersSeeOneTable'
  BY <1>3 DEF ReadersSeeOneTable, Readers, TypeOK, Woken
<1>. QED  BY <1>1, <1>2, <1>4, <1>5, <1>6

LEMMA WakeInv ==
    ASSUME SkelInv, NEW t \in Thread, Wake(t)
    PROVE  SkelInv'
<1> USE DEF SkelInv, Wake, skelVars, chainVars
<1>1. LockInv'
  BY LockStep
<1>2. TypeOK'
  BY <1>1 DEF TypeOK, LockInv
<1>3. \A u \in Thread : Woken(u)
  BY DEF LockInv, LockTypeOK, SpuriousWakeup, Woken
<1>4. Placed'
  BY <1>3 DEF Placed, Woken
<1>5. FreedInHand'
  BY DEF FreedInHand
<1>6. ReadersSeeOneTable'
  BY <1>3 DEF ReadersSeeOneTable, Readers, Woken
<1>. QED  BY <1>1, <1>2, <1>4, <1>5, <1>6

-----------------------------------------------------------------------------
(* The reading cases.                                                      *)

LEMMA StatsInv ==
    ASSUME SkelInv, NEW t \in Thread, Stats(t)
    PROVE  SkelInv'
<1> USE DEF SkelInv, Stats, ReaderAt, At, Goto, Becomes, KeepRest, KeepStats,
            KeepLink, chainVars, lockVars
<1>1. LockInv'
  BY LockUntouched
<1>2. TypeOK'
  BY <1>1 DEF TypeOK, LockInv, PC, Message
<1>3. Placed'
  BY DEF Placed, TypeOK, Message, ReaderOps
<1>4. FreedInHand'
  BY DEF FreedInHand, TypeOK
<1>5. ReadersSeeOneTable'
  BY DEF ReadersSeeOneTable, Readers, TypeOK, Message
<1>. QED  BY <1>1, <1>2, <1>3, <1>4, <1>5

LEMMA SizeInv ==
    ASSUME SkelInv, NEW t \in Thread, Size(t)
    PROVE  SkelInv'
<1> USE DEF SkelInv, Size, ReaderAt, At, Goto, Becomes, KeepRest, KeepStats,
            KeepLink, chainVars, lockVars
<1>1. LockInv'
  BY LockUntouched
<1>2. TypeOK'
  BY <1>1, TableSizeType DEF TypeOK, LockInv, PC, Message, table_size
<1>3. Placed'
  BY DEF Placed, TypeOK, Message, ReaderOps
<1>4. FreedInHand'
  BY DEF FreedInHand, TypeOK
<1>5. ReadersSeeOneTable'
  BY DEF ReadersSeeOneTable, Readers, TypeOK, Message
<1>. QED  BY <1>1, <1>2, <1>3, <1>4, <1>5

LEMMA GetInv ==
    ASSUME SkelInv, NEW t \in Thread, Get(t)
    PROVE  SkelInv'
<1> USE DEF SkelInv, Get, ReaderAt, At, Goto, Becomes, KeepRest, KeepStats,
            KeepLink, chainVars, lockVars
<1>1. LockInv'
  BY LockUntouched
<1>2. table[msg[t].key] \in Val \cup {NULL}
  BY ReaderSeesNoFreed DEF Placed
<1>3. TypeOK'
  <2>1. PICK st \in {"error", "ok"} : msg' = [msg EXCEPT ![t] =
            [msg[t] EXCEPT !.st = st, !.val = table[msg[t].key]]]
    OBVIOUS
  <2>2. [msg[t] EXCEPT !.st = st, !.val = table[msg[t].key]] \in Message
    BY <1>2 DEF TypeOK, Message
  <2>. QED  BY <1>1, <2>1, <2>2 DEF TypeOK, LockInv, PC
<1>4. Placed'
  BY DEF Placed, TypeOK, Message, ReaderOps
<1>5. FreedInHand'
  BY DEF FreedInHand, TypeOK
<1>6. ReadersSeeOneTable'
  BY DEF ReadersSeeOneTable, Readers, TypeOK, Message
<1>. QED  BY <1>1, <1>3, <1>4, <1>5, <1>6

LEMMA GetErrorsInv ==
    ASSUME SkelInv, NEW t \in Thread, GetErrors(t)
    PROVE  SkelInv'
<1> USE DEF SkelInv, GetErrors, ReaderAt, At, Goto, Becomes, KeepRest, KeepStats,
            KeepLink, chainVars, lockVars
<1>1. LockInv'
  BY LockUntouched
<1>2. TypeOK'
  BY <1>1 DEF TypeOK, LockInv, PC, Message
<1>3. Placed'
  BY DEF Placed, TypeOK, Message, ReaderOps
<1>4. FreedInHand'
  BY DEF FreedInHand, TypeOK
<1>5. ReadersSeeOneTable'
  BY DEF ReadersSeeOneTable, Readers, TypeOK, Message
<1>. QED  BY <1>1, <1>2, <1>3, <1>4, <1>5

LEMMA GetFailsInv ==
    ASSUME SkelInv, NEW t \in Thread, GetFails(t)
    PROVE  SkelInv'
<1> USE DEF SkelInv, GetFails, ReaderAt, At, Goto, KeepRest, KeepStats, KeepLink, chainVars
<1>1. LockInv'
  BY AbandonInv
<1>2. TypeOK'
  BY <1>1 DEF TypeOK, LockInv, PC
<1>3. phase' = [phase EXCEPT ![t] = "out"]
  BY DEF Abandon, Leave
<1>4. Placed'
  BY <1>3 DEF Placed, TypeOK, LockTypeOK
<1>5. FreedInHand'
  BY DEF FreedInHand, TypeOK
<1>6. ReadersSeeOneTable'
  BY <1>3 DEF ReadersSeeOneTable, Readers, TypeOK, LockTypeOK
<1>. QED  BY <1>1, <1>2, <1>4, <1>5, <1>6

LEMMA CountKeysInv ==
    ASSUME SkelInv, NEW t \in Thread, CountKeys(t)
    PROVE  SkelInv'
<1> USE DEF SkelInv, CountKeys, ReaderAt, At, Goto, Becomes, KeepRest,
            KeepStats, KeepLink, chainVars, lockVars
<1>1. LockInv'
  BY AbandonInv, LockUntouched
<1>2. TypeOK'
  BY <1>1, TableSizeType DEF TypeOK, LockInv, PC, Message, table_size
<1>3. \/ phase' = phase /\ pc' = [pc EXCEPT ![t] = "keys"]
      \/ phase' = [phase EXCEPT ![t] = "out"] /\ pc' = [pc EXCEPT ![t] = "reply"]
  BY DEF Abandon, Leave
<1>4. Placed'
  BY <1>3 DEF Placed, TypeOK, LockTypeOK, Message
<1>5. FreedInHand'
  BY <1>3 DEF FreedInHand, TypeOK
<1>6. ReadersSeeOneTable'
  BY <1>3 DEF ReadersSeeOneTable, Readers, TypeOK, LockTypeOK, Message,
              Placed, table_size
<1>. QED  BY <1>1, <1>2, <1>4, <1>5, <1>6

LEMMA ListKeysInv ==
    ASSUME SkelInv, NEW t \in Thread, ListKeys(t)
    PROVE  SkelInv'
<1> USE DEF SkelInv, ListKeys, ReaderAt, At, Goto, Becomes, KeepRest,
            KeepStats, KeepLink, chainVars, lockVars
<1>1. LockInv'
  BY LockUntouched
<1>2. TypeOK'
  BY <1>1, TableSizeType DEF TypeOK, LockInv, PC, Message
<1>3. Placed'
  BY DEF Placed, TypeOK, Message, ReaderOps
<1>4. FreedInHand'
  BY DEF FreedInHand, TypeOK
<1>5. ReadersSeeOneTable'
  BY DEF ReadersSeeOneTable, Readers, TypeOK, Message
<1>. QED  BY <1>1, <1>2, <1>3, <1>4, <1>5

LEMMA GetKeysFailsInv ==
    ASSUME SkelInv, NEW t \in Thread, GetKeysFails(t)
    PROVE  SkelInv'
<1> USE DEF SkelInv, GetKeysFails, ReaderAt, At, Goto, Becomes, KeepRest,
            KeepStats, KeepLink, chainVars
<1>1. LockInv'
  BY AbandonInv
<1>2. TypeOK'
  BY <1>1 DEF TypeOK, LockInv, PC, Message
<1>3. phase' = [phase EXCEPT ![t] = "out"]
  BY DEF Abandon, Leave
<1>4. Placed'
  BY <1>3 DEF Placed, TypeOK, LockTypeOK, Message
<1>5. FreedInHand'
  BY DEF FreedInHand, TypeOK
<1>6. ReadersSeeOneTable'
  BY <1>3 DEF ReadersSeeOneTable, Readers, TypeOK, LockTypeOK
<1>. QED  BY <1>1, <1>2, <1>4, <1>5, <1>6

LEMMA FetchEntryInv ==
    ASSUME SkelInv, NEW t \in Thread, FetchEntry(t)
    PROVE  SkelInv'
<1> USE DEF SkelInv, FetchEntry, ReaderAt, At, Goto, Becomes, KeepRest,
            KeepStats, KeepLink, chainVars, lockVars
<1>1. PICK k \in msg[t].keys \ DOMAIN msg[t].entries :
         LET got == DOMAIN msg[t].entries \cup {k}
         IN  /\ Becomes(t, [msg[t] EXCEPT !.entries =
                     [j \in got |-> IF j = k THEN table[k]
                                             ELSE msg[t].entries[j]]])
             /\ Goto(t, IF got = msg[t].keys THEN "count" ELSE "entries")
  OBVIOUS
<1> DEFINE old == msg[t].entries
           got == DOMAIN old \cup {k}
           new == [j \in got |-> IF j = k THEN table[k] ELSE old[j]]
<1>2. /\ msg' = [msg EXCEPT ![t] = [msg[t] EXCEPT !.entries = new]]
      /\ \E l \in {"count", "entries"} : pc' = [pc EXCEPT ![t] = l]
  BY <1>1
<1>3. t \in Readers /\ msg[t].keys = Keys(table)
  BY DEF Readers, ReadersSeeOneTable
<1>4. k \in Key /\ table[k] \in Val
  BY <1>3, ReaderSeesNoFreed DEF Keys
<1>5. DOMAIN old \in SUBSET Key /\ old \in [DOMAIN old -> Val]
  <2>1. old \in Gathered
    BY DEF TypeOK, Message
  <2>. QED  BY <2>1, GatheredType
<1>6. new \in [got -> Val] /\ got \in SUBSET Key
  BY <1>4, <1>5
<1>7. new \in Gathered
  BY <1>6 DEF Gathered
<1>8. \A j \in got : new[j] = table[j]
  BY <1>3 DEF ReadersSeeOneTable
<1>9. DOMAIN new = got
  OBVIOUS
<1> HIDE DEF new
<1>10. LockInv'
  BY LockUntouched
<1>11. TypeOK'
  BY <1>2, <1>7, <1>10 DEF TypeOK, LockInv, PC, Message
<1>12. Placed'
  BY <1>2 DEF Placed, TypeOK, Message, ReaderOps
<1>13. FreedInHand'
  BY <1>2 DEF FreedInHand, TypeOK
<1>14. ReadersSeeOneTable'
  BY <1>2, <1>8, <1>9 DEF ReadersSeeOneTable, Readers, TypeOK, Message
<1>. QED  BY <1>10, <1>11, <1>12, <1>13, <1>14

-----------------------------------------------------------------------------
(* The writing cases.                                                      *)

LEMMA EffectType ==
    ASSUME NEW s \in [Key -> Val \cup {NULL}], NEW m \in Message
    PROVE  Effect(s, m) \in [Key -> Val \cup {NULL}]
  BY DEF Effect, Message

(* While a writer is inside there are no readers to disturb, and until it  *)
(* frees a value itself no value is freed.                                 *)
LEMMA WriterInside ==
    ASSUME SkelInv, NEW t \in Thread, phase[t] = "writing"
    PROVE  /\ Readers = {}
           /\ pc[t] # "replace" => \A k \in Key : table[k] # Freed
           /\ \A k \in Key : table[k] = Freed => msg[t].key = k
           /\ \A u \in Thread : u # t => pc[u] \in {"idle", "called", "reply"}
<1>1. \A u \in Thread : u # t => phase[u] \notin {"reading", "writing"}
  BY WriterAlone DEF SkelInv
<1>2. Readers = {}
  BY <1>1 DEF Readers
<1>3. \A u \in Thread : u # t => pc[u] \in {"idle", "called", "reply"}
  BY <1>1 DEF SkelInv, TypeOK, PC, Placed
<1>. QED  BY <1>2, <1>3 DEF SkelInv, FreedInHand

LEMMA TestLinkInv ==
    ASSUME SkelInv, NEW t \in Thread, TestLink(t)
    PROVE  SkelInv'
<1> USE DEF SkelInv, TestLink, WriterAt, At, Goto, KeepRest, KeepStats,
            KeepLink, chainVars, lockVars
<1>1. LockInv'
  BY LockUntouched
<1>2. TypeOK'
  BY <1>1 DEF TypeOK, LockInv, PC
<1>3. Placed'
  BY DEF Placed, TypeOK
<1>4. FreedInHand'
  BY DEF FreedInHand, TypeOK
<1>5. ReadersSeeOneTable'
  BY WriterInside DEF ReadersSeeOneTable, Readers
<1>. QED  BY <1>1, <1>2, <1>3, <1>4, <1>5

LEMMA WrittenKeys ==
    ASSUME SkelInv, NEW t \in Thread, msg[t].op \in WriterOps
    PROVE  Written(msg[t]) \subseteq Key
  BY DEF Written, SkelInv, Placed, WriterOps

LEMMA ForwardInv ==
    ASSUME SkelInv, NEW t \in Thread, Forward(t)
    PROVE  SkelInv'
<1> USE DEF SkelInv, Forward, WriterAt, At, Goto, KeepStats, lockVars
<1>1. LockInv'
  BY LockUntouched
<1>2. TypeOK'
  <2>1. forwarded' \in [Key -> Val \cup {NULL}]
    BY EffectType DEF TypeOK
  <2>2. halfway' \subseteq Key
    BY WrittenKeys DEF TypeOK
  <2>. QED  BY <1>1, <2>1, <2>2 DEF TypeOK, LockInv, PC
<1>3. Placed'
  BY DEF Placed, TypeOK
<1>4. FreedInHand'
  BY DEF FreedInHand, TypeOK
<1>5. ReadersSeeOneTable'
  BY WriterInside DEF ReadersSeeOneTable, Readers
<1>. QED  BY <1>1, <1>2, <1>3, <1>4, <1>5

LEMMA DelInv ==
    ASSUME SkelInv, NEW t \in Thread, Del(t)
    PROVE  SkelInv'
<1> USE DEF SkelInv, Del, WriterAt, At, Goto, Becomes, KeepRest, KeepStats,
            KeepLink, chainVars, lockVars
<1>1. LockInv'
  BY LockUntouched
<1>2. PICK st \in {"error", "ok"} :
          msg' = [msg EXCEPT ![t] = [msg[t] EXCEPT !.st = st]]
  BY DEF Answer
<1>3. TypeOK'
  <2>1. msg' \in [Thread -> Message]
    <3>1. msg[t] \in Message
      BY DEF TypeOK
    <3>2. [msg[t] EXCEPT !.st = st] \in Message
      BY <3>1 DEF Message
    <3>3. msg \in [Thread -> Message]
      BY DEF TypeOK
    <3>. QED  BY <1>2, <3>2, <3>3
  <2>2. table' \in [Key -> Val \cup {NULL, Freed}]
    BY <1>2 DEF TypeOK
  <2>. QED  BY <1>1, <2>1, <2>2 DEF TypeOK, LockInv, PC
<1>4. Placed'
  BY <1>2 DEF Placed, TypeOK, Message, WriterOps
<1>5. FreedInHand'
  BY WriterInside, DataAssumption DEF FreedInHand, TypeOK
<1>6. ReadersSeeOneTable'
  BY WriterInside DEF ReadersSeeOneTable, Readers
<1>. QED  BY <1>1, <1>3, <1>4, <1>5, <1>6

LEMMA PutFailsInv ==
    ASSUME SkelInv, NEW t \in Thread, PutFails(t)
    PROVE  SkelInv'
<1> USE DEF SkelInv, PutFails, WriterAt, At, Goto, KeepUnapplied, KeepStats
<1>1. LockInv'
  BY AbandonInv
<1>2. TypeOK'
  <2>1. halfway' \subseteq Key
    BY WrittenKeys DEF TypeOK, WriterOps
  <2>. QED  BY <1>1, <2>1 DEF TypeOK, LockInv, PC
<1>3. phase' = [phase EXCEPT ![t] = "out"]
  BY DEF Abandon, Leave
<1>4. Placed'
  BY <1>3 DEF Placed, TypeOK, LockTypeOK
<1>5. FreedInHand'
  BY WriterInside DEF FreedInHand
<1>6. ReadersSeeOneTable'
  BY <1>3, WriterInside DEF ReadersSeeOneTable, Readers, TypeOK, LockTypeOK
<1>. QED  BY <1>1, <1>2, <1>4, <1>5, <1>6

LEMMA PutErrorsInv ==
    ASSUME SkelInv, NEW t \in Thread, PutErrors(t)
    PROVE  SkelInv'
<1> USE DEF SkelInv, PutErrors, WriterAt, At, Goto, Becomes, KeepUnapplied,
            KeepStats, lockVars
<1>1. LockInv'
  BY LockUntouched
<1>2. TypeOK'
  <2>1. halfway' \subseteq Key
    BY WrittenKeys DEF TypeOK, WriterOps
  <2>2. msg' \in [Thread -> Message]
    BY DEF TypeOK, Message
  <2>. QED  BY <1>1, <2>1, <2>2 DEF TypeOK, LockInv, PC
<1>3. Placed'
  BY DEF Placed, TypeOK, Message, WriterOps
<1>4. FreedInHand'
  BY WriterInside DEF FreedInHand, TypeOK
<1>5. ReadersSeeOneTable'
  BY WriterInside DEF ReadersSeeOneTable, Readers
<1>. QED  BY <1>1, <1>2, <1>3, <1>4, <1>5

LEMMA PutNewInv ==
    ASSUME SkelInv, NEW t \in Thread, PutNew(t)
    PROVE  SkelInv'
<1> USE DEF SkelInv, PutNew, WriterAt, At, Goto, Becomes, KeepRest, KeepStats,
            KeepLink, chainVars, lockVars
<1>1. LockInv'
  BY LockUntouched
<1>2. msg[t].val \in Val /\ msg[t].val # Freed
  BY DataAssumption DEF TypeOK, Message
<1>3. TypeOK'
  <2>1. msg' \in [Thread -> Message]
    BY <1>2 DEF TypeOK, Message
  <2>2. table' \in [Key -> Val \cup {NULL, Freed}]
    BY <1>2 DEF TypeOK
  <2>. QED  BY <1>1, <2>1, <2>2 DEF TypeOK, LockInv, PC
<1>4. Placed'
  BY DEF Placed, TypeOK, Message, WriterOps
<1>5. FreedInHand'
  BY <1>2, WriterInside DEF FreedInHand, TypeOK
<1>6. ReadersSeeOneTable'
  BY WriterInside DEF ReadersSeeOneTable, Readers
<1>. QED  BY <1>1, <1>3, <1>4, <1>5, <1>6

LEMMA PutFreesInv ==
    ASSUME SkelInv, NEW t \in Thread, PutFrees(t)
    PROVE  SkelInv'
<1> USE DEF SkelInv, PutFrees, WriterAt, At, Goto, KeepRest, KeepStats,
            KeepLink, chainVars, lockVars
<1>1. LockInv'
  BY LockUntouched
<1>2. TypeOK'
  BY <1>1 DEF TypeOK, LockInv, PC
<1>3. Placed'
  BY DEF Placed, TypeOK
<1>4. FreedInHand'
  <2>1. pc'[t] = "replace" /\ msg'[t].key = msg[t].key
    BY DEF TypeOK
  <2>2. \A k \in Key : table'[k] = Freed => k = msg[t].key
    BY WriterInside DEF TypeOK
  <2>. QED  BY <2>1, <2>2 DEF FreedInHand
<1>5. ReadersSeeOneTable'
  BY WriterInside DEF ReadersSeeOneTable, Readers
<1>. QED  BY <1>1, <1>2, <1>3, <1>4, <1>5

LEMMA PutStoresInv ==
    ASSUME SkelInv, NEW t \in Thread, PutStores(t)
    PROVE  SkelInv'
<1> USE DEF SkelInv, PutStores, WriterAt, At, Goto, Becomes, KeepRest,
            KeepStats, KeepLink, chainVars, lockVars
<1>1. LockInv'
  BY LockUntouched
<1>2. msg[t].val \in Val /\ msg[t].val # Freed
  BY DataAssumption DEF TypeOK, Message, Placed
<1>3. TypeOK'
  <2>1. msg' \in [Thread -> Message]
    <3>1. msg[t] \in Message
      BY DEF TypeOK
    <3>2. [msg[t] EXCEPT !.st = "ok"] \in Message
      BY <3>1 DEF Message
    <3>3. msg \in [Thread -> Message]
      BY DEF TypeOK
    <3>. QED  BY <3>2, <3>3
  <2>2. table' \in [Key -> Val \cup {NULL, Freed}]
    BY <1>2 DEF TypeOK
  <2>. QED  BY <1>1, <2>1, <2>2 DEF TypeOK, LockInv, PC
<1>4. Placed'
  BY DEF Placed, TypeOK, Message, WriterOps
<1>5. FreedInHand'
  BY <1>2, WriterInside DEF FreedInHand, TypeOK
<1>6. ReadersSeeOneTable'
  BY WriterInside DEF ReadersSeeOneTable, Readers
<1>. QED  BY <1>1, <1>3, <1>4, <1>5, <1>6

-----------------------------------------------------------------------------
(* The counter and the link, which the table and the lock do not see.      *)

LEMMA LoadCounterInv ==
    ASSUME SkelInv, NEW t \in Thread, LoadCounter(t)
    PROVE  SkelInv'
<1> USE DEF SkelInv, LoadCounter, Goto, KeepLink, chainVars, lockVars
<1>1. LockInv'
  BY LockUntouched
<1>2. TypeOK'
  BY <1>1 DEF TypeOK, LockInv, PC
<1>3. Placed'
  BY DEF Placed, TypeOK
<1>4. FreedInHand'
  BY DEF FreedInHand, TypeOK
<1>5. ReadersSeeOneTable'
  BY DEF ReadersSeeOneTable, Readers, TypeOK
<1>. QED  BY <1>1, <1>2, <1>3, <1>4, <1>5

LEMMA StoreCounterInv ==
    ASSUME SkelInv, NEW t \in Thread, StoreCounter(t)
    PROVE  SkelInv'
<1> USE DEF SkelInv, StoreCounter, Goto, KeepLink, chainVars, lockVars
<1>1. LockInv'
  BY LockUntouched
<1>2. TypeOK'
  BY <1>1 DEF TypeOK, LockInv, PC
<1>3. Placed'
  BY DEF Placed, TypeOK
<1>4. FreedInHand'
  BY DEF FreedInHand, TypeOK
<1>5. ReadersSeeOneTable'
  BY DEF ReadersSeeOneTable, Readers, TypeOK
<1>. QED  BY <1>1, <1>2, <1>3, <1>4, <1>5

LEMMA OutsideInv ==
    ASSUME SkelInv, SuccessorChanges \/ \E t \in Thread : Killed(t)
    PROVE  SkelInv'
<1> USE DEF SkelInv, SuccessorChanges, Killed, KeepStats, lockVars
<1>1. LockInv'
  BY LockUntouched
<1>2. TypeOK'
  BY <1>1 DEF TypeOK, LockInv
<1>. QED  BY <1>1, <1>2 DEF Placed, FreedInHand, ReadersSeeOneTable, Readers

LEMMA StutterInv == SkelInv /\ UNCHANGED vars => SkelInv'
<1> SUFFICES ASSUME SkelInv, UNCHANGED vars PROVE SkelInv'
  OBVIOUS
<1> USE DEF SkelInv, vars, skelVars, lockVars
<1>1. LockInv'
  BY LockUntouched
<1>2. TypeOK'
  BY <1>1 DEF TypeOK, LockInv, chainVars
<1>. QED  BY <1>1, <1>2 DEF Placed, FreedInHand, ReadersSeeOneTable, Readers

LEMMA SkelStep == SkelInv /\ [Next]_vars => SkelInv'
<1> SUFFICES ASSUME SkelInv, [Next]_vars PROVE SkelInv'
  OBVIOUS
<1>1. ASSUME NEW t \in Thread, Receive(t) \/ Wake(t)
      PROVE  SkelInv'
  BY <1>1, ReceiveInv, WakeInv
<1>2. ASSUME NEW t \in Thread, Read(t)
      PROVE  SkelInv'
  BY <1>2, StatsInv, SizeInv, GetInv, GetErrorsInv, GetFailsInv, CountKeysInv, ListKeysInv,
     GetKeysFailsInv, FetchEntryInv DEF Read
<1>3. ASSUME NEW t \in Thread, Write(t)
      PROVE  SkelInv'
  BY <1>3, TestLinkInv, ForwardInv, DelInv, PutFailsInv, PutErrorsInv, PutNewInv, PutFreesInv,
     PutStoresInv DEF Write
<1>4. ASSUME NEW t \in Thread, Work(t)
      PROVE  SkelInv'
  BY <1>2, <1>3, <1>4, UnknownOpInv, TakeLockInv, LoadCounterInv,
     StoreCounterInv, ReleaseLockInv, ReplyInv, OutsideInv DEF Work
<1>. QED  BY <1>1, <1>4, OutsideInv, StutterInv DEF Next

-----------------------------------------------------------------------------
(* The server keeps its invariant: the lock, the freed value and what the  *)
(* readers have gathered.                                                  *)
THEOREM SkelInvariance == Spec => []SkelInv
  BY InitSkelInv, SkelStep, PTL DEF Spec

(* Types, and in particular that no answer carries a freed value.          *)
THEOREM SkelTypeCorrectness == Spec => []TypeOK
<1>1. SkelInv => TypeOK
  BY DEF SkelInv
<1>. QED  BY <1>1, SkelInvariance, PTL

(* The lock keeps its invariant although invoke() may return without       *)
(* releasing it: too many may be counted inside, never too few.            *)
THEOREM SkelLockInvariance == Spec => []LockInv
<1>1. SkelInv => LockInv
  BY DEF SkelInv
<1>. QED  BY <1>1, SkelInvariance, PTL

(* Size, keys and values of one answer belong to one table.                *)
THEOREM SnapshotReads == Spec => []ReadersSeeOneTable
<1>1. SkelInv => ReadersSeeOneTable
  BY DEF SkelInv
<1>. QED  BY <1>1, SkelInvariance, PTL

-----------------------------------------------------------------------------
(* Additions to the counter.  A thread about to store counter + 1 has read *)
(* a value that no writer has added to since, and a writer has read the    *)
(* present one.                                                            *)

CounterInv ==
    /\ CounterBounds
    /\ \A t \in Thread : pc[t] = "add" =>
          /\ written <= loaded[t] /\ loaded[t] <= counted
          /\ phase[t] = "writing" => loaded[t] = counter

(* Steps that bring no thread to its store leave the bounds alone.         *)
LEMMA CounterFrame ==
    ASSUME CounterInv, KeepStats,
           \A u \in Thread : pc'[u] = "add" =>
               /\ pc[u] = "add"
               /\ phase'[u] = "writing" => phase[u] = "writing"
    PROVE  CounterInv'
  BY DEF CounterInv, CounterBounds, KeepStats

LEMMA LoadCounterBounds ==
    ASSUME SkelInv, CounterInv, NEW t \in Thread, LoadCounter(t)
    PROVE  CounterInv'
  BY DEF SkelInv, TypeOK, CounterInv, CounterBounds, LoadCounter, Goto, lockVars

LEMMA StoreCounterBounds ==
    ASSUME SkelInv, CounterInv, NEW t \in Thread, StoreCounter(t)
    PROVE  CounterInv'
<1> USE DEF SkelInv, TypeOK, CounterInv, StoreCounter, Goto, lockVars
<1>1. phase[t] \in {"reading", "writing"}
  BY DEF Placed
<1>2. CounterBounds'
  BY <1>1 DEF CounterBounds
<1>3. ASSUME NEW u \in Thread, pc'[u] = "add"
      PROVE  /\ written' <= loaded'[u] /\ loaded'[u] <= counted'
             /\ phase'[u] = "writing" => loaded'[u] = counter'
  <2>1. u # t /\ pc[u] = "add" /\ phase[u] \in {"reading", "writing"}
    BY <1>3 DEF Placed
  <2>2. phase[t] = "reading" /\ phase[u] = "reading"
    BY <1>1, <2>1, WriterAlone
  <2>. QED  BY <2>1, <2>2
<1>. QED  BY <1>2, <1>3

LEMMA CounterStep == SkelInv /\ CounterInv /\ [Next]_vars => CounterInv'
<1> SUFFICES ASSUME SkelInv, CounterInv, [Next]_vars PROVE CounterInv'
  OBVIOUS
<1> USE DEF SkelInv, TypeOK, LockTypeOK, Goto, KeepRest, KeepUnapplied, KeepStats
<1>1. ASSUME NEW t \in Thread, Receive(t) \/ UnknownOp(t) \/ Reply(t)
      PROVE  CounterInv'
  BY <1>1, CounterFrame DEF Receive, UnknownOp, Reply, lockVars
<1>2. ASSUME NEW t \in Thread, TakeLock(t)
      PROVE  CounterInv'
  BY <1>2, CounterFrame, PhasesEntering DEF TakeLock, At, skelVars
<1>3. ASSUME NEW t \in Thread, ReleaseLock(t)
      PROVE  CounterInv'
  BY <1>3, CounterFrame, PhasesLeaving DEF ReleaseLock, Woken
<1>4. ASSUME NEW t \in Thread, Wake(t)
      PROVE  CounterInv'
  BY <1>4, CounterFrame DEF Wake, SpuriousWakeup, skelVars
<1>5. ASSUME NEW t \in Thread,
             Stats(t) \/ Size(t) \/ Get(t) \/ GetErrors(t) \/ ListKeys(t)
      PROVE  CounterInv'
  BY <1>5, CounterFrame DEF Stats, Size, Get, GetErrors, ListKeys, lockVars
<1>6. ASSUME NEW t \in Thread,
             GetFails(t) \/ GetKeysFails(t) \/ CountKeys(t) \/ PutFails(t)
      PROVE  CounterInv'
  BY <1>6, CounterFrame DEF GetFails, GetKeysFails, CountKeys, PutFails,
     Abandon, Leave, lockVars
<1>7. ASSUME NEW t \in Thread, FetchEntry(t)
      PROVE  CounterInv'
  BY <1>7, CounterFrame DEF FetchEntry, lockVars
<1>8. ASSUME NEW t \in Thread,
             \/ TestLink(t) \/ Forward(t) \/ Del(t) \/ PutErrors(t)
             \/ PutNew(t) \/ PutFrees(t) \/ PutStores(t)
      PROVE  CounterInv'
  BY <1>8, CounterFrame DEF TestLink, Forward, Del, PutErrors, PutNew, PutFrees,
     PutStores, lockVars
<1>9. ASSUME NEW t \in Thread, LoadCounter(t) \/ StoreCounter(t)
      PROVE  CounterInv'
  BY <1>9, LoadCounterBounds, StoreCounterBounds
<1>10. CASE SuccessorChanges \/ (\E t \in Thread : Killed(t)) \/ UNCHANGED vars
  BY <1>10, CounterFrame DEF SuccessorChanges, Killed, vars, skelVars, lockVars
<1>. QED  BY <1>1, <1>2, <1>3, <1>4, <1>5, <1>6, <1>7, <1>8, <1>9, <1>10
          DEF Next, Work, Read, Write

(* Readers may overwrite each other's additions to stats->counter; those   *)
(* of the writers are never lost.                                          *)
THEOREM WritersAreCounted == Spec => []CounterBounds
<1>1. Init => CounterInv
  BY DEF Init, CounterInv, CounterBounds
<1>2. CounterInv => CounterBounds
  BY DEF CounterInv
<1>. QED  BY <1>1, <1>2, InitSkelInv, SkelStep, CounterStep, PTL DEF Spec

-----------------------------------------------------------------------------
(* What the writes sent to the next server amount to.                      *)

(* The only thread in flight is the writer itself.                         *)
LEMMA OwnFlight ==
    ASSUME SkelInv, NEW t \in Thread, phase[t] = "writing"
    PROVE  InFlight = IF pc[t] \in {"apply", "replace"} THEN {t} ELSE {}
  BY WriterInside DEF InFlight

(* A write changes one key at most, and does to it what it does whatever   *)
(* the table is.                                                           *)
LEMMA EffectAt ==
    ASSUME NEW S, NEW s \in [Key -> S], NEW m, m.key \in Key,
           m.op \in WriterOps, NEW k \in Key
    PROVE  Effect(s, m)[k] = IF k \notin Written(m) THEN s[k]
                             ELSE IF m.op = "put" THEN m.val ELSE NULL
  BY DEF Effect, Written, WriterOps

(* Steps of threads that have nothing in flight, before and after.         *)
LEMMA DriftFrame ==
    ASSUME DriftExplained, UNCHANGED <<table, link, forwarded, halfway>>,
           \A u \in Thread :
               /\ pc'[u] \in {"apply", "replace"} <=> pc[u] \in {"apply", "replace"}
               /\ pc[u] \in {"apply", "replace"} => msg'[u] = msg[u]
    PROVE  DriftExplained'
<1>1. InFlight' = InFlight /\ \A u \in InFlight : msg'[u] = msg[u]
  BY DEF InFlight
<1>. QED  BY <1>1 DEF DriftExplained, Effect

LEMMA TestLinkDrift ==
    ASSUME SkelInv, DriftExplained, NEW t \in Thread, TestLink(t)
    PROVE  DriftExplained'
<1> USE DEF SkelInv, TypeOK, TestLink, WriterAt, At, Goto, KeepRest, KeepLink, chainVars
<1>1. CASE link # "none"
  BY <1>1, DriftFrame
<1>2. CASE link = "none"
  BY <1>2 DEF DriftExplained
<1>. QED  BY <1>1, <1>2

LEMMA ForwardDrift ==
    ASSUME SkelInv, DriftExplained, NEW t \in Thread, Forward(t)
    PROVE  DriftExplained'
<1> USE DEF SkelInv, TypeOK
<1> DEFINE m == msg[t]
<1>1. /\ phase[t] = "writing" /\ pc[t] = "forward" /\ m.op \in WriterOps
      /\ pc' = [pc EXCEPT ![t] = "apply"] /\ UNCHANGED <<table, msg, link>>
  BY DEF Forward, WriterAt, At, Goto
<1>2. InFlight = {} /\ InFlight' = {t}
  <2>1. InFlight = {}
    BY <1>1, OwnFlight
  <2>. QED  BY <1>1, <2>1 DEF InFlight
<1>3. m.key \in Key
  BY <1>1 DEF Placed, WriterOps
<1>4. SUFFICES ASSUME link = "up", NEW k \in Key, k \notin halfway'
               PROVE  forwarded'[k] = Effect(table, m)[k]
  BY <1>1, <1>2 DEF DriftExplained
<1>5. k \notin halfway => forwarded[k] = table[k]
  BY <1>2, <1>4 DEF DriftExplained
<1>6. Effect(table, m)[k] = IF k \notin Written(m) THEN table[k]
                            ELSE IF m.op = "put" THEN m.val ELSE NULL
  BY <1>1, <1>3, EffectAt
<1>7. Effect(forwarded, m)[k] = IF k \notin Written(m) THEN forwarded[k]
                                ELSE IF m.op = "put" THEN m.val ELSE NULL
  BY <1>1, <1>3, EffectAt
<1>8. \/ forwarded' = Effect(forwarded, m) /\ halfway' = halfway \ Written(m)
      \/ forwarded' = forwarded /\ halfway' = halfway \cup Written(m)
  BY DEF Forward
<1> HIDE DEF m
<1>. QED  BY <1>4, <1>5, <1>6, <1>7, <1>8

(* The last step of a write: the table becomes what was sent, or the key   *)
(* is noted.                                                               *)
LEMMA LandingDrift ==
    ASSUME SkelInv, DriftExplained, NEW t \in Thread,
           Del(t) \/ PutNew(t) \/ PutStores(t)
    PROVE  DriftExplained'
<1> USE DEF SkelInv, TypeOK, WriterAt, At, Goto, KeepRest, KeepLink, chainVars
<1>1. phase[t] = "writing" /\ pc[t] \in {"apply", "replace"}
  BY DEF Del, PutNew, PutStores
<1>2. InFlight = {t}
  BY <1>1, OwnFlight
<1>3. InFlight' = {}
  BY <1>2 DEF InFlight, Del, PutNew, PutStores
<1>4. table' = Effect(table, msg[t])
  BY DEF Del, PutNew, PutStores, Effect, Placed
<1>5. link' = link /\ forwarded' = forwarded /\ halfway' = halfway
  BY DEF Del, PutNew, PutStores
<1>. QED  BY <1>2, <1>3, <1>4, <1>5 DEF DriftExplained

LEMMA UnappliedDrift ==
    ASSUME SkelInv, DriftExplained, NEW t \in Thread, PutFails(t) \/ PutErrors(t)
    PROVE  DriftExplained'
<1> USE DEF SkelInv, TypeOK
<1> DEFINE m == msg[t]
<1>1. /\ phase[t] = "writing" /\ pc[t] = "apply" /\ m.op = "put"
      /\ UNCHANGED <<table, link, forwarded>>
      /\ halfway' = halfway \cup Written(m)
      /\ \E l \in {"reply", "count"} : pc' = [pc EXCEPT ![t] = l]
  BY DEF PutFails, PutErrors, WriterAt, At, Goto, KeepUnapplied
<1>2. InFlight = {t}
  BY <1>1, OwnFlight
<1>3. InFlight' = {}
  BY <1>1, <1>2 DEF InFlight
<1>4. m.op \in WriterOps /\ m.key \in Key
  BY <1>1 DEF Placed, WriterOps
<1>5. SUFFICES ASSUME link = "up", NEW k \in Key, k \notin halfway'
               PROVE  forwarded[k] = table[k]
  BY <1>1, <1>3 DEF DriftExplained
<1>6. forwarded[k] = Effect(table, m)[k]
  BY <1>1, <1>2, <1>5 DEF DriftExplained
<1>7. Effect(table, m)[k] = table[k]
  BY <1>1, <1>4, <1>5, EffectAt
<1>. QED  BY <1>6, <1>7

LEMMA PutFreesDrift ==
    ASSUME SkelInv, DriftExplained, NEW t \in Thread, PutFrees(t)
    PROVE  DriftExplained'
<1> USE DEF SkelInv, TypeOK, PutFrees, WriterAt, At, Goto, KeepRest, KeepLink, chainVars
<1>1. InFlight = {t}
  BY OwnFlight
<1>2. InFlight' = {t}
  BY <1>1 DEF InFlight
<1>3. Effect(table', msg'[t]) = Effect(table, msg[t])
  BY DEF Effect
<1>. QED  BY <1>1, <1>2, <1>3 DEF DriftExplained

LEMMA DriftStep == SkelInv /\ DriftExplained /\ [Next]_vars => DriftExplained'
<1> SUFFICES ASSUME SkelInv, DriftExplained, [Next]_vars PROVE DriftExplained'
  OBVIOUS
<1> USE DEF SkelInv, TypeOK, Goto, Becomes, KeepRest, KeepLink, chainVars
<1>1. ASSUME NEW t \in Thread, Receive(t) \/ UnknownOp(t) \/ Reply(t) \/ Killed(t)
      PROVE  DriftExplained'
  BY <1>1, DriftFrame DEF Receive, UnknownOp, Reply, Killed
<1>2. ASSUME NEW t \in Thread, TakeLock(t) \/ Wake(t)
      PROVE  DriftExplained'
  BY <1>2, DriftFrame DEF TakeLock, Wake, skelVars
<1>3. ASSUME NEW t \in Thread,
             Stats(t) \/ Size(t) \/ GetFails(t) \/ CountKeys(t) \/ GetKeysFails(t)
      PROVE  DriftExplained'
  BY <1>3, DriftFrame DEF Stats, Size, GetFails, CountKeys, GetKeysFails,
     ReaderAt, At
<1>4. ASSUME NEW t \in Thread,
             Get(t) \/ GetErrors(t) \/ ListKeys(t) \/ FetchEntry(t)
      PROVE  DriftExplained'
  BY <1>4, DriftFrame DEF Get, GetErrors, ListKeys, FetchEntry, ReaderAt, At
<1>5. ASSUME NEW t \in Thread,
             LoadCounter(t) \/ StoreCounter(t) \/ ReleaseLock(t)
      PROVE  DriftExplained'
  BY <1>5, DriftFrame DEF LoadCounter, StoreCounter, ReleaseLock
<1>6. ASSUME NEW t \in Thread, Write(t)
      PROVE  DriftExplained'
  BY <1>6, TestLinkDrift, ForwardDrift, LandingDrift, UnappliedDrift, PutFreesDrift
  DEF Write
<1>7. CASE SuccessorChanges
  BY <1>7 DEF SuccessorChanges, DriftExplained
<1>8. CASE UNCHANGED vars
  BY <1>8, DriftFrame DEF vars, skelVars
<1>. QED  BY <1>1, <1>2, <1>3, <1>4, <1>5, <1>6, <1>7, <1>8
          DEF Next, Work, Read

LEMMA InitDrift == Init => DriftExplained
  BY DEF Init, DriftExplained, InFlight

(* Wherever malloc() fails, this table and what was sent to the next       *)
(* server differ only under keys whose last write failed on one side.      *)
THEOREM DriftIsExplained == Spec => []DriftExplained
  BY InitDrift, InitSkelInv, SkelStep, DriftStep, PTL DEF Spec

(* Without a failing malloc() every write is applied on both sides.        *)
NothingHalfway == link = "up" => halfway = {}

LEMMA NothingHalfwayStep ==
    ASSUME ~AllocMayFail, SkelInv, NothingHalfway, [Next]_vars
    PROVE  NothingHalfway'
<1>1. ASSUME NEW t \in Thread, Forward(t)
      PROVE  NothingHalfway'
  BY <1>1 DEF Forward, NothingHalfway
<1>2. ASSUME NEW t \in Thread, PutFails(t) \/ PutErrors(t)
      PROVE  NothingHalfway'
  BY <1>2 DEF PutFails, PutErrors, WriterAt, At, KeepUnapplied, Written, NothingHalfway
<1>3. ASSUME NEW t \in Thread,
             \/ Receive(t) \/ UnknownOp(t) \/ Reply(t) \/ Killed(t) \/ TakeLock(t)
             \/ Wake(t) \/ Read(t)
      PROVE  NothingHalfway'
  BY <1>3 DEF Receive, UnknownOp, Reply, Killed, TakeLock, Wake, skelVars, Read, Stats,
     Size, Get, GetErrors, GetFails, CountKeys, ListKeys, GetKeysFails, FetchEntry,
     KeepRest, KeepLink, chainVars, NothingHalfway
<1>4. ASSUME NEW t \in Thread,
             \/ LoadCounter(t) \/ StoreCounter(t) \/ ReleaseLock(t) \/ TestLink(t)
             \/ Del(t) \/ PutNew(t) \/ PutFrees(t) \/ PutStores(t)
      PROVE  NothingHalfway'
  BY <1>4 DEF LoadCounter, StoreCounter, ReleaseLock, TestLink, Del, PutNew, PutFrees,
     PutStores, KeepRest, KeepLink, chainVars, NothingHalfway
<1>5. CASE SuccessorChanges \/ UNCHANGED vars
  BY <1>5 DEF SuccessorChanges, vars, skelVars, chainVars, NothingHalfway
<1>. QED  BY <1>1, <1>2, <1>3, <1>4, <1>5 DEF Next, Work, Write

LEMMA NothingHalfwaySuffices ==
    SkelInv /\ DriftExplained /\ NothingHalfway => ForwardedInOrder
<1> SUFFICES ASSUME SkelInv, DriftExplained, NothingHalfway, link = "up"
             PROVE  /\ InFlight = {} => forwarded = table
                    /\ \A t \in InFlight : forwarded = Effect(table, msg[t])
  BY DEF ForwardedInOrder
<1> USE DEF SkelInv, TypeOK
<1>1. \A k \in Key : /\ InFlight = {} => forwarded[k] = table[k]
                     /\ \A t \in InFlight : forwarded[k] = Effect(table, msg[t])[k]
  BY DEF DriftExplained, NothingHalfway
<1>2. InFlight = {} => forwarded = table
  BY <1>1
<1>3. ASSUME NEW t \in InFlight
      PROVE  forwarded = Effect(table, msg[t])
  <2>1. \E S : Effect(table, msg[t]) \in [Key -> S]
    <3>1. Effect(table, msg[t]) \in [Key -> Val \cup {NULL, Freed, msg[t].val}]
      BY DEF Effect
    <3>. QED  BY <3>1
  <2>. QED  BY <1>1, <2>1
<1>. QED  BY <1>2, <1>3

(* When malloc does not fail, the writes sent to the next server amount at *)
(* every instant to this server's table and the write in progress.         *)
THEOREM WritesSentInOrder ==
    ASSUME ~AllocMayFail PROVE Spec => []ForwardedInOrder
<1>1. Init => NothingHalfway
  BY DEF Init, NothingHalfway
<1>2. SkelInv /\ NothingHalfway /\ [Next]_vars => NothingHalfway'
  BY NothingHalfwayStep
<1>. QED  BY <1>1, <1>2, InitDrift, InitSkelInv, SkelStep, DriftStep,
             NothingHalfwaySuffices, PTL DEF Spec

-----------------------------------------------------------------------------
(* The server implements AtomicTable.                                      *)

(* What is seen of a thread at a place with a message.                     *)
TurnOf(l) == IF l = "idle" THEN "idle" ELSE IF l \in Served THEN "served" ELSE "pending"
Seen(l, m) ==
    CASE l = "replace" -> [m EXCEPT !.st = "ok"]
      [] m.op = "stats" -> [m EXCEPT !.n = 0]
      [] TurnOf(l) = "pending" -> [m EXCEPT !.st = "req", !.n = 0,
             !.keys = {}, !.entries = NoEntries]
      [] OTHER -> m

(* An answer is not begun before the thread is inside the lock, and GETKEYS *)
(* and GETTABLE gather theirs in order.                                    *)
IsRequest(m) == m.st = "req" /\ m.n = 0 /\ m.keys = {} /\ m.entries = NoEntries
Shaped ==
    \A t \in Thread :
        /\ pc[t] = "idle" => msg[t] = NoMsg
        /\ pc[t] \in {"called", "forward", "apply", "replace"} => IsRequest(msg[t])
        /\ pc[t] = "keys" =>
              msg[t].st = "ok" /\ msg[t].keys = {} /\ msg[t].entries = NoEntries
        /\ pc[t] = "entries" =>
              /\ msg[t].op = "gettable" /\ msg[t].st = "ok"
              /\ DOMAIN msg[t].entries \subseteq msg[t].keys

LEMMA InitShaped == Init => Shaped
  BY DEF Init, Shaped

(* A step in which at most thread t moves, or its message changes.         *)
Alone(t) == \A u \in Thread : u # t => pc'[u] = pc[u] /\ msg'[u] = msg[u]

LEMMA AloneMoves ==
    ASSUME TypeOK, NEW t \in Thread, NEW l, NEW m,
           pc' = [pc EXCEPT ![t] = l], msg' = [msg EXCEPT ![t] = m]
    PROVE  Alone(t) /\ pc'[t] = l /\ msg'[t] = m
  BY DEF TypeOK, Alone

LEMMA AloneGoes ==
    ASSUME TypeOK, NEW t \in Thread, NEW l, pc' = [pc EXCEPT ![t] = l], msg' = msg
    PROVE  Alone(t) /\ pc'[t] = l /\ msg'[t] = msg[t]
  BY DEF TypeOK, Alone

LEMMA ShapedFrame ==
    ASSUME Shaped, NEW t \in Thread, Alone(t),
           pc'[t] = "idle" => msg'[t] = NoMsg,
           pc'[t] \in {"called", "forward", "apply", "replace"} => IsRequest(msg'[t]),
           pc'[t] = "keys" => /\ msg'[t].st = "ok" /\ msg'[t].keys = {}
                              /\ msg'[t].entries = NoEntries,
           pc'[t] = "entries" => /\ msg'[t].op = "gettable" /\ msg'[t].st = "ok"
                                 /\ DOMAIN msg'[t].entries \subseteq msg'[t].keys
    PROVE  Shaped'
  BY DEF Shaped, Alone

(* The fields of changed messages.                                         *)
Filled(m, st, n, keys, entries) ==
    [op |-> m.op, key |-> m.key, val |-> m.val, st |-> st, n |-> n,
     keys |-> keys, entries |-> entries]

LEMMA MessageFields ==
    ASSUME NEW m \in Message, NEW st, NEW n, NEW keys, NEW entries
    PROVE  /\ m = Filled(m, m.st, m.n, m.keys, m.entries)
           /\ [m EXCEPT !.st = st] = Filled(m, st, m.n, m.keys, m.entries)
           /\ [m EXCEPT !.n = n] = Filled(m, m.st, n, m.keys, m.entries)
           /\ [m EXCEPT !.keys = keys] = Filled(m, m.st, m.n, keys, m.entries)
           /\ [m EXCEPT !.entries = entries] = Filled(m, m.st, m.n, m.keys, entries)
           /\ [m EXCEPT !.st = st, !.n = n] = Filled(m, st, n, m.keys, m.entries)
<1>1. m = Filled(m, m.st, m.n, m.keys, m.entries)
  BY DEF Message, Filled
<1>2. [m EXCEPT !.st = st] = Filled(m, st, m.n, m.keys, m.entries)
  BY DEF Message, Filled
<1>3. /\ [m EXCEPT !.n = n] = Filled(m, m.st, n, m.keys, m.entries)
      /\ [m EXCEPT !.keys = keys] = Filled(m, m.st, m.n, keys, m.entries)
      /\ [m EXCEPT !.entries = entries] = Filled(m, m.st, m.n, m.keys, entries)
  BY DEF Message, Filled
<1>4. [m EXCEPT !.st = st, !.n = n] = Filled(m, st, n, m.keys, m.entries)
  <2>1. [m EXCEPT !.st = st, !.n = n] = [[m EXCEPT !.st = st] EXCEPT !.n = n]
    OBVIOUS
  <2>2. [Filled(m, st, m.n, m.keys, m.entries) EXCEPT !.n = n]
           = Filled(m, st, n, m.keys, m.entries)
    BY DEF Filled
  <2>. QED  BY <1>2, <2>1, <2>2
<1>. QED  BY <1>1, <1>2, <1>3, <1>4
(* What is seen of a message: nothing of the answer before it is served,   *)
(* all of it afterwards.                                                   *)
LEMMA SeenPending ==
    ASSUME NEW m \in Message, NEW l \in {"called", "forward", "apply", "keys", "entries"},
           m.op = "stats" => IsRequest(m)
    PROVE  Seen(l, m) = Filled(m, "req", 0, {}, NoEntries)
<1>1. TurnOf(l) = "pending" /\ l # "replace"
  BY DEF TurnOf, Served
<1>2. [m EXCEPT !.n = 0] = Filled(m, m.st, 0, m.keys, m.entries)
  BY MessageFields
<1>3. [m EXCEPT !.st = "req", !.n = 0, !.keys = {}, !.entries = NoEntries]
         = Filled(m, "req", 0, {}, NoEntries)
  <2>1. [m EXCEPT !.st = "req", !.n = 0] = Filled(m, "req", 0, m.keys, m.entries)
    BY MessageFields
  <2>2. [m EXCEPT !.st = "req", !.n = 0, !.keys = {}]
           = [[m EXCEPT !.st = "req", !.n = 0] EXCEPT !.keys = {}]
    OBVIOUS
  <2>3. [Filled(m, "req", 0, m.keys, m.entries) EXCEPT !.keys = {}]
           = Filled(m, "req", 0, {}, m.entries)
    BY DEF Filled
  <2>4. [m EXCEPT !.st = "req", !.n = 0, !.keys = {}, !.entries = NoEntries]
           = [[m EXCEPT !.st = "req", !.n = 0, !.keys = {}] EXCEPT !.entries = NoEntries]
    OBVIOUS
  <2>5. [Filled(m, "req", 0, {}, m.entries) EXCEPT !.entries = NoEntries]
           = Filled(m, "req", 0, {}, NoEntries)
    BY DEF Filled
  <2>. QED  BY <2>1, <2>2, <2>3, <2>4, <2>5
<1>4. CASE m.op = "stats"
  BY <1>1, <1>2, <1>3, <1>4 DEF Seen, IsRequest
<1>5. CASE m.op # "stats"
  BY <1>1, <1>3, <1>5 DEF Seen
<1>. QED  BY <1>4, <1>5

LEMMA RequestSeen ==
    ASSUME NEW m \in Message, NEW l \in {"called", "forward", "apply", "keys", "entries"},
           IsRequest(m)
    PROVE  Seen(l, m) = m
<1>1. m = Filled(m, m.st, m.n, m.keys, m.entries)
  BY MessageFields
<1>2. Seen(l, m) = Filled(m, "req", 0, {}, NoEntries)
  BY SeenPending
<1>. QED  BY <1>1, <1>2 DEF IsRequest

LEMMA SeenDone ==
    ASSUME NEW m \in Message, NEW l \in {"idle", "count", "add", "leave", "reply"}
    PROVE  /\ m.op # "stats" => Seen(l, m) = m
           /\ m.op = "stats" => Seen(l, m) = Filled(m, m.st, 0, m.keys, m.entries)
<1>1. TurnOf(l) # "pending" /\ l # "replace"
  BY DEF TurnOf, Served
<1>2. [m EXCEPT !.n = 0] = Filled(m, m.st, 0, m.keys, m.entries)
  BY MessageFields
<1>3. CASE m.op = "stats"
  BY <1>1, <1>2, <1>3 DEF Seen
<1>4. CASE m.op # "stats"
  BY <1>1, <1>4 DEF Seen
<1>. QED  BY <1>3, <1>4

LEMMA SeenReplacing ==
    ASSUME NEW m \in Message, m.op = "put"
    PROVE  Seen("replace", m) = Filled(m, "ok", m.n, m.keys, m.entries)
<1>1. TurnOf("replace") # "pending"
  BY DEF TurnOf, Served
<1>2. [m EXCEPT !.st = "ok"] = Filled(m, "ok", m.n, m.keys, m.entries)
  BY MessageFields
<1>. QED  BY <1>1, <1>2 DEF Seen

(* The abstract state, and what a step of one thread does to it.           *)
LEMMA AbstractState ==
    /\ Turn = [t \in Thread |-> TurnOf(pc[t])]
    /\ Visible = [t \in Thread |-> Seen(pc[t], msg[t])]
  BY DEF Turn, Visible, TurnOf, Seen

LEMMA AbstractStep ==
    ASSUME NEW t \in Thread, Alone(t)
    PROVE  /\ Turn' = [Turn EXCEPT ![t] = TurnOf(pc'[t])]
           /\ Visible' = [Visible EXCEPT ![t] = Seen(pc'[t], msg'[t])]
           /\ Turn[t] = TurnOf(pc[t]) /\ Visible[t] = Seen(pc[t], msg[t])
<1>1. /\ Turn = [u \in Thread |-> TurnOf(pc[u])]
      /\ Visible = [u \in Thread |-> Seen(pc[u], msg[u])]
  BY AbstractState
<1>2. /\ Turn' = [u \in Thread |-> TurnOf(pc'[u])]
      /\ Visible' = [u \in Thread |-> Seen(pc'[u], msg'[u])]
  BY DEF Turn, Visible, TurnOf, Seen
<1>3. /\ \A u \in Thread : u # t => TurnOf(pc'[u]) = TurnOf(pc[u])
      /\ \A u \in Thread : u # t => Seen(pc'[u], msg'[u]) = Seen(pc[u], msg[u])
  BY DEF Alone
<1>. QED  BY <1>1, <1>2, <1>3

LEMMA LogicalIsTable ==
    ASSUME SkelInv, \A u \in Thread : pc[u] # "replace"
    PROVE  Logical = table
<1>1. \A k \in Key : table[k] # Freed
  BY DEF SkelInv, FreedInHand
<1>. QED  BY <1>1 DEF Logical, SkelInv, TypeOK

LEMMA LogicalKept ==
    ASSUME TypeOK, NEW t \in Thread, Alone(t), table' = table,
           pc[t] # "replace", pc'[t] # "replace"
    PROVE  Logical' = Logical
<1>1. \A k : Replacing(k)' = Replacing(k)
  BY DEF Replacing, Alone
<1>2. \A u \in Thread : pc[u] = "replace" => msg'[u] = msg[u]
  BY DEF Alone
<1>3. ASSUME NEW k \in Key, Replacing(k) # {}
      PROVE  LET u == CHOOSE u \in Replacing(k) : TRUE IN msg'[u] = msg[u]
  <2>1. (CHOOSE u \in Replacing(k) : TRUE) \in Replacing(k)
    BY <1>3
  <2>. QED  BY <1>2, <2>1 DEF Replacing
<1>4. ASSUME NEW k \in Key
      PROVE  (IF table'[k] = Freed /\ Replacing(k)' # {}
              THEN msg'[CHOOSE u \in Replacing(k)' : TRUE].val ELSE table'[k])
             = (IF table[k] = Freed /\ Replacing(k) # {}
                THEN msg[CHOOSE u \in Replacing(k) : TRUE].val ELSE table[k])
  <2>1. Replacing(k)' = Replacing(k)
    BY <1>1
  <2>2. CASE Replacing(k) = {}
    BY <2>1, <2>2
  <2>3. CASE Replacing(k) # {}
    <3>1. msg'[CHOOSE u \in Replacing(k) : TRUE] = msg[CHOOSE u \in Replacing(k) : TRUE]
      BY <1>3, <2>3
    <3>. QED  BY <2>1, <3>1
  <2>. QED  BY <2>2, <2>3
<1>. QED  BY <1>4 DEF Logical

LEMMA ServiceOps ==
    /\ \A s, m : Service!Answer(s, m) = Answer(s, m)
    /\ \A s, m : Service!Effect(s, m) = Effect(s, m)
    /\ \A r : Service!Unpacked(r) = Unpacked(r)
    /\ Service!NoMsg = NoMsg
    /\ Service!ReaderOps = ReaderOps /\ Service!WriterOps = WriterOps
  BY DEF Service!Answer, Answer, Service!Effect, Effect, Service!Unpacked, Unpacked,
         Service!NoMsg, NoMsg, Service!NoEntries, NoEntries, Service!Keys, Keys,
         Service!ReaderOps, ReaderOps, Service!WriterOps, WriterOps

LEMMA AnswerFields ==
    ASSUME NEW m \in Message, NEW s
    PROVE  /\ m.op = "put" => Answer(s, m) = Filled(m, "ok", m.n, m.keys, m.entries)
           /\ m.op = "del" => Answer(s, m) =
                 Filled(m, IF s[m.key] = NULL THEN "error" ELSE "ok", m.n, m.keys, m.entries)
           /\ m.op = "size" => Answer(s, m) =
                 Filled(m, "ok", Cardinality(Keys(s)), m.keys, m.entries)
           /\ m.op = "getkeys" => Answer(s, m) =
                 Filled(m, "ok", Cardinality(Keys(s)), Keys(s), m.entries)
           /\ m.op = "gettable" => Answer(s, m) =
                 Filled(m, "ok", Cardinality(Keys(s)), Keys(s), [k \in Keys(s) |-> s[k]])
           /\ m.op = "stats" => Answer(s, m) = Filled(m, "ok", m.n, m.keys, m.entries)
<1> DEFINE n == Cardinality(Keys(s))
           K == Keys(s)
           E == [k \in Keys(s) |-> s[k]]
           err == IF s[m.key] = NULL THEN "error" ELSE "ok"
<1>1. /\ [m EXCEPT !.st = "ok"] = Filled(m, "ok", m.n, m.keys, m.entries)
      /\ [m EXCEPT !.st = err] = Filled(m, err, m.n, m.keys, m.entries)
      /\ [m EXCEPT !.st = "ok", !.n = n] = Filled(m, "ok", n, m.keys, m.entries)
      /\ [m EXCEPT !.st = "ok", !.n = n, !.keys = K] = Filled(m, "ok", n, K, m.entries)
      /\ [m EXCEPT !.st = "ok", !.n = n, !.keys = K, !.entries = E] = Filled(m, "ok", n, K, E)
  <2> HIDE DEF n, K, E, err
  <2>1. [m EXCEPT !.st = "ok"] = Filled(m, "ok", m.n, m.keys, m.entries)
    BY MessageFields
  <2>2. [m EXCEPT !.st = err] = Filled(m, err, m.n, m.keys, m.entries)
    BY MessageFields
  <2>3. [m EXCEPT !.st = "ok", !.n = n] = Filled(m, "ok", n, m.keys, m.entries)
    BY MessageFields
  <2>4. [m EXCEPT !.st = "ok", !.n = n, !.keys = K] = Filled(m, "ok", n, K, m.entries)
    <3>1. [m EXCEPT !.st = "ok", !.n = n, !.keys = K]
             = [[m EXCEPT !.st = "ok", !.n = n] EXCEPT !.keys = K]
      OBVIOUS
    <3>2. [Filled(m, "ok", n, m.keys, m.entries) EXCEPT !.keys = K]
             = Filled(m, "ok", n, K, m.entries)
      BY DEF Filled
    <3>. QED  BY <2>3, <3>1, <3>2
  <2>5. [m EXCEPT !.st = "ok", !.n = n, !.keys = K, !.entries = E] = Filled(m, "ok", n, K, E)
    <3>1. [m EXCEPT !.st = "ok", !.n = n, !.keys = K, !.entries = E]
             = [[m EXCEPT !.st = "ok", !.n = n, !.keys = K] EXCEPT !.entries = E]
      OBVIOUS
    <3>2. [Filled(m, "ok", n, K, m.entries) EXCEPT !.entries = E] = Filled(m, "ok", n, K, E)
      BY DEF Filled
    <3>. QED  BY <2>4, <3>1, <3>2
  <2>. QED  BY <2>1, <2>2, <2>3, <2>4, <2>5
<1>2. m.op = "put" => Answer(s, m) = [m EXCEPT !.st = "ok"]
  BY DEF Answer
<1>3. m.op = "del" => Answer(s, m) = [m EXCEPT !.st = err]
  BY DEF Answer
<1>4. m.op = "size" => Answer(s, m) = [m EXCEPT !.st = "ok", !.n = n]
  BY DEF Answer
<1>5. m.op = "getkeys" => Answer(s, m) = [m EXCEPT !.st = "ok", !.n = n, !.keys = K]
  BY DEF Answer
<1>6. m.op = "gettable" =>
          Answer(s, m) = [m EXCEPT !.st = "ok", !.n = n, !.keys = K, !.entries = E]
  BY DEF Answer
<1>7. m.op = "stats" => Answer(s, m) = [m EXCEPT !.st = "ok"]
  BY DEF Answer
<1>. QED  BY <1>1, <1>2, <1>3, <1>4, <1>5, <1>6, <1>7

(* The kinds of steps.                                                     *)
LEMMA Unseen ==
    ASSUME NEW t \in Thread, Alone(t), Logical' = Logical,
           TurnOf(pc'[t]) = TurnOf(pc[t]), Seen(pc'[t], msg'[t]) = Seen(pc[t], msg[t])
    PROVE  UNCHANGED Service!vars
<1>1. /\ Turn = [u \in Thread |-> TurnOf(pc[u])]
      /\ Visible = [u \in Thread |-> Seen(pc[u], msg[u])]
  BY AbstractState
<1>2. Turn' = Turn /\ Visible' = Visible
  BY <1>1, AbstractStep
<1>. QED  BY <1>2 DEF Service!vars

LEMMA ServesAsAnswered ==
    ASSUME SkelInv, NEW t \in Thread, Alone(t), Shaped,
           TurnOf(pc[t]) = "pending", pc'[t] \in Served, NEW q,
           q = Seen(pc[t], msg[t]), q.op \in ReaderOps \cup WriterOps,
           q.op = "put" => q.val # NULL,
           Seen(pc'[t], msg'[t]) = Answer(Logical, q), Logical' = Effect(Logical, q)
    PROVE  Service!Next
<1>1. TurnOf(pc'[t]) = "served"
  BY DEF TurnOf, Served
<1>2. Service!Serve(t)
  BY <1>1, AbstractStep, ServiceOps DEF Service!Serve
<1>. QED  BY <1>2 DEF Service!Next

LEMMA Refuses ==
    ASSUME SkelInv, NEW t \in Thread, Alone(t),
           TurnOf(pc[t]) = "pending", pc'[t] \in Served, NEW q,
           q = Seen(pc[t], msg[t]), Logical' = Logical,
           \/ q.op \notin ReaderOps \cup WriterOps
           \/ q.op = "put" /\ q.val = NULL
           \/ AllocMayFail /\ q.op \in {"get", "put"},
           Seen(pc'[t], msg'[t]) = q
    PROVE  Service!Next
<1>1. TurnOf(pc'[t]) = "served"
  BY DEF TurnOf, Served
<1>2. Service!Refusable(q)
  BY ServiceOps DEF Service!Refusable
<1>3. /\ Turn[t] = "pending" /\ Turn' = [Turn EXCEPT ![t] = "served"]
      /\ Visible[t] = q /\ Visible' = [Visible EXCEPT ![t] = q]
  BY <1>1, AbstractStep
<1>4. Visible' = Visible
  BY <1>3, AbstractState
<1>5. Service!Refuse(t)
  BY <1>2, <1>3, <1>4 DEF Service!Refuse
<1>. QED  BY <1>5 DEF Service!Next

(* The answer to a request that has found no memory.                       *)
ErrorTo(q) == LET v == IF q.op = "get" THEN NULL ELSE q.val
              IN  [q EXCEPT !.st = "error", !.val = v]

LEMMA AnswersError ==
    ASSUME SkelInv, NEW t \in Thread, Alone(t), AllocMayFail,
           TurnOf(pc[t]) = "pending", pc'[t] \in Served, NEW q,
           q = Seen(pc[t], msg[t]), Logical' = Logical,
           q.op \in {"get", "put", "getkeys"},
           Seen(pc'[t], msg'[t]) = ErrorTo(q)
    PROVE  Service!Next
<1>1. TurnOf(pc'[t]) = "served"
  BY DEF TurnOf, Served
<1>2. /\ Turn[t] = "pending" /\ Turn' = [Turn EXCEPT ![t] = "served"]
      /\ Visible[t] = q
      /\ Visible' = [Visible EXCEPT ![t] = ErrorTo(q)]
  BY <1>1, AbstractStep
<1>3. Service!Fail(t)
  BY <1>2 DEF Service!Fail, ErrorTo
<1>. QED  BY <1>3 DEF Service!Next

(* One lemma per kind of step: the messages keep their shape, and the step *)
(* is one of AtomicTable, or none.                                         *)
AtomicStep == Shaped' /\ (Service!Next \/ UNCHANGED Service!vars)

LEMMA QuietAtomic ==
    ASSUME SkelInv, Shaped, UNCHANGED <<pc, msg, table>> PROVE AtomicStep
<1>1. Shaped'
  BY DEF Shaped
<1>2. Turn' = Turn
  BY DEF Turn
<1>3. Visible' = Visible
  BY <1>2 DEF Visible
<1>4. Logical' = Logical
  BY DEF Logical, Replacing
<1>. QED  BY <1>1, <1>2, <1>3, <1>4 DEF AtomicStep, Service!vars

LEMMA CountingAtomic ==
    ASSUME SkelInv, Shaped, NEW t \in Thread,
           LoadCounter(t) \/ StoreCounter(t) \/ ReleaseLock(t)
    PROVE  AtomicStep
<1> USE DEF SkelInv
<1>1. PICK l \in {"add", "leave", "reply"} : pc' = [pc EXCEPT ![t] = l]
  BY DEF LoadCounter, StoreCounter, ReleaseLock, Goto
<1>2. pc[t] \in {"count", "add", "leave"} /\ msg' = msg /\ table' = table
  BY DEF LoadCounter, StoreCounter, ReleaseLock
<1>3. Alone(t) /\ pc'[t] = l /\ msg'[t] = msg[t]
  BY <1>1, <1>2, AloneGoes
<1>4. Shaped'
  BY <1>3, ShapedFrame
<1>5. Logical' = Logical
  BY <1>2, <1>3, LogicalKept
<1>6. TurnOf(pc'[t]) = TurnOf(pc[t])
  BY <1>2, <1>3 DEF TurnOf, Served
<1>7. msg[t] \in Message
  BY DEF TypeOK
<1>8. Seen(pc'[t], msg'[t]) = Seen(pc[t], msg[t])
  <2>1. /\ msg[t].op # "stats" => Seen(l, msg[t]) = msg[t]
        /\ msg[t].op = "stats" => Seen(l, msg[t]) =
              Filled(msg[t], msg[t].st, 0, msg[t].keys, msg[t].entries)
    BY <1>7, SeenDone
  <2>2. /\ msg[t].op # "stats" => Seen(pc[t], msg[t]) = msg[t]
        /\ msg[t].op = "stats" => Seen(pc[t], msg[t]) =
              Filled(msg[t], msg[t].st, 0, msg[t].keys, msg[t].entries)
    BY <1>2, <1>7, SeenDone
  <2>. QED  BY <1>3, <2>1, <2>2
<1>. QED  BY <1>3, <1>4, <1>5, <1>6, <1>8, Unseen DEF AtomicStep

LEMMA ReceiveAtomic ==
    ASSUME SkelInv, Shaped, NEW t \in Thread, Receive(t) PROVE AtomicStep
<1> USE DEF SkelInv
<1>1. PICK r \in Requests : msg' = [msg EXCEPT ![t] = Unpacked(r)]
  BY DEF Receive, Becomes
<1>2. pc[t] = "idle" /\ pc' = [pc EXCEPT ![t] = "called"] /\ table' = table
  BY DEF Receive, Goto
<1>3. Alone(t) /\ pc'[t] = "called" /\ msg'[t] = Unpacked(r)
  BY <1>1, <1>2, AloneMoves
<1>4. IsRequest(Unpacked(r)) /\ Unpacked(r) \in Message
  BY UnpackedType DEF IsRequest, Unpacked, NoMsg
<1>5. Shaped'
  BY <1>3, <1>4, ShapedFrame
<1>6. Logical' = Logical
  BY <1>2, <1>3, LogicalKept
<1>7. Seen("called", Unpacked(r)) = Unpacked(r)
  BY <1>4, RequestSeen
<1>8. TurnOf("idle") = "idle" /\ TurnOf("called") = "pending"
  BY DEF TurnOf, Served
<1>9. Service!Receive(t)
  BY <1>1, <1>2, <1>3, <1>6, <1>7, <1>8, AbstractStep, ServiceOps DEF Service!Receive
<1>. QED  BY <1>5, <1>9 DEF AtomicStep, Service!Next

LEMMA ReplyAtomic ==
    ASSUME SkelInv, Shaped, NEW t \in Thread, Reply(t) PROVE AtomicStep
<1> USE DEF SkelInv
<1>1. /\ pc[t] = "reply" /\ pc' = [pc EXCEPT ![t] = "idle"]
      /\ msg' = [msg EXCEPT ![t] = NoMsg] /\ table' = table
  BY DEF Reply, Goto, Becomes
<1>2. Alone(t) /\ pc'[t] = "idle" /\ msg'[t] = NoMsg
  BY <1>1, AloneMoves
<1>3. Shaped'
  BY <1>2, ShapedFrame
<1>4. Logical' = Logical
  BY <1>1, <1>2, LogicalKept
<1>5. Seen("idle", NoMsg) = NoMsg
  BY SeenDone, NoMsgType DEF NoMsg
<1>6. TurnOf("idle") = "idle" /\ TurnOf("reply") = "served"
  BY DEF TurnOf, Served
<1>7. Service!Respond(t)
  BY <1>1, <1>2, <1>4, <1>5, <1>6, AbstractStep, ServiceOps DEF Service!Respond
<1>. QED  BY <1>3, <1>7 DEF AtomicStep, Service!Next

(* Requests that are turned down as they came.                             *)
LEMMA TurnedDownAtomic ==
    ASSUME SkelInv, Shaped, NEW t \in Thread,
           UnknownOp(t) \/ GetFails(t) \/ PutFails(t)
    PROVE  AtomicStep
<1> USE DEF SkelInv
<1>1. /\ pc[t] \in {"called", "apply"} /\ pc' = [pc EXCEPT ![t] = "reply"]
      /\ msg' = msg /\ table' = table
  BY DEF UnknownOp, GetFails, PutFails, Goto, ReaderAt, WriterAt, At
<1>2. /\ IsRequest(msg[t]) /\ msg[t] \in Message
      /\ \/ msg[t].op \notin ReaderOps \cup WriterOps
         \/ msg[t].op = "put" /\ msg[t].val = NULL
         \/ AllocMayFail /\ msg[t].op \in {"get", "put"}
      /\ msg[t].op # "stats"
  BY <1>1 DEF UnknownOp, GetFails, PutFails, ReaderAt, WriterAt, At, Shaped, TypeOK,
              ReaderOps, WriterOps
<1>3. Alone(t) /\ pc'[t] = "reply" /\ msg'[t] = msg[t]
  BY <1>1, AloneGoes
<1>4. Shaped'
  BY <1>3, ShapedFrame
<1>5. Logical' = Logical
  BY <1>1, <1>3, LogicalKept
<1>6. Seen(pc[t], msg[t]) = msg[t] /\ Seen("reply", msg[t]) = msg[t]
  BY <1>1, <1>2, RequestSeen, SeenDone
<1>7. TurnOf(pc[t]) = "pending" /\ "reply" \in Served
  BY <1>1 DEF TurnOf, Served
<1>8. Service!Next
  BY <1>2, <1>3, <1>5, <1>6, <1>7, Refuses
<1>. QED  BY <1>4, <1>8 DEF AtomicStep

(* Requests answered with an error.                                        *)
LEMMA ErrorAtomic ==
    ASSUME SkelInv, SkelInv', Shaped, NEW t \in Thread, GetErrors(t) \/ PutErrors(t)
    PROVE  AtomicStep
<1> USE DEF SkelInv
<1> DEFINE m == msg[t]
           v == IF m.op = "get" THEN NULL ELSE m.val
           a == [m EXCEPT !.st = "error", !.val = v]
<1>1. /\ AllocMayFail
      /\ pc[t] \in {"called", "apply"} /\ pc' = [pc EXCEPT ![t] = "count"]
      /\ m.op \in {"get", "put"} /\ table' = table
  BY DEF GetErrors, PutErrors, Goto, ReaderAt, WriterAt, At
<1>2. m \in Message /\ msg'[t] \in Message /\ IsRequest(m)
  BY <1>1 DEF TypeOK, Shaped
<1>3. msg' = [msg EXCEPT ![t] = a]
  <2>1. CASE GetErrors(t)
    BY <2>1 DEF GetErrors, Becomes, ReaderAt, At
  <2>2. CASE PutErrors(t)
    <3>1. m.op = "put" /\ msg' = [msg EXCEPT ![t] = [m EXCEPT !.st = "error"]]
      BY <2>2 DEF PutErrors, Becomes, WriterAt, At
    <3>2. [m EXCEPT !.st = "error"] = [m EXCEPT !.st = "error", !.val = m.val]
      BY <1>2 DEF Message
    <3>. QED  BY <3>1, <3>2
  <2>. QED  BY <2>1, <2>2
<1>4. a.op = m.op
  BY <1>2 DEF Message
<1>5. Alone(t) /\ pc'[t] = "count" /\ msg'[t] = a
  <2> HIDE DEF a
  <2>. QED  BY <1>1, <1>3, AloneMoves
<1>6. Shaped'
  BY <1>5, ShapedFrame
<1>7. Logical' = Logical
  BY <1>1, <1>5, LogicalKept
<1>8. Seen(pc[t], msg[t]) = m
  BY <1>1, <1>2, RequestSeen
<1>9. Seen(pc'[t], msg'[t]) = a
  <2> HIDE DEF a
  <2>. QED  BY <1>1, <1>2, <1>4, <1>5, SeenDone
<1>10. TurnOf(pc[t]) = "pending" /\ pc'[t] \in Served
  BY <1>1, <1>5 DEF TurnOf, Served
<1>11. a = ErrorTo(m)
  BY DEF ErrorTo
<1>12. m.op \in {"get", "put", "getkeys"}
  BY <1>1
<1> HIDE DEF m, a
<1>13. Service!Next
  BY <1>1, <1>5, <1>7, <1>8, <1>9, <1>10, <1>11, <1>12, AnswersError
<1>. QED  BY <1>6, <1>13 DEF AtomicStep

LEMMA FilledFields ==
    ASSUME NEW m, NEW st, NEW n, NEW keys, NEW entries
    PROVE  LET f == Filled(m, st, n, keys, entries)
           IN  /\ f.op = m.op /\ f.key = m.key /\ f.val = m.val
               /\ f.st = st /\ f.n = n /\ f.keys = keys /\ f.entries = entries
  BY DEF Filled

LEMMA SameRequest ==
    ASSUME NEW m, NEW p, p.op = m.op, p.key = m.key, p.val = m.val,
           NEW st, NEW n, NEW keys, NEW entries
    PROVE  Filled(p, st, n, keys, entries) = Filled(m, st, n, keys, entries)
  BY DEF Filled

LEMMA RequestType ==
    ASSUME NEW m \in Message PROVE Filled(m, "req", 0, {}, NoEntries) \in Message
<1>1. NoEntries \in Gathered
  BY NoMsgType DEF NoMsg, Message
<1>. QED  BY <1>1 DEF Filled, Message

LEMMA ReaderLogical ==
    ASSUME SkelInv, NEW t \in Thread, phase[t] = "reading", Alone(t), table' = table,
           pc[t] # "replace", pc'[t] # "replace"
    PROVE  /\ Logical = table /\ Logical' = table
           /\ \A q : q.op \in ReaderOps => Effect(table, q) = table
<1>1. \A u \in Thread : pc[u] # "replace"
  BY ReaderExcludesWriters DEF SkelInv, Placed
<1>2. Logical = table
  BY <1>1, LogicalIsTable
<1>3. Logical' = Logical
  BY LogicalKept DEF SkelInv
<1>4. \A q : q.op \in ReaderOps => Effect(table, q) = table
  BY DEF Effect, ReaderOps
<1>. QED  BY <1>2, <1>3, <1>4

(* The cases that read once.                                               *)
LEMMA StatsAtomic ==
    ASSUME SkelInv, SkelInv', Shaped, NEW t \in Thread, Stats(t) PROVE AtomicStep
<1> USE DEF SkelInv
<1> DEFINE m == msg[t]
<1>1. /\ pc[t] = "called" /\ phase[t] = "reading" /\ m.op = "stats"
      /\ pc' = [pc EXCEPT ![t] = "leave"] /\ table' = table
      /\ msg' = [msg EXCEPT ![t] = [m EXCEPT !.st = "ok", !.n = counter]]
  BY DEF Stats, Goto, Becomes, ReaderAt, At
<1>2. m \in Message /\ msg'[t] \in Message /\ IsRequest(m)
  BY <1>1 DEF TypeOK, Shaped
<1>3. [m EXCEPT !.st = "ok", !.n = counter] = Filled(m, "ok", counter, m.keys, m.entries)
  BY <1>2, MessageFields
<1>4. Alone(t) /\ pc'[t] = "leave" /\ msg'[t] = Filled(m, "ok", counter, m.keys, m.entries)
  BY <1>1, <1>3, AloneMoves
<1> HIDE DEF m
<1>5. Shaped'
  BY <1>4, ShapedFrame
<1>6. /\ Logical = table /\ Logical' = table
      /\ \A q : q.op \in ReaderOps => Effect(table, q) = table
  BY <1>1, <1>4, ReaderLogical
<1>7. Seen(pc[t], msg[t]) = m
  BY <1>1, <1>2, RequestSeen DEF m
<1>8. Answer(table, m) = Filled(m, "ok", 0, m.keys, m.entries)
  BY <1>1, <1>2, AnswerFields DEF IsRequest
<1>9. Seen(pc'[t], msg'[t]) = Filled(m, "ok", 0, m.keys, m.entries)
  <2>1. /\ msg'[t].op = "stats" /\ msg'[t].st = "ok"
        /\ msg'[t].keys = m.keys /\ msg'[t].entries = m.entries
        /\ msg'[t].key = m.key /\ msg'[t].val = m.val /\ msg'[t].op = m.op
    BY <1>1, <1>4, FilledFields
  <2>2. Seen("leave", msg'[t]) = Filled(msg'[t], msg'[t].st, 0, msg'[t].keys, msg'[t].entries)
    BY <1>2, <2>1, SeenDone
  <2>. QED  BY <1>4, <2>1, <2>2, SameRequest
<1>10. TurnOf(pc[t]) = "pending" /\ pc'[t] \in Served
  BY <1>1, <1>4 DEF TurnOf, Served
<1>11. m.op \in ReaderOps
  BY <1>1 DEF ReaderOps
<1>12. Service!Next
  BY <1>1, <1>4, <1>6, <1>7, <1>8, <1>9, <1>10, <1>11, ServesAsAnswered
<1>. QED  BY <1>5, <1>12 DEF AtomicStep

LEMMA SizeAtomic ==
    ASSUME SkelInv, SkelInv', Shaped, NEW t \in Thread, Size(t) PROVE AtomicStep
<1> USE DEF SkelInv
<1> DEFINE m == msg[t]
           n == Cardinality(Keys(table))
<1>1. /\ pc[t] = "called" /\ phase[t] = "reading" /\ m.op = "size"
      /\ pc' = [pc EXCEPT ![t] = "count"] /\ table' = table
      /\ msg' = [msg EXCEPT ![t] = [m EXCEPT !.st = "ok", !.n = n]]
  BY DEF Size, Goto, Becomes, ReaderAt, At, table_size
<1>2. m \in Message /\ msg'[t] \in Message /\ IsRequest(m)
  BY <1>1 DEF TypeOK, Shaped
<1>3. [m EXCEPT !.st = "ok", !.n = n] = Filled(m, "ok", n, m.keys, m.entries)
  <2> HIDE DEF n
  <2>. QED  BY <1>2, MessageFields
<1>4. Alone(t) /\ pc'[t] = "count" /\ msg'[t] = Filled(m, "ok", n, m.keys, m.entries)
  BY <1>1, <1>3, AloneMoves
<1>5. Answer(table, m) = Filled(m, "ok", n, m.keys, m.entries)
  BY <1>1, <1>2, AnswerFields
<1> HIDE DEF m, n
<1>6. Shaped'
  BY <1>4, ShapedFrame
<1>7. /\ Logical = table /\ Logical' = table
      /\ \A q : q.op \in ReaderOps => Effect(table, q) = table
  BY <1>1, <1>4, ReaderLogical
<1>8. Seen(pc[t], msg[t]) = m
  BY <1>1, <1>2, RequestSeen DEF m
<1>9. Seen(pc'[t], msg'[t]) = msg'[t]
  <2>1. msg'[t].op # "stats"
    BY <1>1, <1>4, FilledFields
  <2>. QED  BY <1>2, <1>4, <2>1, SeenDone
<1>10. TurnOf(pc[t]) = "pending" /\ pc'[t] \in Served
  BY <1>1, <1>4 DEF TurnOf, Served
<1>11. m.op \in ReaderOps
  BY <1>1 DEF ReaderOps
<1>12. Service!Next
  BY <1>1, <1>4, <1>5, <1>7, <1>8, <1>9, <1>10, <1>11, ServesAsAnswered
<1>. QED  BY <1>6, <1>12 DEF AtomicStep

LEMMA GetAtomic ==
    ASSUME SkelInv, SkelInv', Shaped, NEW t \in Thread, Get(t) PROVE AtomicStep
<1> USE DEF SkelInv
<1> DEFINE m == msg[t]
           v == table[m.key]
           a == [m EXCEPT !.st = IF v = NULL THEN "error" ELSE "ok", !.val = v]
<1>1. /\ pc[t] = "called" /\ phase[t] = "reading" /\ m.op = "get"
      /\ pc' = [pc EXCEPT ![t] = "count"] /\ table' = table
      /\ msg' = [msg EXCEPT ![t] = a]
  BY DEF Get, Goto, Becomes, ReaderAt, At
<1>2. m \in Message /\ msg'[t] \in Message /\ IsRequest(m)
  BY <1>1 DEF TypeOK, Shaped
<1>3. Answer(table, m) = a
  BY <1>1 DEF Answer
<1>4. a.op = "get"
  BY <1>1, <1>2 DEF Message
<1> HIDE DEF a
<1>5. Alone(t) /\ pc'[t] = "count" /\ msg'[t] = a
  BY <1>1, AloneMoves
<1> HIDE DEF m, v
<1>6. Shaped'
  BY <1>5, ShapedFrame
<1>7. /\ Logical = table /\ Logical' = table
      /\ \A q : q.op \in ReaderOps => Effect(table, q) = table
  BY <1>1, <1>5, ReaderLogical
<1>8. Seen(pc[t], msg[t]) = m
  BY <1>1, <1>2, RequestSeen DEF m
<1>9. Seen(pc'[t], msg'[t]) = a
  BY <1>2, <1>4, <1>5, SeenDone
<1>10. TurnOf(pc[t]) = "pending" /\ pc'[t] \in Served
  BY <1>1, <1>5 DEF TurnOf, Served
<1>11. m.op \in ReaderOps
  BY <1>1 DEF ReaderOps
<1>12. Service!Next
  BY <1>1, <1>3, <1>5, <1>7, <1>8, <1>9, <1>10, <1>11, ServesAsAnswered
<1>. QED  BY <1>6, <1>12 DEF AtomicStep

(* GETKEYS and GETTABLE, which gather their answers.                       *)
LEMMA CountKeysAtomic ==
    ASSUME SkelInv, SkelInv', Shaped, NEW t \in Thread, CountKeys(t) PROVE AtomicStep
<1> USE DEF SkelInv
<1> DEFINE m == msg[t]
           n == Cardinality(Keys(table))
           l == IF m.op = "gettable" /\ n = 0 THEN "reply" ELSE "keys"
<1>1. /\ pc[t] = "called" /\ phase[t] = "reading" /\ m.op \in {"getkeys", "gettable"}
      /\ pc' = [pc EXCEPT ![t] = l] /\ table' = table
      /\ msg' = [msg EXCEPT ![t] = [m EXCEPT !.st = "ok", !.n = n]]
  BY DEF CountKeys, Goto, Becomes, ReaderAt, At, table_size
<1>2. m \in Message /\ msg'[t] \in Message /\ IsRequest(m)
  BY <1>1 DEF TypeOK, Shaped
<1>3. [m EXCEPT !.st = "ok", !.n = n] = Filled(m, "ok", n, m.keys, m.entries)
  <2> HIDE DEF n
  <2>. QED  BY <1>2, MessageFields
<1>4. Alone(t) /\ pc'[t] = l /\ msg'[t] = Filled(m, "ok", n, m.keys, m.entries)
  BY <1>1, <1>3, AloneMoves
<1>5. m.op = "gettable" => Answer(table, m) =
          Filled(m, "ok", n, Keys(table), [k \in Keys(table) |-> table[k]])
  BY <1>2, AnswerFields
<1>6. /\ msg'[t].op = m.op /\ msg'[t].key = m.key /\ msg'[t].val = m.val
      /\ msg'[t].st = "ok" /\ msg'[t].keys = {} /\ msg'[t].entries = NoEntries
  BY <1>2, <1>4, FilledFields DEF IsRequest
<1>7. Shaped'
  BY <1>4, <1>6, ShapedFrame
<1>8. /\ Logical = table /\ Logical' = table
      /\ \A q : q.op \in ReaderOps => Effect(table, q) = table
  BY <1>1, <1>4, ReaderLogical
<1>9. Seen(pc[t], msg[t]) = m
  BY <1>1, <1>2, RequestSeen
<1>10. CASE m.op = "gettable" /\ n = 0
  <2>1. Keys(table) = {}
    <3>1. IsFiniteSet(Keys(table))
      BY DataAssumption, FS_Subset DEF Keys
    <3>. QED  BY <1>10, <3>1, FS_EmptySet
  <2>2. [k \in Keys(table) |-> table[k]] = NoEntries
    BY <2>1 DEF NoEntries
  <2>3. Seen(pc'[t], msg'[t]) = msg'[t]
    BY <1>2, <1>4, <1>6, <1>10, SeenDone
  <2>4. Answer(table, m) = msg'[t]
    BY <1>2, <1>4, <1>5, <1>10, <2>1, <2>2 DEF IsRequest
  <2>5. TurnOf(pc[t]) = "pending" /\ pc'[t] \in Served
    BY <1>1, <1>4, <1>10 DEF TurnOf, Served
  <2>6. m.op \in ReaderOps
    BY <1>1 DEF ReaderOps
  <2> HIDE DEF m, n
  <2>7. Service!Next
    BY <1>4, <1>8, <1>9, <1>10, <2>3, <2>4, <2>5, <2>6, ServesAsAnswered
  <2>. QED  BY <1>7, <2>7 DEF AtomicStep
<1>11. CASE ~(m.op = "gettable" /\ n = 0)
  <2>1. pc'[t] = "keys"
    BY <1>4, <1>11
  <2>2. Seen("keys", msg'[t]) = Filled(msg'[t], "req", 0, {}, NoEntries)
    BY <1>1, <1>2, <1>6, SeenPending
  <2>3. Seen("called", m) = Filled(m, "req", 0, {}, NoEntries)
    BY <1>1, <1>2, SeenPending
  <2>4. Filled(msg'[t], "req", 0, {}, NoEntries) = Filled(m, "req", 0, {}, NoEntries)
    BY <1>6 DEF Filled
  <2>5. TurnOf(pc'[t]) = TurnOf(pc[t])
    BY <1>1, <2>1 DEF TurnOf, Served
  <2> HIDE DEF m, n
  <2>6. UNCHANGED Service!vars
    BY <1>1, <1>4, <1>8, <2>1, <2>2, <2>3, <2>4, <2>5, Unseen DEF m
  <2>. QED  BY <1>7, <2>6 DEF AtomicStep
<1>. QED  BY <1>10, <1>11

LEMMA ListKeysAtomic ==
    ASSUME SkelInv, SkelInv', Shaped, NEW t \in Thread, ListKeys(t) PROVE AtomicStep
<1> USE DEF SkelInv
<1> DEFINE m == msg[t]
           n == Cardinality(Keys(table))
           K == Keys(table)
           q == Filled(m, "req", 0, {}, NoEntries)
           l == IF m.op = "getkeys" THEN "count" ELSE "entries"
<1>1. /\ pc[t] = "keys" /\ phase[t] = "reading" /\ m.op \in {"getkeys", "gettable"}
      /\ pc' = [pc EXCEPT ![t] = l] /\ table' = table
      /\ msg' = [msg EXCEPT ![t] = [m EXCEPT !.keys = K]]
  BY DEF ListKeys, Goto, Becomes, ReaderAt, At
<1>2. /\ m \in Message /\ msg'[t] \in Message
      /\ m.st = "ok" /\ m.keys = {} /\ m.entries = NoEntries
  BY <1>1 DEF TypeOK, Shaped
<1>3. m.n = n
  BY <1>1 DEF ReadersSeeOneTable, Readers
<1>4. [m EXCEPT !.keys = K] = Filled(m, "ok", n, K, NoEntries)
  <2> HIDE DEF K, n
  <2>1. [m EXCEPT !.keys = K] = Filled(m, m.st, m.n, K, m.entries)
    BY <1>2, MessageFields
  <2>. QED  BY <1>2, <1>3, <2>1
<1>5. Alone(t) /\ pc'[t] = l /\ msg'[t] = Filled(m, "ok", n, K, NoEntries)
  BY <1>1, <1>4, AloneMoves
<1>6. /\ msg'[t].op = m.op /\ msg'[t].key = m.key /\ msg'[t].val = m.val
      /\ msg'[t].st = "ok" /\ msg'[t].entries = NoEntries
  BY <1>5, FilledFields
<1>7. Shaped'
  <2>1. DOMAIN NoEntries = {}
    BY DEF NoEntries
  <2>. QED  BY <1>1, <1>5, <1>6, <2>1, ShapedFrame
<1>8. /\ Logical = table /\ Logical' = table
      /\ \A r : r.op \in ReaderOps => Effect(table, r) = table
  BY <1>1, <1>5, ReaderLogical
<1>9. Seen(pc[t], msg[t]) = q
  BY <1>1, <1>2, SeenPending
<1>10. q \in Message /\ q.op = m.op /\ q.key = m.key /\ q.val = m.val
       /\ q.entries = NoEntries
  BY <1>2, RequestType, FilledFields
<1>11. CASE m.op = "getkeys"
  <2>1. Seen(pc'[t], msg'[t]) = msg'[t]
    BY <1>2, <1>5, <1>6, <1>11, SeenDone
  <2>2. Answer(table, q) = Filled(q, "ok", n, K, q.entries)
    <3> HIDE DEF q
    <3>. QED  BY <1>10, <1>11, AnswerFields
  <2>3. Filled(q, "ok", n, K, NoEntries) = Filled(m, "ok", n, K, NoEntries)
    <3> HIDE DEF q, m, n, K
    <3>. QED  BY <1>10 DEF Filled
  <2>4. TurnOf(pc[t]) = "pending" /\ pc'[t] \in Served
    BY <1>1, <1>5, <1>11 DEF TurnOf, Served
  <2>5. q.op \in ReaderOps /\ q.op # "put"
    BY <1>10, <1>11 DEF ReaderOps
  <2> HIDE DEF m, n, q, K
  <2>6. Service!Next
    BY <1>5, <1>8, <1>9, <1>10, <2>1, <2>2, <2>3, <2>4, <2>5, ServesAsAnswered
  <2>. QED  BY <1>7, <2>6 DEF AtomicStep
<1>12. CASE m.op # "getkeys"
  <2>1. pc'[t] = "entries"
    BY <1>5, <1>12
  <2>2. Seen("entries", msg'[t]) = Filled(msg'[t], "req", 0, {}, NoEntries)
    BY <1>1, <1>2, <1>6, SeenPending
  <2>3. Filled(msg'[t], "req", 0, {}, NoEntries) = q
    BY <1>6 DEF Filled
  <2>4. TurnOf(pc'[t]) = TurnOf(pc[t])
    BY <1>1, <2>1 DEF TurnOf, Served
  <2> HIDE DEF m, n, q, K
  <2>5. UNCHANGED Service!vars
    BY <1>5, <1>8, <1>9, <2>1, <2>2, <2>3, <2>4, Unseen
  <2>. QED  BY <1>7, <2>5 DEF AtomicStep
<1>. QED  BY <1>11, <1>12

LEMMA GetKeysFailsAtomic ==
    ASSUME SkelInv, SkelInv', Shaped, NEW t \in Thread, GetKeysFails(t) PROVE AtomicStep
<1> USE DEF SkelInv
<1> DEFINE m == msg[t]
           q == Filled(m, "req", 0, {}, NoEntries)
<1>1. /\ pc[t] = "keys" /\ phase[t] = "reading" /\ m.op = "getkeys" /\ AllocMayFail
      /\ pc' = [pc EXCEPT ![t] = "reply"] /\ table' = table
      /\ msg' = [msg EXCEPT ![t] = [m EXCEPT !.st = "error", !.n = 0]]
  BY DEF GetKeysFails, Goto, Becomes, ReaderAt, At
<1>2. /\ m \in Message /\ msg'[t] \in Message
      /\ m.st = "ok" /\ m.keys = {} /\ m.entries = NoEntries
  BY <1>1 DEF TypeOK, Shaped
<1>3. [m EXCEPT !.st = "error", !.n = 0] = Filled(m, "error", 0, {}, NoEntries)
  <2>1. [m EXCEPT !.st = "error", !.n = 0] = Filled(m, "error", 0, m.keys, m.entries)
    BY <1>2, MessageFields
  <2>. QED  BY <1>2, <2>1
<1>4. Alone(t) /\ pc'[t] = "reply" /\ msg'[t] = Filled(m, "error", 0, {}, NoEntries)
  BY <1>1, <1>3, AloneMoves
<1>5. msg'[t].op = m.op
  BY <1>4, FilledFields
<1>6. Shaped'
  BY <1>4, ShapedFrame
<1>7. Logical = table /\ Logical' = table
  BY <1>1, <1>4, ReaderLogical
<1>8. Seen(pc[t], msg[t]) = q
  BY <1>1, <1>2, SeenPending
<1>9. [q EXCEPT !.st = "error", !.val = q.val] = Filled(m, "error", 0, {}, NoEntries)
  <2>1. [q EXCEPT !.st = "error", !.val = q.val] = [[q EXCEPT !.st = "error"] EXCEPT !.val = q.val]
    OBVIOUS
  <2>2. [q EXCEPT !.st = "error"] = Filled(m, "error", 0, {}, NoEntries)
    BY DEF Filled
  <2>3. [Filled(m, "error", 0, {}, NoEntries) EXCEPT !.val = q.val]
           = Filled(m, "error", 0, {}, NoEntries)
    BY DEF Filled
  <2>. QED  BY <2>1, <2>2, <2>3
<1>10. Seen(pc'[t], msg'[t]) = msg'[t]
  BY <1>1, <1>2, <1>4, <1>5, SeenDone
<1>11. TurnOf(pc[t]) = "pending" /\ pc'[t] \in Served
  BY <1>1, <1>4 DEF TurnOf, Served
<1>12. q.op = "getkeys"
  BY <1>1, FilledFields
<1>13. Seen(pc'[t], msg'[t]) = ErrorTo(q)
  <2>1. ErrorTo(q) = [q EXCEPT !.st = "error", !.val = q.val]
    BY <1>12 DEF ErrorTo
  <2>. QED  BY <1>4, <1>9, <1>10, <2>1
<1> HIDE DEF m, q
<1>14. Service!Next
  BY <1>1, <1>4, <1>7, <1>8, <1>11, <1>12, <1>13, AnswersError
<1>. QED  BY <1>6, <1>14 DEF AtomicStep

LEMMA FetchEntryAtomic ==
    ASSUME SkelInv, SkelInv', Shaped, NEW t \in Thread, FetchEntry(t) PROVE AtomicStep
<1> USE DEF SkelInv
<1> DEFINE m == msg[t]
           q == Filled(m, "req", 0, {}, NoEntries)
           got(k) == DOMAIN m.entries \cup {k}
           e(k) == [j \in got(k) |-> IF j = k THEN table[k] ELSE m.entries[j]]
           l(k) == IF got(k) = m.keys THEN "count" ELSE "entries"
<1>1. /\ pc[t] = "entries" /\ phase[t] = "reading" /\ m.op = "gettable" /\ table' = table
  BY DEF FetchEntry, ReaderAt, At
<1>2. PICK k \in m.keys \ DOMAIN m.entries :
          /\ msg' = [msg EXCEPT ![t] = [m EXCEPT !.entries = e(k)]]
          /\ pc' = [pc EXCEPT ![t] = l(k)]
  BY DEF FetchEntry, Goto, Becomes
<1>3. /\ m \in Message /\ msg'[t] \in Message
      /\ m.st = "ok" /\ DOMAIN m.entries \subseteq m.keys
  BY <1>1 DEF TypeOK, Shaped
<1>4. [m EXCEPT !.entries = e(k)] = Filled(m, "ok", m.n, m.keys, e(k))
  <2> DEFINE x == e(k)
  <2> HIDE DEF x, e
  <2>1. [m EXCEPT !.entries = x] = Filled(m, m.st, m.n, m.keys, x)
    BY <1>3, MessageFields
  <2>. QED  BY <1>3, <2>1 DEF x
<1>5. Alone(t) /\ pc'[t] = l(k) /\ msg'[t] = Filled(m, "ok", m.n, m.keys, e(k))
  <2> HIDE DEF e, l
  <2>. QED  BY <1>2, <1>4, AloneMoves
<1>6. /\ msg'[t].op = m.op /\ msg'[t].key = m.key /\ msg'[t].val = m.val
      /\ msg'[t].st = "ok" /\ msg'[t].keys = m.keys /\ msg'[t].entries = e(k)
      /\ msg'[t].n = m.n
  <2> HIDE DEF e
  <2>. QED  BY <1>5, FilledFields
<1>7. DOMAIN e(k) = got(k) /\ got(k) \subseteq m.keys
  BY <1>3
<1>8. Shaped'
  <2> HIDE DEF e, got
  <2>. QED  BY <1>1, <1>5, <1>6, <1>7, ShapedFrame
<1>9. /\ Logical = table /\ Logical' = table
      /\ \A r : r.op \in ReaderOps => Effect(table, r) = table
  <2>1. pc'[t] # "replace"
    BY <1>5
  <2> HIDE DEF e
  <2>. QED  BY <1>1, <1>5, <2>1, ReaderLogical
<1>10. Seen(pc[t], msg[t]) = q
  BY <1>1, <1>3, SeenPending
<1>11. q \in Message /\ q.op = m.op /\ q.key = m.key /\ q.val = m.val
  BY <1>3, RequestType, FilledFields
<1>12. CASE got(k) = m.keys
  <2> DEFINE E == [j \in Keys(table) |-> table[j]]
             n == Cardinality(Keys(table))
  <2>1. pc'[t] = "count"
    BY <1>5, <1>12
  <2>2. Seen(pc'[t], msg'[t]) = msg'[t]
    BY <1>1, <1>3, <1>6, <2>1, SeenDone
  <2>3. m.n = n /\ m.keys = Keys(table)
        /\ \A j \in DOMAIN m.entries : m.entries[j] = table[j]
    BY <1>1 DEF ReadersSeeOneTable, Readers
  <2>4. e(k) = E
    BY <1>12, <2>3
  <2>5. Answer(table, q) = Filled(q, "ok", n, Keys(table), E)
    <3> HIDE DEF q, e
    <3>. QED  BY <1>1, <1>11, AnswerFields
  <2>6. Filled(q, "ok", n, Keys(table), E) = Filled(m, "ok", n, Keys(table), E)
    <3> HIDE DEF q, m, n, E, e
    <3>. QED  BY <1>11 DEF Filled
  <2>7. TurnOf(pc[t]) = "pending" /\ pc'[t] \in Served
    BY <1>1, <2>1 DEF TurnOf, Served
  <2>8. q.op \in ReaderOps /\ q.op # "put"
    BY <1>1, <1>11 DEF ReaderOps
  <2> HIDE DEF m, n, q, E, e, got, l
  <2>9. Answer(table, q) = msg'[t]
    BY <1>5, <2>3, <2>4, <2>5, <2>6
  <2>10. Service!Next
    BY <1>5, <1>9, <1>10, <2>2, <2>7, <2>8, <2>9, ServesAsAnswered
  <2>. QED  BY <1>8, <2>10 DEF AtomicStep
<1>13. CASE got(k) # m.keys
  <2>1. pc'[t] = "entries"
    BY <1>5, <1>13
  <2>2. Seen("entries", msg'[t]) = Filled(msg'[t], "req", 0, {}, NoEntries)
    BY <1>1, <1>3, <1>6, SeenPending
  <2>3. Filled(msg'[t], "req", 0, {}, NoEntries) = q
    BY <1>6 DEF Filled
  <2>4. TurnOf(pc'[t]) = TurnOf(pc[t])
    BY <1>1, <2>1 DEF TurnOf, Served
  <2> HIDE DEF m, q, e, got, l
  <2>5. UNCHANGED Service!vars
    BY <1>5, <1>9, <1>10, <2>1, <2>2, <2>3, <2>4, Unseen
  <2>. QED  BY <1>8, <2>5 DEF AtomicStep
<1>. QED  BY <1>12, <1>13

(* The writing cases.                                                      *)
LEMMA WriterLogical ==
    ASSUME SkelInv, NEW t \in Thread, phase[t] = "writing", pc[t] # "replace"
    PROVE  Logical = table /\ \A u \in Thread : pc[u] # "replace"
<1>1. \A u \in Thread : pc[u] # "replace"
  BY WriterInside
<1>. QED  BY <1>1, LogicalIsTable

LEMMA ForwardAtomic ==
    ASSUME SkelInv, SkelInv', Shaped, NEW t \in Thread, TestLink(t) \/ Forward(t)
    PROVE  AtomicStep
<1> USE DEF SkelInv
<1>1. pc[t] \in {"called", "forward"} /\ msg' = msg /\ table' = table
  BY DEF TestLink, Forward, WriterAt, At
<1>2. PICK l \in {"forward", "apply"} : pc' = [pc EXCEPT ![t] = l]
  BY DEF TestLink, Forward, Goto
<1>3. msg[t] \in Message /\ IsRequest(msg[t])
  BY <1>1 DEF TypeOK, Shaped
<1>4. Alone(t) /\ pc'[t] = l /\ msg'[t] = msg[t]
  BY <1>1, <1>2, AloneGoes
<1>5. Shaped'
  BY <1>3, <1>4, ShapedFrame
<1>6. Logical' = Logical
  BY <1>1, <1>4, LogicalKept
<1>7. Seen(pc'[t], msg'[t]) = Seen(pc[t], msg[t])
  BY <1>1, <1>3, <1>4, RequestSeen
<1>8. TurnOf(pc'[t]) = TurnOf(pc[t])
  BY <1>1, <1>4 DEF TurnOf, Served
<1>9. UNCHANGED Service!vars
  BY <1>4, <1>6, <1>7, <1>8, Unseen
<1>. QED  BY <1>5, <1>9 DEF AtomicStep

(* The table after a step of a writer after which nobody replaces.         *)
LEMMA LogicalAfter ==
    ASSUME SkelInv, SkelInv', NEW t \in Thread, Alone(t), phase[t] = "writing",
           pc'[t] # "replace"
    PROVE  Logical' = table'
<1>1. \A u \in Thread : pc'[u] # "replace"
  BY WriterInside DEF Alone
<1>2. \A k \in Key : table'[k] # Freed
  BY <1>1 DEF SkelInv, FreedInHand
<1>. QED  BY <1>2 DEF Logical, SkelInv, TypeOK

LEMMA DelAtomic ==
    ASSUME SkelInv, SkelInv', Shaped, NEW t \in Thread, Del(t) PROVE AtomicStep
<1> USE DEF SkelInv
<1> DEFINE m == msg[t]
<1>1. /\ pc[t] = "apply" /\ phase[t] = "writing" /\ m.op = "del"
      /\ pc' = [pc EXCEPT ![t] = "count"] /\ msg' = [msg EXCEPT ![t] = Answer(table, m)]
      /\ table' = [table EXCEPT ![m.key] = NULL]
  BY DEF Del, Goto, Becomes, WriterAt, At
<1>2. m \in Message /\ msg'[t] \in Message /\ IsRequest(m)
  BY <1>1 DEF TypeOK, Shaped
<1>3. Alone(t) /\ pc'[t] = "count" /\ msg'[t] = Answer(table, m)
  BY <1>1, AloneMoves
<1>4. Shaped'
  BY <1>3, ShapedFrame
<1>5. Logical = table /\ Logical' = table'
  BY <1>1, <1>3, WriterLogical, LogicalAfter
<1>6. table' = Effect(table, m)
  BY <1>1 DEF Effect
<1>7. Seen(pc[t], msg[t]) = m
  BY <1>1, <1>2, RequestSeen
<1>8. Seen(pc'[t], msg'[t]) = msg'[t]
  <2> DEFINE st == IF table[m.key] = NULL THEN "error" ELSE "ok"
  <2>1. Answer(table, m) = Filled(m, st, m.n, m.keys, m.entries)
    BY <1>1, <1>2, AnswerFields
  <2> HIDE DEF st
  <2>2. msg'[t].op = m.op
    BY <1>3, <2>1, FilledFields
  <2>. QED  BY <1>1, <1>2, <1>3, <2>2, SeenDone
<1>9. TurnOf(pc[t]) = "pending" /\ pc'[t] \in Served
  BY <1>1, <1>3 DEF TurnOf, Served
<1>10. m.op \in ReaderOps \cup WriterOps /\ m.op # "put"
  BY <1>1 DEF WriterOps
<1> HIDE DEF m
<1>11. Service!Next
  BY <1>3, <1>5, <1>6, <1>7, <1>8, <1>9, <1>10, ServesAsAnswered
<1>. QED  BY <1>4, <1>11 DEF AtomicStep

(* A put serves its request with its first change of the table.            *)
LEMMA PutAtomic ==
    ASSUME SkelInv, SkelInv', Shaped, NEW t \in Thread, PutNew(t) \/ PutFrees(t)
    PROVE  AtomicStep
<1> USE DEF SkelInv
<1> DEFINE m == msg[t]
           a == Filled(m, "ok", m.n, m.keys, m.entries)
<1>1. /\ pc[t] = "apply" /\ phase[t] = "writing" /\ m.op = "put" /\ m.val # NULL
  BY DEF PutNew, PutFrees, WriterAt, At
<1>2. m \in Message /\ msg'[t] \in Message /\ IsRequest(m) /\ m.key \in Key
  BY <1>1 DEF TypeOK, Shaped, Placed
<1>3. Logical = table /\ \A u \in Thread : pc[u] # "replace"
  BY <1>1, WriterLogical
<1>4. Seen(pc[t], msg[t]) = m
  BY <1>1, <1>2, RequestSeen
<1>5. Answer(table, m) = a
  BY <1>1, <1>2, AnswerFields
<1>6. Effect(table, m) = [table EXCEPT ![m.key] = m.val]
  BY <1>1 DEF Effect
<1>7. TurnOf(pc[t]) = "pending"
  BY <1>1 DEF TurnOf, Served
<1>8. m.op \in ReaderOps \cup WriterOps
  BY <1>1 DEF WriterOps
<1>9. CASE PutNew(t)
  <2>1. /\ pc' = [pc EXCEPT ![t] = "count"] /\ msg' = [msg EXCEPT ![t] = [m EXCEPT !.st = "ok"]]
        /\ table' = [table EXCEPT ![m.key] = m.val]
    BY <1>9 DEF PutNew, Goto, Becomes
  <2>2. [m EXCEPT !.st = "ok"] = a
    BY <1>2, MessageFields
  <2>3. Alone(t) /\ pc'[t] = "count" /\ msg'[t] = a
    <3> HIDE DEF a, m
    <3>. QED  BY <2>1, <2>2, AloneMoves
  <2>4. Shaped'
    BY <2>3, ShapedFrame
  <2>5. Logical' = table'
    BY <1>1, <2>3, LogicalAfter
  <2>6. Seen(pc'[t], msg'[t]) = a
    <3>1. a.op = m.op
      BY FilledFields
    <3> HIDE DEF a
    <3>. QED  BY <1>1, <1>2, <2>3, <3>1, SeenDone
  <2>7. pc'[t] \in Served
    BY <2>3 DEF Served
  <2> HIDE DEF a, m
  <2>8. Service!Next
    BY <1>1, <1>3, <1>4, <1>5, <1>6, <1>7, <1>8, <2>1, <2>3, <2>5, <2>6, <2>7,
       ServesAsAnswered
  <2>. QED  BY <2>4, <2>8 DEF AtomicStep
<1>10. CASE PutFrees(t)
  <2>1. /\ pc' = [pc EXCEPT ![t] = "replace"] /\ msg' = msg
        /\ table' = [table EXCEPT ![m.key] = Freed]
    BY <1>10 DEF PutFrees, Goto
  <2>2. Alone(t) /\ pc'[t] = "replace" /\ msg'[t] = m
    BY <2>1, AloneGoes
  <2>3. Shaped'
    BY <1>2, <2>2, ShapedFrame
  <2>4. Seen(pc'[t], msg'[t]) = a
    BY <1>1, <1>2, <2>2, SeenReplacing
  <2>5. \A k : k = m.key => Replacing(k)' = {t}
    BY <1>3, <2>1, <2>2 DEF Replacing, Alone
  <2>6. Logical' = [table EXCEPT ![m.key] = m.val]
    <3>1. \A k \in Key : k # m.key => table'[k] = table[k] /\ table[k] # Freed
      BY <1>1, <2>1, WriterInside DEF TypeOK
    <3>2. table'[m.key] = Freed
      BY <1>2, <2>1 DEF TypeOK
    <3>4. \A k \in Key :
              (IF table'[k] = Freed /\ Replacing(k)' # {}
               THEN msg'[CHOOSE u \in Replacing(k)' : TRUE].val ELSE table'[k])
              = IF k = m.key THEN m.val ELSE table[k]
      <4> SUFFICES ASSUME NEW k \in Key
                   PROVE  (IF table'[k] = Freed /\ Replacing(k)' # {}
                           THEN msg'[CHOOSE u \in Replacing(k)' : TRUE].val ELSE table'[k])
                          = IF k = m.key THEN m.val ELSE table[k]
        OBVIOUS
      <4>1. CASE k = m.key
        <5>1. msg'[CHOOSE u \in Replacing(k)' : TRUE].val = m.val
          <6>1. (CHOOSE u \in Replacing(k)' : TRUE) = t
            BY <2>5, <4>1
          <6>. QED  BY <2>2, <6>1
        <5>2. table'[k] = Freed /\ Replacing(k)' # {}
          BY <2>5, <3>2, <4>1
        <5>. QED  BY <4>1, <5>1, <5>2
      <4>2. CASE k # m.key
        BY <3>1, <4>2
      <4>. QED  BY <4>1, <4>2
    <3>5. Logical' = [k \in Key |-> IF k = m.key THEN m.val ELSE table[k]]
      BY <3>4 DEF Logical
    <3>. QED  BY <1>2, <3>5 DEF TypeOK
  <2>7. pc'[t] \in Served
    BY <2>2 DEF Served
  <2> HIDE DEF a, m
  <2>8. Service!Next
    BY <1>1, <1>3, <1>4, <1>5, <1>6, <1>7, <1>8, <2>2, <2>4, <2>6, <2>7,
       ServesAsAnswered
  <2>. QED  BY <2>3, <2>8 DEF AtomicStep
<1>. QED  BY <1>9, <1>10

(* A value is freed while it is replaced.                                  *)
Replaced == \A t \in Thread : pc[t] = "replace" => table[msg[t].key] = Freed

LEMMA ReplacedStep ==
    ASSUME SkelInv, Replaced, [Next]_vars PROVE Replaced'
<1> USE DEF SkelInv, TypeOK, Goto, Becomes, ReaderAt, WriterAt, At, Replaced
<1>1. ASSUME table' = table,
             \A u \in Thread : pc'[u] = "replace" => pc[u] = "replace" /\ msg'[u] = msg[u]
      PROVE  Replaced'
  BY <1>1
<1>2. ASSUME NEW t \in Thread, Receive(t) \/ UnknownOp(t) \/ Reply(t)
      PROVE  Replaced'
  BY <1>1, <1>2 DEF Receive, UnknownOp, Reply
<1>3. ASSUME NEW t \in Thread, TakeLock(t) \/ Wake(t)
      PROVE  Replaced'
  BY <1>1, <1>3 DEF TakeLock, Wake, skelVars
<1>4. ASSUME NEW t \in Thread,
             Stats(t) \/ Size(t) \/ GetFails(t) \/ CountKeys(t) \/ GetKeysFails(t)
      PROVE  Replaced'
  BY <1>1, <1>4 DEF Stats, Size, GetFails, CountKeys, GetKeysFails
<1>5. ASSUME NEW t \in Thread, Get(t) \/ GetErrors(t) \/ ListKeys(t) \/ FetchEntry(t)
      PROVE  Replaced'
  BY <1>1, <1>5 DEF Get, GetErrors, ListKeys, FetchEntry
<1>6. ASSUME NEW t \in Thread,
             \/ LoadCounter(t) \/ StoreCounter(t) \/ ReleaseLock(t) \/ TestLink(t)
             \/ Forward(t) \/ PutFails(t) \/ PutErrors(t)
      PROVE  Replaced'
  BY <1>1, <1>6 DEF LoadCounter, StoreCounter, ReleaseLock, TestLink, Forward, PutFails,
     PutErrors
<1>7. ASSUME NEW t \in Thread, Del(t) \/ PutNew(t) \/ PutStores(t)
      PROVE  Replaced'
  <2>1. phase[t] = "writing" /\ pc' = [pc EXCEPT ![t] = "count"]
    BY <1>7 DEF Del, PutNew, PutStores
  <2>2. \A u \in Thread : pc'[u] # "replace"
    BY <2>1, WriterInside
  <2>. QED  BY <2>2
<1>8. ASSUME NEW t \in Thread, PutFrees(t) PROVE Replaced'
  <2>1. /\ phase[t] = "writing" /\ pc[t] = "apply" /\ msg[t].op = "put" /\ msg' = msg
        /\ pc' = [pc EXCEPT ![t] = "replace"] /\ table' = [table EXCEPT ![msg[t].key] = Freed]
    BY <1>8 DEF PutFrees
  <2>2. \A u \in Thread : u # t => pc'[u] # "replace"
    BY <2>1, WriterInside
  <2>3. msg[t].key \in Key
    BY <2>1 DEF Placed
  <2>. QED  BY <2>1, <2>2, <2>3
<1>9. CASE SuccessorChanges \/ \E t \in Thread : Killed(t)
  BY <1>1, <1>9 DEF SuccessorChanges, Killed
<1>10. CASE UNCHANGED vars
  BY <1>1, <1>10 DEF vars, skelVars
<1>. QED  BY <1>2, <1>3, <1>4, <1>5, <1>6, <1>7, <1>8, <1>9, <1>10 DEF Next, Work, Read, Write

(* The second change is not seen.                                          *)
LEMMA PutStoresAtomic ==
    ASSUME SkelInv, SkelInv', Shaped, Replaced, NEW t \in Thread, PutStores(t)
    PROVE  AtomicStep
<1> USE DEF SkelInv
<1> DEFINE m == msg[t]
           a == Filled(m, "ok", m.n, m.keys, m.entries)
<1>1. /\ pc[t] = "replace" /\ phase[t] = "writing" /\ m.op = "put"
      /\ pc' = [pc EXCEPT ![t] = "count"] /\ msg' = [msg EXCEPT ![t] = [m EXCEPT !.st = "ok"]]
      /\ table' = [table EXCEPT ![m.key] = m.val]
  BY DEF PutStores, Goto, Becomes, WriterAt, At
<1>2. m \in Message /\ msg'[t] \in Message /\ m.key \in Key /\ m.val \in Val
  BY <1>1 DEF TypeOK, Placed, Message
<1>3. [m EXCEPT !.st = "ok"] = a
  BY <1>2, MessageFields
<1>4. Alone(t) /\ pc'[t] = "count" /\ msg'[t] = a
  <2> HIDE DEF a, m
  <2>. QED  BY <1>1, <1>3, AloneMoves
<1>5. Shaped'
  BY <1>4, ShapedFrame
<1>6. Seen(pc[t], msg[t]) = a
  BY <1>1, <1>2, SeenReplacing
<1>7. Seen(pc'[t], msg'[t]) = a
  <2>1. a.op = m.op
    BY FilledFields
  <2> HIDE DEF a
  <2>. QED  BY <1>1, <1>2, <1>4, <2>1, SeenDone
<1>8. Logical' = table'
  BY <1>1, <1>4, LogicalAfter
<1>9. Logical = table'
  <2>1. \A u \in Thread : u # t => pc[u] # "replace"
    BY <1>1, WriterInside
  <2>2. Replacing(m.key) = {t}
    BY <1>1, <2>1 DEF Replacing
  <2>3. \A k \in Key : k # m.key => table[k] # Freed
    BY <1>1, WriterInside
  <2>4. (CHOOSE u \in Replacing(m.key) : TRUE) = t
    BY <2>2
  <2>5. table[m.key] = Freed
    BY <1>1 DEF Replaced
  <2>6. \A k \in Key :
            (IF table[k] = Freed /\ Replacing(k) # {}
             THEN msg[CHOOSE u \in Replacing(k) : TRUE].val ELSE table[k])
            = IF k = m.key THEN m.val ELSE table[k]
    <3>1. msg[CHOOSE u \in Replacing(m.key) : TRUE].val = m.val
      BY <2>4
    <3>. QED  BY <2>2, <2>3, <2>5, <3>1
  <2>7. Logical = [k \in Key |-> IF k = m.key THEN m.val ELSE table[k]]
    BY <2>6 DEF Logical
  <2>. QED  BY <1>1, <1>2, <2>7 DEF TypeOK
<1>10. TurnOf(pc'[t]) = TurnOf(pc[t])
  BY <1>1, <1>4 DEF TurnOf, Served
<1> HIDE DEF m, a
<1>11. UNCHANGED Service!vars
  BY <1>4, <1>6, <1>7, <1>8, <1>9, <1>10, Unseen
<1>. QED  BY <1>5, <1>11 DEF AtomicStep
LEMMA AtomicSteps ==
    ASSUME SkelInv, SkelInv', Shaped, Replaced, [Next]_vars PROVE AtomicStep
<1>1. CASE \E t \in Thread : Receive(t) \/ Reply(t)
  BY <1>1, ReceiveAtomic, ReplyAtomic
<1>2. CASE \E t \in Thread : UnknownOp(t) \/ GetFails(t) \/ PutFails(t)
  BY <1>2, TurnedDownAtomic
<1>9. CASE \E t \in Thread : GetErrors(t) \/ PutErrors(t)
  BY <1>9, ErrorAtomic
<1>3. CASE \E t \in Thread : TakeLock(t) \/ Wake(t)
  BY <1>3, QuietAtomic DEF TakeLock, Wake, skelVars
<1>4. CASE \E t \in Thread : Stats(t) \/ Size(t) \/ Get(t)
  BY <1>4, StatsAtomic, SizeAtomic, GetAtomic
<1>5. CASE \E t \in Thread :
              CountKeys(t) \/ ListKeys(t) \/ GetKeysFails(t) \/ FetchEntry(t)
  BY <1>5, CountKeysAtomic, ListKeysAtomic, GetKeysFailsAtomic, FetchEntryAtomic
<1>6. CASE \E t \in Thread :
              \/ TestLink(t) \/ Forward(t) \/ Del(t)
              \/ PutNew(t) \/ PutFrees(t) \/ PutStores(t)
  BY <1>6, ForwardAtomic, DelAtomic, PutAtomic, PutStoresAtomic
<1>7. CASE \E t \in Thread : LoadCounter(t) \/ StoreCounter(t) \/ ReleaseLock(t)
  BY <1>7, CountingAtomic
<1>8. CASE SuccessorChanges \/ (\E t \in Thread : Killed(t)) \/ UNCHANGED vars
  BY <1>8, QuietAtomic DEF SuccessorChanges, Killed, vars, skelVars
<1>. QED  BY <1>1, <1>2, <1>3, <1>4, <1>5, <1>6, <1>7, <1>8, <1>9 DEF Next, Work, Read, Write

LEMMA InitAtomic == Init => Service!Init
<1> SUFFICES ASSUME Init PROVE Service!Init
  OBVIOUS
<1>1. SkelInv
  BY InitSkelInv
<1>2. \A t \in Thread : pc[t] = "idle" /\ msg[t] = NoMsg
  BY DEF Init
<1>3. Logical = table
  BY <1>1, <1>2, LogicalIsTable
<1>4. Seen("idle", NoMsg) = NoMsg
  BY SeenDone, NoMsgType DEF NoMsg
<1>5. Visible = [t \in Thread |-> NoMsg]
  BY <1>2, <1>4, AbstractState
<1>6. Turn = [t \in Thread |-> "idle"]
  BY <1>2, AbstractState DEF TurnOf
<1>. QED  BY <1>3, <1>5, <1>6, ServiceOps DEF Service!Init, Init

(* The server implements AtomicTable: however its threads interleave, and  *)
(* wherever malloc() fails, each request it answers was served at one      *)
(* instant between its arrival and its answer.                             *)
THEOREM ServerImplementsAtomicTable == Spec => ImplementsAtomicTable
<1> DEFINE Inv == SkelInv /\ Shaped /\ Replaced
<1>1. Init => Inv
  BY InitSkelInv, InitShaped DEF Init, Replaced
<1>2. Inv /\ [Next]_vars => Inv' /\ [Service!Next]_Service!vars
  BY SkelStep, ReplacedStep, AtomicSteps DEF AtomicStep
<1> HIDE DEF Inv
<1>3. Spec => Service!Init /\ [][Service!Next]_Service!vars
  BY <1>1, <1>2, InitAtomic, PTL DEF Spec
<1>. QED  BY <1>3 DEF ImplementsAtomicTable, Service!Spec
=============================================================================
