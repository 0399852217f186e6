---------------------------- MODULE RWLockProofs ----------------------------
(***************************************************************************)
(* Theorems about RWLock, for every finite set of threads.                 *)
(***************************************************************************)
EXTENDS RWLock, FiniteSetTheorems, TLAPS

(* The three sets the counters count are finite.                           *)
LEMMA CountedSetsFinite ==
    /\ IsFiniteSet(Readers) /\ Cardinality(Readers) \in Nat
    /\ IsFiniteSet(Writers) /\ Cardinality(Writers) \in Nat
    /\ IsFiniteSet(WaitingWriters) /\ Cardinality(WaitingWriters) \in Nat
<1>1. /\ Readers \in SUBSET Thread
      /\ Writers \in SUBSET Thread
      /\ WaitingWriters \in SUBSET Thread
  BY DEF Readers, Writers, WaitingWriters
<1>. QED  BY <1>1, ThreadAssumption, FS_Subset, FS_CardinalityType

(* A finite set whose cardinality is compared with zero or one.            *)
LEMMA SmallSets ==
    ASSUME NEW S, IsFiniteSet(S)
    PROVE  /\ (S = {} <=> Cardinality(S) = 0)
           /\ \A x \in S : Cardinality(S) >= 1
           /\ Cardinality(S) <= 1 => \A x \in S : S = {x}
<1>1. Cardinality(S) \in Nat
  BY FS_CardinalityType
<1>2. S = {} <=> Cardinality(S) = 0
  BY FS_EmptySet
<1>3. \A x \in S : Cardinality(S) >= 1
  BY <1>1, <1>2
<1>4. ASSUME Cardinality(S) <= 1, NEW x \in S
      PROVE  S = {x}
  <2>1. Cardinality(S) = 1
    BY <1>1, <1>3, <1>4
  <2>2. PICK y : S = {y}
    BY <2>1, FS_Singleton
  <2>. QED  BY <2>2, <1>4
<1>. QED  BY <1>2, <1>3, <1>4

(* What one thread entering or leaving does to a counted set.              *)
LEMMA OneMore ==
    ASSUME NEW S, IsFiniteSet(S), NEW x, x \notin S
    PROVE  Cardinality(S \cup {x}) = Cardinality(S) + 1
  BY FS_AddElement

LEMMA OneLess ==
    ASSUME NEW S, IsFiniteSet(S), NEW x \in S
    PROVE  Cardinality(S \ {x}) = Cardinality(S) - 1
  BY FS_RemoveElement

-----------------------------------------------------------------------------
(* One lemma per stretch of code under the mutex.                          *)

LEMMA InitInv == LockInit => LockInv
<1> SUFFICES ASSUME LockInit PROVE LockInv
  OBVIOUS
<1>1. LockTypeOK
  BY DEF LockInit, LockTypeOK, Phase
<1>2. Readers = {} /\ Writers = {} /\ WaitingWriters = {}
  BY DEF LockInit, Readers, Writers, WaitingWriters
<1>3. Cardinality({}) = 0
  BY FS_EmptySet
<1>. QED  BY <1>1, <1>2, <1>3 DEF LockInit, LockInv

LEMMA ReaderSleepsInv ==
    ASSUME LockInv, NEW t \in Thread, ReaderSleeps(t)
    PROVE  LockInv' /\ (CountersExact => CountersExact')
<1> USE DEF ReaderSleeps, counters, LockInv, LockTypeOK
<1>1. LockTypeOK'
  BY DEF Phase
<1>2. Readers' = Readers /\ Writers' = Writers /\ WaitingWriters' = WaitingWriters
  BY DEF Readers, Writers, WaitingWriters
<1>3. ReaderMustWait' = ReaderMustWait /\ WriterMustWait' = WriterMustWait
  BY DEF ReaderMustWait, WriterMustWait
<1>. QED  BY <1>1, <1>2, <1>3 DEF CountersExact

LEMMA ReaderEntersInv ==
    ASSUME LockInv, NEW t \in Thread, ReaderEnters(t)
    PROVE  LockInv' /\ (CountersExact => CountersExact')
<1> USE DEF ReaderEnters, LockInv, LockTypeOK
<1>1. LockTypeOK'
  BY DEF Phase
<1>2. /\ t \notin Readers
      /\ Readers' = Readers \cup {t}
      /\ Writers' = Writers
      /\ WaitingWriters' = WaitingWriters
  BY DEF Readers, Writers, WaitingWriters
<1>3. Cardinality(Readers') = Cardinality(Readers) + 1
  BY <1>2, CountedSetsFinite, OneMore
<1>4. active_writers = 0 /\ waiting_writers = 0
  BY DEF ReaderMustWait
<1>5. \A u \in Thread : phase'[u] # "r_wait"
  BY <1>4 DEF ReaderMustWait
<1>6. WriterMustWait'
  BY DEF WriterMustWait
<1>. QED  BY <1>1, <1>2, <1>3, <1>4, <1>5, <1>6, CountedSetsFinite DEF CountersExact

LEMMA WriterArrivesAndSleepsInv ==
    ASSUME LockInv, NEW t \in Thread, WriterArrivesAndSleeps(t)
    PROVE  LockInv' /\ (CountersExact => CountersExact')
<1> USE DEF WriterArrivesAndSleeps, LockInv, LockTypeOK
<1>1. LockTypeOK'
  BY DEF Phase
<1>2. /\ t \notin WaitingWriters
      /\ WaitingWriters' = WaitingWriters \cup {t}
      /\ Readers' = Readers
      /\ Writers' = Writers
  BY DEF Readers, Writers, WaitingWriters
<1>3. Cardinality(WaitingWriters') = Cardinality(WaitingWriters) + 1
  BY <1>2, CountedSetsFinite, OneMore
<1>4. ReaderMustWait' /\ WriterMustWait' = WriterMustWait
  BY DEF ReaderMustWait, WriterMustWait
<1>. QED  BY <1>1, <1>2, <1>3, <1>4 DEF CountersExact

LEMMA WriterArrivesAndEntersInv ==
    ASSUME LockInv, NEW t \in Thread, WriterArrivesAndEnters(t)
    PROVE  LockInv' /\ (CountersExact => CountersExact')
<1> USE DEF WriterArrivesAndEnters, LockInv, LockTypeOK
<1>1. LockTypeOK'
  BY DEF Phase
<1>2. /\ t \notin Writers
      /\ Writers' = Writers \cup {t}
      /\ Readers' = Readers
      /\ WaitingWriters' = WaitingWriters
  BY DEF Readers, Writers, WaitingWriters
<1>3. Cardinality(Writers') = Cardinality(Writers) + 1
  BY <1>2, CountedSetsFinite, OneMore
<1>4. active_writers = 0 /\ active_readers = 0
  BY DEF WriterMustWait
<1>5. ReaderMustWait' /\ WriterMustWait'
  BY <1>4 DEF ReaderMustWait, WriterMustWait
<1>. QED  BY <1>1, <1>2, <1>3, <1>4, <1>5, CountedSetsFinite DEF CountersExact

LEMMA WriterSleepsAgainInv ==
    ASSUME LockInv, NEW t \in Thread, WriterSleepsAgain(t)
    PROVE  LockInv' /\ (CountersExact => CountersExact')
<1> USE DEF WriterSleepsAgain, counters, LockInv, LockTypeOK
<1>1. LockTypeOK'
  BY DEF Phase
<1>2. Readers' = Readers /\ Writers' = Writers /\ WaitingWriters' = WaitingWriters
  BY DEF Readers, Writers, WaitingWriters
<1>3. ReaderMustWait' = ReaderMustWait /\ WriterMustWait' = WriterMustWait
  BY DEF ReaderMustWait, WriterMustWait
<1>. QED  BY <1>1, <1>2, <1>3 DEF CountersExact

LEMMA WriterEntersInv ==
    ASSUME LockInv, NEW t \in Thread, WriterEnters(t)
    PROVE  LockInv' /\ (CountersExact => CountersExact')
<1> USE DEF WriterEnters, LockInv, LockTypeOK
<1>1. t \in WaitingWriters /\ waiting_writers >= 1
  <2>1. t \in WaitingWriters
    BY DEF WaitingWriters
  <2>. QED  BY <2>1, CountedSetsFinite, SmallSets
<1>2. LockTypeOK'
  BY <1>1 DEF Phase
<1>3. /\ t \notin Writers
      /\ Writers' = Writers \cup {t}
      /\ WaitingWriters' = WaitingWriters \ {t}
      /\ Readers' = Readers
  BY DEF Readers, Writers, WaitingWriters
<1>4. Cardinality(Writers') = Cardinality(Writers) + 1
  BY <1>3, CountedSetsFinite, OneMore
<1>5. Cardinality(WaitingWriters') = Cardinality(WaitingWriters) - 1
  BY <1>1, <1>3, CountedSetsFinite, OneLess
<1>6. active_writers = 0 /\ active_readers = 0
  BY DEF WriterMustWait
<1>7. ReaderMustWait' /\ WriterMustWait'
  BY <1>6 DEF ReaderMustWait, WriterMustWait
<1>. QED  BY <1>2, <1>3, <1>4, <1>5, <1>6, <1>7, CountedSetsFinite DEF CountersExact

(* A wake-up moves threads from asleep to woken and changes no count.      *)
LEMMA SpuriousWakeupInv ==
    ASSUME LockInv, NEW t \in Thread, SpuriousWakeup(t)
    PROVE  LockInv' /\ (CountersExact => CountersExact')
<1> USE DEF SpuriousWakeup, counters, LockInv, LockTypeOK
<1>1. LockTypeOK'
  BY DEF Phase
<1>2. Readers' = Readers /\ Writers' = Writers /\ WaitingWriters' = WaitingWriters
  BY DEF Readers, Writers, WaitingWriters
<1>3. ReaderMustWait' = ReaderMustWait /\ WriterMustWait' = WriterMustWait
  BY DEF ReaderMustWait, WriterMustWait
<1>. QED  BY <1>1, <1>2, <1>3 DEF CountersExact

LEMMA termina_lerInv ==
    ASSUME LockInv, NEW t \in Thread, termina_ler(t)
    PROVE  LockInv' /\ (CountersExact => CountersExact')
<1> USE DEF termina_ler, LockInv, LockTypeOK
<1>1. t \in Readers /\ active_readers >= 1
  <2>1. t \in Readers
    BY DEF Readers
  <2>. QED  BY <2>1, CountedSetsFinite, SmallSets
<1>2. active_writers = 0
  BY <1>1
<1>3. LockTypeOK'
  BY <1>1 DEF Leave, LeaveAndWake, Phase
<1>4. /\ Readers' = Readers \ {t}
      /\ Writers' = Writers
      /\ WaitingWriters' = WaitingWriters
  BY DEF Leave, LeaveAndWake, Readers, Writers, WaitingWriters
<1>5. Cardinality(Readers') = Cardinality(Readers) - 1
  BY <1>1, <1>4, CountedSetsFinite, OneLess
<1>6. \A u \in Thread : phase'[u] = "r_wait" => ReaderMustWait'
  BY DEF Leave, LeaveAndWake, ReaderMustWait
<1>7. \A u \in Thread : phase'[u] = "w_wait" => WriterMustWait'
  <2>1. CASE active_readers = 1
    BY <2>1 DEF LeaveAndWake
  <2>2. CASE active_readers # 1
    BY <2>2, <1>1 DEF WriterMustWait
  <2>. QED  BY <2>1, <2>2
<1>. QED  BY <1>2, <1>3, <1>4, <1>5, <1>6, <1>7, CountedSetsFinite DEF CountersExact

LEMMA termina_escreverInv ==
    ASSUME LockInv, NEW t \in Thread, termina_escrever(t)
    PROVE  LockInv' /\ (CountersExact => CountersExact')
<1> USE DEF termina_escrever, LockInv, LockTypeOK
<1>1. t \in Writers /\ active_writers = 1
  <2>1. t \in Writers
    BY DEF Writers
  <2>. QED  BY <2>1, CountedSetsFinite, SmallSets
<1>2. LockTypeOK'
  BY <1>1 DEF LeaveAndWake, Phase
<1>3. /\ Writers' = Writers \ {t}
      /\ Readers' = Readers
      /\ WaitingWriters' = WaitingWriters
  BY DEF LeaveAndWake, Readers, Writers, WaitingWriters
<1>4. Cardinality(Writers') = Cardinality(Writers) - 1
  BY <1>1, <1>3, CountedSetsFinite, OneLess
<1>5. \A u \in Thread : phase'[u] = "r_wait" => ReaderMustWait'
  BY DEF LeaveAndWake, ReaderMustWait
<1>6. \A u \in Thread : phase'[u] = "w_wait" => WriterMustWait'
  <2>1. CASE waiting_writers > 0
    BY <2>1 DEF LeaveAndWake
  <2>2. CASE ~(waiting_writers > 0)
    <3>1. WaitingWriters = {}
      BY <2>2, CountedSetsFinite, SmallSets
    <3>2. \A u \in Thread : phase[u] # "w_wait"
      BY <3>1 DEF WaitingWriters
    <3>. QED  BY <2>2, <3>2 DEF LeaveAndWake
  <2>. QED  BY <2>1, <2>2
<1>. QED  BY <1>1, <1>2, <1>3, <1>4, <1>5, <1>6, CountedSetsFinite DEF CountersExact

(* The four functions and the wake-ups together; a step that leaves the    *)
(* lock alone changes nothing.                                             *)
LEMMA LockStep ==
    ASSUME LockInv, NEW t \in Thread,
           \/ comeca_ler(t) \/ termina_ler(t)
           \/ comeca_escrever(t) \/ termina_escrever(t)
           \/ SpuriousWakeup(t)
    PROVE  LockInv' /\ (CountersExact => CountersExact')
<1>1. CASE comeca_ler(t)
  BY <1>1, ReaderSleepsInv, ReaderEntersInv DEF comeca_ler
<1>2. CASE termina_ler(t)
  BY <1>2, termina_lerInv
<1>3. CASE comeca_escrever(t)
  BY <1>3, WriterArrivesAndSleepsInv, WriterArrivesAndEntersInv,
     WriterSleepsAgainInv, WriterEntersInv DEF comeca_escrever
<1>4. CASE termina_escrever(t)
  BY <1>4, termina_escreverInv
<1>5. CASE SpuriousWakeup(t)
  BY <1>5, SpuriousWakeupInv
<1>. QED  BY <1>1, <1>2, <1>3, <1>4, <1>5

LEMMA LockIdle ==
    LockInv /\ UNCHANGED lockVars
        => LockInv' /\ (CountersExact => CountersExact')
  BY DEF lockVars, LockInv, LockTypeOK, CountersExact, Readers, Writers,
         WaitingWriters, ReaderMustWait, WriterMustWait

-----------------------------------------------------------------------------
(* What the invariant gives in every state.                                *)

LEMMA InvMutualExclusion == LockInv => MutualExclusion
<1> SUFFICES ASSUME LockInv, NEW t \in Writers
             PROVE  Readers = {} /\ Writers = {t}
  BY DEF MutualExclusion
<1>1. Cardinality(Writers) <= 1 /\ active_writers = 1
  BY CountedSetsFinite, SmallSets DEF LockInv, LockTypeOK
<1>2. Cardinality(Readers) = 0
  BY <1>1, CountedSetsFinite DEF LockInv, LockTypeOK
<1>. QED  BY <1>1, <1>2, CountedSetsFinite, SmallSets

LEMMA InvNoLostWakeup == LockInv /\ CountersExact => NoLostWakeup
<1> SUFFICES ASSUME LockInv, CountersExact, NEW t \in Thread
             PROVE  /\ phase[t] = "r_wait" => Writers \cup WaitingWriters # {}
                    /\ phase[t] = "w_wait" => Writers \cup Readers # {}
  BY DEF NoLostWakeup
<1>1. /\ active_writers > 0 => Writers # {}
      /\ waiting_writers > 0 => WaitingWriters # {}
      /\ active_readers > 0 => Readers # {}
  BY CountedSetsFinite, SmallSets DEF CountersExact
<1>2. phase[t] = "r_wait" => Writers \cup WaitingWriters # {}
  BY <1>1 DEF LockInv, ReaderMustWait
<1>3. phase[t] = "w_wait" => Writers \cup Readers # {}
  BY <1>1 DEF LockInv, WriterMustWait
<1>. QED  BY <1>2, <1>3

LEMMA InitExact == LockInit => CountersExact
<1> SUFFICES ASSUME LockInit PROVE CountersExact
  OBVIOUS
<1>1. Readers = {} /\ Writers = {} /\ WaitingWriters = {}
  BY DEF LockInit, Readers, Writers, WaitingWriters
<1>. QED  BY <1>1, FS_EmptySet DEF LockInit, CountersExact

-----------------------------------------------------------------------------
(* The lock of table_skel.c, for any finite number of client threads and   *)
(* with or without spurious wake-ups: the invariant and the exactness of   *)
(* the three counters hold in every reachable state.                       *)
THEOREM LockInvariance == LockSpec => [](LockInv /\ CountersExact)
<1>1. LockInit => LockInv /\ CountersExact
  BY InitInv, InitExact
<1>2. LockInv /\ CountersExact /\ [LockNext]_lockVars => (LockInv /\ CountersExact)'
  <2> SUFFICES ASSUME LockInv, CountersExact, [LockNext]_lockVars
               PROVE  (LockInv /\ CountersExact)'
    OBVIOUS
  <2>1. ASSUME NEW t \in Thread, Arrives(t) \/ GoesOn(t) \/ SpuriousWakeup(t)
        PROVE  (LockInv /\ CountersExact)'
    BY <2>1, LockStep DEF Arrives, GoesOn
  <2>2. CASE UNCHANGED lockVars
    BY <2>2, LockIdle
  <2>. QED  BY <2>1, <2>2 DEF LockNext
<1>. QED  BY <1>1, <1>2, PTL DEF LockSpec

(* The counters stay natural numbers and every thread at a known place.    *)
THEOREM TypeCorrectness == LockSpec => []LockTypeOK
<1>1. LockInv => LockTypeOK
  BY DEF LockInv
<1>. QED  BY <1>1, LockInvariance, PTL

(* A writer of the table is alone with it, whatever the number of threads. *)
THEOREM Exclusion == LockSpec => []MutualExclusion
  BY InvMutualExclusion, LockInvariance, PTL

(* The counters are exact at every point where the mutex is free.          *)
THEOREM Exactness == LockSpec => []CountersExact
  BY LockInvariance, PTL

(* Nobody sleeps without somebody who will broadcast to it.                *)
THEOREM WakeupsKept == LockSpec => []NoLostWakeup
  BY InvNoLostWakeup, LockInvariance, PTL
=============================================================================
