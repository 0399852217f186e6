------------------------------- MODULE RWLock -------------------------------
(***************************************************************************)
(* The readers-writer lock of source/table_skel.c (comeca_ler, termina_ler,*)
(* comeca_escrever, termina_escrever): one mutex, two condition variables  *)
(* and three counters.  Each of the four functions runs under the mutex    *)
(* from its first to its last line, except while it sleeps in              *)
(* pthread_cond_wait, so a step of the model is one stretch of code during *)
(* which the mutex is held.                                                *)
(*                                                                         *)
(* The module has two uses: LockSpec below closes it with threads that     *)
(* always leave what they enter, and TableSkel extends it and conjoins its *)
(* actions with the steps of invoke().                                     *)
(***************************************************************************)
EXTENDS Integers, FiniteSets

CONSTANTS Thread,            \* the client_handler threads of one server
          SpuriousWakeups    \* may pthread_cond_wait return unasked?

ASSUME ThreadAssumption == IsFiniteSet(Thread)
ASSUME SpuriousAssumption == SpuriousWakeups \in BOOLEAN

VARIABLES active_readers, waiting_writers, active_writers,
          phase              \* where each thread stands with the lock

counters == <<active_readers, waiting_writers, active_writers>>
lockVars == <<active_readers, waiting_writers, active_writers, phase>>

(* A thread asleep on cond_reader or cond_writer is "r_wait" or "w_wait";  *)
(* "r_woken" and "w_woken" have been signalled and wait for the mutex, to  *)
(* evaluate the condition of their while loop again.                       *)
Phase == {"out", "r_wait", "r_woken", "reading",
                 "w_wait", "w_woken", "writing"}

Readers == {t \in Thread : phase[t] = "reading"}
Writers == {t \in Thread : phase[t] = "writing"}
WaitingWriters == {t \in Thread : phase[t] \in {"w_wait", "w_woken"}}

LockInit ==
    /\ active_readers = 0
    /\ waiting_writers = 0
    /\ active_writers = 0
    /\ phase = [t \in Thread |-> "out"]

-----------------------------------------------------------------------------
(* The conditions of the two while loops.                                  *)

ReaderMustWaitNoPreference == active_writers > 0
ReaderMustWaitNoExclusion == waiting_writers > 0
ReaderMustWait == active_writers > 0 \/ waiting_writers > 0

WriterMustWaitReadersOnly == active_readers > 0
WriterMustWaitWritersOnly == active_writers > 0
WriterMustWait == active_readers > 0 \/ active_writers > 0

(* pthread_cond_broadcast: every thread asleep on the condition variable   *)
(* may go on; t itself leaves.  pthread_cond_signal would wake only one.   *)
LeaveAndWake(t, asleep, woken) ==
    phase' = [u \in Thread |-> IF u = t THEN "out"
                               ELSE IF phase[u] = asleep THEN woken
                               ELSE phase[u]]

Leave(t) == phase' = [phase EXCEPT ![t] = "out"]

-----------------------------------------------------------------------------
(* comeca_ler(): the loop goes to sleep on cond_reader ...                 *)
ReaderSleeps(t) ==
    /\ phase[t] \in {"out", "r_woken"}
    /\ ReaderMustWait
    /\ phase' = [phase EXCEPT ![t] = "r_wait"]
    /\ UNCHANGED counters

(* ... or is left and active_readers++ is executed.                        *)
ReaderEnters(t) ==
    /\ phase[t] \in {"out", "r_woken"}
    /\ ~ReaderMustWait
    /\ active_readers' = active_readers + 1
    /\ phase' = [phase EXCEPT ![t] = "reading"]
    /\ UNCHANGED <<waiting_writers, active_writers>>

comeca_ler(t) == ReaderSleeps(t) \/ ReaderEnters(t)

(* termina_ler(): the last reader wakes the writers.                       *)
termina_lerSilent(t) ==
    /\ phase[t] = "reading"
    /\ active_readers' = active_readers - 1
    /\ Leave(t)
    /\ UNCHANGED <<waiting_writers, active_writers>>

termina_ler(t) ==
    /\ phase[t] = "reading"
    /\ active_readers' = active_readers - 1
    /\ IF active_readers = 1 THEN LeaveAndWake(t, "w_wait", "w_woken")
                             ELSE Leave(t)
    /\ UNCHANGED <<waiting_writers, active_writers>>

(* comeca_escrever() called: waiting_writers++, then the loop sleeps, or   *)
(* is not entered and the increment is undone.                             *)
WriterArrivesAndSleeps(t) ==
    /\ phase[t] = "out"
    /\ WriterMustWait
    /\ waiting_writers' = waiting_writers + 1
    /\ phase' = [phase EXCEPT ![t] = "w_wait"]
    /\ UNCHANGED <<active_readers, active_writers>>

WriterArrivesUncounted(t) ==
    /\ phase[t] = "out"
    /\ ~WriterMustWait
    /\ waiting_writers' = waiting_writers - 1
    /\ active_writers' = active_writers + 1
    /\ phase' = [phase EXCEPT ![t] = "writing"]
    /\ UNCHANGED active_readers

WriterArrivesAndEnters(t) ==
    /\ phase[t] = "out"
    /\ ~WriterMustWait
    /\ active_writers' = active_writers + 1
    /\ phase' = [phase EXCEPT ![t] = "writing"]
    /\ UNCHANGED <<active_readers, waiting_writers>>

(* The loop of comeca_escrever() after a wake-up: it was counted in        *)
(* waiting_writers when it arrived and still is.                           *)
WriterSleepsAgain(t) ==
    /\ phase[t] = "w_woken"
    /\ WriterMustWait
    /\ phase' = [phase EXCEPT ![t] = "w_wait"]
    /\ UNCHANGED counters

WriterEntersStillCounted(t) ==
    /\ phase[t] = "w_woken"
    /\ ~WriterMustWait
    /\ active_writers' = active_writers + 1
    /\ phase' = [phase EXCEPT ![t] = "writing"]
    /\ UNCHANGED <<active_readers, waiting_writers>>

WriterEnters(t) ==
    /\ phase[t] = "w_woken"
    /\ ~WriterMustWait
    /\ waiting_writers' = waiting_writers - 1
    /\ active_writers' = active_writers + 1
    /\ phase' = [phase EXCEPT ![t] = "writing"]
    /\ UNCHANGED active_readers

comeca_escrever(t) ==
    \/ WriterArrivesAndSleeps(t)
    \/ WriterArrivesAndEnters(t)
    \/ WriterSleepsAgain(t)
    \/ WriterEnters(t)

(* termina_escrever(): the writers waiting are woken, the readers only     *)
(* when there is none.                                                     *)
termina_escreverWakesWriters(t) ==
    /\ phase[t] = "writing"
    /\ active_writers' = active_writers - 1
    /\ LeaveAndWake(t, "w_wait", "w_woken")
    /\ UNCHANGED <<active_readers, waiting_writers>>

termina_escrever(t) ==
    /\ phase[t] = "writing"
    /\ active_writers' = active_writers - 1
    /\ IF waiting_writers > 0 THEN LeaveAndWake(t, "w_wait", "w_woken")
                              ELSE LeaveAndWake(t, "r_wait", "r_woken")
    /\ UNCHANGED <<active_readers, waiting_writers>>

(* POSIX lets pthread_cond_wait return with no broadcast.                  *)
SpuriousWakeup(t) ==
    /\ SpuriousWakeups
    /\ \/ /\ phase[t] = "r_wait"
          /\ phase' = [phase EXCEPT ![t] = "r_woken"]
       \/ /\ phase[t] = "w_wait"
          /\ phase' = [phase EXCEPT ![t] = "w_woken"]
    /\ UNCHANGED counters

-----------------------------------------------------------------------------
(* The lock closed: threads come as readers or writers, as often as they   *)
(* like, and leave by the matching termina_ function.                      *)

Arrives(t) == phase[t] = "out" /\ (comeca_ler(t) \/ comeca_escrever(t))

GoesOn(t) ==
    \/ phase[t] = "r_woken" /\ comeca_ler(t)
    \/ phase[t] = "w_woken" /\ comeca_escrever(t)
    \/ termina_ler(t)
    \/ termina_escrever(t)

LockNext == \E t \in Thread : Arrives(t) \/ GoesOn(t) \/ SpuriousWakeup(t)

(* A thread that has the mutex to get or a section to finish is scheduled  *)
(* eventually; none is obliged to come.                                    *)
LockFairness == \A t \in Thread : WF_lockVars(GoesOn(t))

LockSpec == LockInit /\ [][LockNext]_lockVars /\ LockFairness

-----------------------------------------------------------------------------
(* The counters never go below zero and every thread is at a known place.  *)
LockTypeOK ==
    /\ active_readers \in Nat
    /\ waiting_writers \in Nat
    /\ active_writers \in Nat
    /\ phase \in [Thread -> Phase]

(* The strengthening that makes the properties below inductive, also for   *)
(* threads that leave a section without calling its termina_ function: the *)
(* counters are then too high, never too low, and a thread asleep still    *)
(* finds the condition of its loop true.                                   *)
LockInv ==
    /\ LockTypeOK
    /\ Cardinality(Readers) <= active_readers
    /\ Cardinality(Writers) <= active_writers
    /\ waiting_writers = Cardinality(WaitingWriters)
    /\ active_writers <= 1
    /\ active_writers = 1 => active_readers = 0
    /\ \A t \in Thread : phase[t] = "r_wait" => ReaderMustWait
    /\ \A t \in Thread : phase[t] = "w_wait" => WriterMustWait

(* A writer is alone: whoever is inside with it, reader or writer, is the  *)
(* writer itself.                                                          *)
MutualExclusion ==
    \A t \in Writers : Readers = {} /\ Writers = {t}

(* The counters of table_skel.c say exactly how many threads read, write   *)
(* and wait to write, though they are updated before and after sleeping.   *)
CountersExact ==
    /\ active_readers = Cardinality(Readers)
    /\ active_writers = Cardinality(Writers)
    /\ waiting_writers = Cardinality(WaitingWriters)

(* No wake-up is lost: while a thread sleeps on a condition variable there *)
(* is another that will broadcast on it: a writer inside or ahead of a     *)
(* sleeping reader, somebody inside ahead of a sleeping writer.            *)
NoLostWakeup ==
    \A t \in Thread :
        /\ phase[t] = "r_wait" => Writers \cup WaitingWriters # {}
        /\ phase[t] = "w_wait" => Writers \cup Readers # {}

(* However many readers keep coming, a waiting writer is followed by a     *)
(* writer inside (the purpose of waiting_writers in comeca_ler).           *)
WriterProgress == waiting_writers > 0 ~> active_writers > 0

(* A reader is held back by writers only: once they stop coming, every     *)
(* waiting reader gets in (the last writer to leave wakes the readers).    *)
ReaderProgress ==
    \A t \in Thread :
        <>[](Writers \cup WaitingWriters = {})
            => (phase[t] \in {"r_wait", "r_woken"} ~> phase[t] = "reading")
=============================================================================
