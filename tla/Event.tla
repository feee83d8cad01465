------------------------------- MODULE Event -------------------------------
(***************************************************************************)
(* One event of src/src/event_darwin.c and the threads that set, reset,    *)
(* test and wait for it: a flag, a mutex and a condition variable.  The    *)
(* wait set the event may belong to appears only as the write into its     *)
(* pipe that ofc_event_set_impl makes while it holds the mutex (WaitSet    *)
(* models what becomes of it).                                             *)
(***************************************************************************)
EXTENDS Naturals

CONSTANTS
  Thread,  \* the threads that use the event
  None     \* no thread

ASSUME NoneAssumption == None \notin Thread

VARIABLES
  alive,     \* the handle is valid
  eventType, \* DARWIN_EVENT.eventType
  signalled, \* DARWIN_EVENT.signalled
  mutex,     \* the thread that holds DARWIN_EVENT.pthread_mutex, or None
  pc,        \* where each thread is
  ret        \* what each thread's last ofc_event_test_impl returned

vars == <<alive, eventType, signalled, mutex, pc, ret>>

TypeOK ==
  /\ alive \in BOOLEAN
  /\ eventType \in {"AUTO", "MANUAL"}
  /\ signalled \in BOOLEAN
  /\ mutex \in Thread \cup {None}
  /\ pc \in [Thread -> {"idle", "set", "broadcast", "signal", "reset", "test",
                        "check", "blocked", "woken", "consume", "unlock"}]
  /\ ret \in [Thread -> BOOLEAN]
  /\ ~alive => mutex = None /\ \A t \in Thread : pc[t] = "idle"

(* ofc_event_create_impl.                                                    *)
Init ==
  /\ alive = TRUE
  /\ eventType \in {"AUTO", "MANUAL"}
  /\ signalled = FALSE
  /\ mutex = None
  /\ pc = [t \in Thread |-> "idle"]
  /\ ret = [t \in Thread |-> FALSE]
-----------------------------------------------------------------------------
Goto(t, l) == pc' = [pc EXCEPT ![t] = l]

(* Mutant: a call that does not take the mutex.                              *)
LockedCallNoMutex(t, l) ==
  /\ alive /\ pc[t] = "idle"
  /\ mutex' = t
  /\ Goto(t, l)
  /\ UNCHANGED <<alive, eventType, signalled, ret>>

(* Every operation locks the handle and then the mutex, ...                  *)
LockedCall(t, l) ==
  /\ alive /\ pc[t] = "idle"
  /\ mutex = None /\ mutex' = t
  /\ Goto(t, l)
  /\ UNCHANGED <<alive, eventType, signalled, ret>>

(* Mutant: a return that does not let the mutex go.                          *)
UnlockMissing(t) ==
  /\ pc[t] = "unlock"
  /\ Goto(t, "idle")
  /\ UNCHANGED <<alive, eventType, signalled, mutex, ret>>

(* ... and ends by letting the mutex go.                                     *)
Unlock(t) ==
  /\ pc[t] = "unlock"
  /\ mutex' = None
  /\ Goto(t, "idle")
  /\ UNCHANGED <<alive, eventType, signalled, ret>>

(* ofc_event_set_impl: the flag, ...                                         *)
SetLock(t) == LockedCall(t, "set")

SetFlag(t) ==
  /\ pc[t] = "set"
  /\ signalled' = TRUE
  /\ Goto(t, "broadcast")
  /\ UNCHANGED <<alive, eventType, mutex, ret>>

(* Mutant: pthread_cond_signal for pthread_cond_broadcast.                   *)
SetBroadcastOne(t) ==
  /\ pc[t] = "broadcast"
  /\ \/ \E u \in Thread : pc[u] = "blocked" /\ pc' = [pc EXCEPT ![t] = "signal", ![u] = "woken"]
     \/ (\A u \in Thread : pc[u] # "blocked") /\ Goto(t, "signal")
  /\ UNCHANGED <<alive, eventType, signalled, mutex, ret>>

(* ... everybody who waits for it, ...                                       *)
SetBroadcast(t) ==
  /\ pc[t] = "broadcast"
  /\ pc' = [u \in Thread |-> IF u = t THEN "signal"
                             ELSE IF pc[u] = "blocked" THEN "woken" ELSE pc[u]]
  /\ UNCHANGED <<alive, eventType, signalled, mutex, ret>>

(* ... the wait set, with a write that never blocks.                         *)
SetSignal(t) ==
  /\ pc[t] = "signal"
  /\ Goto(t, "unlock")
  /\ UNCHANGED <<alive, eventType, signalled, mutex, ret>>

(* ofc_event_reset_impl.                                                     *)
ResetLock(t) == LockedCall(t, "reset")

ResetFlag(t) ==
  /\ pc[t] = "reset"
  /\ signalled' = FALSE
  /\ Goto(t, "unlock")
  /\ UNCHANGED <<alive, eventType, mutex, ret>>

(* ofc_event_test_impl: TRUE for a handle that is not valid any more.        *)
TestLock(t) == LockedCall(t, "test")

TestFlag(t) ==
  /\ pc[t] = "test"
  /\ ret' = [ret EXCEPT ![t] = signalled]
  /\ Goto(t, "unlock")
  /\ UNCHANGED <<alive, eventType, signalled, mutex>>

TestDead(t) ==
  /\ ~alive /\ pc[t] = "idle"
  /\ ret' = [ret EXCEPT ![t] = TRUE]
  /\ UNCHANGED <<alive, eventType, signalled, mutex, pc>>

(* ofc_event_wait_impl: pthread_cond_wait lets the mutex go and sleeps in    *)
(* one step.                                                                 *)
WaitLock(t) == LockedCall(t, "check")

(* Mutant: it sleeps without testing the flag.                               *)
WaitCheckMissing(t) ==
  /\ pc[t] = "check"
  /\ Goto(t, "blocked") /\ mutex' = None
  /\ UNCHANGED <<alive, eventType, signalled, ret>>

WaitCheck(t) ==
  /\ pc[t] = "check"
  /\ IF signalled THEN Goto(t, "consume") /\ UNCHANGED mutex
                  ELSE Goto(t, "blocked") /\ mutex' = None
  /\ UNCHANGED <<alive, eventType, signalled, ret>>

(* It may return without a broadcast; ofc_event_wait_impl does not look at   *)
(* the flag again.                                                           *)
WaitSpurious(t) ==
  /\ pc[t] = "blocked"
  /\ Goto(t, "woken")
  /\ UNCHANGED <<alive, eventType, signalled, mutex, ret>>

WaitRelock(t) ==
  /\ pc[t] = "woken"
  /\ mutex = None /\ mutex' = t
  /\ Goto(t, "consume")
  /\ UNCHANGED <<alive, eventType, signalled, ret>>

WaitConsume(t) ==
  /\ pc[t] = "consume"
  /\ signalled' = (signalled /\ eventType # "AUTO")
  /\ Goto(t, "unlock")
  /\ UNCHANGED <<alive, eventType, mutex, ret>>

(* ofc_event_destroy_impl, by the last user of the event: destroying a mutex *)
(* that is held or a condition somebody waits for is undefined.              *)
Destroy(t) ==
  /\ alive /\ \A u \in Thread : pc[u] = "idle"
  /\ alive' = FALSE
  /\ UNCHANGED <<eventType, signalled, mutex, pc, ret>>
-----------------------------------------------------------------------------
Start(t) == \/ SetLock(t) \/ ResetLock(t) \/ TestLock(t) \/ TestDead(t) \/ WaitLock(t)
            \/ Destroy(t)

Continue(t) == \/ SetFlag(t) \/ SetBroadcast(t) \/ SetSignal(t)
               \/ ResetFlag(t) \/ TestFlag(t)
               \/ WaitCheck(t) \/ WaitRelock(t) \/ WaitConsume(t)
               \/ Unlock(t)

Next == \E t \in Thread : Start(t) \/ Continue(t) \/ WaitSpurious(t)

Spec == Init /\ [][Next]_vars

(* A thread inside an operation keeps running unless it waits for the mutex. *)
Fairness == \A t \in Thread : WF_vars(Continue(t))

FairSpec == Spec /\ Fairness
-----------------------------------------------------------------------------
(* The holder of the mutex is the one thread inside a critical section.      *)
Inside(t) == pc[t] \in {"set", "broadcast", "signal", "reset", "test", "check",
                        "consume", "unlock"}

MutualExclusion == \A t \in Thread : Inside(t) <=> mutex = t

(* Nobody sleeps through a set: while the event is set, the only threads     *)
(* blocked in ofc_event_wait_impl are those the broadcast in progress is     *)
(* about to wake.                                                            *)
NoSleepWhileSet ==
  signalled => \A t \in Thread : pc[t] = "blocked" =>
                 mutex # None /\ pc[mutex] = "broadcast"

(* Whoever sleeps when the event is set returns from ofc_event_wait_impl,    *)
(* though the flag may be reset, or consumed by others, before it runs again *)
(* (it does not test the flag again); only threads that take the mutex again *)
(* and again can keep it from returning: the mutex is not assumed fair.      *)
SleeperReturns ==
  \A t \in Thread :
    \/ (signalled /\ pc[t] = "blocked") ~> pc[t] = "idle"
    \/ []<>(\E u \in Thread \ {t} : Inside(u))

(* No thread keeps the mutex, though ofc_event_set_impl writes into the pipe *)
(* of the wait set while it holds it.                                        *)
MutexReleased == mutex # None ~> mutex = None

(* The event implements EventSpec: set is one step that releases everybody.  *)
waiter == [t \in Thread |->
             IF pc[t] = "blocked" /\ (\A u \in Thread : pc[u] # "broadcast") THEN "asleep"
             ELSE IF pc[t] \in {"blocked", "woken", "consume"} THEN "released"
             ELSE "none"]

Abstract == INSTANCE EventSpec WITH type <- eventType, set <- signalled

ImplementsEventSpec == Abstract!Spec
=============================================================================
