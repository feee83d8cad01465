---------------------------- MODULE Event_proof ----------------------------
(***************************************************************************)
(* Theorems about Event, for any number of threads.                        *)
(***************************************************************************)
EXTENDS Event, TLAPS

USE NoneAssumption

(* The types, mutual exclusion and the absence of sleepers on a set event    *)
(* form one inductive invariant.                                             *)
EventInv == TypeOK /\ MutualExclusion /\ NoSleepWhileSet

(* A call that only takes the mutex.                                         *)
LEMMA LockedCallInv ==
  ASSUME EventInv, NEW t \in Thread, NEW l \in {"set", "reset", "test", "check"},
         LockedCall(t, l)
  PROVE  EventInv'
<1> USE DEF EventInv, TypeOK, MutualExclusion, NoSleepWhileSet, LockedCall, Goto, Inside
<1>1. TypeOK'
  OBVIOUS
<1>2. MutualExclusion'
  OBVIOUS
<1>3. NoSleepWhileSet'
  OBVIOUS
<1> QED
  BY <1>1, <1>2, <1>3

(* Mutual exclusion by pthread_mutex, and no thread blocked while the event  *)
(* is set except those a broadcast is about to wake.                         *)
THEOREM EventInvariant == Spec => []EventInv
<1>1. Init => EventInv
  BY DEF Init, EventInv, TypeOK, MutualExclusion, NoSleepWhileSet, Inside
<1>2. EventInv /\ [Next]_vars => EventInv'
  <2> SUFFICES ASSUME EventInv, [Next]_vars PROVE EventInv'
    OBVIOUS
  <2>1. ASSUME NEW t \in Thread, Start(t) PROVE EventInv'
    <3>1. CASE SetLock(t) \/ ResetLock(t) \/ TestLock(t) \/ WaitLock(t)
      BY <3>1, LockedCallInv DEF SetLock, ResetLock, TestLock, WaitLock
    <3>2. CASE TestDead(t)
      BY <3>2 DEF TestDead, EventInv, TypeOK, MutualExclusion, NoSleepWhileSet, Inside
    <3>3. CASE Destroy(t)
      BY <3>3 DEF Destroy, EventInv, TypeOK, MutualExclusion, NoSleepWhileSet, Inside
    <3> QED
      BY <2>1, <3>1, <3>2, <3>3 DEF Start
  <2>2. ASSUME NEW t \in Thread, Continue(t) PROVE EventInv'
    <3> USE DEF EventInv, TypeOK, MutualExclusion, NoSleepWhileSet, Goto, Inside
    <3>1. CASE SetFlag(t)
      BY <3>1 DEF SetFlag
    <3>2. CASE SetBroadcast(t)
      BY <3>2 DEF SetBroadcast
    <3>3. CASE SetSignal(t)
      BY <3>3 DEF SetSignal
    <3>4. CASE ResetFlag(t)
      BY <3>4 DEF ResetFlag
    <3>5. CASE TestFlag(t)
      BY <3>5 DEF TestFlag
    <3>6. CASE WaitCheck(t)
      BY <3>6 DEF WaitCheck
    <3>7. CASE WaitRelock(t)
      BY <3>7 DEF WaitRelock
    <3>8. CASE WaitConsume(t)
      BY <3>8 DEF WaitConsume
    <3>9. CASE Unlock(t)
      BY <3>9 DEF Unlock
    <3> QED
      BY <2>2, <3>1, <3>2, <3>3, <3>4, <3>5, <3>6, <3>7, <3>8, <3>9 DEF Continue
  <2>3. ASSUME NEW t \in Thread, WaitSpurious(t) PROVE EventInv'
    BY <2>3 DEF WaitSpurious, EventInv, TypeOK, MutualExclusion, NoSleepWhileSet, Goto, Inside
  <2>4. CASE UNCHANGED vars
    BY <2>4 DEF vars, EventInv, TypeOK, MutualExclusion, NoSleepWhileSet, Inside
  <2> QED
    BY <2>1, <2>2, <2>3, <2>4 DEF Next
<1> QED
  BY <1>1, <1>2, PTL DEF Spec

(* The variables of an event have their types, for any number of threads.    *)
THEOREM EventTypes == Spec => []TypeOK
BY EventInvariant, PTL DEF EventInv

(* The mutex excludes: one thread at most is between lock and unlock, also   *)
(* when pthread_cond_wait has let the mutex go and takes it again.           *)
THEOREM EventExclusion == Spec => []MutualExclusion
BY EventInvariant, PTL DEF EventInv

(* Nobody sleeps on a set event, unless its set has still to broadcast.      *)
THEOREM EventSafety == Spec => []NoSleepWhileSet
BY EventInvariant, PTL DEF EventInv
-----------------------------------------------------------------------------
(* The state of one waiter changes: how a step looks through waiter.         *)
LEMMA WaiterExcept ==
  ASSUME NEW t \in Thread, NEW v, waiter'[t] = v,
         \A u \in Thread \ {t} : waiter'[u] = waiter[u]
  PROVE  waiter' = [waiter EXCEPT ![t] = v]
<1>1. waiter = [u \in Thread |-> waiter[u]]
  BY DEF waiter
<1>2. waiter' = [u \in Thread |-> waiter'[u]]
  BY DEF waiter
<1> QED
  BY <1>1, <1>2

(* A step that moves one thread between two places the abstraction does not  *)
(* tell apart, and leaves the flag alone, is a stuttering step.              *)
LEMMA Stutter ==
  ASSUME TypeOK, NEW t \in Thread, NEW l, Goto(t, l), UNCHANGED <<signalled, eventType>>,
         pc[t] \notin {"blocked", "broadcast"}, l \notin {"blocked", "broadcast"},
         pc[t] \in {"woken", "consume"} <=> l \in {"woken", "consume"}
  PROVE  UNCHANGED Abstract!vars
<1>1. \A u \in Thread : pc[u] = "broadcast" <=> pc'[u] = "broadcast"
  BY DEF TypeOK, Goto
<1>2. waiter' = waiter
  BY <1>1 DEF TypeOK, Goto, waiter
<1> QED
  BY <1>2 DEF Abstract!vars

(* The event implements EventSpec: setting it is one step that releases      *)
(* everybody who sleeps, though ofc_event_set_impl sets the flag and wakes   *)
(* the sleepers one after the other.                                         *)
THEOREM EventImplements == Spec => ImplementsEventSpec
<1>1. Init => Abstract!Init
  BY DEF Init, Abstract!Init, waiter
<1>2. EventInv /\ [Next]_vars => [Abstract!Next]_(Abstract!vars)
  <2> SUFFICES ASSUME EventInv, [Next]_vars PROVE Abstract!Next \/ UNCHANGED Abstract!vars
    OBVIOUS
  <2> USE DEF EventInv
  <2>1. ASSUME NEW t \in Thread, Start(t) PROVE UNCHANGED Abstract!vars
    <3>1. ASSUME NEW l \in {"set", "reset", "test", "check"}, LockedCall(t, l)
          PROVE  UNCHANGED Abstract!vars
      BY <3>1, Stutter DEF LockedCall
    <3>2. CASE TestDead(t) \/ Destroy(t)
      BY <3>2 DEF TestDead, Destroy, waiter, Abstract!vars
    <3> QED
      BY <2>1, <3>1, <3>2 DEF Start, SetLock, ResetLock, TestLock, WaitLock
  <2>2. ASSUME NEW t \in Thread, SetSignal(t) \/ TestFlag(t) \/ WaitRelock(t) \/ Unlock(t)
        PROVE  UNCHANGED Abstract!vars
    BY <2>2, Stutter DEF SetSignal, TestFlag, WaitRelock, Unlock
  <2>3. ASSUME NEW t \in Thread, SetFlag(t) PROVE Abstract!Set
    <3>1. \A u \in Thread : pc[u] # "broadcast"
      BY <2>3 DEF SetFlag, MutualExclusion, Inside
    <3>2. pc'[t] = "broadcast" /\ \A u \in Thread \ {t} : pc'[u] = pc[u]
      BY <2>3 DEF SetFlag, Goto, TypeOK
    <3>3. waiter' = [u \in Thread |-> IF waiter[u] = "asleep" THEN "released" ELSE waiter[u]]
      BY <2>3, <3>1, <3>2 DEF SetFlag, waiter
    <3> QED
      BY <2>3, <3>3 DEF SetFlag, Abstract!Set
  <2>4. ASSUME NEW t \in Thread, SetBroadcast(t) PROVE UNCHANGED Abstract!vars
    BY <2>4 DEF SetBroadcast, waiter, TypeOK, Abstract!vars
  <2>5. ASSUME NEW t \in Thread, ResetFlag(t) PROVE Abstract!Reset
    <3>1. \A u \in Thread : pc[u] = "broadcast" <=> pc'[u] = "broadcast"
      BY <2>5 DEF ResetFlag, Goto, TypeOK
    <3>2. waiter' = waiter
      BY <2>5, <3>1 DEF ResetFlag, Goto, TypeOK, waiter
    <3> QED
      BY <2>5, <3>2 DEF ResetFlag, Abstract!Reset
  <2>6. ASSUME NEW t \in Thread, WaitCheck(t) PROVE Abstract!Arrive(t)
    <3>1. \A u \in Thread : pc[u] # "broadcast" /\ pc'[u] # "broadcast"
      BY <2>6 DEF WaitCheck, MutualExclusion, Inside, Goto, TypeOK
    <3>2. /\ pc[t] = "check" /\ pc'[t] = IF signalled THEN "consume" ELSE "blocked"
          /\ \A u \in Thread \ {t} : pc'[u] = pc[u]
          /\ UNCHANGED <<signalled, eventType>>
      BY <2>6 DEF WaitCheck, Goto, TypeOK
    <3>3. waiter[t] = "none"
          /\ waiter' = [waiter EXCEPT ![t] = IF signalled THEN "released" ELSE "asleep"]
      <4>1. waiter[t] = "none" /\ waiter'[t] = IF signalled THEN "released" ELSE "asleep"
        BY <3>1, <3>2 DEF waiter
      <4>2. ASSUME NEW u \in Thread \ {t} PROVE waiter'[u] = waiter[u]
        <5>1. pc'[u] = pc[u]
          BY <3>2
        <5> QED
          BY <3>1, <5>1 DEF waiter
      <4> QED
        BY <4>1, <4>2, WaiterExcept
    <3> QED
      BY <3>2, <3>3 DEF Abstract!Arrive
  <2>7. ASSUME NEW t \in Thread, WaitSpurious(t)
        PROVE  Abstract!Spurious(t) \/ UNCHANGED Abstract!vars
    <3>1. /\ pc[t] = "blocked" /\ pc'[t] = "woken"
          /\ \A u \in Thread \ {t} : pc'[u] = pc[u]
          /\ UNCHANGED <<signalled, eventType>>
      BY <2>7 DEF WaitSpurious, Goto, TypeOK
    <3>2. CASE \A u \in Thread : pc[u] # "broadcast"
      <4>1. waiter[t] = "asleep" /\ waiter' = [waiter EXCEPT ![t] = "released"]
        <5>1. waiter[t] = "asleep" /\ waiter'[t] = "released"
          BY <3>1, <3>2 DEF waiter
        <5>2. \A u \in Thread : pc'[u] # "broadcast"
          BY <3>1, <3>2
        <5>3. ASSUME NEW u \in Thread \ {t} PROVE waiter'[u] = waiter[u]
          <6>1. pc'[u] = pc[u]
            BY <3>1
          <6> QED
            BY <3>2, <5>2, <6>1 DEF waiter
        <5> QED
          BY <5>1, <5>3, WaiterExcept
      <4> QED
        BY <3>1, <4>1 DEF Abstract!Spurious
    <3>3. CASE \E u \in Thread : pc[u] = "broadcast"
      <4>1. waiter' = waiter
        BY <3>1, <3>3 DEF waiter
      <4> QED
        BY <3>1, <4>1 DEF Abstract!vars
    <3> QED
      BY <3>2, <3>3
  <2>8. ASSUME NEW t \in Thread, WaitConsume(t) PROVE Abstract!Return(t)
    <3>1. /\ pc[t] = "consume" /\ pc'[t] = "unlock"
          /\ \A u \in Thread \ {t} : pc'[u] = pc[u]
      BY <2>8 DEF WaitConsume, Goto, TypeOK
    <3>2. \A u \in Thread : pc[u] = "broadcast" <=> pc'[u] = "broadcast"
      BY <3>1
    <3>3. waiter[t] = "released" /\ waiter' = [waiter EXCEPT ![t] = "none"]
      <4>1. waiter[t] = "released" /\ waiter'[t] = "none"
        BY <3>1, <3>2 DEF waiter
      <4>2. \A u \in Thread \ {t} : waiter'[u] = waiter[u]
        BY <3>1, <3>2 DEF waiter
      <4> QED
        BY <4>1, <4>2, WaiterExcept
    <3> QED
      BY <2>8, <3>3 DEF WaitConsume, Abstract!Return
  <2>9. CASE UNCHANGED vars
    BY <2>9 DEF vars, waiter, Abstract!vars
  <2> QED
    BY <2>1, <2>2, <2>3, <2>4, <2>5, <2>6, <2>7, <2>8, <2>9
       DEF Next, Continue, Abstract!Next
<1> QED
  BY <1>1, <1>2, EventInvariant, PTL DEF Spec, ImplementsEventSpec, Abstract!Spec
=============================================================================
