---------------------------- MODULE Thread_proof ----------------------------
(***************************************************************************)
(* Theorems about Thread, for any number of clients.                       *)
(***************************************************************************)
EXTENDS Thread, TLAPS

USE OwnerAssumption

Creating == {"create", "start", "fail", "return", "done"}
Joining  == {"join", "destroy", "free"}

(* The handle is used by nobody before ofc_thread_create_impl returns it, ...*)
ClientsInv ==
  /\ \A c \in Client : pc[c] \in Creating => c = Owner /\ ~known
  /\ ~known => joiners = {} /\ \A c \in Client : pc[c] \in Creating \cup {"idle"}

(* ... and the creation happens in order.                                    *)
OwnerInv ==
  /\ record = "none" <=> pc[Owner] = "create"
  /\ pc[Owner] \in {"create", "start", "fail"} => tpc = "none"
  /\ tpc = "none" => pc[Owner] \in {"create", "start", "fail", "done"}
  /\ pc[Owner] \in {"start", "fail"} => record = "live"
  /\ pc[Owner] = "start" => handle = "valid"
  /\ pc[Owner] = "fail" => handle = "destroyed"

(* A client that has joined the thread destroys the handle before it returns;*)
(* only a proper join is sure to wait for the thread.                        *)
JoinInv ==
  /\ \A c \in Client : pc[c] \in Joining => c \in joiners
  /\ \A c \in joiners : pc[c] \in Joining \/ (pc[c] = "idle" /\ handle = "destroyed")
  /\ \A c \in Client : pc[c] = "free" => handle = "destroyed"
  /\ Proper => \A c \in Client : pc[c] \in {"destroy", "free"} => tpc = "ended"

(* The record goes after its handle, after the thread, and after the join if *)
(* there is one and it is proper.                                            *)
RecordInv ==
  /\ tpc = "free" \/ record \in {"freed", "twice"} => handle = "destroyed"
  /\ Proper => record # "twice"
  /\ Proper /\ tpc \notin {"none", "ended"} => record = "live"
  /\ Proper /\ tpc \in {"destroy", "free"} => detachstate = "DETACH"
  /\ Proper => \A c \in Client : pc[c] \in Joining => record = "live"
  /\ detachstate = "JOIN" /\ joiners = {} /\ pc[Owner] \notin {"create", "done"} => record = "live"

LifeInv == TypeOK /\ ClientsInv /\ OwnerInv /\ JoinInv /\ RecordInv
-----------------------------------------------------------------------------
(* A client begins a call.                                                   *)
LEMMA CallStep ==
  ASSUME LifeInv, NEW c \in Client, Call(c)
  PROVE  LifeInv'
<1> USE DEF LifeInv, TypeOK, ClientsInv, OwnerInv, JoinInv, RecordInv, Proper, Creating, Joining, Goto, recordVars
<1>1. CASE SetWaitSet(c)
  BY <1>1 DEF SetWaitSet, Lock
<1>2. CASE Delete(c)
  BY <1>2 DEF Delete, Lock
<1>3. CASE Wait(c)
  BY <1>3 DEF Wait, Lock
<1>4. CASE Detach(c)
  BY <1>4 DEF Detach, Lock
<1> QED
  BY <1>1, <1>2, <1>3, <1>4 DEF Call

(* A call goes on.                                                           *)
LEMMA ContinueStep ==
  ASSUME LifeInv, NEW c \in Client, Continue(c)
  PROVE  LifeInv'
<1> USE DEF LifeInv, TypeOK, ClientsInv, OwnerInv, JoinInv, RecordInv, Proper, Creating, Joining, Goto, recordVars
<1>1. CASE SetWaitSetStore(c)
  BY <1>1 DEF SetWaitSetStore
<1>2. CASE DeleteMark(c)
  BY <1>2 DEF DeleteMark
<1>3. CASE DeleteWake(c)
  <2>1. /\ token' \in BOOLEAN /\ pc[c] = "wake" /\ Goto(c, "idle")
        /\ UNCHANGED <<recordVars, notified, tpc, joiners, known>>
    BY <1>3 DEF DeleteWake
  <2> QED
    BY <2>1
<1>4. CASE WaitTest(c)
  BY <1>4 DEF WaitTest, MayShow
<1>5. CASE Join(c)
  BY <1>5 DEF Join
<1>6. CASE WaitDestroy(c)
  BY <1>6 DEF WaitDestroy
<1>7. CASE WaitFree(c)
  BY <1>7 DEF WaitFree, Free
<1>8. CASE DetachStore(c)
  BY <1>8 DEF DetachStore
<1>9. CASE PthreadDetach(c)
  BY <1>9 DEF PthreadDetach
<1> QED
  BY <1>1, <1>2, <1>3, <1>4, <1>5, <1>6, <1>7, <1>8, <1>9 DEF Continue

(* The creation.                                                             *)
LEMMA OwnerStep ==
  ASSUME LifeInv, OwnerRuns
  PROVE  LifeInv'
<1> USE DEF LifeInv, TypeOK, ClientsInv, OwnerInv, JoinInv, RecordInv, Proper, Creating, Joining, Goto, recordVars
<1>1. CASE CreateRecord
  BY <1>1 DEF CreateRecord
<1>2. CASE CreateThread
  BY <1>2 DEF CreateThread
<1>3. CASE CreateFails
  BY <1>3 DEF CreateFails, Free
<1>4. CASE CreateReturn
  <2>1. /\ pc[Owner] = "return" /\ Goto(Owner, "idle") /\ known' \in BOOLEAN
        /\ UNCHANGED <<recordVars, token, notified, tpc, joiners>>
    BY <1>4 DEF CreateReturn
  <2>2. /\ \A c \in Client : pc[c] \in Creating \cup {"idle"}
        /\ joiners = {} /\ tpc # "none"
    BY <2>1
  <2>3. TypeOK'
    BY <2>1, <2>2
  <2>4. ClientsInv'
    BY <2>1, <2>2
  <2>5. OwnerInv'
    BY <2>1, <2>2
  <2>6. JoinInv'
    BY <2>1, <2>2
  <2>7. RecordInv'
    BY <2>1, <2>2
  <2> QED
    BY <2>3, <2>4, <2>5, <2>6, <2>7
<1> QED
  BY <1>1, <1>2, <1>3, <1>4 DEF OwnerRuns

(* The thread itself.                                                        *)
LEMMA ThreadStep ==
  ASSUME LifeInv, ThreadRuns \/ SchedulerReturns
  PROVE  LifeInv'
<1> USE DEF LifeInv, TypeOK, ClientsInv, OwnerInv, JoinInv, RecordInv, Proper, Creating, Joining, Goto, recordVars
<1>1. CASE SchedulerCheck
  BY <1>1 DEF SchedulerCheck
<1>2. CASE SchedulerAsk
  BY <1>2 DEF SchedulerAsk, MayShow
<1>3. CASE SchedulerReturns
  BY <1>3 DEF SchedulerReturns
<1>4. CASE WaitSetPurge
  BY <1>4 DEF WaitSetPurge
<1>5. CASE WaitSetWoken
  BY <1>5 DEF WaitSetWoken
<1>6. CASE WaitSetTimeout
  BY <1>6 DEF WaitSetTimeout
<1>7. CASE LaunchNotify
  BY <1>7 DEF LaunchNotify
<1>8. CASE LaunchExit
  BY <1>8 DEF LaunchExit, MayShow
<1>9. CASE LaunchDestroy
  BY <1>9 DEF LaunchDestroy
<1>10. CASE LaunchFree
  BY <1>10 DEF LaunchFree, Free
<1> QED
  BY <1>1, <1>2, <1>3, <1>4, <1>5, <1>6, <1>7, <1>8, <1>9, <1>10 DEF ThreadRuns

(* The inductive invariant of the life of a thread.                          *)
THEOREM LifeInvariant == Spec => []LifeInv
<1>1. Init => LifeInv
  BY DEF Init, LifeInv, TypeOK, ClientsInv, OwnerInv, JoinInv, RecordInv, Proper, Creating, Joining
<1>2. LifeInv /\ [Next]_vars => LifeInv'
  <2> SUFFICES ASSUME LifeInv, [Next]_vars PROVE LifeInv'
    OBVIOUS
  <2>1. CASE UNCHANGED vars
    BY <2>1 DEF vars, recordVars, LifeInv, TypeOK, ClientsInv, OwnerInv, JoinInv, RecordInv,
                Proper, Creating, Joining
  <2> QED
    BY <2>1, CallStep, ContinueStep, OwnerStep, ThreadStep DEF Next
<1> QED
  BY <1>1, <1>2, PTL DEF Spec

(* The variables of a thread and its record have their types.                *)
THEOREM ThreadTypes == Spec => []TypeOK
BY LifeInvariant, PTL DEF LifeInv

(* Whatever calls the clients make beside each other, the record outlives    *)
(* the thread, and the wait that joins it, unless the thread is joined twice *)
(* or detached during a join.                                                *)
THEOREM RecordSafety == Spec => []RecordOutlivesThread
<1>1. LifeInv => RecordOutlivesThread
  BY DEF LifeInv, TypeOK, ClientsInv, OwnerInv, RecordInv, Creating, Joining, RecordOutlivesThread
<1> QED
  BY <1>1, LifeInvariant, PTL

(* The handle of a freed record is invalid, whoever has freed the record.    *)
THEOREM HandleDestroyedFirst == Spec => []FreedHandleDestroyed
<1>1. LifeInv => FreedHandleDestroyed
  BY DEF LifeInv, RecordInv, FreedHandleDestroyed
<1> QED
  BY <1>1, LifeInvariant, PTL

(* A record is not freed twice: the thread frees the one nobody joins, a     *)
(* wait the one it has joined, whenever the thread is detached before that.  *)
THEOREM RecordFreedOnce == Spec => []FreedOnce
<1>1. LifeInv => FreedOnce
  BY DEF LifeInv, OwnerInv, ClientsInv, JoinInv, RecordInv, Proper, Creating, Joining, FreedOnce
<1> QED
  BY <1>1, LifeInvariant, PTL
=============================================================================
