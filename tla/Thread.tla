------------------------------- MODULE Thread -------------------------------
(***************************************************************************)
(* The life of one thread of src/src/thread_darwin.c: the thread itself,   *)
(* which runs a scheduler over a wait set until it is told to end, and the *)
(* clients that create, delete, detach and wait for it.  Nothing orders    *)
(* the clients' calls: while one is inside a call, others make theirs.     *)
(*                                                                         *)
(* A reference to the handle keeps the handle, not the DARWIN_THREAD       *)
(* behind it: that record is freed by whoever ends its life, a wait or the *)
(* thread.  What is read from a freed record is arbitrary, and what is     *)
(* written into it is lost.                                                *)
(***************************************************************************)
EXTENDS Naturals

CONSTANTS
  Client,  \* the threads that use the handle
  Owner    \* the one that creates it

ASSUME OwnerAssumption == Owner \in Client

VARIABLES
  record,      \* the DARWIN_THREAD: "none", "live", "freed", or freed "twice"
  handle,      \* its handle: "none", "valid" or "destroyed"
  detachstate, \* DARWIN_THREAD.detachstate
  deleteMe,    \* DARWIN_THREAD.deleteMe
  wait_set,    \* DARWIN_THREAD.wait_set is not OFC_HANDLE_NULL
  token,       \* the pipe of the wait set holds an entry
  notified,    \* hNotify has been set
  tpc,         \* where the thread is
  pc,          \* where each client is
  joiners,     \* the clients that have called pthread_join
  known        \* ofc_thread_create_impl has returned the handle

recordVars == <<record, handle, detachstate, deleteMe, wait_set>>
vars == <<recordVars, token, notified, tpc, pc, joiners, known>>

TypeOK ==
  /\ record \in {"none", "live", "freed", "twice"}
  /\ handle \in {"none", "valid", "destroyed"}
  /\ detachstate \in {"JOIN", "DETACH"}
  /\ deleteMe \in BOOLEAN /\ wait_set \in BOOLEAN
  /\ token \in BOOLEAN /\ notified \in BOOLEAN
  /\ tpc \in {"none", "check", "ask", "enter", "sleep", "notify", "exit", "destroy", "free", "ended"}
  /\ pc \in [Client -> {"idle", "create", "start", "fail", "return", "set", "mark", "wake",
                        "wait", "join", "destroy", "free", "detach", "pdetach", "done"}]
  /\ joiners \subseteq Client
  /\ known \in BOOLEAN
  /\ known => tpc # "none"

Init ==
  /\ record = "none" /\ handle = "none"
  /\ detachstate \in {"JOIN", "DETACH"}
  /\ deleteMe = FALSE /\ wait_set = FALSE
  /\ token = FALSE /\ notified = FALSE
  /\ tpc = "none"
  /\ pc = [c \in Client |-> IF c = Owner THEN "create" ELSE "idle"]
  /\ joiners = {} /\ known = FALSE

Goto(c, l) == pc' = [pc EXCEPT ![c] = l]

(* A test of the record may come out as P: a freed record reads as anything. *)
MayShow(P) == P \/ record # "live"

(* ofc_free of the record.                                                   *)
Free == record' = IF record = "live" THEN "freed" ELSE "twice"
-----------------------------------------------------------------------------
(* ofc_thread_create_impl, called by the owner: the record and its handle, ...*)
CreateRecord ==
  /\ pc[Owner] = "create"
  /\ record' = "live" /\ handle' = "valid"
  /\ Goto(Owner, "start")
  /\ UNCHANGED <<detachstate, deleteMe, wait_set, token, notified, tpc, joiners, known>>

(* Mutant: the status of pthread_create is ignored.                          *)
CreateThreadUnchecked ==
  /\ pc[Owner] = "start"
  /\ tpc' \in {"none", "check"} /\ Goto(Owner, "return")
  /\ UNCHANGED <<recordVars, token, notified, joiners, known>>

(* ... the thread, unless pthread_create fails, ...                          *)
CreateThread ==
  /\ pc[Owner] = "start"
  /\ \/ tpc' = "check" /\ Goto(Owner, "return") /\ UNCHANGED handle
     \/ handle' = "destroyed" /\ Goto(Owner, "fail") /\ UNCHANGED tpc
  /\ UNCHANGED <<record, detachstate, deleteMe, wait_set, token, notified, joiners, known>>

CreateFails ==
  /\ pc[Owner] = "fail"
  /\ Free
  /\ Goto(Owner, "done")
  /\ UNCHANGED <<handle, detachstate, deleteMe, wait_set, token, notified, tpc, joiners, known>>

(* ... and the handle, read from the record after the thread has started.    *)
CreateReturn ==
  /\ pc[Owner] = "return"
  /\ \/ known' = TRUE
     \/ record # "live" /\ known' = FALSE
  /\ Goto(Owner, "idle")
  /\ UNCHANGED <<recordVars, token, notified, tpc, joiners>>

(* A client calls an operation: ofc_handle_lock gives it the record while    *)
(* the handle is valid, and nothing otherwise.                               *)
Lock(c, l) ==
  /\ known /\ pc[c] = "idle" /\ handle = "valid"
  /\ Goto(c, l)
  /\ UNCHANGED <<recordVars, token, notified, tpc, joiners, known>>

(* ofc_thread_set_waitset_impl.                                              *)
SetWaitSet(c) == Lock(c, "set")

SetWaitSetStore(c) ==
  /\ pc[c] = "set"
  /\ wait_set' = (wait_set \/ record = "live")
  /\ Goto(c, "idle")
  /\ UNCHANGED <<record, handle, detachstate, deleteMe, token, notified, tpc, joiners, known>>

(* ofc_thread_delete_impl: lock the handle, mark the thread, ...             *)
Delete(c) == Lock(c, "mark")

DeleteMark(c) ==
  /\ pc[c] = "mark"
  /\ deleteMe' = (deleteMe \/ record = "live")
  /\ Goto(c, "wake")
  /\ UNCHANGED <<record, handle, detachstate, wait_set, token, notified, tpc, joiners, known>>

(* ... and wake its wait set, if it has one.                                 *)
DeleteWake(c) ==
  /\ pc[c] = "wake"
  /\ \/ wait_set /\ token' = TRUE
     \/ MayShow(~wait_set) /\ UNCHANGED token
  /\ Goto(c, "idle")
  /\ UNCHANGED <<recordVars, notified, tpc, joiners, known>>

(* ofc_thread_wait_impl: it has no effect on a detached thread, ...          *)
Wait(c) == Lock(c, "wait")

WaitTest(c) ==
  /\ pc[c] = "wait"
  /\ \/ MayShow(detachstate = "JOIN") /\ Goto(c, "join") /\ joiners' = joiners \cup {c}
     \/ MayShow(detachstate = "DETACH") /\ Goto(c, "idle") /\ UNCHANGED joiners
  /\ UNCHANGED <<recordVars, token, notified, tpc, known>>

(* POSIX defines pthread_join for one caller, and a thread nobody detaches;  *)
(* for more than one, or a detached thread, it may return at any time.       *)
Proper == joiners = {} \/ (detachstate = "JOIN" /\ \E c \in Client : joiners = {c})

(* Mutant: the record is freed without joining the thread.                   *)
JoinMissing(c) ==
  /\ pc[c] = "join"
  /\ Goto(c, "destroy")
  /\ UNCHANGED <<recordVars, token, notified, tpc, joiners, known>>

(* ... joins another, ...                                                    *)
Join(c) ==
  /\ pc[c] = "join" /\ (tpc = "ended" \/ ~Proper)
  /\ Goto(c, "destroy")
  /\ UNCHANGED <<recordVars, token, notified, tpc, joiners, known>>

(* Mutant: the handle is left valid.                                         *)
WaitDestroyMissing(c) ==
  /\ pc[c] = "destroy"
  /\ Goto(c, "free")
  /\ UNCHANGED <<recordVars, token, notified, tpc, joiners, known>>

(* ... and ends its handle and its record.                                   *)
WaitDestroy(c) ==
  /\ pc[c] = "destroy"
  /\ handle' = "destroyed"
  /\ Goto(c, "free")
  /\ UNCHANGED <<record, detachstate, deleteMe, wait_set, token, notified, tpc, joiners, known>>

WaitFree(c) ==
  /\ pc[c] = "free"
  /\ Free
  /\ Goto(c, "idle")
  /\ UNCHANGED <<handle, detachstate, deleteMe, wait_set, token, notified, tpc, joiners, known>>

(* ofc_thread_detach_impl: the store, ...                                    *)
Detach(c) == Lock(c, "detach")

DetachStore(c) ==
  /\ pc[c] = "detach"
  /\ detachstate' = IF record = "live" THEN "DETACH" ELSE detachstate
  /\ Goto(c, "pdetach")
  /\ UNCHANGED <<record, handle, deleteMe, wait_set, token, notified, tpc, joiners, known>>

(* ... then pthread_detach, which changes nothing here.                      *)
PthreadDetach(c) ==
  /\ pc[c] = "pdetach"
  /\ Goto(c, "idle")
  /\ UNCHANGED <<recordVars, token, notified, tpc, joiners, known>>
-----------------------------------------------------------------------------
(* Mutant: the scheduler does not look at the answer.                        *)
SchedulerAskMissing ==
  /\ tpc = "ask"
  /\ tpc' = "enter"
  /\ UNCHANGED <<recordVars, token, notified, pc, joiners, known>>

(* The thread.  Its scheduler asks ofc_thread_is_deleting_impl, which says   *)
(* no once the handle is not valid, before every wait; or it ends by itself. *)
SchedulerCheck ==
  /\ tpc = "check"
  /\ tpc' = IF handle = "valid" THEN "ask" ELSE "enter"
  /\ UNCHANGED <<recordVars, token, notified, pc, joiners, known>>

SchedulerAsk ==
  /\ tpc = "ask"
  /\ \/ MayShow(deleteMe) /\ tpc' = "notify"
     \/ MayShow(~deleteMe) /\ tpc' = "enter"
  /\ UNCHANGED <<recordVars, token, notified, pc, joiners, known>>

SchedulerReturns ==
  /\ tpc = "check"
  /\ tpc' = "notify"
  /\ UNCHANGED <<recordVars, token, notified, pc, joiners, known>>

(* ofc_waitset_wait_impl: it begins by emptying the pipe, ...                *)
WaitSetPurge ==
  /\ tpc = "enter"
  /\ tpc' = "sleep" /\ token' = FALSE
  /\ UNCHANGED <<recordVars, notified, pc, joiners, known>>

(* ... and polls, for OFC_MAX_SCHED_WAIT at most.                            *)
WaitSetWoken ==
  /\ tpc = "sleep" /\ token
  /\ tpc' = "check" /\ token' = FALSE
  /\ UNCHANGED <<recordVars, notified, pc, joiners, known>>

(* Mutant: poll without a timeout.                                           *)
WaitSetTimeoutNever == FALSE /\ UNCHANGED vars

WaitSetTimeout ==
  /\ tpc = "sleep" /\ ~token
  /\ tpc' = "check"
  /\ UNCHANGED <<recordVars, token, notified, pc, joiners, known>>

(* ofc_thread_launch after the scheduler: notify, ...                        *)
LaunchNotify ==
  /\ tpc = "notify"
  /\ tpc' = "exit"
  /\ \/ notified' = TRUE
     \/ record # "live" /\ UNCHANGED notified
  /\ UNCHANGED <<recordVars, token, pc, joiners, known>>

(* Mutant: the thread frees its record whether it is detached or not.        *)
LaunchExitAlways ==
  /\ tpc = "exit"
  /\ tpc' = "destroy"
  /\ UNCHANGED <<recordVars, token, notified, pc, joiners, known>>

(* ... and if the thread is detached at this point, its record goes.         *)
LaunchExit ==
  /\ tpc = "exit"
  /\ \/ MayShow(detachstate = "DETACH") /\ tpc' = "destroy"
     \/ MayShow(detachstate = "JOIN") /\ tpc' = "ended"
  /\ UNCHANGED <<recordVars, token, notified, pc, joiners, known>>

LaunchDestroy ==
  /\ tpc = "destroy"
  /\ tpc' = "free" /\ handle' = "destroyed"
  /\ UNCHANGED <<record, detachstate, deleteMe, wait_set, token, notified, pc, joiners, known>>

LaunchFree ==
  /\ tpc = "free"
  /\ tpc' = "ended" /\ Free
  /\ UNCHANGED <<handle, detachstate, deleteMe, wait_set, token, notified, pc, joiners, known>>
-----------------------------------------------------------------------------
Call(c) == SetWaitSet(c) \/ Delete(c) \/ Wait(c) \/ Detach(c)

Continue(c) == \/ SetWaitSetStore(c) \/ DeleteMark(c) \/ DeleteWake(c)
               \/ WaitTest(c) \/ Join(c) \/ WaitDestroy(c) \/ WaitFree(c)
               \/ DetachStore(c) \/ PthreadDetach(c)

OwnerRuns == CreateRecord \/ CreateThread \/ CreateFails \/ CreateReturn

ThreadRuns == \/ SchedulerCheck \/ SchedulerAsk
              \/ WaitSetPurge \/ WaitSetWoken \/ WaitSetTimeout
              \/ LaunchNotify \/ LaunchExit \/ LaunchDestroy \/ LaunchFree

Next == \/ \E c \in Client : Call(c) \/ Continue(c)
        \/ OwnerRuns \/ ThreadRuns \/ SchedulerReturns

Spec == Init /\ [][Next]_vars

(* A call that has begun goes on (pthread_join when the thread has ended),   *)
(* and the thread runs.  Its poll times out, because ofc_waitset_wait_impl   *)
(* passes OFC_MAX_SCHED_WAIT at most.                                        *)
Fairness == /\ \A c \in Client : WF_vars(Continue(c))
            /\ WF_vars(OwnerRuns) /\ WF_vars(ThreadRuns)

FairSpec == Spec /\ Fairness
-----------------------------------------------------------------------------
(* Whatever calls the clients make beside each other, as long as one at most *)
(* joins the thread and it is not detached then: the record of a thread that *)
(* has not ended is there, for the thread and for a set_waitset, delete or   *)
(* detach that meets it, and so is the record a wait joins and frees.  (An   *)
(* operation that has locked the handle of a thread that has ended may find  *)
(* the record freed: ofc_thread_delete_impl at 118-119 after a wait at 134.) *)
RecordOutlivesThread ==
  Proper =>
    /\ tpc \notin {"none", "ended"} => record = "live"
    /\ \A c \in Client : pc[c] \in {"start", "fail", "join", "destroy", "free"} => record = "live"
    /\ detachstate = "JOIN" /\ joiners = {} /\ pc[Owner] = "return" => record = "live"

(* Nobody obtains a freed record from the handle, whoever frees it: the      *)
(* failing create, a wait or the thread itself.                              *)
FreedHandleDestroyed == record \in {"freed", "twice"} => handle = "destroyed"

(* The record is not freed twice, though the thread may be detached while it *)
(* ends, or before a wait reads detachstate: the thread and a wait are not   *)
(* both about to free it.  (Detaching it during the join is not proper: then *)
(* both do.)                                                                 *)
FreedOnce ==
  Proper =>
    /\ record # "twice"
    /\ tpc \in {"destroy", "free"} =>
         \A c \in Client : pc[c] \notin {"fail", "join", "destroy", "free"}

(* The thread notices ofc_thread_delete_impl: the wake may come before the   *)
(* purge at the top of a wait, or before the wait set is known, and then     *)
(* the timeout of poll makes the scheduler look at deleteMe again.           *)
DeleteNoticed == (\E c \in Client : pc[c] = "mark") ~> (tpc = "ended" \/ ~Proper)

(* ofc_thread_wait_impl returns from a thread that is deleted, before the    *)
(* wait or during it, with the record freed.                                 *)
WaitReturns ==
  \A c \in Client :
    (pc[c] = "join" /\ deleteMe) ~> ((pc[c] = "idle" /\ record = "freed") \/ ~Proper)
=============================================================================
