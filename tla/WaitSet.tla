------------------------------ MODULE WaitSet ------------------------------
(***************************************************************************)
(* The Darwin wait set (src/src/waitset_darwin.c) with the part of the     *)
(* events it depends on (src/src/event_darwin.c): one scheduler thread     *)
(* that repeatedly calls ofc_waitset_wait_impl, and any number of other    *)
(* threads that set and reset events, fill wait queues, add handles to the *)
(* set and wake it.                                                        *)
(*                                                                         *)
(* A wait set owns a non-blocking pipe.  Setting an associated event       *)
(* writes the event's handle into the pipe; ofc_waitset_wait_impl empties  *)
(* the pipe, tests every handle of the set, and only if none is ready      *)
(* polls the pipe, the sockets and the earliest timer.                     *)
(*                                                                         *)
(* Every handle that is backed by an event has an event of its own, so the *)
(* model names the event by the handle: signalled[h] is the state of h     *)
(* itself when h is an event, and of h's associated event otherwise.       *)
(***************************************************************************)
EXTENDS Integers, Sequences

CONSTANTS
  Thread,       \* the threads other than the one that waits
  EventH,       \* handles of type OFC_HANDLE_EVENT
  WaitQ,        \* ... OFC_HANDLE_WAIT_QUEUE
  FsDarwin,     \* ... OFC_HANDLE_FSDARWIN_OVERLAPPED
  FsSmb,        \* ... OFC_HANDLE_FSSMB_OVERLAPPED
  Timer,        \* ... OFC_HANDLE_TIMER
  Fd,           \* ... OFC_HANDLE_SOCKET and OFC_HANDLE_FILE
  AutoEvent,    \* the handles whose event was created OFC_EVENT_AUTO
  PipeCap,      \* how many handles the pipe holds
  MaxQueued,    \* bound: how many messages a wait queue holds
  MaxSchedWait, \* OFC_MAX_SCHED_WAIT, in ticks
  TimerPeriod,  \* what a timer is armed with, in ticks
  None          \* OFC_HANDLE_NULL

Evented == EventH \cup WaitQ \cup FsDarwin \cup FsSmb
Queued  == WaitQ \cup FsSmb
Handle  == Evented \cup Timer \cup Fd

(* The kinds of handle are disjoint (a handle has one type) and OFC_HANDLE_NULL *)
(* is not a handle; a pipe holds at least one entry.                            *)
ASSUME ConstantsAssumption ==
  /\ None \notin Handle \cup Thread
  /\ AutoEvent \subseteq Evented
  /\ Queued \cap (EventH \cup FsDarwin) = {} /\ EventH \cap FsDarwin = {}
  /\ WaitQ \cap FsSmb = {}
  /\ Evented \cap (Timer \cup Fd) = {} /\ Timer \cap Fd = {}
  /\ PipeCap \in Nat \ {0} /\ MaxQueued \in Nat
  /\ MaxSchedWait \in Nat \ {0} /\ TimerPeriod \in Nat

VARIABLES
  hHandleQueue, \* the handles of the set, in the order they were added
  assoc,        \* assoc[h]: h's event is associated with the wait set
  signalled,    \* signalled[h]: DARWIN_EVENT.signalled of h's event
  mutex,        \* mutex[h]: the thread that holds its pthread_mutex, or None
  queued,       \* queued[h]: the messages in h's wait queue
  left,         \* left[h]: what ofc_timer_get_wait_time returns for timer h
  fdReady,      \* the descriptors poll would report
  revents,      \* the sockets whose revents a wait has filled in
  pipe,         \* the contents of the pipe, oldest first
  pc, arg,      \* where each thread is, and the handle it works on
  wpc,          \* where the scheduler thread is
  pos,          \* ... the index of the next handle to test
  registered,   \* ... eventQueue: handles found not ready and watched by event
  polled,       \* ... the descriptors of darwin_handle_list, without the pipe
  leastWait,    \* ... what is left of the poll timeout
  timer_event,  \* ... the timer that timeout stands for
  candidate,    \* ... the eventElement PollEvent has found
  triggered     \* ... triggered_event, what the wait returns

eventVars   == <<assoc, signalled, mutex, queued>>
sourceVars  == <<left, fdReady, revents>>
threadVars  == <<pc, arg>>
scanVars    == <<pos, registered, polled, leastWait, timer_event>>
waiterVars  == <<wpc, scanVars, candidate, triggered>>
vars == <<hHandleQueue, eventVars, sourceVars, pipe, threadVars, waiterVars>>

InQueue(h) == \E i \in 1..Len(hHandleQueue) : hHandleQueue[i] = h

(* What ofc_waitset_wait_impl tests: a message in the queue of a wait queue or *)
(* an SMB overlapped, the event itself for the others.                         *)
Ready(h) == IF h \in Queued THEN queued[h] > 0 ELSE signalled[h]

TypeOK ==
  /\ hHandleQueue \in Seq(Handle)
  /\ assoc \in [Evented -> BOOLEAN]
  /\ signalled \in [Evented -> BOOLEAN]
  /\ mutex \in [Evented -> Thread \cup {None}]
  /\ queued \in [Queued -> Nat]
  /\ left \in [Timer -> Nat]
  /\ fdReady \in SUBSET Fd
  /\ revents \in SUBSET Fd
  /\ pipe \in Seq(Evented \cup {None}) /\ Len(pipe) <= PipeCap
  /\ pc \in [Thread -> {"idle", "raise", "assoc", "write", "unlock",
                        "setapp", "test", "signal"}]
  /\ arg \in [Thread -> Evented \cup {None}]
  /\ \A t \in Thread : pc[t] # "idle" => arg[t] \in Evented
  /\ wpc \in {"idle", "purge", "scan", "reset", "poll", "drain", "probe",
              "consume", "app"}
  /\ pos \in 1..(Len(hHandleQueue) + 1)
  /\ registered \in SUBSET Evented
  /\ polled \in SUBSET Fd
  /\ leastWait \in 0..MaxSchedWait
  /\ timer_event \in Timer \cup {None}
  /\ candidate \in Evented \cup {None}
  /\ wpc \in {"probe", "consume"} => candidate \in Evented
  /\ triggered \in Handle \cup {None}
  /\ wpc = "reset" => triggered \in EventH
-----------------------------------------------------------------------------
(***************************************************************************)
(* Initially the set is empty, no event is set and nobody waits.           *)
(***************************************************************************)
Init ==
  /\ hHandleQueue = <<>>
  /\ assoc = [h \in Evented |-> FALSE]
  /\ signalled = [h \in Evented |-> FALSE]
  /\ mutex = [h \in Evented |-> None]
  /\ queued = [h \in Queued |-> 0]
  /\ left = [h \in Timer |-> TimerPeriod]
  /\ fdReady = {}
  /\ revents = {}
  /\ pipe = <<>>
  /\ pc = [t \in Thread |-> "idle"]
  /\ arg = [t \in Thread |-> None]
  /\ wpc = "idle"
  /\ pos = 1
  /\ registered = {}
  /\ polled = {}
  /\ leastWait = MaxSchedWait
  /\ timer_event = None
  /\ candidate = None
  /\ triggered = None
-----------------------------------------------------------------------------
(***************************************************************************)
(* The threads that are not waiting.                                       *)
(***************************************************************************)
Begin(t, h, l) == pc[t] = "idle" /\ pc' = [pc EXCEPT ![t] = l]
                                 /\ arg' = [arg EXCEPT ![t] = h]
Goto(t, l)     == pc' = [pc EXCEPT ![t] = l] /\ UNCHANGED arg
Done(t)        == pc' = [pc EXCEPT ![t] = "idle"] /\ arg' = [arg EXCEPT ![t] = None]

(* ofc_waitset_signal_impl: the write end is non-blocking, so a write into a *)
(* full pipe fails with EAGAIN, which nobody looks at.                       *)
SignalWaitSet(token) ==
  pipe' = IF Len(pipe) < PipeCap THEN Append(pipe, token) ELSE pipe

(* ofc_waitq_enqueue, and the completion of an SMB overlapped: the message   *)
(* is in the queue before the event is set.                                  *)
Enqueue(t, h) ==
  /\ queued[h] < MaxQueued
  /\ Begin(t, h, "raise")
  /\ queued' = [queued EXCEPT ![h] = @ + 1]
  /\ UNCHANGED <<hHandleQueue, assoc, signalled, mutex, sourceVars, pipe, waiterVars>>

(* ofc_event_set_impl up to the broadcast: take the event's mutex, set it.   *)
EventSetLock(t, h) ==
  /\ \/ h \in EventH \cup FsDarwin /\ Begin(t, h, "assoc")
     \/ pc[t] = "raise" /\ arg[t] = h /\ Goto(t, "assoc")
  /\ mutex[h] = None
  /\ mutex' = [mutex EXCEPT ![h] = t]
  /\ signalled' = [signalled EXCEPT ![h] = TRUE]
  /\ UNCHANGED <<hHandleQueue, assoc, queued, sourceVars, pipe, waiterVars>>

(* Mutant: an ofc_event_set_impl that never signals the wait set.            *)
EventSetAssocNever(t) ==
  /\ pc[t] = "assoc"
  /\ Goto(t, "unlock")
  /\ UNCHANGED <<hHandleQueue, eventVars, sourceVars, pipe, waiterVars>>

(* ... then, still under the mutex, look up the wait set of the event.       *)
EventSetAssoc(t) ==
  /\ pc[t] = "assoc"
  /\ Goto(t, IF assoc[arg[t]] THEN "write" ELSE "unlock")
  /\ UNCHANGED <<hHandleQueue, eventVars, sourceVars, pipe, waiterVars>>

(* ... write the event's handle into its pipe, if there is one.              *)
EventSetWrite(t) ==
  /\ pc[t] = "write"
  /\ SignalWaitSet(arg[t])
  /\ Goto(t, "unlock")
  /\ UNCHANGED <<hHandleQueue, eventVars, sourceVars, waiterVars>>

EventSetUnlock(t) ==
  /\ pc[t] = "unlock"
  /\ mutex' = [mutex EXCEPT ![arg[t]] = None]
  /\ Done(t)
  /\ UNCHANGED <<hHandleQueue, assoc, signalled, queued, sourceVars, pipe, waiterVars>>

(* ofc_event_reset_impl; also what an ofc_event_wait of another thread does  *)
(* to an event created OFC_EVENT_AUTO.                                       *)
EventReset(t, h) ==
  /\ pc[t] = "idle" /\ mutex[h] = None
  /\ signalled' = [signalled EXCEPT ![h] = FALSE]
  /\ UNCHANGED <<hHandleQueue, assoc, mutex, queued, sourceVars, pipe, threadVars, waiterVars>>

(* ofc_waitset_set_assoc_impl: only the kinds whose event is not the handle. *)
(* It stores this set, or another set or none for a handle of no interest.   *)
SetAssoc(t, h) ==
  /\ pc[t] = "idle"
  /\ \E here \in BOOLEAN : /\ InQueue(h) => here
                          /\ assoc' = [assoc EXCEPT ![h] = here]
  /\ UNCHANGED <<hHandleQueue, signalled, mutex, queued, sourceVars, pipe, threadVars, waiterVars>>

(* A timer is armed again, whatever the scheduler thread is doing with it.   *)
Rearm(t, h) ==
  /\ pc[t] = "idle"
  /\ left' = [left EXCEPT ![h] = TimerPeriod]
  /\ UNCHANGED <<hHandleQueue, eventVars, fdReady, revents, pipe, threadVars, waiterVars>>

(* The caller of ofc_waitset_add_impl has put the handle into hHandleQueue;  *)
(* timers, sockets and files need nothing more.                              *)
Add(t, h) ==
  /\ ~InQueue(h)
  /\ IF h \in Evented THEN Begin(t, h, "setapp")
                      ELSE pc[t] = "idle" /\ UNCHANGED threadVars
  /\ hHandleQueue' = Append(hHandleQueue, h)
  /\ UNCHANGED <<eventVars, sourceVars, pipe, waiterVars>>

(* ofc_waitset_add_impl: associate the event with the set ...                *)
AddSetApp(t) ==
  /\ pc[t] = "setapp"
  /\ assoc' = [assoc EXCEPT ![arg[t]] = TRUE]
  /\ Goto(t, "test")
  /\ UNCHANGED <<hHandleQueue, signalled, mutex, queued, sourceVars, pipe, waiterVars>>

(* Mutant: an ofc_waitset_add_impl that does not test what it has added.     *)
AddTestMissing(t) ==
  /\ pc[t] = "test"
  /\ Done(t)
  /\ UNCHANGED <<hHandleQueue, eventVars, sourceVars, pipe, waiterVars>>

(* ... and only then test it: the queue of a wait queue, the event (under    *)
(* its mutex) of every other kind, an SMB overlapped included.               *)
AddTest(t) ==
  /\ pc[t] = "test"
  /\ LET h == arg[t]
         ready == IF h \in WaitQ THEN queued[h] > 0 ELSE signalled[h]
     IN  /\ h \notin WaitQ => mutex[h] = None
         /\ IF ready THEN Goto(t, "signal") ELSE Done(t)
  /\ UNCHANGED <<hHandleQueue, eventVars, sourceVars, pipe, waiterVars>>

AddSignal(t) ==
  /\ pc[t] = "signal"
  /\ SignalWaitSet(arg[t])
  /\ Done(t)
  /\ UNCHANGED <<hHandleQueue, eventVars, sourceVars, waiterVars>>

(* ofc_waitset_wake_impl.                                                    *)
Wake(t) ==
  /\ pc[t] = "idle"
  /\ SignalWaitSet(None)
  /\ UNCHANGED <<hHandleQueue, eventVars, sourceVars, threadVars, waiterVars>>
-----------------------------------------------------------------------------
(***************************************************************************)
(* ofc_waitset_wait_impl, called by the one thread that owns the set.      *)
(***************************************************************************)

(* The call returns h: eventQueue and the two handle lists are freed.        *)
Return(h) ==
  /\ wpc' = "app" /\ triggered' = h /\ candidate' = None
  /\ pos' = 1 /\ registered' = {} /\ polled' = {}
  /\ leastWait' = MaxSchedWait /\ timer_event' = None

WaitEnter ==
  /\ wpc = "idle"
  /\ wpc' = "purge"
  /\ UNCHANGED <<hHandleQueue, eventVars, sourceVars, pipe, threadVars, scanVars, candidate,
                 triggered>>

(* The pipe is read until a read fails, whatever the entries are.            *)
PurgeRead ==
  /\ wpc = "purge" /\ pipe # <<>>
  /\ pipe' = Tail(pipe)
  /\ UNCHANGED <<hHandleQueue, eventVars, sourceVars, threadVars, waiterVars>>

PurgeDone ==
  /\ wpc = "purge" /\ pipe = <<>>
  /\ wpc' = "scan"
  /\ UNCHANGED <<hHandleQueue, eventVars, sourceVars, pipe, threadVars, scanVars, candidate,
                 triggered>>

(* One turn of the loop over hHandleQueue: the handle under test, ...        *)
Scanning(h) ==
  /\ wpc = "scan" /\ triggered = None
  /\ pos <= Len(hHandleQueue) /\ h = hHandleQueue[pos]
  /\ pos' = pos + 1
  /\ UNCHANGED <<hHandleQueue, assoc, mutex, queued, sourceVars, pipe, threadVars, candidate>>

(* ... found ready, which ends the loop, ...                                 *)
Trigger(h) ==
  /\ triggered' = h
  /\ UNCHANGED <<signalled, registered, polled, leastWait, timer_event>>

(* ... or not, and then its event is watched while polling.                  *)
Register(h) ==
  /\ registered' = registered \cup {h}
  /\ UNCHANGED <<wpc, signalled, polled, leastWait, timer_event, triggered>>

(* OFC_HANDLE_EVENT: an event created OFC_EVENT_AUTO is reset by a separate  *)
(* call, after its mutex has been let go.                                    *)
ScanEvent(h) ==
  /\ h \in EventH /\ Scanning(h) /\ mutex[h] = None
  /\ IF signalled[h]
     THEN Trigger(h) /\ wpc' = IF h \in AutoEvent THEN "reset" ELSE "scan"
     ELSE Register(h)

(* Mutant: it is not reset.                                                  *)
ScanResetMissing ==
  /\ wpc = "reset" /\ mutex[triggered] = None
  /\ wpc' = "scan"
  /\ UNCHANGED <<hHandleQueue, eventVars, sourceVars, pipe, threadVars, scanVars, candidate,
                 triggered>>

ScanReset ==
  /\ wpc = "reset" /\ mutex[triggered] = None
  /\ signalled' = [signalled EXCEPT ![triggered] = FALSE]
  /\ wpc' = "scan"
  /\ UNCHANGED <<hHandleQueue, assoc, mutex, queued, sourceVars, pipe, threadVars, scanVars,
                 candidate, triggered>>

(* OFC_HANDLE_WAIT_QUEUE and OFC_HANDLE_FSSMB_OVERLAPPED.                    *)
ScanQueue(h) ==
  /\ h \in Queued /\ Scanning(h)
  /\ IF queued[h] > 0 THEN Trigger(h) /\ UNCHANGED wpc ELSE Register(h)

(* OFC_HANDLE_FSDARWIN_OVERLAPPED: the event is not reset.                   *)
ScanOverlapped(h) ==
  /\ h \in FsDarwin /\ Scanning(h) /\ mutex[h] = None
  /\ IF signalled[h] THEN Trigger(h) /\ UNCHANGED wpc ELSE Register(h)

(* Mutant: timer_event is the last unexpired timer.                          *)
ScanTimerLast(h) ==
  /\ h \in Timer /\ Scanning(h)
  /\ IF left[h] = 0
     THEN Trigger(h) /\ UNCHANGED wpc
     ELSE /\ leastWait' = (IF left[h] < leastWait THEN left[h] ELSE leastWait)
          /\ timer_event' = h
          /\ UNCHANGED <<wpc, signalled, registered, polled, triggered>>

(* OFC_HANDLE_TIMER: the earliest unexpired timer bounds the poll.           *)
ScanTimer(h) ==
  /\ h \in Timer /\ Scanning(h)
  /\ IF left[h] = 0
     THEN Trigger(h) /\ UNCHANGED wpc
     ELSE /\ IF left[h] < leastWait
             THEN leastWait' = left[h] /\ timer_event' = h
             ELSE UNCHANGED <<leastWait, timer_event>>
          /\ UNCHANGED <<wpc, signalled, registered, polled, triggered>>

(* OFC_HANDLE_SOCKET and OFC_HANDLE_FILE: appended to darwin_handle_list.    *)
ScanFd(h) ==
  /\ h \in Fd /\ Scanning(h)
  /\ polled' = polled \cup {h}
  /\ UNCHANGED <<wpc, signalled, registered, leastWait, timer_event, triggered>>

(* The loop has ended: return what it found, or poll.                        *)
ScanDone ==
  /\ wpc = "scan"
  /\ \/ triggered # None /\ Return(triggered)
     \/ /\ triggered = None /\ pos > Len(hHandleQueue)
        /\ wpc' = "poll"
        /\ UNCHANGED <<scanVars, candidate, triggered>>
  /\ UNCHANGED <<hHandleQueue, eventVars, sourceVars, pipe, threadVars>>

(* poll: the pipe is the first entry of darwin_handle_list and wins, ...     *)
PollPipe ==
  /\ wpc = "poll" /\ pipe # <<>>
  /\ wpc' = "drain"
  /\ UNCHANGED <<hHandleQueue, eventVars, sourceVars, pipe, threadVars, scanVars, candidate,
                 triggered>>

(* ... then the first descriptor reported, whose revents are stored in the   *)
(* socket.                                                                   *)
FirstReady(h) ==
  \E i \in 1..Len(hHandleQueue) :
    /\ hHandleQueue[i] = h
    /\ \A j \in 1..(i - 1) : hHandleQueue[j] \notin polled \cap fdReady

PollFd(h) ==
  /\ wpc = "poll" /\ pipe = <<>>
  /\ h \in polled \cap fdReady /\ FirstReady(h)
  /\ revents' = revents \cup {h}
  /\ Return(h)
  /\ UNCHANGED <<hHandleQueue, eventVars, left, fdReady, pipe, threadVars>>

(* Mutant: a poll that no timer bounds does not time out.                    *)
PollTimeoutTimerOnly ==
  /\ wpc = "poll" /\ pipe = <<>> /\ polled \cap fdReady = {} /\ leastWait = 0
  /\ timer_event # None
  /\ Return(timer_event)
  /\ UNCHANGED <<hHandleQueue, eventVars, sourceVars, pipe, threadVars>>

(* poll has timed out: the timer the timeout came from, if any, is returned. *)
PollTimeout ==
  /\ wpc = "poll" /\ pipe = <<>> /\ polled \cap fdReady = {} /\ leastWait = 0
  /\ Return(timer_event)
  /\ UNCHANGED <<hHandleQueue, eventVars, sourceVars, pipe, threadVars>>

(* poll has failed (EINTR): the call returns OFC_HANDLE_NULL.                *)
PollFails ==
  /\ wpc = "poll"
  /\ Return(None)
  /\ UNCHANGED <<hHandleQueue, eventVars, sourceVars, pipe, threadVars>>
-----------------------------------------------------------------------------
(***************************************************************************)
(* PollEvent: read the pipe until an entry ends the wait or none is left.  *)
(***************************************************************************)
(* Mutant: a wake entry is taken for an event.                               *)
DrainReadWake ==
  /\ wpc = "drain"
  /\ \/ pipe = <<>> /\ Return(None) /\ UNCHANGED pipe
     \/ /\ pipe # <<>> /\ pipe' = Tail(pipe)
        /\ wpc' = "probe" /\ candidate' = Head(pipe)
        /\ UNCHANGED <<scanVars, triggered>>
  /\ UNCHANGED <<hHandleQueue, eventVars, sourceVars, threadVars>>

(* A wake entry, and an empty pipe, end it with nothing triggered; entries   *)
(* of events that this call does not watch are dropped.                      *)
DrainRead ==
  /\ wpc = "drain"
  /\ \/ pipe = <<>> /\ Return(None) /\ UNCHANGED pipe
     \/ /\ pipe # <<>> /\ pipe' = Tail(pipe)
        /\ \/ Head(pipe) = None /\ Return(None)
           \/ /\ Head(pipe) \in registered
              /\ wpc' = "probe" /\ candidate' = Head(pipe)
              /\ UNCHANGED <<scanVars, triggered>>
           \/ /\ Head(pipe) \notin registered \cup {None}
              /\ UNCHANGED waiterVars
  /\ UNCHANGED <<hHandleQueue, eventVars, sourceVars, threadVars>>

(* Mutant: an entry of the pipe is taken for a set event.                    *)
DrainTestMissing ==
  /\ wpc = "probe" /\ mutex[candidate] = None
  /\ IF candidate \in AutoEvent
     THEN wpc' = "consume" /\ UNCHANGED <<scanVars, candidate, triggered>>
     ELSE Return(candidate)
  /\ UNCHANGED <<hHandleQueue, eventVars, sourceVars, pipe, threadVars>>

(* A watched event may have been reset since its handle was written.         *)
DrainTest ==
  /\ wpc = "probe" /\ mutex[candidate] = None
  /\ \/ /\ ~signalled[candidate]
        /\ wpc' = "drain" /\ candidate' = None /\ UNCHANGED <<scanVars, triggered>>
     \/ /\ signalled[candidate] /\ candidate \in AutoEvent
        /\ wpc' = "consume" /\ UNCHANGED <<scanVars, candidate, triggered>>
     \/ /\ signalled[candidate] /\ candidate \notin AutoEvent
        /\ Return(candidate)
  /\ UNCHANGED <<hHandleQueue, eventVars, sourceVars, pipe, threadVars>>

DrainConsume ==
  /\ wpc = "consume" /\ mutex[candidate] = None
  /\ signalled' = [signalled EXCEPT ![candidate] = FALSE]
  /\ Return(candidate)
  /\ UNCHANGED <<hHandleQueue, assoc, mutex, queued, sourceVars, pipe, threadVars>>
-----------------------------------------------------------------------------
(***************************************************************************)
(* What surrounds the wait set.                                            *)
(***************************************************************************)
(* The application the handle belongs to runs: it takes one or more messages *)
(* of a queue, re-arms a timer, reads a socket, resets an event that is not  *)
(* reset for it, and the scheduler waits again.                              *)
Application ==
  /\ wpc = "app"
  /\ wpc' = "idle" /\ triggered' = None
  /\ IF triggered \in Queued /\ queued[triggered] > 0
     THEN \E n \in 1..queued[triggered] : queued' = [queued EXCEPT ![triggered] = @ - n]
     ELSE UNCHANGED queued
  /\ left' = [h \in Timer |-> IF h = triggered THEN TimerPeriod ELSE left[h]]
  /\ fdReady' = fdReady \ {triggered}
  /\ IF triggered \in FsDarwin \cup (EventH \ AutoEvent)
     THEN mutex[triggered] = None /\ signalled' = [signalled EXCEPT ![triggered] = FALSE]
     ELSE UNCHANGED signalled
  /\ UNCHANGED <<hHandleQueue, assoc, mutex, revents, pipe, threadVars, scanVars, candidate>>

FdBecomesReady(h) ==
  /\ fdReady' = fdReady \cup {h}
  /\ UNCHANGED <<hHandleQueue, eventVars, left, revents, pipe, threadVars, waiterVars>>

(* A tick of the clock: the timers run, and so does the timeout of a poll.   *)
Tick ==
  /\ \/ \E h \in Timer : left[h] > 0
     \/ wpc = "poll" /\ leastWait > 0
  /\ left' = [h \in Timer |-> IF left[h] > 0 THEN left[h] - 1 ELSE 0]
  /\ leastWait' = IF wpc = "poll" /\ leastWait > 0 THEN leastWait - 1 ELSE leastWait
  /\ UNCHANGED <<hHandleQueue, eventVars, fdReady, revents, pipe, threadVars, wpc, pos,
                 registered, polled, timer_event, candidate, triggered>>
-----------------------------------------------------------------------------
(* The operations a thread may start, and the steps that continue one.       *)
Start(t) ==
  \/ \E h \in Queued : Enqueue(t, h)
  \/ \E h \in EventH \cup FsDarwin : EventSetLock(t, h) \/ EventReset(t, h)
  \/ \E h \in Evented \ EventH : SetAssoc(t, h)
  \/ \E h \in Handle : Add(t, h)
  \/ \E h \in Timer : Rearm(t, h)
  \/ Wake(t)

Continue(t) ==
  \/ \E h \in Queued : EventSetLock(t, h)
  \/ EventSetAssoc(t) \/ EventSetWrite(t) \/ EventSetUnlock(t)
  \/ AddSetApp(t) \/ AddTest(t) \/ AddSignal(t)

Scan == \/ \E h \in Handle : ScanEvent(h) \/ ScanQueue(h) \/ ScanOverlapped(h)
                             \/ ScanTimer(h) \/ ScanFd(h)
        \/ ScanReset \/ ScanDone

(* The steps of the scheduler thread that wait for nothing but a mutex.      *)
WaiterRuns == \/ WaitEnter \/ PurgeRead \/ PurgeDone \/ Scan \/ PollPipe
              \/ (\E h \in Fd : PollFd(h))
              \/ DrainRead \/ DrainTest \/ DrainConsume \/ Application

Environment == PollTimeout \/ PollFails \/ Tick \/ (\E h \in Fd : FdBecomesReady(h))

Next == (\E t \in Thread : Start(t) \/ Continue(t)) \/ WaiterRuns \/ Environment

Spec == Init /\ [][Next]_vars

(* Every thread that is inside an operation, and the scheduler thread, keep  *)
(* running; nothing is assumed of time, of signals, or of whether another    *)
(* operation is ever started.                                                *)
Fairness == WF_vars(WaiterRuns) /\ \A t \in Thread : WF_vars(Continue(t))

FairSpec == Spec /\ Fairness

(* Time passes as well, and a poll whose time is over returns.               *)
TimedSpec == FairSpec /\ WF_vars(Tick) /\ WF_vars(PollTimeout)
-----------------------------------------------------------------------------
(***************************************************************************)
(* Properties.                                                             *)
(***************************************************************************)
(* Thread t has still to write into the pipe on behalf of h, or to test h    *)
(* after associating it.                                                     *)
Coming(h) ==
  \E t \in Thread : arg[t] = h /\ pc[t] \in {"raise", "assoc", "write",
                                             "setapp", "test", "signal"}

Asleep == wpc = "poll" /\ pipe = <<>>

(* No lost wakeup: while the scheduler thread sleeps in poll with an empty   *)
(* pipe, every event-backed handle of the set that is ready is one whose     *)
(* wakeup some thread is still about to deliver.  It relates the purge at    *)
(* the top of ofc_waitset_wait_impl, the order of the two steps of           *)
(* ofc_waitset_add_impl and of ofc_event_set_impl, entries dropped by a full *)
(* pipe, and entries PollEvent discards.                                     *)
NoLostWakeup == Asleep => \A h \in Evented : InQueue(h) /\ Ready(h) => Coming(h)

(* Why NoLostWakeup holds, as an inductive invariant.                        *)
Covered(h) == \E i \in 1..Len(hHandleQueue) : i < pos /\ hHandleQueue[i] = h

(* The scheduler thread counts on being woken for h: it has found h not      *)
(* ready in this call, or h was added after the loop over the handles.       *)
Relied(h) == \/ wpc = "scan" /\ triggered = None /\ Covered(h)
             \/ wpc = "poll" /\ InQueue(h)

(* Thread t is at step l of an operation on h for some t.                    *)
At(h, l) == \E t \in Thread : pc[t] = l /\ arg[t] = h

(* An event of the set is associated with it, or about to be.                *)
Associated == \A h \in Evented : InQueue(h) => assoc[h] \/ At(h, "setapp")

(* A call watches, and finds in the pipe, only events of the set; it starts  *)
(* with the first handle.                                                    *)
Watched ==
  /\ \A h \in registered : InQueue(h)
  /\ wpc \in {"probe", "consume"} => InQueue(candidate)
  /\ wpc \in {"idle", "purge", "app"} => pos = 1

(* A message that a watched or not yet added SMB overlapped has received has *)
(* set its event or is about to: nobody has consumed the event without       *)
(* looking at the queue afterwards.                                          *)
SmbEventSet ==
  \A h \in FsSmb : (Relied(h) \/ ~InQueue(h)) /\ queued[h] > 0
                    => signalled[h] \/ At(h, "raise")

(* A handle relied upon that is ready has an entry in the pipe to end the    *)
(* sleep, or a thread that will write one.                                   *)
Noticed == \A h \in Evented : Relied(h) /\ Ready(h) => pipe # <<>> \/ Coming(h)

WakeInv == Associated /\ Watched /\ SmbEventSet /\ Noticed

(* Nothing but timers is left to end a wait.                                 *)
Calm == pipe = <<>> /\ fdReady = {} /\ \A t \in Thread : pc[t] = "idle"

(* A timer is served, though nobody writes into the pipe for a timer that is *)
(* added, or armed again, while poll sleeps for a time computed without it:  *)
(* once everything else is quiet, and no other thread arms it any more, a    *)
(* timer of the set is returned, and re-armed, for ever.                     *)
TimerServed ==
  \A h \in Timer :
    <>[](Calm /\ InQueue(h)) /\ <>[][\A t \in Thread : ~Rearm(t, h)]_vars
      => []<>(wpc = "app" /\ triggered = h)

(* The scheduler thread does not sleep on: a handle of the set that is ready *)
(* while it sleeps ends the sleep, or is reset, without the help of the poll *)
(* timeout, which no fairness makes pass.                                    *)
SleepEnds ==
  \A h \in Evented : (Asleep /\ InQueue(h) /\ Ready(h)) ~> (~Asleep \/ ~Ready(h))
=============================================================================
