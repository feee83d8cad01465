------------------------ MODULE WaitSetHistory_proof ------------------------
(***************************************************************************)
(* Theorems about what ofc_waitset_wait_impl reports, for any number of    *)
(* threads, any handles, any size of the pipe and any bound on the queues. *)
(***************************************************************************)
EXTENDS WaitSetHistory, WaitSet_proof

USE ConstantsAssumption DEF Evented, Queued, Handle

(* Every behaviour of HSpec is one of Spec: what is proved of the wait set   *)
(* holds next to the history variables.                                      *)
LEMMA HistoryOnly == HSpec => Spec
<1>1. HInit => Init
  BY DEF HInit
<1>2. [HNext]_hvars => [Next]_vars
  BY DEF HNext, hvars
<1> QED
  BY <1>1, <1>2, PTL DEF HSpec, Spec
-----------------------------------------------------------------------------
(***************************************************************************)
(* What a step may do to the events and to the wait.                       *)
(***************************************************************************)
(* An event is set by nobody but ofc_event_set_impl.                         *)
OnlySet == \A h \in Evented : signalled'[h] => signalled[h] \/ Set(h)

(* A call begins with nothing triggered and leaves the events alone; what it *)
(* triggers is ready then, or was when PollEvent tested it.                  *)
Triggers ==
  /\ Entering => UNCHANGED <<triggered, signalled, queued>>
  /\ wpc' = "idle" => triggered' = None \/ UNCHANGED <<wpc, triggered>>
  /\ triggered' \in Evented => \/ triggered' \in ReadyNow \cup {triggered}
                               \/ wpc = "consume" /\ triggered' = candidate

(* The two places that reset an automatic event: each is reached with the    *)
(* event set, and left with the event reset.                                 *)
Consumes ==
  /\ wpc' = "consume" => /\ UNCHANGED candidate
                         /\ \/ wpc = "consume"
                            \/ wpc = "probe" /\ candidate \in Evented /\ signalled[candidate]
  /\ wpc = "reset" => UNCHANGED <<wpc, triggered>> \/ ~signalled'[triggered]
  /\ wpc = "consume" => UNCHANGED <<wpc, candidate>> \/ ~signalled'[candidate]
  /\ wpc = "scan" /\ triggered = None /\ triggered' \in AutoEvent \cap EventH =>
       signalled[triggered'] /\ wpc' = "reset"

Shape == OnlySet /\ Triggers /\ Consumes

(* The steps of the other threads and of the environment.                    *)
LEMMA FrameShape ==
  ASSUME TypeOK, OnlySet, UNCHANGED <<wpc, candidate, triggered>>
  PROVE  Shape
BY DEF Shape, Triggers, Consumes, Entering, TypeOK

(* A step of the scheduler thread to another place of the call.              *)
LEMMA MoveShape ==
  ASSUME TypeOK, UNCHANGED <<signalled, queued, triggered>>,
         wpc \notin {"reset", "consume"}, wpc' \notin {"idle", "consume"}
  PROVE  Shape
BY DEF Shape, OnlySet, Triggers, Consumes, TypeOK

(* The end of a call that returns h.                                         *)
LEMMA ReturnShape ==
  ASSUME TypeOK, NEW h, Return(h), UNCHANGED signalled, wpc \notin {"reset", "consume"},
         h \in Evented => h = triggered \/ (wpc # "scan" /\ h \in ReadyNow)
  PROVE  Shape
<1>1. wpc' = "app" /\ triggered' = h
  BY DEF Return
<1>2. OnlySet
  BY DEF OnlySet
<1>3. Triggers
  BY <1>1 DEF Triggers, Entering
<1>4. Consumes
  BY <1>1 DEF Consumes
<1> QED
  BY <1>2, <1>3, <1>4 DEF Shape

(* Other threads.                                                            *)
LEMMA ThreadShape ==
  ASSUME TypeOK, NEW t \in Thread, Start(t) \/ Continue(t)
  PROVE  Shape
<1>1. UNCHANGED waiterVars
  BY DEF Start, Continue, Enqueue, EventSetLock, EventReset, SetAssoc, Add, Rearm, Wake,
         EventSetAssoc, EventSetWrite, EventSetUnlock, AddSetApp, AddTest, AddSignal
<1>2. \/ UNCHANGED signalled
      \/ \E x \in Evented : EventSetLock(t, x)
      \/ \E x \in Evented : signalled' = [signalled EXCEPT ![x] = FALSE]
  BY DEF Start, Continue, Enqueue, EventReset, SetAssoc, Add, Rearm, Wake, EventSetAssoc,
         EventSetWrite, EventSetUnlock, AddSetApp, AddTest, AddSignal, eventVars
<1>3. OnlySet
  <2>1. CASE UNCHANGED signalled
    BY <2>1 DEF OnlySet
  <2>2. ASSUME NEW x \in Evented, EventSetLock(t, x) PROVE OnlySet
    <3>1. mutex[x] = None /\ mutex'[x] = t /\ t # None
      BY <2>2 DEF EventSetLock, TypeOK
    <3>2. \A h \in Evented \ {x} : signalled'[h] = signalled[h]
      BY <2>2 DEF EventSetLock, TypeOK
    <3> QED
      BY <3>1, <3>2 DEF OnlySet, Set
  <2>3. ASSUME NEW x \in Evented, signalled' = [signalled EXCEPT ![x] = FALSE] PROVE OnlySet
    BY <2>3 DEF OnlySet, TypeOK
  <2> QED
    BY <1>2, <2>1, <2>2, <2>3
<1> QED
  BY <1>1, <1>3, FrameShape DEF waiterVars

(* The scheduler thread.                                                     *)
LEMMA WaiterShape ==
  ASSUME TypeOK, WaiterRuns \/ PollTimeout \/ PollFails
  PROVE  Shape
<1>1. CASE WaitEnter \/ PurgeDone \/ PollPipe
  BY <1>1, MoveShape DEF WaitEnter, PurgeDone, PollPipe, eventVars
<1>2. CASE PurgeRead
  BY <1>2, MoveShape DEF PurgeRead, eventVars, waiterVars
<1>3. ASSUME NEW h \in Handle, ScanEvent(h) \/ ScanQueue(h) \/ ScanOverlapped(h) \/ ScanTimer(h)
                               \/ ScanFd(h)
      PROVE  Shape
  <2>1. /\ wpc = "scan" /\ triggered = None /\ UNCHANGED <<signalled, candidate>>
        /\ wpc' \in {"scan", "reset"}
    BY <1>3 DEF ScanEvent, ScanQueue, ScanOverlapped, ScanTimer, ScanFd, Scanning, Trigger,
                Register
  <2>2. \/ UNCHANGED triggered
        \/ triggered' = h /\ (h \in Evented => Ready(h))
    BY <1>3 DEF ScanEvent, ScanQueue, ScanOverlapped, ScanTimer, ScanFd, Trigger, Register,
                Ready
  <2>3. triggered' \in AutoEvent \cap EventH => signalled[triggered'] /\ wpc' = "reset"
    BY <1>3, <2>1 DEF ScanEvent, ScanQueue, ScanOverlapped, ScanTimer, ScanFd, Trigger, Register
  <2>4. OnlySet /\ Consumes
    BY <2>1, <2>3 DEF OnlySet, Consumes
  <2>5. Triggers
    BY <2>1, <2>2 DEF Triggers, Entering, ReadyNow
  <2> QED
    BY <2>4, <2>5 DEF Shape
<1>4. CASE ScanReset
  <2>1. /\ wpc = "reset" /\ wpc' = "scan" /\ triggered \in EventH /\ UNCHANGED triggered
        /\ signalled' = [signalled EXCEPT ![triggered] = FALSE]
    BY <1>4 DEF ScanReset, TypeOK
  <2>2. OnlySet /\ ~signalled'[triggered]
    BY <2>1 DEF OnlySet, TypeOK
  <2> QED
    BY <2>1, <2>2 DEF Shape, Triggers, Consumes, Entering
<1>5. CASE ScanDone
  <2>1. CASE Return(triggered)
    BY <1>5, <2>1, ReturnShape DEF ScanDone, eventVars
  <2>2. CASE wpc' = "poll" /\ UNCHANGED <<scanVars, candidate, triggered>>
    BY <1>5, <2>2, MoveShape DEF ScanDone, eventVars
  <2> QED
    BY <1>5, <2>1, <2>2 DEF ScanDone
<1>6. ASSUME NEW h \in Fd, PollFd(h) PROVE Shape
  BY <1>6, ReturnShape DEF PollFd, eventVars
<1>7. CASE PollTimeout
  BY <1>7, ReturnShape DEF PollTimeout, eventVars, TypeOK
<1>8. CASE PollFails
  BY <1>8, ReturnShape DEF PollFails, eventVars
<1>9. CASE DrainRead
  <2>1. CASE Return(None)
    BY <1>9, <2>1, ReturnShape DEF DrainRead, eventVars
  <2>2. CASE wpc' \in {"drain", "probe"} /\ UNCHANGED triggered
    BY <1>9, <2>2, MoveShape DEF DrainRead, eventVars
  <2> QED
    BY <1>9, <2>1, <2>2 DEF DrainRead, waiterVars
<1>10. CASE DrainTest
  <2>1. candidate \in Evented /\ wpc = "probe" /\ UNCHANGED <<signalled, queued>>
    BY <1>10 DEF DrainTest, eventVars, TypeOK
  <2>2. CASE signalled[candidate] /\ Return(candidate)
    BY <2>1, <2>2, ReturnShape DEF ReadyNow
  <2>3. CASE wpc' = "drain" /\ UNCHANGED triggered
    BY <2>1, <2>3, MoveShape
  <2>4. CASE signalled[candidate] /\ wpc' = "consume" /\ UNCHANGED <<candidate, triggered>>
    BY <2>1, <2>4 DEF Shape, OnlySet, Triggers, Consumes, Entering
  <2> QED
    BY <1>10, <2>2, <2>3, <2>4 DEF DrainTest
<1>11. CASE DrainConsume
  <2>1. /\ wpc = "consume" /\ wpc' = "app" /\ triggered' = candidate /\ candidate \in Evented
        /\ signalled' = [signalled EXCEPT ![candidate] = FALSE]
    BY <1>11 DEF DrainConsume, Return, TypeOK
  <2>2. OnlySet /\ ~signalled'[candidate]
    BY <2>1 DEF OnlySet, TypeOK
  <2> QED
    BY <2>1, <2>2 DEF Shape, Triggers, Consumes, Entering
<1>12. CASE Application
  <2>1. wpc = "app" /\ wpc' = "idle" /\ triggered' = None
    BY <1>12 DEF Application
  <2>2. \/ UNCHANGED signalled
        \/ triggered \in Evented /\ signalled' = [signalled EXCEPT ![triggered] = FALSE]
    BY <1>12 DEF Application
  <2>3. OnlySet
    BY <2>2 DEF OnlySet, TypeOK
  <2> QED
    BY <2>1, <2>3 DEF Shape, Triggers, Consumes, Entering
<1> QED
  BY <1>1, <1>2, <1>3, <1>4, <1>5, <1>6, <1>7, <1>8, <1>9, <1>10, <1>11, <1>12
     DEF WaiterRuns, Scan

LEMMA NextShape ==
  ASSUME TypeOK, [Next]_vars
  PROVE  Shape
<1>1. ASSUME UNCHANGED <<signalled, wpc, candidate, triggered>> PROVE Shape
  BY <1>1, FrameShape DEF OnlySet
<1>2. CASE Tick \/ UNCHANGED vars
  BY <1>1, <1>2 DEF Tick, vars, eventVars, waiterVars
<1>3. ASSUME NEW h \in Fd, FdBecomesReady(h) PROVE Shape
  BY <1>1, <1>3 DEF FdBecomesReady, eventVars, waiterVars
<1> QED
  BY <1>2, <1>3, ThreadShape, WaiterShape DEF Next, Environment
-----------------------------------------------------------------------------
(* Whatever is ready now was ready during this call, and so was what the     *)
(* call has triggered or PollEvent is about to consume.                      *)
SeenInv ==
  /\ ReadyNow \subseteq seen
  /\ wpc = "idle" => triggered = None
  /\ triggered \in Evented => triggered \in seen
  /\ wpc = "consume" => candidate \in seen

LEMMA SeenStep ==
  ASSUME TypeOK, SeenInv, [HNext]_hvars
  PROVE  SeenInv'
<1>1. Shape
  BY NextShape DEF HNext, hvars
<1>2. CASE UNCHANGED hvars
  BY <1>2 DEF hvars, vars, eventVars, waiterVars, SeenInv, ReadyNow, Ready
<1>3. CASE HNext /\ Entering
  <2>1. /\ seen' = ReadyNow /\ wpc = "idle" /\ wpc' = "purge"
        /\ UNCHANGED <<triggered, signalled, queued>>
    BY <1>1, <1>3 DEF HNext, Entering, Shape, Triggers
  <2>2. ReadyNow' = ReadyNow
    BY <2>1 DEF ReadyNow, Ready
  <2> QED
    BY <2>1, <2>2 DEF SeenInv
<1>4. CASE HNext /\ ~Entering
  <2>1. seen' = seen \cup ReadyNow'
    BY <1>4 DEF HNext
  <2>2. triggered' \in Evented => triggered' \in seen
    BY <1>1 DEF Shape, Triggers, SeenInv
  <2>3. wpc' = "consume" => candidate' \in seen
    BY <1>1 DEF Shape, Consumes, SeenInv, ReadyNow
  <2>4. wpc' = "idle" => triggered' = None
    BY <1>1 DEF Shape, Triggers, SeenInv
  <2> QED
    BY <2>1, <2>2, <2>3, <2>4 DEF SeenInv
<1> QED
  BY <1>2, <1>3, <1>4

(* A wait returns nothing that was not ready, or whose event was not set, at *)
(* some time during that wait: what was written into the pipe before, and    *)
(* has been reset since, is never reported.                                  *)
THEOREM NothingStaleReported == HSpec => []ReportedWasReady
<1>1. HInit => SeenInv
  BY DEF HInit, Init, SeenInv, ReadyNow, Ready
<1>2. TypeOK /\ SeenInv /\ [HNext]_hvars => SeenInv'
  BY SeenStep
<1>3. HSpec => []TypeOK
  BY HistoryOnly, TypeCorrect, PTL
<1>4. SeenInv => ReportedWasReady
  BY DEF SeenInv, ReportedWasReady
<1> QED
  BY <1>1, <1>2, <1>3, <1>4, PTL DEF HSpec
-----------------------------------------------------------------------------
(* An automatic event that is set has been set since it was last found set,  *)
(* unless the wait set has found it and is about to reset it.                *)
FreshInv ==
  \A h \in AutoEvent : signalled[h] =>
    \/ h \in fresh
    \/ wpc = "reset" /\ triggered = h
    \/ wpc = "consume" /\ candidate = h

LEMMA FreshStep ==
  ASSUME TypeOK, FreshInv, [HNext]_hvars
  PROVE  FreshInv'
<1>1. Shape
  BY NextShape DEF HNext, hvars
<1>2. CASE UNCHANGED hvars
  BY <1>2 DEF hvars, vars, eventVars, waiterVars, FreshInv
<1>3. ASSUME HNext, NEW h \in AutoEvent, signalled'[h]
      PROVE  \/ h \in fresh'
             \/ wpc' = "reset" /\ triggered' = h
             \/ wpc' = "consume" /\ candidate' = h
  <2>1. fresh' = {x \in AutoEvent : Set(x) \/ (x \in fresh /\ ~Found(x))}
    BY <1>3 DEF HNext
  <2>2. CASE Set(h)
    BY <2>1, <2>2
  <2>3. CASE ~Set(h)
    <3>1. signalled[h]
      BY <1>1, <1>3, <2>3 DEF Shape, OnlySet
    <3>2. CASE h \in fresh /\ ~Found(h)
      BY <2>1, <3>2
    <3>3. CASE Found(h)
      BY <1>1, <3>3 DEF Found, Shape, Consumes
    <3>4. CASE wpc = "reset" /\ triggered = h
      BY <1>1, <1>3, <3>4 DEF Shape, Consumes
    <3>5. CASE wpc = "consume" /\ candidate = h
      BY <1>1, <1>3, <3>5 DEF Shape, Consumes
    <3> QED
      BY <3>1, <3>2, <3>3, <3>4, <3>5 DEF FreshInv
  <2> QED
    BY <2>2, <2>3
<1> QED
  BY <1>2, <1>3 DEF FreshInv

(* One set, one report: between two times ofc_waitset_wait_impl finds an     *)
(* automatic event set, in the loop over the handles or in PollEvent, some   *)
(* thread has set it, though test and reset are two calls.                   *)
THEOREM SetsReportedOnce == HSpec => OneSetOneReport
<1>1. HInit => FreshInv
  BY DEF HInit, Init, FreshInv
<1>2. TypeOK /\ FreshInv /\ [HNext]_hvars => FreshInv'
  BY FreshStep
<1>3. HSpec => []TypeOK
  BY HistoryOnly, TypeCorrect, PTL
<1>4. TypeOK /\ FreshInv /\ [HNext]_hvars
        => [\A h \in AutoEvent : Found(h) => h \in fresh]_hvars
  <2> SUFFICES ASSUME TypeOK, FreshInv, HNext, NEW h \in AutoEvent, Found(h)
               PROVE  h \in fresh
    OBVIOUS
  <2>1. Shape
    BY NextShape DEF HNext
  <2>2. signalled[h] /\ wpc \in {"scan", "probe"}
    BY <2>1 DEF Found, Shape, Consumes
  <2> QED
    BY <2>2 DEF FreshInv
<1> QED
  BY <1>1, <1>2, <1>3, <1>4, PTL DEF HSpec, OneSetOneReport
-----------------------------------------------------------------------------
(***************************************************************************)
(* What a step may do to the timers and to the place of the loop.          *)
(***************************************************************************)
(* Another thread's step, or one of the call that concerns no timer, ...     *)
Elsewhere ==
  /\ UNCHANGED <<pos, timer_event, leastWait, triggered>>
  /\ \/ UNCHANGED hHandleQueue
     \/ \E h \in Handle : ~InQueue(h) /\ hHandleQueue' = Append(hHandleQueue, h)

(* ... a turn of the loop over the handles, ...                              *)
Turn(h) ==
  /\ wpc = "scan" /\ triggered = None
  /\ pos <= Len(hHandleQueue) /\ h = hHandleQueue[pos] /\ pos' = pos + 1
  /\ UNCHANGED <<hHandleQueue, left>>
  /\ \/ h \in Timer /\ left[h] = 0 /\ triggered' = h /\ UNCHANGED <<leastWait, timer_event>>
     \/ h \in Timer /\ leastWait' = left[h] /\ timer_event' = h /\ UNCHANGED triggered
     \/ triggered' \in {triggered, h} \ Timer /\ UNCHANGED <<leastWait, timer_event>>

(* ... or the end of the call, with the timer the loop has triggered or the  *)
(* one whose time poll has waited for.                                       *)
End ==
  /\ timer_event' = None /\ UNCHANGED <<hHandleQueue, left>>
  /\ triggered' \in Timer => \/ triggered' = triggered /\ wpc = "scan" /\ pos' = 1
                             \/ triggered' = timer_event /\ leastWait = 0 /\ wpc = "poll"

Served == wpc = "app" /\ triggered' = None /\ UNCHANGED <<hHandleQueue, pos, timer_event, leastWait>>

TimerShape == Elsewhere \/ (\E h \in Handle : Turn(h)) \/ End \/ Served \/ Tick

LEMMA ThreadTimerShape ==
  ASSUME TypeOK, NEW t \in Thread, Start(t) \/ Continue(t)
  PROVE  Elsewhere
<1>1. UNCHANGED waiterVars
  BY DEF Start, Continue, Enqueue, EventSetLock, EventReset, SetAssoc, Add, Rearm, Wake,
         EventSetAssoc, EventSetWrite, EventSetUnlock, AddSetApp, AddTest, AddSignal
<1>2. \/ UNCHANGED hHandleQueue
      \/ \E h \in Handle : ~InQueue(h) /\ hHandleQueue' = Append(hHandleQueue, h)
  BY DEF Start, Continue, Enqueue, EventSetLock, EventReset, SetAssoc, Add, Rearm, Wake,
         EventSetAssoc, EventSetWrite, EventSetUnlock, AddSetApp, AddTest, AddSignal
<1> QED
  BY <1>1, <1>2 DEF Elsewhere, waiterVars, scanVars

LEMMA WaiterTimerShape ==
  ASSUME TypeOK, WaiterRuns \/ PollTimeout \/ PollFails
  PROVE  TimerShape
<1> USE DEF TimerShape
<1>1. CASE WaitEnter \/ PurgeRead \/ PurgeDone \/ PollPipe \/ ScanReset
  BY <1>1 DEF Elsewhere, WaitEnter, PurgeRead, PurgeDone, PollPipe, ScanReset, waiterVars,
              scanVars
<1>2. ASSUME NEW h \in Handle, ScanEvent(h) \/ ScanQueue(h) \/ ScanOverlapped(h) \/ ScanFd(h)
      PROVE  Turn(h)
  <2>1. h \notin Timer /\ None \notin Timer /\ Scanning(h)
    BY <1>2 DEF ScanEvent, ScanQueue, ScanOverlapped, ScanFd
  <2>2. triggered' \in {triggered, h} /\ UNCHANGED <<leastWait, timer_event>>
    BY <1>2 DEF ScanEvent, ScanQueue, ScanOverlapped, ScanFd, Trigger, Register
  <2> QED
    BY <2>1, <2>2 DEF Turn, Scanning, sourceVars
<1>3. ASSUME NEW h \in Handle, ScanTimer(h) PROVE Turn(h)
  <2>1. h \in Timer /\ None \notin Timer /\ Scanning(h)
    BY <1>3 DEF ScanTimer
  <2>2. CASE left[h] = 0
    BY <1>3, <2>1, <2>2 DEF ScanTimer, Trigger, Turn, Scanning, sourceVars
  <2>3. CASE left[h] # 0
    <3>1. UNCHANGED triggered
      BY <1>3, <2>3 DEF ScanTimer
    <3>2. \/ leastWait' = left[h] /\ timer_event' = h
          \/ UNCHANGED <<leastWait, timer_event>>
      BY <1>3, <2>3 DEF ScanTimer
    <3> QED
      BY <2>1, <3>1, <3>2 DEF Turn, Scanning, sourceVars
  <2> QED
    BY <2>2, <2>3
<1>4. CASE ScanDone
  <2>1. CASE triggered # None /\ Return(triggered)
    <3>1. wpc = "scan" /\ triggered' = triggered /\ pos' = 1 /\ timer_event' = None
      BY <1>4, <2>1 DEF ScanDone, Return
    <3>2. UNCHANGED <<hHandleQueue, left>>
      BY <1>4 DEF ScanDone, sourceVars
    <3>3. End
      BY <3>1, <3>2 DEF End
    <3> QED
      BY <3>3
  <2>2. CASE wpc' = "poll" /\ UNCHANGED <<scanVars, candidate, triggered>>
    BY <1>4, <2>2 DEF ScanDone, Elsewhere, scanVars
  <2> QED
    BY <1>4, <2>1, <2>2 DEF ScanDone
<1>5. ASSUME NEW h, h \notin Timer, Return(h), UNCHANGED <<hHandleQueue, left>> PROVE End
  BY <1>5 DEF End, Return
<1>6. ASSUME NEW h \in Fd, PollFd(h) PROVE End
  BY <1>5, <1>6 DEF PollFd
<1>7. CASE PollTimeout
  BY <1>7 DEF PollTimeout, End, Return, sourceVars
<1>8. CASE PollFails
  BY <1>5, <1>8 DEF PollFails, sourceVars
<1>9. CASE DrainRead
  <2>1. CASE Return(None)
    BY <1>5, <1>9, <2>1 DEF DrainRead, sourceVars
  <2>2. CASE UNCHANGED <<scanVars, triggered>>
    BY <1>9, <2>2 DEF DrainRead, Elsewhere, scanVars
  <2> QED
    BY <1>9, <2>1, <2>2 DEF DrainRead, waiterVars
<1>10. CASE DrainTest
  <2>1. candidate \notin Timer /\ UNCHANGED <<hHandleQueue, left>>
    BY <1>10 DEF DrainTest, TypeOK, sourceVars
  <2>2. CASE Return(candidate)
    BY <1>5, <2>1, <2>2
  <2>3. CASE UNCHANGED <<scanVars, triggered>>
    BY <2>1, <2>3 DEF Elsewhere, scanVars
  <2> QED
    BY <1>10, <2>2, <2>3 DEF DrainTest
<1>11. CASE DrainConsume
  <2>1. candidate \notin Timer /\ UNCHANGED <<hHandleQueue, left>>
    BY <1>11 DEF DrainConsume, TypeOK, sourceVars
  <2> QED
    BY <1>5, <1>11, <2>1 DEF DrainConsume
<1>12. CASE Application
  BY <1>12 DEF Application, Served, scanVars
<1> QED
  BY <1>1, <1>2, <1>3, <1>4, <1>6, <1>7, <1>8, <1>9, <1>10, <1>11, <1>12 DEF WaiterRuns, Scan

LEMMA NextTimerShape ==
  ASSUME TypeOK, [Next]_vars
  PROVE  TimerShape
<1>1. CASE UNCHANGED vars
  BY <1>1 DEF TimerShape, Elsewhere, vars, waiterVars, scanVars
<1>2. ASSUME NEW h \in Fd, FdBecomesReady(h) PROVE TimerShape
  BY <1>2 DEF FdBecomesReady, TimerShape, Elsewhere, waiterVars, scanVars
<1> QED
  BY <1>1, <1>2, ThreadTimerShape, WaiterTimerShape DEF Next, Environment, TimerShape
-----------------------------------------------------------------------------
(* The poll timeout is never longer than what is left of the timer it stands *)
(* for was when the loop tested it, which has run down since, unless it has  *)
(* been armed again; and the loop is past that timer, which has one place.   *)
Within(h, n) == left[h] <= n \/ h \in rearmed

TimerInv ==
  /\ \A i, j \in 1..Len(hHandleQueue) : hHandleQueue[i] = hHandleQueue[j] => i = j
  /\ timer_event # None => Covered(timer_event) /\ Within(timer_event, leastWait)
  /\ triggered \in Timer => Within(triggered, 0)

(* A timer that is not tested stays as near, or is armed again.              *)
LEMMA WithinStep ==
  ASSUME TypeOK, TypeOK', HNext, NEW h \in Timer, NEW n \in Nat, Within(h, n), ~Tested(h)
  PROVE  left'[h] <= n \/ h \in rearmed'
<1>1. rearmed' = {x \in Timer : left'[x] > left[x] \/ (x \in rearmed /\ ~Tested(x))}
  BY DEF HNext
<1>2. left[h] \in Nat /\ left'[h] \in Nat
  BY DEF TypeOK
<1> QED
  BY <1>1, <1>2 DEF Within

LEMMA TimerStep ==
  ASSUME TypeOK, TypeOK', TimerInv, HNext
  PROVE  TimerInv'
<1>1. TimerShape
  BY NextTimerShape DEF HNext
<1>2. timer_event # None => timer_event \in Timer
  BY DEF TypeOK
<1>3. CASE Elsewhere
  <2>1. ~(\E h : Tested(h))
    BY <1>3 DEF Elsewhere, Tested, TypeOK
  <2>2. /\ \A i \in 1..Len(hHandleQueue) : i \in 1..Len(hHandleQueue') /\ hHandleQueue'[i] = hHandleQueue[i]
        /\ \A i, j \in 1..Len(hHandleQueue') : hHandleQueue'[i] = hHandleQueue'[j] => i = j
    <3>1. CASE UNCHANGED hHandleQueue
      BY <3>1 DEF TimerInv
    <3>2. ASSUME NEW h \in Handle, ~InQueue(h), hHandleQueue' = Append(hHandleQueue, h)
          PROVE  /\ \A i \in 1..Len(hHandleQueue) : /\ i \in 1..Len(hHandleQueue')
                                                    /\ hHandleQueue'[i] = hHandleQueue[i]
                 /\ \A i, j \in 1..Len(hHandleQueue') : hHandleQueue'[i] = hHandleQueue'[j] => i = j
      <4>1. /\ Len(hHandleQueue) \in Nat /\ Len(hHandleQueue') = Len(hHandleQueue) + 1
            /\ \A i \in 1..Len(hHandleQueue) : hHandleQueue'[i] = hHandleQueue[i]
            /\ hHandleQueue'[Len(hHandleQueue) + 1] = h
        BY <3>2 DEF TypeOK
      <4> QED
        BY <3>2, <4>1 DEF InQueue, TimerInv
    <3> QED
      BY <1>3, <3>1, <3>2 DEF Elsewhere
  <2>3. timer_event # None => Covered(timer_event)'
    BY <1>3, <2>2 DEF TimerInv, Covered, Elsewhere
  <2>4. timer_event # None => Within(timer_event, leastWait)'
    <3>1. leastWait \in Nat /\ UNCHANGED <<timer_event, leastWait>>
      BY <1>3 DEF Elsewhere, TypeOK
    <3>2. timer_event # None => left'[timer_event] <= leastWait \/ timer_event \in rearmed'
      BY <1>2, <2>1, <3>1, WithinStep DEF TimerInv
    <3> QED
      BY <3>1, <3>2 DEF Within
  <2>5. triggered \in Timer => Within(triggered, 0)'
    BY <1>3, <2>1, WithinStep DEF TimerInv, Within, Elsewhere
  <2> QED
    BY <1>3, <2>2, <2>3, <2>4, <2>5 DEF TimerInv, Elsewhere
<1>4. ASSUME NEW h \in Handle, Turn(h) PROVE TimerInv'
  <2>1. pos \in Nat /\ pos' = pos + 1 /\ UNCHANGED <<hHandleQueue, left>>
    BY <1>4 DEF Turn, TypeOK
  <2>2. ASSUME timer_event # None PROVE Covered(timer_event)' \/ timer_event' # timer_event
    BY <2>1, <2>2 DEF TimerInv, Covered
  <2>3. ASSUME timer_event # None PROVE ~Tested(timer_event)
    <3>1. PICK i \in 1..Len(hHandleQueue) : i < pos /\ hHandleQueue[i] = timer_event
      BY <2>3 DEF TimerInv, Covered
    <3>2. pos \in 1..Len(hHandleQueue) /\ i # pos
      BY <1>4, <2>1, <3>1 DEF Turn
    <3>3. hHandleQueue[pos] # timer_event
      BY <3>1, <3>2 DEF TimerInv
    <3> QED
      BY <3>3 DEF Tested
  <2>4. ASSUME timer_event # None
        PROVE  left'[timer_event] <= leastWait \/ timer_event \in rearmed'
    BY <1>2, <2>3, <2>4, WithinStep DEF TimerInv, TypeOK
  <2>5. CASE h \in Timer /\ leastWait' = left[h] /\ timer_event' = h /\ UNCHANGED triggered
    <3>1. Covered(h)' /\ Within(h, leastWait)'
      BY <1>4, <2>1, <2>5 DEF Turn, Covered, Within, TypeOK
    <3>2. triggered' \notin Timer
      BY <1>4, <2>5 DEF Turn
    <3> QED
      BY <2>1, <2>5, <3>1, <3>2 DEF TimerInv
  <2>6. CASE UNCHANGED <<leastWait, timer_event>> /\ (triggered' \in Timer => left'[triggered'] = 0)
    <3>1. timer_event' # None => Covered(timer_event)' /\ Within(timer_event, leastWait)'
      BY <2>2, <2>4, <2>6 DEF Within
    <3>2. triggered' \in Timer => Within(triggered, 0)'
      BY <2>6 DEF Within
    <3> QED
      BY <2>1, <3>1, <3>2 DEF TimerInv
  <2> QED
    BY <1>4, <2>1, <2>5, <2>6 DEF Turn
<1>5. CASE End
  <2>1. ASSUME triggered' \in Timer PROVE ~Tested(triggered') /\ Within(triggered', 0)
    <3>1. CASE triggered' = triggered /\ wpc = "scan" /\ pos' = 1
      <4>1. pos' # pos + 1
        BY <3>1 DEF TypeOK
      <4> QED
        BY <2>1, <3>1, <4>1 DEF Tested, TimerInv
    <3>2. CASE triggered' = timer_event /\ leastWait = 0 /\ wpc = "poll"
      BY <2>1, <3>2 DEF Tested, TimerInv
    <3> QED
      BY <1>5, <2>1, <3>1, <3>2 DEF End
  <2>2. triggered' \in Timer => Within(triggered, 0)'
    BY <2>1, WithinStep DEF Within
  <2> QED
    BY <1>5, <2>2 DEF End, TimerInv
<1>6. CASE Served
  <2>1. \A h : ~Tested(h)
    BY <1>6 DEF Served, Tested
  <2>2. timer_event # None => Within(timer_event, leastWait)'
    <3>1. leastWait \in Nat /\ UNCHANGED <<timer_event, leastWait>>
      BY <1>6 DEF Served, TypeOK
    <3>2. timer_event # None => left'[timer_event] <= leastWait \/ timer_event \in rearmed'
      BY <1>2, <2>1, <3>1, WithinStep DEF TimerInv
    <3> QED
      BY <3>1, <3>2 DEF Within
  <2>3. timer_event # None => Covered(timer_event)'
    BY <1>6 DEF Served, TimerInv, Covered
  <2> QED
    BY <1>6, <2>2, <2>3 DEF Served, TimerInv
<1>7. CASE Tick
  <2>1. /\ UNCHANGED <<hHandleQueue, pos, timer_event, triggered>>
        /\ left' = [h \in Timer |-> IF left[h] > 0 THEN left[h] - 1 ELSE 0]
        /\ leastWait' \in {leastWait, leastWait - 1} /\ leastWait' \in Nat
    BY <1>7 DEF Tick, TypeOK
  <2>2. \A h : ~Tested(h)
    BY <2>1 DEF Tested, TypeOK
  <2>3. ASSUME NEW h \in Timer, h \in rearmed PROVE h \in rearmed'
    BY <2>2, <2>3 DEF HNext
  <2>4. ASSUME NEW h \in Timer, NEW n \in Nat, left[h] <= n
        PROVE  left'[h] <= n /\ (n > 0 => left'[h] <= n - 1)
    BY <2>1, <2>4 DEF TypeOK
  <2>5. timer_event # None => Within(timer_event, leastWait)'
    <3>1. leastWait \in Nat
      BY DEF TypeOK
    <3> QED
      BY <1>2, <2>1, <2>3, <2>4, <3>1 DEF TimerInv, Within
  <2>6. triggered \in Timer => Within(triggered, 0)'
    BY <2>1, <2>3, <2>4 DEF TimerInv, Within
  <2>7. timer_event # None => Covered(timer_event)'
    BY <2>1 DEF TimerInv, Covered
  <2> QED
    BY <2>1, <2>5, <2>6, <2>7 DEF TimerInv
<1> QED
  BY <1>1, <1>3, <1>4, <1>5, <1>6, <1>7 DEF TimerShape

(* A wait returns a timer only when it has expired, however many timers the  *)
(* set has and whenever they are added, unless another thread has armed it   *)
(* again after the loop over the handles tested it.                          *)
THEOREM TimersOnTime == HSpec => []TimerNotEarly
<1>1. HInit => TimerInv
  BY DEF HInit, Init, TimerInv
<1>2. TypeOK /\ TypeOK' /\ TimerInv /\ [HNext]_hvars => TimerInv'
  <2>1. ASSUME TimerInv, UNCHANGED hvars PROVE TimerInv'
    BY <2>1 DEF hvars, vars, waiterVars, scanVars, sourceVars, TimerInv, Covered, Within
  <2> QED
    BY <2>1, TimerStep
<1>3. HSpec => []TypeOK
  BY HistoryOnly, TypeCorrect, PTL
<1>4. TypeOK /\ TimerInv => TimerNotEarly
  BY DEF TypeOK, TimerInv, TimerNotEarly, Within
<1> QED
  BY <1>1, <1>2, <1>3, <1>4, PTL DEF HSpec
=============================================================================
