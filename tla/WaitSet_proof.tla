--------------------------- MODULE WaitSet_proof ---------------------------
(***************************************************************************)
(* Theorems about WaitSet, for any number of threads, any handles, any     *)
(* size of the pipe and any bound on the wait queues.                      *)
(***************************************************************************)
EXTENDS WaitSet, TLAPS

USE ConstantsAssumption DEF Evented, Queued, Handle

(* The variables have the type TypeOK gives them: in particular the pipe     *)
(* never holds more than it can, and PollEvent never looks up the event of   *)
(* anything but an event-backed handle.                                      *)
THEOREM TypeCorrect == Spec => []TypeOK
<1>1. Init => TypeOK
  BY DEF Init, TypeOK
<1>2. TypeOK /\ [Next]_vars => TypeOK'
  <2> SUFFICES ASSUME TypeOK, [Next]_vars PROVE TypeOK'
    OBVIOUS
  <2> USE DEF TypeOK, Begin, Goto, Done
  <2>1. ASSUME NEW t \in Thread, NEW h \in Queued, Enqueue(t, h) PROVE TypeOK'
    BY <2>1 DEF Enqueue, waiterVars, scanVars, sourceVars
  <2>2. ASSUME NEW t \in Thread, NEW h \in Evented, EventSetLock(t, h) PROVE TypeOK'
    <3>1. CASE h \in EventH \cup FsDarwin /\ Begin(t, h, "assoc")
      BY <2>2, <3>1 DEF EventSetLock, waiterVars, scanVars, sourceVars
    <3>2. CASE pc[t] = "raise" /\ arg[t] = h /\ Goto(t, "assoc")
      BY <2>2, <3>2 DEF EventSetLock, waiterVars, scanVars, sourceVars
    <3> QED
      BY <2>2, <3>1, <3>2 DEF EventSetLock
  <2>3. ASSUME NEW t \in Thread, EventSetAssoc(t) PROVE TypeOK'
    BY <2>3 DEF EventSetAssoc, waiterVars, scanVars, sourceVars, eventVars
  <2>4. ASSUME NEW t \in Thread, EventSetWrite(t) PROVE TypeOK'
    BY <2>4 DEF EventSetWrite, SignalWaitSet, waiterVars, scanVars, sourceVars, eventVars
  <2>5. ASSUME NEW t \in Thread, EventSetUnlock(t) PROVE TypeOK'
    BY <2>5 DEF EventSetUnlock, waiterVars, scanVars, sourceVars
  <2>6. ASSUME NEW t \in Thread, NEW h \in EventH \cup FsDarwin, EventReset(t, h) PROVE TypeOK'
    BY <2>6 DEF EventReset, waiterVars, scanVars, sourceVars, threadVars
  <2>7. ASSUME NEW t \in Thread, NEW h \in Evented, SetAssoc(t, h) PROVE TypeOK'
    BY <2>7 DEF SetAssoc, waiterVars, scanVars, sourceVars, threadVars
  <2>8. ASSUME NEW t \in Thread, NEW h \in Handle, Add(t, h) PROVE TypeOK'
    <3>1. /\ hHandleQueue' \in Seq(Handle) /\ Len(hHandleQueue') = Len(hHandleQueue) + 1
          /\ UNCHANGED <<assoc, signalled, mutex, queued, sourceVars, pipe, waiterVars>>
      BY <2>8 DEF Add, eventVars
    <3>2. CASE h \in Evented
      <4>1. Begin(t, h, "setapp")
        BY <2>8, <3>2 DEF Add
      <4> QED
        BY <3>1, <3>2, <4>1 DEF waiterVars, scanVars, sourceVars
    <3>3. CASE h \notin Evented
      <4>1. UNCHANGED <<pc, arg>>
        BY <2>8, <3>3 DEF Add, threadVars
      <4> QED
        BY <3>1, <4>1 DEF waiterVars, scanVars, sourceVars
    <3> QED
      BY <3>2, <3>3
  <2>9. ASSUME NEW t \in Thread, AddSetApp(t) PROVE TypeOK'
    BY <2>9 DEF AddSetApp, waiterVars, scanVars, sourceVars
  <2>10. ASSUME NEW t \in Thread, AddTest(t) PROVE TypeOK'
    <3>1. UNCHANGED <<hHandleQueue, assoc, signalled, mutex, queued, sourceVars, pipe, waiterVars>>
      BY <2>10 DEF AddTest, eventVars
    <3>2. CASE Goto(t, "signal")
      <4>1. pc[t] = "test"
        BY <2>10 DEF AddTest
      <4> QED
        BY <3>1, <3>2, <4>1 DEF waiterVars, scanVars, sourceVars
    <3>3. CASE Done(t)
      BY <3>1, <3>3 DEF waiterVars, scanVars, sourceVars
    <3> QED
      BY <2>10, <3>2, <3>3 DEF AddTest
  <2>11. ASSUME NEW t \in Thread, AddSignal(t) PROVE TypeOK'
    BY <2>11 DEF AddSignal, SignalWaitSet, waiterVars, scanVars, sourceVars, eventVars
  <2>12. ASSUME NEW t \in Thread, Wake(t) PROVE TypeOK'
    BY <2>12 DEF Wake, SignalWaitSet, waiterVars, scanVars, sourceVars, eventVars, threadVars
  <2>13. CASE WaitEnter
    BY <2>13 DEF WaitEnter, scanVars, sourceVars, eventVars, threadVars
  <2>14. CASE PurgeRead
    BY <2>14 DEF PurgeRead, waiterVars, scanVars, sourceVars, eventVars, threadVars
  <2>15. CASE PurgeDone
    BY <2>15 DEF PurgeDone, scanVars, sourceVars, eventVars, threadVars
  <2>16. ASSUME NEW h \in Handle, ScanEvent(h) PROVE TypeOK'
    BY <2>16 DEF ScanEvent, Scanning, Trigger, Register, sourceVars, threadVars
  <2>17. CASE ScanReset
    BY <2>17 DEF ScanReset, scanVars, sourceVars, threadVars
  <2>18. ASSUME NEW h \in Handle, ScanQueue(h) PROVE TypeOK'
    BY <2>18 DEF ScanQueue, Scanning, Trigger, Register, sourceVars, threadVars
  <2>19. ASSUME NEW h \in Handle, ScanOverlapped(h) PROVE TypeOK'
    BY <2>19 DEF ScanOverlapped, Scanning, Trigger, Register, sourceVars, threadVars
  <2>20. ASSUME NEW h \in Handle, ScanTimer(h) PROVE TypeOK'
    BY <2>20 DEF ScanTimer, Scanning, Trigger, sourceVars, threadVars
  <2>21. ASSUME NEW h \in Handle, ScanFd(h) PROVE TypeOK'
    BY <2>21 DEF ScanFd, Scanning, sourceVars, threadVars
  <2>22. CASE ScanDone
    BY <2>22 DEF ScanDone, Return, scanVars, sourceVars, eventVars, threadVars
  <2>23. CASE PollPipe
    BY <2>23 DEF PollPipe, scanVars, sourceVars, eventVars, threadVars
  <2>24. ASSUME NEW h \in Fd, PollFd(h) PROVE TypeOK'
    BY <2>24 DEF PollFd, Return, eventVars, threadVars
  <2>25. CASE PollTimeout
    BY <2>25 DEF PollTimeout, Return, sourceVars, eventVars, threadVars
  <2>26. CASE PollFails
    BY <2>26 DEF PollFails, Return, sourceVars, eventVars, threadVars
  <2>27. CASE DrainRead
    <3>1. UNCHANGED <<hHandleQueue, assoc, signalled, mutex, queued, sourceVars, threadVars>>
      BY <2>27 DEF DrainRead, eventVars
    <3>2. pipe' \in Seq(Evented \cup {None}) /\ Len(pipe') <= PipeCap
      <4>1. pipe' = pipe \/ (pipe # <<>> /\ pipe' = Tail(pipe))
        BY <2>27 DEF DrainRead
      <4>2. CASE pipe # <<>> /\ pipe' = Tail(pipe)
        BY <4>2
      <4> QED
        BY <4>1, <4>2
    <3>3. CASE Return(None)
      BY <3>1, <3>2, <3>3 DEF Return, sourceVars, threadVars
    <3>4. CASE /\ Head(pipe) \in registered
               /\ wpc' = "probe" /\ candidate' = Head(pipe)
               /\ UNCHANGED <<scanVars, triggered>>
      BY <3>1, <3>2, <3>4 DEF scanVars, sourceVars, threadVars
    <3>5. CASE UNCHANGED waiterVars
      BY <3>1, <3>2, <3>5 DEF waiterVars, scanVars, sourceVars, threadVars
    <3> QED
      BY <2>27, <3>3, <3>4, <3>5 DEF DrainRead
  <2>28. CASE DrainTest
    BY <2>28 DEF DrainTest, Return, scanVars, sourceVars, eventVars, threadVars
  <2>29. CASE DrainConsume
    BY <2>29 DEF DrainConsume, Return, sourceVars, threadVars
  <2>30. CASE Application
    <3>1. /\ wpc' = "idle" /\ triggered' = None /\ left' \in [Timer -> Nat]
          /\ fdReady' = fdReady \ {triggered}
          /\ UNCHANGED <<hHandleQueue, assoc, mutex, revents, pipe, threadVars, scanVars, candidate>>
      BY <2>30 DEF Application
    <3>2. queued' \in [Queued -> Nat]
      <4>1. \/ UNCHANGED queued
            \/ /\ triggered \in Queued
               /\ \E n \in 1..queued[triggered] : queued' = [queued EXCEPT ![triggered] = @ - n]
        BY <2>30 DEF Application
      <4> QED
        BY <4>1
    <3>3. signalled' \in [Evented -> BOOLEAN]
      <4>1. signalled' = signalled \/ signalled' = [signalled EXCEPT ![triggered] = FALSE]
        BY <2>30 DEF Application
      <4> QED
        BY <4>1
    <3> QED
      BY <3>1, <3>2, <3>3 DEF scanVars, threadVars
  <2>31. ASSUME NEW h \in Fd, FdBecomesReady(h) PROVE TypeOK'
    BY <2>31 DEF FdBecomesReady, waiterVars, scanVars, eventVars, threadVars
  <2>32. CASE Tick
    BY <2>32 DEF Tick, eventVars, threadVars
  <2>33. ASSUME NEW t \in Thread, NEW h \in Timer, Rearm(t, h) PROVE TypeOK'
    BY <2>33 DEF Rearm, waiterVars, scanVars, eventVars, threadVars
  <2>34. CASE UNCHANGED vars
    BY <2>34 DEF vars, waiterVars, scanVars, sourceVars, eventVars, threadVars
  <2> QED
    BY <2>1, <2>2, <2>3, <2>4, <2>5, <2>6, <2>7, <2>8, <2>9, <2>10, <2>11, <2>12, <2>13,
       <2>14, <2>15, <2>16, <2>17, <2>18, <2>19, <2>20, <2>21, <2>22, <2>23, <2>24, <2>25,
       <2>26, <2>27, <2>28, <2>29, <2>30, <2>31, <2>32, <2>33, <2>34
       DEF Next, Start, Continue, WaiterRuns, Scan, Environment
<1> QED
  BY <1>1, <1>2, PTL DEF Spec
-----------------------------------------------------------------------------
(* What ofc_waitset_wait_impl has to establish to leave the invariant        *)
(* intact: it comes to rely on no handle, or only on handles it has just     *)
(* found not ready.                                                          *)
LEMMA WaiterStep ==
  ASSUME TypeOK, WakeInv, Watched',
         UNCHANGED <<hHandleQueue, assoc, pc, arg>>,
         \/ /\ \A h \in Evented : ~Relied(h)'
            /\ \A h \in FsSmb : ~InQueue(h) => /\ signalled'[h] = signalled[h]
                                               /\ queued'[h] <= queued[h]
            /\ queued' \in [Queued -> Nat]
         \/ /\ UNCHANGED <<pipe, signalled, queued>>
            /\ \A h \in Evented : Relied(h)' => Relied(h) \/ ~Ready(h)
  PROVE  WakeInv'
<1> USE DEF TypeOK, WakeInv
<1>1. \A h : InQueue(h)' <=> InQueue(h)
  BY DEF InQueue
<1>2. \A h, l : At(h, l)' <=> At(h, l)
  BY DEF At
<1>3. \A h : Coming(h)' <=> Coming(h)
  BY DEF Coming
<1>4. Associated'
  BY <1>1, <1>2 DEF Associated
<1>5. CASE /\ \A h \in Evented : ~Relied(h)'
           /\ \A h \in FsSmb : ~InQueue(h) => /\ signalled'[h] = signalled[h]
                                              /\ queued'[h] <= queued[h]
           /\ queued' \in [Queued -> Nat]
  <2>1. SmbEventSet'
    BY <1>1, <1>2, <1>5 DEF SmbEventSet
  <2>2. Noticed'
    BY <1>5 DEF Noticed
  <2> QED
    BY <1>4, <2>1, <2>2
<1>6. CASE /\ UNCHANGED <<pipe, signalled, queued>>
           /\ \A h \in Evented : Relied(h)' => Relied(h) \/ ~Ready(h)
  <2>1. \A h \in Evented : Ready(h)' <=> Ready(h)
    BY <1>6 DEF Ready
  <2>2. SmbEventSet'
    BY <1>1, <1>2, <1>6 DEF SmbEventSet, Ready
  <2>3. Noticed'
    BY <1>3, <1>6, <2>1 DEF Noticed
  <2> QED
    BY <1>4, <2>2, <2>3
<1> QED
  BY <1>5, <1>6

(* What a step of another thread has to establish: it neither takes back a   *)
(* wakeup it was to deliver, unless the pipe has it now or the handle is not *)
(* ready, nor makes a handle ready without one.                              *)
LEMMA ThreadStep ==
  ASSUME TypeOK, WakeInv,
         UNCHANGED <<hHandleQueue, wpc, pos, registered, candidate, triggered>>,
         \A h \in Evented : InQueue(h) /\ (assoc[h] \/ At(h, "setapp"))
                               => assoc'[h] \/ At(h, "setapp")',
         \A h \in FsSmb : \/ queued'[h] = 0 \/ signalled'[h] \/ At(h, "raise")'
                          \/ /\ queued[h] > 0 /\ ~signalled[h] /\ ~At(h, "raise"),
         \A h \in Evented : Relied(h) /\ Ready(h)' =>
                              \/ pipe' # <<>> \/ Coming(h)'
                              \/ Ready(h) /\ pipe = <<>> /\ ~Coming(h),
         queued' \in [Queued -> Nat]
  PROVE  WakeInv'
<1> USE DEF TypeOK, WakeInv
<1>1. \A h : InQueue(h)' <=> InQueue(h)
  BY DEF InQueue
<1>2. \A h : Relied(h)' <=> Relied(h)
  BY <1>1 DEF Relied, Covered
<1>3. Associated'
  BY <1>1 DEF Associated
<1>4. Watched'
  BY <1>1 DEF Watched
<1>5. SmbEventSet'
  <2> SUFFICES ASSUME NEW h \in FsSmb, Relied(h) \/ ~InQueue(h), queued'[h] > 0
               PROVE  signalled'[h] \/ At(h, "raise")'
    BY <1>1, <1>2 DEF SmbEventSet
  <2>1. CASE queued'[h] = 0
    BY <2>1
  <2>2. CASE queued[h] > 0 /\ ~signalled[h] /\ ~At(h, "raise")
    BY <2>2 DEF SmbEventSet
  <2> QED
    BY <2>1, <2>2
<1>6. Noticed'
  BY <1>2 DEF Noticed
<1> QED
  BY <1>3, <1>4, <1>5, <1>6

(* The scheduler thread: its steps that rely on no handle afterwards, and    *)
(* those of the loop over the handles.                                       *)
LEMMA WaiterKeepsWakeInv ==
  ASSUME TypeOK, TypeOK', WakeInv, WaiterRuns \/ PollTimeout \/ PollFails
  PROVE  WakeInv'
<1> USE DEF TypeOK
<1> DEFINE Quiet == /\ \A h \in Evented : ~Relied(h)'
                    /\ \A h \in FsSmb : ~InQueue(h) => /\ signalled'[h] = signalled[h]
                                                       /\ queued'[h] <= queued[h]
<1>1. CASE WaitEnter
  <2>1. Watched' /\ Quiet /\ UNCHANGED <<hHandleQueue, assoc, pc, arg>>
    BY <1>1 DEF WaitEnter, WakeInv, Watched, InQueue, Relied, eventVars, threadVars, scanVars
  <2> QED
    BY <2>1, WaiterStep
<1>2. CASE PurgeRead
  <2>1. Watched' /\ Quiet /\ UNCHANGED <<hHandleQueue, assoc, pc, arg>>
    BY <1>2 DEF PurgeRead, WakeInv, Watched, InQueue, Relied, eventVars, threadVars,
                scanVars, waiterVars
  <2> QED
    BY <2>1, WaiterStep
<1>3. CASE PurgeDone
  <2>1. pos' = 1
    BY <1>3 DEF PurgeDone, WakeInv, Watched, scanVars
  <2>2. Watched' /\ Quiet /\ UNCHANGED <<hHandleQueue, assoc, pc, arg>>
    BY <1>3, <2>1 DEF PurgeDone, WakeInv, Watched, InQueue, Relied, Covered, eventVars,
                      threadVars, scanVars
  <2> QED
    BY <2>2, WaiterStep
<1>4. ASSUME NEW x \in Handle, Scanning(x),
             \/ triggered' = x /\ wpc' \in {"scan", "reset"} /\ UNCHANGED registered
             \/ /\ x \in Evented => ~Ready(x)
                /\ UNCHANGED <<wpc, triggered>>
                /\ registered' \subseteq registered \cup {x},
             UNCHANGED signalled
      PROVE  WakeInv'
  <2>1. UNCHANGED <<hHandleQueue, assoc, pc, arg, queued, pipe, candidate>>
    BY <1>4 DEF Scanning, threadVars
  <2>2. InQueue(x)
    BY <1>4 DEF Scanning, InQueue
  <2>3. \A h : InQueue(h)' <=> InQueue(h)
    BY <2>1 DEF InQueue
  <2>4. Watched'
    BY <1>4, <2>1, <2>2, <2>3 DEF WakeInv, Watched, Scanning
  <2>5. ASSUME NEW h \in Evented, Relied(h)' PROVE Relied(h) \/ ~Ready(h)
    <3>1. CASE triggered' = x /\ wpc' \in {"scan", "reset"}
      <4>1. x # None
        OBVIOUS
      <4> QED
        BY <2>5, <3>1, <4>1 DEF Relied
    <3>2. CASE (x \in Evented => ~Ready(x)) /\ UNCHANGED <<wpc, triggered>>
      <4>1. Covered(h)' => Covered(h) \/ h = x
        BY <1>4, <2>1 DEF Covered, Scanning
      <4> QED
        BY <1>4, <2>5, <3>2, <4>1 DEF Relied, Scanning
    <3> QED
      BY <1>4, <3>1, <3>2
  <2> QED
    BY <1>4, <2>1, <2>4, <2>5, WaiterStep
<1>5. ASSUME NEW x \in Handle, ScanEvent(x) PROVE WakeInv'
  BY <1>4, <1>5 DEF ScanEvent, Trigger, Register, Ready
<1>6. ASSUME NEW x \in Handle, ScanQueue(x) PROVE WakeInv'
  BY <1>4, <1>6 DEF ScanQueue, Trigger, Register, Ready, Scanning
<1>7. ASSUME NEW x \in Handle, ScanOverlapped(x) PROVE WakeInv'
  BY <1>4, <1>7 DEF ScanOverlapped, Trigger, Register, Ready, Scanning
<1>8. ASSUME NEW x \in Handle, ScanTimer(x) PROVE WakeInv'
  BY <1>4, <1>8 DEF ScanTimer, Trigger, Scanning
<1>9. ASSUME NEW x \in Handle, ScanFd(x) PROVE WakeInv'
  BY <1>4, <1>9 DEF ScanFd, Scanning
<1>10. CASE ScanReset
  <2>1. triggered \in EventH /\ triggered # None
    BY <1>10 DEF ScanReset
  <2>2. \A h \in FsSmb : signalled'[h] = signalled[h]
    <3>1. signalled' = [signalled EXCEPT ![triggered] = FALSE]
      BY <1>10 DEF ScanReset
    <3>2. \A h \in FsSmb : h # triggered
      BY <2>1
    <3> QED
      BY <3>1, <3>2
  <2>3. wpc' = "scan" /\ triggered' # None
        /\ UNCHANGED <<hHandleQueue, assoc, pc, arg, queued, registered>>
    BY <1>10, <2>1 DEF ScanReset, threadVars, scanVars
  <2>4. Watched' /\ Quiet
    BY <2>2, <2>3 DEF WakeInv, Watched, InQueue, Relied
  <2> QED
    BY <2>3, <2>4, WaiterStep
<1>11. ASSUME NEW x, Return(x), UNCHANGED <<hHandleQueue, assoc, pc, arg, queued>>,
              \A h \in FsSmb : ~InQueue(h) => signalled'[h] = signalled[h]
       PROVE  WakeInv'
  <2>1. Watched' /\ Quiet
    BY <1>11 DEF Return, Watched, Relied
  <2> QED
    BY <1>11, <2>1, WaiterStep
<1>12. CASE ScanDone
  <2>1. UNCHANGED <<hHandleQueue, assoc, signalled, queued, pc, arg, pipe>>
    BY <1>12 DEF ScanDone, eventVars, threadVars
  <2>2. CASE Return(triggered)
    BY <1>11, <2>1, <2>2
  <2>3. CASE /\ wpc = "scan" /\ triggered = None /\ pos > Len(hHandleQueue)
             /\ wpc' = "poll"
             /\ UNCHANGED <<scanVars, candidate, triggered>>
    <3>1. Watched'
      BY <2>1, <2>3 DEF WakeInv, Watched, InQueue, scanVars
    <3>2. \A h \in Evented : Relied(h)' => Relied(h)
      BY <2>1, <2>3 DEF Relied, Covered, InQueue
    <3> QED
      BY <2>1, <3>1, <3>2, WaiterStep
  <2> QED
    BY <1>12, <2>2, <2>3 DEF ScanDone
<1>13. CASE PollPipe
  <2>1. Watched' /\ Quiet /\ UNCHANGED <<hHandleQueue, assoc, pc, arg>>
    BY <1>13 DEF PollPipe, WakeInv, Watched, InQueue, Relied, eventVars, threadVars, scanVars
  <2> QED
    BY <2>1, WaiterStep
<1>14. ASSUME NEW h \in Fd, PollFd(h) PROVE WakeInv'
  BY <1>11, <1>14 DEF PollFd, eventVars, threadVars
<1>15. CASE PollTimeout
  BY <1>11, <1>15 DEF PollTimeout, eventVars, threadVars
<1>16. CASE PollFails
  BY <1>11, <1>16 DEF PollFails, eventVars, threadVars
<1>17. CASE DrainRead
  <2>1. UNCHANGED <<hHandleQueue, assoc, signalled, queued, pc, arg>>
    BY <1>17 DEF DrainRead, eventVars, threadVars
  <2>2. CASE Return(None)
    BY <1>11, <2>1, <2>2
  <2>3. CASE /\ wpc' \in {"drain", "probe"} /\ UNCHANGED registered
             /\ wpc' = "probe" => candidate' \in registered
    <3>1. Watched' /\ Quiet
      BY <2>1, <2>3 DEF WakeInv, Watched, InQueue, Relied
    <3> QED
      BY <2>1, <3>1, WaiterStep
  <2> QED
    BY <1>17, <2>2, <2>3 DEF DrainRead, waiterVars, scanVars
<1>18. CASE DrainTest
  <2>1. UNCHANGED <<hHandleQueue, assoc, signalled, queued, pc, arg>>
    BY <1>18 DEF DrainTest, eventVars, threadVars
  <2>2. CASE Return(candidate)
    BY <1>11, <2>1, <2>2
  <2>3. CASE /\ wpc' \in {"drain", "consume"} /\ UNCHANGED registered
             /\ wpc' = "consume" => UNCHANGED candidate
    <3>1. Watched' /\ Quiet
      BY <1>18, <2>1, <2>3 DEF DrainTest, WakeInv, Watched, InQueue, Relied
    <3> QED
      BY <2>1, <3>1, WaiterStep
  <2> QED
    BY <1>18, <2>2, <2>3 DEF DrainTest, scanVars
<1>19. CASE DrainConsume
  <2>1. InQueue(candidate)
    BY <1>19 DEF DrainConsume, WakeInv, Watched
  <2>2. \A h \in FsSmb : ~InQueue(h) => signalled'[h] = signalled[h]
    BY <1>19, <2>1 DEF DrainConsume
  <2> QED
    BY <1>11, <1>19, <2>2 DEF DrainConsume, threadVars
<1>20. CASE Application
  <2>1. \A h \in FsSmb : signalled'[h] = signalled[h]
    BY <1>20 DEF Application
  <2>2. \A h \in Queued : queued'[h] <= queued[h]
    <3>1. CASE UNCHANGED queued
      BY <3>1
    <3>2. ASSUME NEW n \in 1..queued[triggered], triggered \in Queued,
                 queued' = [queued EXCEPT ![triggered] = @ - n]
          PROVE  \A h \in Queued : queued'[h] <= queued[h]
      <4>1. /\ queued'[triggered] = queued[triggered] - n /\ queued[triggered] \in Nat
            /\ \A h \in Queued : h # triggered => queued'[h] = queued[h]
        BY <3>2
      <4>2. queued[triggered] - n <= queued[triggered]
        BY <4>1
      <4>3. \A h \in Queued : queued[h] <= queued[h]
        OBVIOUS
      <4> QED
        BY <4>1, <4>2, <4>3
    <3> QED
      BY <1>20, <3>1, <3>2 DEF Application
  <2>3. Watched' /\ Quiet /\ UNCHANGED <<hHandleQueue, assoc, pc, arg>>
    BY <1>20, <2>1, <2>2 DEF Application, WakeInv, Watched, InQueue, Relied, threadVars,
                             scanVars
  <2> QED
    BY <2>3, WaiterStep
<1> QED
  BY <1>1, <1>2, <1>3, <1>5, <1>6, <1>7, <1>8, <1>9, <1>10, <1>12, <1>13, <1>14, <1>15,
     <1>16, <1>17, <1>18, <1>19, <1>20 DEF WaiterRuns, Scan

(* The other threads.                                                        *)
LEMMA ThreadKeepsWakeInv ==
  ASSUME TypeOK, TypeOK', WakeInv, NEW t \in Thread, Start(t) \/ Continue(t)
  PROVE  WakeInv'
<1> USE DEF TypeOK
<1> DEFINE Frame == UNCHANGED <<hHandleQueue, wpc, pos, registered, candidate, triggered>>
(* The assumptions of ThreadStep. *)
<1> DEFINE KeepsAssoc ==
      \A h \in Evented : InQueue(h) /\ (assoc[h] \/ At(h, "setapp"))
                            => assoc'[h] \/ At(h, "setapp")'
<1> DEFINE KeepsSmb ==
      \A h \in FsSmb : \/ queued'[h] = 0 \/ signalled'[h] \/ At(h, "raise")'
                       \/ /\ queued[h] > 0 /\ ~signalled[h] /\ ~At(h, "raise")
<1> DEFINE KeepsComing ==
      \A h \in Evented : Relied(h) /\ Ready(h)' =>
                           \/ pipe' # <<>> \/ Coming(h)'
                           \/ Ready(h) /\ pipe = <<>> /\ ~Coming(h)
<1>0. Frame /\ KeepsAssoc /\ KeepsSmb /\ KeepsComing => WakeInv'
  BY ThreadStep
(* Threads other than t stay where they are. *)
<1>1. ASSUME \A u \in Thread \ {t} : pc'[u] = pc[u] /\ arg'[u] = arg[u],
             NEW h, NEW l, At(h, l), ~(pc[t] = l /\ arg[t] = h)
      PROVE  At(h, l)'
  BY <1>1 DEF At
<1>2. ASSUME \A u \in Thread \ {t} : pc'[u] = pc[u] /\ arg'[u] = arg[u],
             NEW h, Coming(h), pc[t] \in {"idle", "unlock"} \/ arg[t] # h
      PROVE  Coming(h)'
  BY <1>2 DEF Coming
<1>3. ASSUME NEW x \in Queued, Enqueue(t, x) PROVE WakeInv'
  <2>1. /\ Frame /\ UNCHANGED <<assoc, signalled, pipe>>
        /\ pc[t] = "idle" /\ pc'[t] = "raise" /\ arg'[t] = x
        /\ \A u \in Thread \ {t} : pc'[u] = pc[u] /\ arg'[u] = arg[u]
        /\ \A h \in Queued \ {x} : queued'[h] = queued[h]
    BY <1>3 DEF Enqueue, Begin, waiterVars, scanVars
  <2>2. At(x, "raise")' /\ Coming(x)'
    BY <2>1 DEF At, Coming
  <2>3. KeepsAssoc
    BY <1>1, <2>1
  <2>4. KeepsSmb
    BY <1>1, <2>1, <2>2
  <2>5. KeepsComing
    BY <1>2, <2>1, <2>2 DEF Ready, WakeInv, Noticed
  <2> QED
    BY <1>0, <2>1, <2>3, <2>4, <2>5
<1>4. ASSUME NEW x \in Evented, EventSetLock(t, x) PROVE WakeInv'
  <2>1. /\ Frame /\ UNCHANGED <<assoc, queued, pipe>>
        /\ \/ pc[t] = "idle"
           \/ pc[t] = "raise" /\ arg[t] = x
        /\ pc'[t] = "assoc" /\ arg'[t] = x
        /\ \A u \in Thread \ {t} : pc'[u] = pc[u] /\ arg'[u] = arg[u]
    BY <1>4 DEF EventSetLock, Begin, Goto, waiterVars, scanVars
  <2>2. signalled'[x] /\ \A h \in Evented \ {x} : signalled'[h] = signalled[h]
    BY <1>4 DEF EventSetLock
  <2>3. Coming(x)'
    BY <2>1 DEF Coming
  <2>4. KeepsAssoc
    BY <1>1, <2>1
  <2>5. KeepsSmb
    BY <1>1, <2>1, <2>2
  <2>6. KeepsComing
    BY <1>2, <2>1, <2>2, <2>3 DEF Ready, WakeInv, Noticed
  <2> QED
    BY <1>0, <2>1, <2>4, <2>5, <2>6
<1>5. CASE EventSetAssoc(t)
  <2>1. /\ Frame /\ UNCHANGED <<assoc, signalled, queued, pipe, arg>>
        /\ pc[t] = "assoc" /\ pc'[t] = IF assoc[arg[t]] THEN "write" ELSE "unlock"
        /\ \A u \in Thread \ {t} : pc'[u] = pc[u] /\ arg'[u] = arg[u]
    BY <1>5 DEF EventSetAssoc, Goto, eventVars, waiterVars, scanVars
  <2>2. KeepsAssoc
    BY <1>1, <2>1
  <2>3. KeepsSmb
    BY <1>1, <2>1
  <2>4. ASSUME NEW h \in Evented, Relied(h), arg[t] = h PROVE Coming(h)'
    <3>1. InQueue(h)
      BY <2>4 DEF Relied, Covered, InQueue
    <3>2. CASE assoc[h]
      BY <2>1, <2>4, <3>2 DEF Coming
    <3>3. CASE At(h, "setapp")
      <4>1. At(h, "setapp")'
        BY <1>1, <2>1, <3>3
      <4> QED
        BY <4>1 DEF At, Coming
    <3> QED
      BY <3>1, <3>2, <3>3 DEF WakeInv, Associated
  <2>5. KeepsComing
    BY <1>2, <2>1, <2>4 DEF Ready, WakeInv, Noticed
  <2> QED
    BY <1>0, <2>1, <2>2, <2>3, <2>5
(* A step of t that leaves the pipe with an entry in it, or has nothing to   *)
(* deliver, and that starts no other operation on an event of the set.       *)
<1>6. ASSUME Frame, UNCHANGED <<assoc, queued>>,
             \A u \in Thread \ {t} : pc'[u] = pc[u] /\ arg'[u] = arg[u],
             pc[t] \notin {"raise", "setapp"},
             \A h \in FsSmb : signalled'[h] = signalled[h],
             \/ pipe' # <<>>
             \/ /\ pc[t] \in {"idle", "unlock"} /\ UNCHANGED pipe
                /\ \A h \in Evented : signalled'[h] => signalled[h]
      PROVE  WakeInv'
  <2>1. KeepsAssoc
    BY <1>1, <1>6
  <2>2. KeepsSmb
    BY <1>1, <1>6
  <2>3. KeepsComing
    BY <1>2, <1>6 DEF Ready, WakeInv, Noticed
  <2> QED
    BY <1>0, <1>6, <2>1, <2>2, <2>3
<1>7. ASSUME NEW token \in Evented \cup {None}, SignalWaitSet(token) PROVE pipe' # <<>>
  <2>1. CASE Len(pipe) < PipeCap
    <3>1. pipe' = Append(pipe, token) /\ pipe \in Seq(Evented \cup {None})
      BY <1>7, <2>1 DEF SignalWaitSet
    <3>2. Len(pipe') = Len(pipe) + 1 /\ Len(pipe) \in Nat
      BY <3>1
    <3>3. Len(pipe') # 0
      BY <3>2
    <3> QED
      BY <3>3
  <2>2. CASE ~(Len(pipe) < PipeCap)
    <3>1. Len(pipe) > 0
      BY <2>2
    <3> QED
      BY <1>7, <2>2, <3>1 DEF SignalWaitSet
  <2> QED
    BY <2>1, <2>2
<1>8. CASE EventSetWrite(t)
  <2>1. arg[t] \in Evented
    BY <1>8 DEF EventSetWrite
  <2> QED
    BY <1>6, <1>7, <1>8, <2>1 DEF EventSetWrite, Goto, eventVars, waiterVars, scanVars
<1>9. CASE EventSetUnlock(t)
  BY <1>6, <1>9 DEF EventSetUnlock, Done, waiterVars, scanVars
<1>10. ASSUME NEW x \in EventH \cup FsDarwin, EventReset(t, x) PROVE WakeInv'
  <2>1. /\ Frame /\ UNCHANGED <<assoc, queued, pc, arg, pipe>> /\ pc[t] = "idle"
        /\ signalled' = [signalled EXCEPT ![x] = FALSE]
    BY <1>10 DEF EventReset, threadVars, waiterVars, scanVars
  <2>2. \A h \in FsSmb : signalled'[h] = signalled[h]
    <3>1. \A h \in FsSmb : h # x
      OBVIOUS
    <3> QED
      BY <2>1, <3>1
  <2>3. \A h \in Evented : signalled'[h] => signalled[h]
    BY <2>1
  <2> QED
    BY <1>6, <2>1, <2>2, <2>3
<1>11. ASSUME NEW x \in Evented, SetAssoc(t, x) PROVE WakeInv'
  <2>1. /\ Frame /\ UNCHANGED <<signalled, queued, pc, arg, pipe>>
        /\ \A h \in Evented : InQueue(h) /\ assoc[h] => assoc'[h]
    BY <1>11 DEF SetAssoc, threadVars, waiterVars, scanVars
  <2>2. KeepsAssoc
    BY <2>1 DEF At
  <2>3. KeepsSmb
    BY <2>1 DEF At
  <2>4. KeepsComing
    BY <2>1 DEF Ready, Coming, WakeInv, Noticed
  <2> QED
    BY <1>0, <2>1, <2>2, <2>3, <2>4
<1>12. ASSUME NEW x \in Handle, Add(t, x) PROVE WakeInv'
  <2>1. /\ hHandleQueue' = Append(hHandleQueue, x)
        /\ UNCHANGED <<assoc, signalled, queued, pipe, wpc, pos, registered, candidate, triggered>>
        /\ pc[t] = "idle" /\ (x \in Evented => pc'[t] = "setapp" /\ arg'[t] = x)
        /\ \A u \in Thread \ {t} : pc'[u] = pc[u] /\ arg'[u] = arg[u]
    BY <1>12 DEF Add, Begin, eventVars, waiterVars, scanVars, threadVars
  <2>2. \A h : InQueue(h)' <=> InQueue(h) \/ h = x
    <3> DEFINE n == Len(hHandleQueue)
    <3>1. /\ Len(hHandleQueue') = n + 1 /\ hHandleQueue'[n + 1] = x /\ n \in Nat
          /\ \A i \in 1..n : hHandleQueue'[i] = hHandleQueue[i]
      BY <2>1
    <3> HIDE DEF n
    <3>2. \A i : i \in 1..(n + 1) <=> i \in 1..n \/ i = n + 1
      BY <3>1
    <3>3. ASSUME NEW h PROVE InQueue(h)' <=> InQueue(h) \/ h = x
      <4>1. InQueue(h)' <=> \E i \in 1..(n + 1) : hHandleQueue'[i] = h
        BY <3>1 DEF InQueue
      <4>2. InQueue(h) <=> \E i \in 1..n : hHandleQueue[i] = h
        BY DEF InQueue, n
      <4> QED
        BY <3>1, <3>2, <4>1, <4>2
    <3> QED
      BY <3>3
  <2>3. \A h : Covered(h)' <=> Covered(h)
    BY <2>1 DEF Covered
  <2>4. \A h : Relied(h)' => Relied(h) \/ h = x
    BY <2>1, <2>2, <2>3 DEF Relied
  <2>5. x \in Evented => At(x, "setapp")' /\ Coming(x)'
    BY <2>1 DEF At, Coming
  <2>6. Associated'
    <3>1. \A h \in Evented : At(h, "setapp") => At(h, "setapp")'
      BY <1>1, <2>1
    <3>2. \A h \in Evented : InQueue(h) => assoc[h] \/ At(h, "setapp")
      BY DEF WakeInv, Associated
    <3> QED
      BY <2>1, <2>2, <2>5, <3>1, <3>2 DEF Associated
  <2>7. Watched'
    BY <2>1, <2>2 DEF WakeInv, Watched
  <2>8. SmbEventSet'
    <3>1. \A h \in FsSmb : Relied(h)' \/ ~InQueue(h)' => Relied(h) \/ ~InQueue(h)
      BY <1>12, <2>2, <2>4 DEF Add
    <3>2. \A h : At(h, "raise") => At(h, "raise")'
      BY <1>1, <2>1
    <3> QED
      BY <2>1, <3>1, <3>2 DEF WakeInv, SmbEventSet
  <2>9. Noticed'
    BY <1>2, <2>1, <2>4, <2>5 DEF WakeInv, Noticed, Ready
  <2> QED
    BY <2>6, <2>7, <2>8, <2>9 DEF WakeInv
<1>13. CASE AddSetApp(t)
  <2>1. /\ Frame /\ UNCHANGED <<signalled, queued, pipe, arg>>
        /\ pc[t] = "setapp" /\ pc'[t] = "test" /\ arg[t] \in Evented
        /\ assoc'[arg[t]] /\ \A h \in Evented : assoc[h] => assoc'[h]
        /\ \A u \in Thread \ {t} : pc'[u] = pc[u] /\ arg'[u] = arg[u]
    BY <1>13 DEF AddSetApp, Goto, waiterVars, scanVars
  <2>2. KeepsAssoc
    BY <1>1, <2>1
  <2>3. KeepsSmb
    BY <1>1, <2>1
  <2>4. Coming(arg[t])'
    BY <2>1 DEF Coming
  <2>5. KeepsComing
    BY <1>2, <2>1, <2>4 DEF Ready, WakeInv, Noticed
  <2> QED
    BY <1>0, <2>1, <2>2, <2>3, <2>5
<1>14. CASE AddTest(t)
  <2>1. /\ Frame /\ UNCHANGED <<assoc, signalled, queued, pipe>>
        /\ pc[t] = "test" /\ arg[t] \in Evented
        /\ \A u \in Thread \ {t} : pc'[u] = pc[u] /\ arg'[u] = arg[u]
    BY <1>14 DEF AddTest, Goto, Done, eventVars, waiterVars, scanVars
  <2>2. KeepsAssoc
    BY <1>1, <2>1
  <2>3. KeepsSmb
    BY <1>1, <2>1
  <2>4. PICK h \in Evented : h = arg[t]
    BY <2>1
  <2>5. ASSUME Relied(h) /\ Ready(h) => Coming(h)' PROVE WakeInv'
    <3>1. \A g \in Evented : Ready(g)' <=> Ready(g)
      BY <2>1 DEF Ready
    <3>2. KeepsComing
      BY <1>2, <2>1, <2>4, <2>5, <3>1 DEF WakeInv, Noticed
    <3> QED
      BY <1>0, <2>1, <2>2, <2>3, <3>2
  <2>6. CASE IF h \in WaitQ THEN queued[h] > 0 ELSE signalled[h]
    <3>1. pc'[t] = "signal" /\ arg'[t] = h
      BY <1>14, <2>4, <2>6 DEF AddTest, Goto
    <3> QED
      BY <2>5, <3>1 DEF Coming
  <2>7. CASE h \in FsSmb /\ queued[h] > 0 /\ ~signalled[h]
    <3>1. ASSUME Relied(h) PROVE Coming(h)'
      <4>1. At(h, "raise")
        BY <2>7, <3>1 DEF WakeInv, SmbEventSet
      <4>2. At(h, "raise")'
        BY <1>1, <2>1, <4>1
      <4> QED
        BY <4>2 DEF At, Coming
    <3> QED
      BY <2>5, <3>1
  <2> QED
    BY <2>5, <2>6, <2>7 DEF Ready
<1>15. CASE AddSignal(t)
  <2>1. arg[t] \in Evented
    BY <1>15 DEF AddSignal
  <2> QED
    BY <1>6, <1>7, <1>15, <2>1 DEF AddSignal, Done, eventVars, waiterVars, scanVars
<1>16. CASE Wake(t)
  BY <1>6, <1>7, <1>16 DEF Wake, eventVars, threadVars, waiterVars, scanVars
<1>17. ASSUME NEW x \in Timer, Rearm(t, x) PROVE WakeInv'
  <2>1. /\ Frame
        /\ UNCHANGED <<assoc, signalled, queued, pipe, pc, arg>>
    BY <1>17 DEF Rearm, eventVars, threadVars, waiterVars, scanVars
  <2>2. KeepsAssoc /\ KeepsSmb
    BY <2>1 DEF At
  <2>3. KeepsComing
    BY <2>1 DEF Ready, Coming, WakeInv, Noticed
  <2> QED
    BY <1>0, <2>1, <2>2, <2>3
<1> QED
  BY <1>3, <1>4, <1>5, <1>8, <1>9, <1>10, <1>11, <1>12, <1>13, <1>14, <1>15, <1>16, <1>17
     DEF Start, Continue

(* The invariant that explains NoLostWakeup.                                 *)
THEOREM WakeInvariant == Spec => []WakeInv
<1>1. Init => WakeInv
  BY DEF Init, WakeInv, Associated, Watched, SmbEventSet, Noticed, InQueue, Relied, Covered
<1>2. TypeOK /\ TypeOK' /\ WakeInv /\ [Next]_vars => WakeInv'
  <2> SUFFICES ASSUME TypeOK, TypeOK', WakeInv, [Next]_vars PROVE WakeInv'
    OBVIOUS
  <2>1. ASSUME NEW t \in Thread, Start(t) \/ Continue(t) PROVE WakeInv'
    BY <2>1, ThreadKeepsWakeInv
  <2>2. CASE WaiterRuns \/ PollTimeout \/ PollFails
    BY <2>2, WaiterKeepsWakeInv
  <2>3. ASSUME UNCHANGED <<hHandleQueue, eventVars, pipe, threadVars, wpc, pos, registered,
                           candidate, triggered>>
        PROVE  WakeInv'
    BY <2>3 DEF WakeInv, Associated, Watched, SmbEventSet, Noticed, InQueue, Relied, Covered,
                At, Coming, Ready, eventVars, threadVars
  <2>4. ASSUME NEW h \in Fd, FdBecomesReady(h) PROVE WakeInv'
    BY <2>3, <2>4 DEF FdBecomesReady, waiterVars, scanVars
  <2>5. CASE Tick
    BY <2>3, <2>5 DEF Tick
  <2>6. CASE UNCHANGED vars
    BY <2>3, <2>6 DEF vars, waiterVars, scanVars
  <2> QED
    BY <2>1, <2>2, <2>4, <2>5, <2>6 DEF Next, Environment
<1> QED
  BY <1>1, <1>2, TypeCorrect, PTL DEF Spec

(* No lost wakeup: the scheduler thread never sleeps in poll, with nothing   *)
(* in the pipe, on a ready handle whose wakeup no thread is about to write.  *)
THEOREM NoWakeupLost == Spec => []NoLostWakeup
<1>1. TypeOK /\ WakeInv => NoLostWakeup
  BY DEF WakeInv, Noticed, NoLostWakeup, Asleep, Relied
<1> QED
  BY <1>1, TypeCorrect, WakeInvariant, PTL
=============================================================================
