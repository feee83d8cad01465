--------------------------- MODULE WaitSetHistory ---------------------------
(***************************************************************************)
(* WaitSet with history variables: what has happened since the current     *)
(* call of ofc_waitset_wait_impl began, or since an event was last         *)
(* consumed.  HNext is Next with a value for each of them, so what holds   *)
(* of every behaviour of WaitSet holds of this one's.                      *)
(***************************************************************************)
EXTENDS WaitSet

VARIABLES
  fresh,   \* events set since the wait set last found them set
  seen,    \* handles that were ready, or their event set, during this call
  wakeDue, \* ofc_waitset_wake_impl has been called since a wait last returned
  rearmed  \* timers that were armed again since a call last tested them

hvars == <<vars, fresh, seen, wakeDue, rearmed>>

(* The wait set finds h's automatic event set, and will reset it.            *)
Found(h) ==
  \/ wpc = "scan" /\ triggered = None /\ triggered' = h /\ h \in EventH
  \/ wpc = "probe" /\ wpc' = "consume" /\ candidate = h

Set(h)     == mutex[h] = None /\ mutex'[h] # None
Entering   == wpc = "idle" /\ wpc' = "purge"
Returning  == wpc # "app" /\ wpc' = "app"
Waking     == \E t \in Thread : Wake(t) /\ Len(pipe) < PipeCap
(* The loop over the handles asks for h's wait time.                         *)
Tested(h)  == wpc = "scan" /\ triggered = None /\ pos' = pos + 1 /\ hHandleQueue[pos] = h
ReadyNow   == {h \in Evented : Ready(h) \/ signalled[h]}

HInit == Init /\ fresh = {} /\ seen = {} /\ wakeDue = FALSE /\ rearmed = {}

HNext ==
  /\ Next
  /\ fresh' = {h \in AutoEvent : Set(h) \/ (h \in fresh /\ ~Found(h))}
  /\ seen' = IF Entering THEN ReadyNow ELSE seen \cup ReadyNow'
  /\ wakeDue' = (Waking \/ (wakeDue /\ ~Returning))
  /\ rearmed' = {h \in Timer : left'[h] > left[h] \/ (h \in rearmed /\ ~Tested(h))}

HSpec == HInit /\ [][HNext]_hvars
-----------------------------------------------------------------------------
(* One set, one report: ofc_waitset_wait_impl consumes an event created      *)
(* OFC_EVENT_AUTO in two calls, ofc_event_test and ofc_event_reset, from the *)
(* loop over the handles and from PollEvent; between two times it finds the  *)
(* event set somebody has set it.                                            *)
OneSetOneReport == [][\A h \in AutoEvent : Found(h) => h \in fresh]_hvars

(* What ofc_waitset_wait_impl returns was ready, or its event was set, at    *)
(* some time during the call: an entry of the pipe that is older than the    *)
(* last reset of its event reports nothing.                                  *)
ReportedWasReady == wpc = "app" /\ triggered \in Evented => triggered \in seen

(* The timer a call returns has expired, whichever of several timers the     *)
(* poll timeout was computed from, and however long ago: unless it has been  *)
(* armed again after this call tested it, because the return after a timeout *)
(* (318-319) does not test it again.                                         *)
TimerNotEarly ==
  wpc = "app" /\ triggered \in Timer => left[triggered] = 0 \/ triggered \in rearmed

(* waitset_darwin.c says of the entries it purges "We'll get these before we *)
(* sleep the next time": the scheduler thread does not go to sleep with a    *)
(* wake (an entry OFC_HANDLE_NULL) that no wait has returned for.            *)
PurgedWakeSeen == Asleep => ~wakeDue
=============================================================================
