----------------------------- MODULE EventSpec -----------------------------
(***************************************************************************)
(* What an event promises the threads that wait for it (the abstraction of *)
(* src/src/event_darwin.c): setting it is one step that releases everybody *)
(* who sleeps on it, and a thread that finds it set does not sleep.        *)
(***************************************************************************)
CONSTANT Thread

VARIABLES
  type,      \* OFC_EVENT_AUTO or OFC_EVENT_MANUAL, as "AUTO", "MANUAL"
  set,       \* the event is set
  waiter     \* waiter[t]: "none", "asleep" or "released"

vars == <<type, set, waiter>>

Init == /\ type \in {"AUTO", "MANUAL"}
        /\ set = FALSE
        /\ waiter = [t \in Thread |-> "none"]

Set == /\ set' = TRUE
       /\ waiter' = [t \in Thread |-> IF waiter[t] = "asleep" THEN "released" ELSE waiter[t]]
       /\ UNCHANGED type

Reset == set' = FALSE /\ UNCHANGED <<type, waiter>>

(* A thread that comes to wait sleeps unless the event is set ...            *)
Arrive(t) == /\ waiter[t] = "none"
             /\ waiter' = [waiter EXCEPT ![t] = IF set THEN "released" ELSE "asleep"]
             /\ UNCHANGED <<type, set>>

(* ... and consumes the event, if it is automatic, when it leaves.           *)
Return(t) == /\ waiter[t] = "released"
             /\ set' = (set /\ type # "AUTO")
             /\ waiter' = [waiter EXCEPT ![t] = "none"]
             /\ UNCHANGED type

(* POSIX lets pthread_cond_wait return without a reason.                     *)
Spurious(t) == /\ waiter[t] = "asleep"
               /\ waiter' = [waiter EXCEPT ![t] = "released"]
               /\ UNCHANGED <<type, set>>

Next == \/ Set \/ Reset
        \/ \E t \in Thread : Arrive(t) \/ Return(t) \/ Spurious(t)

Spec == Init /\ [][Next]_vars
=============================================================================
