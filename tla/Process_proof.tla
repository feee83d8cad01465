--------------------------- MODULE Process_proof ---------------------------
(***************************************************************************)
(* Theorems about Process, for any number of callers.                      *)
(***************************************************************************)
EXTENDS Process, TLAPS

(* What the state of the first child, and the status that waitpid has        *)
(* stored, say of the daemon; and where the caller is when they do.          *)
StatusInv ==
  \A p \in Caller :
    /\ child[p] \in {"none", "fork", "crash", "SIGABRT"} => daemon[p] = "none"
    /\ child[p] \in {"exit", "EX_OK"} => daemon[p] # "none"
    /\ ret[p] = "EX_OK" => daemon[p] # "none"
    /\ ret[p] = "SIGABRT" => daemon[p] = "none"
    /\ ret[p] # "garbage" => child[p] = "reaped"
    /\ pc[p] \in {"fork", "wait"} => ret[p] = "garbage"
    /\ pc[p] = "fork" => child[p] = "none"
    /\ pc[p] = "status" /\ p \in blocked => ret[p] # "garbage"
    /\ ret[p] = "SIGABRT" => hProcess[p] # "handle"
    /\ pc[p] \in {"fork", "wait", "status"} => hProcess[p] = "none"

ProcessInv == TypeOK /\ StatusInv
-----------------------------------------------------------------------------
(* The callers: ProcessInv survives their steps, ...                         *)
LEMMA CallerStep ==
  ASSUME ProcessInv, NEW p \in Caller,
         BlockSignal(p) \/ Signal(p) \/ Term(p) \/ Exec(p) \/ Continue(p)
  PROVE  ProcessInv'
<1> USE DEF ProcessInv, TypeOK, StatusInv, Status
<1>1. CASE BlockSignal(p)
  BY <1>1 DEF BlockSignal
<1>2. CASE Signal(p)
  BY <1>2 DEF Signal, Killed, Alive
<1>3. CASE Term(p)
  BY <1>3 DEF Term
<1>4. CASE Exec(p)
  BY <1>4 DEF Exec
<1>5. CASE Fork(p)
  BY <1>5 DEF Fork, Killed
<1>6. CASE WaitPid(p)
  BY <1>6 DEF WaitPid
<1>7. CASE ExecReturn(p)
  BY <1>7 DEF ExecReturn
<1> QED
  BY <1>1, <1>2, <1>3, <1>4, <1>5, <1>6, <1>7 DEF Continue

(* ... and those of their children and daemons.                              *)
LEMMA ChildStep ==
  ASSUME ProcessInv, NEW p \in Caller, ChildFork(p) \/ ChildExit(p) \/ DaemonExec(p)
  PROVE  ProcessInv'
<1> USE DEF ProcessInv, TypeOK, StatusInv, Status
<1>1. CASE ChildFork(p)
  BY <1>1 DEF ChildFork
<1>2. CASE ChildExit(p)
  BY <1>2 DEF ChildExit
<1>3. CASE DaemonExec(p)
  BY <1>3 DEF DaemonExec
<1> QED
  BY <1>1, <1>2, <1>3

(* The inductive invariant of starting a daemon.                             *)
THEOREM ProcessInvariant == Spec => []ProcessInv
<1>1. Init => ProcessInv
  BY DEF Init, ProcessInv, TypeOK, StatusInv, Status
<1>2. ProcessInv /\ [Next]_vars => ProcessInv'
  <2> SUFFICES ASSUME ProcessInv, [Next]_vars PROVE ProcessInv'
    OBVIOUS
  <2>1. CASE TermTrap
    BY <2>1 DEF TermTrap, ProcessInv, TypeOK, StatusInv, Status
  <2>2. CASE UNCHANGED vars
    BY <2>2 DEF vars, ProcessInv, TypeOK, StatusInv
  <2> QED
    BY <2>1, <2>2, CallerStep, ChildStep DEF Next
<1> QED
  BY <1>1, <1>2, PTL DEF Spec

(* The variables of the processes have their types.                          *)
THEOREM ProcessTypes == Spec => []TypeOK
BY ProcessInvariant, PTL DEF ProcessInv

(* A handle that ofc_process_exec_impl returned for a status means that the  *)
(* daemon was forked and the first child reaped.                             *)
THEOREM HandleSpawned == Spec => []HandleMeansSpawned
<1>1. ProcessInv => HandleMeansSpawned
  BY DEF ProcessInv, TypeOK, StatusInv, Status, HandleMeansSpawned
<1> QED
  BY <1>1, ProcessInvariant, PTL

(* A caller with SIGTERM blocked is told whether the daemon was forked,      *)
(* whatever signals other callers receive.                                   *)
THEOREM BlockedTold == Spec => BlockedCallerIsTold
<1> DEFINE Told == \A p \in Caller : pc[p] = "status" /\ pc'[p] = "done" /\ p \in blocked =>
                     (hProcess'[p] = "handle" <=> daemon[p] # "none")
<1>1. ProcessInv /\ [Next]_vars => [Told]_vars
  <2> SUFFICES ASSUME ProcessInv, Next, NEW p \in Caller,
                      pc[p] = "status", pc'[p] = "done", p \in blocked
               PROVE  hProcess'[p] = "handle" <=> daemon[p] # "none"
    OBVIOUS
  <2>1. ExecReturn(p)
    BY DEF ProcessInv, TypeOK, Next, TermTrap, BlockSignal, Signal, Killed, Term, Exec, Continue,
           Fork, WaitPid, ExecReturn, ChildFork, ChildExit, DaemonExec
  <2> QED
    BY <2>1 DEF ExecReturn, ProcessInv, TypeOK, StatusInv, Status
<1> QED
  BY <1>1, ProcessInvariant, PTL DEF Spec, BlockedCallerIsTold
=============================================================================
