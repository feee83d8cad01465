------------------------------ MODULE Process ------------------------------
(***************************************************************************)
(* Starting a daemon (src/src/process_darwin.c): ofc_process_exec_impl     *)
(* forks a first child, which forks the daemon and exits at once; the      *)
(* caller takes the exit status of the first child for the outcome.        *)
(* SIGTERM, which ofc_process_term_impl and ofc_process_kill_impl send,    *)
(* interrupts the caller if a trap is installed and the signal not blocked.*)
(***************************************************************************)
CONSTANT Caller  \* the threads that start a daemon each

VARIABLES
  trap,    \* ofc_process_term_trap_impl has installed a handler for SIGTERM
  blocked, \* the callers that have SIGTERM blocked
  pc,      \* where each caller is
  child,   \* the first child of each caller
  daemon,  \* the daemon of each caller
  ret,     \* what waitpid has stored: "garbage" until it stores anything
  hProcess \* what ofc_process_exec_impl returned

vars == <<trap, blocked, pc, child, daemon, ret, hProcess>>

Status == {"EX_OK", "SIGABRT"}

TypeOK ==
  /\ trap \in BOOLEAN /\ blocked \in SUBSET Caller
  /\ pc \in [Caller -> {"idle", "fork", "wait", "status", "done", "killed"}]
  /\ child \in [Caller -> {"none", "fork", "crash", "exit", "reaped"} \cup Status]
  /\ daemon \in [Caller -> {"none", "exec", "runs", "crashed", "terminated"}]
  /\ ret \in [Caller -> {"garbage"} \cup Status]
  /\ hProcess \in [Caller -> {"none", "handle", "invalid"}]

Init ==
  /\ trap = FALSE /\ blocked = {}
  /\ pc = [p \in Caller |-> "idle"]
  /\ child = [p \in Caller |-> "none"]
  /\ daemon = [p \in Caller |-> "none"]
  /\ ret = [p \in Caller |-> "garbage"]
  /\ hProcess = [p \in Caller |-> "none"]

(* ofc_process_crash_impl of a caller, or a SIGTERM nobody traps: the        *)
(* process of all the callers is gone.                                       *)
Killed == pc' = [p \in Caller |-> "killed"]

Alive(p) == pc[p] # "killed"
-----------------------------------------------------------------------------
(* ofc_process_term_trap_impl: no SA_RESTART.                                *)
TermTrap ==
  /\ \E p \in Caller : Alive(p)
  /\ trap' = TRUE
  /\ UNCHANGED <<blocked, pc, child, daemon, ret, hProcess>>

(* ofc_process_block_signal and ofc_process_unblock_signal, for SIGTERM.     *)
BlockSignal(p) ==
  /\ pc[p] \in {"idle", "done"}
  /\ \/ blocked' = blocked \cup {p}
     \/ blocked' = blocked \ {p}
  /\ UNCHANGED <<trap, pc, child, daemon, ret, hProcess>>

(* SIGTERM reaches a caller that has not blocked it: it kills the process,   *)
(* or makes waitpid fail with EINTR, which nobody looks at.                  *)
Signal(p) ==
  /\ Alive(p) /\ p \notin blocked
  /\ IF trap THEN pc' = [pc EXCEPT ![p] = IF @ = "wait" THEN "status" ELSE @] ELSE Killed
  /\ UNCHANGED <<trap, blocked, child, daemon, ret, hProcess>>

(* ofc_process_term_impl: the handle is destroyed, and SIGTERM goes to what  *)
(* the uninitialized pid2 of the parent names: no process, a daemon of any   *)
(* of the callers, or the callers' own (which is Signal).                    *)
Term(p) ==
  /\ pc[p] = "done" /\ hProcess[p] = "handle"
  /\ hProcess' = [hProcess EXCEPT ![p] = "invalid"]
  /\ \/ UNCHANGED daemon
     \/ \E q \in Caller : /\ daemon[q] \in {"exec", "runs"}
                         /\ daemon' = [daemon EXCEPT ![q] = "terminated"]
  /\ UNCHANGED <<trap, blocked, pc, child, ret>>
-----------------------------------------------------------------------------
(* ofc_process_exec_impl, the caller.                                        *)
Exec(p) ==
  /\ pc[p] \in {"idle", "done"}
  /\ pc' = [pc EXCEPT ![p] = "fork"]
  /\ child' = [child EXCEPT ![p] = "none"]
  /\ daemon' = [daemon EXCEPT ![p] = "none"]
  /\ ret' = [ret EXCEPT ![p] = "garbage"]
  /\ hProcess' = [hProcess EXCEPT ![p] = "none"]
  /\ UNCHANGED <<trap, blocked>>

Fork(p) ==
  /\ pc[p] = "fork"
  /\ \/ Killed /\ UNCHANGED child
     \/ /\ pc' = [pc EXCEPT ![p] = "wait"]
        /\ child' = [child EXCEPT ![p] = "fork"]
  /\ UNCHANGED <<trap, blocked, daemon, ret, hProcess>>

(* Mutant: waitpid with WNOHANG.                                             *)
WaitPidNoHang(p) ==
  /\ pc[p] = "wait"
  /\ ret' = [ret EXCEPT ![p] = child[p]]
  /\ child' = [child EXCEPT ![p] = "reaped"]
  /\ pc' = [pc EXCEPT ![p] = "status"]
  /\ UNCHANGED <<trap, blocked, daemon, hProcess>>

WaitPid(p) ==
  /\ pc[p] = "wait" /\ child[p] \in Status
  /\ ret' = [ret EXCEPT ![p] = child[p]]
  /\ child' = [child EXCEPT ![p] = "reaped"]
  /\ pc' = [pc EXCEPT ![p] = "status"]
  /\ UNCHANGED <<trap, blocked, daemon, hProcess>>

(* Mutant: the status is not looked at.                                      *)
ExecReturnUnchecked(p) ==
  /\ pc[p] = "status"
  /\ hProcess' = [hProcess EXCEPT ![p] = "handle"]
  /\ pc' = [pc EXCEPT ![p] = "done"]
  /\ UNCHANGED <<trap, blocked, child, daemon, ret>>

(* An uninitialized ret may compare either way.                              *)
ExecReturn(p) ==
  /\ pc[p] = "status"
  /\ \/ ret[p] # "SIGABRT" /\ hProcess' = [hProcess EXCEPT ![p] = "handle"]
     \/ ret[p] # "EX_OK" /\ hProcess' = [hProcess EXCEPT ![p] = "invalid"]
  /\ pc' = [pc EXCEPT ![p] = "done"]
  /\ UNCHANGED <<trap, blocked, child, daemon, ret>>

(* ... the first child, ...                                                  *)
ChildFork(p) ==
  /\ child[p] = "fork"
  /\ \/ /\ child' = [child EXCEPT ![p] = "exit"]
        /\ daemon' = [daemon EXCEPT ![p] = "exec"]
     \/ child' = [child EXCEPT ![p] = "crash"] /\ UNCHANGED daemon
  /\ UNCHANGED <<trap, blocked, pc, ret, hProcess>>

(* Mutant: the first child exits with EX_OK whatever has happened.           *)
ChildExitOK(p) ==
  /\ child[p] \in {"exit", "crash"}
  /\ child' = [child EXCEPT ![p] = "EX_OK"]
  /\ UNCHANGED <<trap, blocked, pc, daemon, ret, hProcess>>

(* Mutant: the first child outlives its daemon.                              *)
ChildExitLate(p) ==
  /\ child[p] = "crash" \/ (child[p] = "exit" /\ daemon[p] = "crashed")
  /\ child' = [child EXCEPT ![p] = IF @ = "exit" THEN "EX_OK" ELSE "SIGABRT"]
  /\ UNCHANGED <<trap, blocked, pc, daemon, ret, hProcess>>

ChildExit(p) ==
  /\ child[p] \in {"exit", "crash"}
  /\ child' = [child EXCEPT ![p] = IF @ = "exit" THEN "EX_OK" ELSE "SIGABRT"]
  /\ UNCHANGED <<trap, blocked, pc, daemon, ret, hProcess>>

(* ... and the daemon, whose execve nobody waits for.                        *)
DaemonExec(p) ==
  /\ daemon[p] = "exec"
  /\ \E d \in {"runs", "crashed"} : daemon' = [daemon EXCEPT ![p] = d]
  /\ UNCHANGED <<trap, blocked, pc, child, ret, hProcess>>
-----------------------------------------------------------------------------
Continue(p) == Fork(p) \/ WaitPid(p) \/ ExecReturn(p)

Next == \/ TermTrap
        \/ \E p \in Caller : \/ BlockSignal(p) \/ Signal(p) \/ Term(p) \/ Exec(p) \/ Continue(p)
                             \/ ChildFork(p) \/ ChildExit(p) \/ DaemonExec(p)

Spec == Init /\ [][Next]_vars

(* Every process keeps running; nobody need call or send anything.           *)
Fairness == \A p \in Caller : /\ WF_vars(Continue(p)) /\ WF_vars(ChildFork(p))
                              /\ WF_vars(ChildExit(p)) /\ WF_vars(DaemonExec(p))

FairSpec == Spec /\ Fairness
-----------------------------------------------------------------------------
(* A handle that was returned for a status, and not for a garbage ret, means *)
(* that the daemon was forked and that the first child left no zombie.       *)
HandleMeansSpawned ==
  \A p \in Caller : hProcess[p] = "handle" /\ ret[p] # "garbage" =>
                      daemon[p] # "none" /\ child[p] = "reaped"

(* A caller with SIGTERM blocked is told the truth: whether the daemon was   *)
(* forked, whatever signals the other callers receive.                       *)
BlockedCallerIsTold ==
  [][\A p \in Caller : pc[p] = "status" /\ pc'[p] = "done" /\ p \in blocked =>
       (hProcess'[p] = "handle" <=> daemon[p] # "none")]_vars

(* ofc_process_exec_impl returns, unless its process dies.                   *)
ExecReturns == \A p \in Caller : pc[p] = "wait" ~> pc[p] \in {"done", "killed"}

(* process_darwin.c says of the status the first child exits with "This will *)
(* be returned to the parent in his waitpid".                                *)
ParentGetsStatus ==
  \A p \in Caller : pc[p] = "status" => ret[p] \in Status
=============================================================================
