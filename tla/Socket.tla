------------------------------- MODULE Socket -------------------------------
(***************************************************************************)
(* The sockets of src/src/socket_darwin.c: OFC_SOCKET_IMPL records behind  *)
(* handles, the descriptors of the process and what the kernel knows of    *)
(* them.  Any number of threads use sockets, each thread its own; what     *)
(* they share are the descriptors, which the kernel gives out again as     *)
(* soon as they are closed.                                                *)
(*                                                                         *)
(* One of the threads, the scheduler, watches its sockets with             *)
(* ofc_waitset_wait_impl (src/src/waitset_darwin.c), which copies their    *)
(* descriptors and masks, polls, and stores what it has found in the       *)
(* socket it returns.  The other handles of the set and its pipe are those *)
(* of module WaitSet; here they only make a wait return without a socket.  *)
(*                                                                         *)
(* A call that fails, or that would block, changes nothing: it is the same *)
(* as a call that is not made, or made later, and has no action.           *)
(***************************************************************************)
EXTENDS Sequences, Naturals

CONSTANTS
  Sock,       \* the OFC_SOCKET_IMPL records and the handles that name them
  User,       \* the threads that use them
  Sched,      \* the one of them that waits for its sockets
  UserOf,     \* the thread each socket belongs to
  Descriptor, \* the descriptors the process may have open
  Closed,     \* -1
  Condition,  \* the conditions of poll that may arise on each socket
  Wanted,     \* the sets of event types that are enabled for each socket
  Switched    \* the sockets whose blocking mode is set

EventType == {"CLOSE", "ACCEPT", "ADDRESSCHANGE", "QOS", "QOB", "READ", "WRITE"}

PollBit == {"POLLHUP", "POLLIN", "POLLERR", "POLLPRI", "POLLRDBAND", "POLLWRBAND", "POLLOUT"}

ASSUME SocketAssumption ==
  /\ UserOf \in [Sock -> User] /\ Sched \in User
  /\ Closed \notin Descriptor \cup Sock
  /\ Condition \in [Sock -> SUBSET PollBit]
  /\ Wanted \in [Sock -> SUBSET SUBSET EventType]
  /\ Switched \subseteq Sock

VARIABLES
  record,    \* each OFC_SOCKET_IMPL: "none" or "live"
  handle,    \* its handle: "none" or "valid"
  socket,    \* OFC_SOCKET_IMPL.socket
  events,    \* OFC_SOCKET_IMPL.events
  revents,   \* OFC_SOCKET_IMPL.revents
  open,      \* the socket each descriptor was opened for, or Closed
  conn,      \* what each descriptor is to the kernel
  cond,      \* the conditions poll would find on each descriptor
  nonblock,  \* the descriptors that have O_NONBLOCK
  pc, arg,   \* where each thread is, and the socket it works on
  queue,     \* the sockets in hHandleQueue of the scheduler's wait set, in order
  list,      \* darwin_handle_list and ofc_handle_list, without the pipe
  hit        \* the socket poll has reported, and its revents

recordVars == <<record, handle, socket, events, revents>>
kernelVars == <<open, conn, cond, nonblock>>
waitVars == <<queue, list, hit>>
vars == <<recordVars, kernelVars, pc, arg, waitVars>>

Watchable == {s \in Sock : UserOf[s] = Sched}
NoHit == [h |-> Closed, revents |-> {}]
InSet(s) == \E i \in 1..Len(queue) : queue[i] = s

TypeOK ==
  /\ record \in [Sock -> {"none", "live"}]
  /\ handle \in [Sock -> {"none", "valid"}]
  /\ \A s \in Sock : handle[s] = "valid" => record[s] # "none"
  /\ socket \in [Sock -> Descriptor \cup {Closed}]
  /\ events \in [Sock -> SUBSET PollBit]
  /\ revents \in [Sock -> SUBSET (PollBit \cup {"POLLNVAL"})]
  /\ open \in [Descriptor -> Sock \cup {Closed}]
  /\ conn \in [Descriptor -> {"fresh", "listening", "connected"}]
  /\ cond \in [Descriptor -> SUBSET PollBit]
  /\ nonblock \in SUBSET Descriptor
  /\ pc \in [User -> {"idle", "closed", "free", "poll", "store", "returned"}]
  /\ arg \in [User -> Sock \cup {Closed}]
  /\ \A t \in User : /\ pc[t] \in {"closed", "free"} => arg[t] \in Sock
                    /\ pc[t] \in {"poll", "store", "returned"} => t = Sched
  /\ queue \in Seq(Watchable)
  /\ list \in Seq([h : Watchable, fd : Descriptor \cup {Closed}, events : SUBSET PollBit])
  /\ hit \in [h : Watchable \cup {Closed}, revents : SUBSET (PollBit \cup {"POLLNVAL"})]
  /\ pc[Sched] \in {"store", "returned"} => hit.h \in Watchable

Init ==
  /\ record = [s \in Sock |-> "none"] /\ handle = [s \in Sock |-> "none"]
  /\ socket = [s \in Sock |-> Closed]
  /\ events = [s \in Sock |-> {}] /\ revents = [s \in Sock |-> {}]
  /\ open = [d \in Descriptor |-> Closed]
  /\ conn = [d \in Descriptor |-> "fresh"]
  /\ cond = [d \in Descriptor |-> {}]
  /\ nonblock = {}
  /\ pc = [t \in User |-> "idle"] /\ arg = [t \in User |-> Closed]
  /\ queue = <<>> /\ list = <<>> /\ hit = NoHit
-----------------------------------------------------------------------------
(***************************************************************************)
(* The masks.                                                              *)
(***************************************************************************)
(* ofc_socket_impl_enable: event types to what poll is asked for.            *)
EnableBits(type) ==
  UNION {CASE t = "CLOSE" -> {"POLLHUP"} [] t = "ACCEPT" -> {"POLLIN"}
           [] t = "ADDRESSCHANGE" -> {"POLLERR"} [] t = "QOS" -> {"POLLPRI"}
           [] t = "QOB" -> {"POLLRDBAND", "POLLWRBAND"}
           [] t = "READ" -> {"POLLIN"} [] t = "WRITE" -> {"POLLOUT"} : t \in type}

(* ofc_socket_impl_test: what poll has found to event types; POLLNVAL is     *)
(* none of them.                                                             *)
TestTypes(bits) ==
  UNION {CASE b = "POLLHUP" -> {"CLOSE"} [] b = "POLLIN" -> {"ACCEPT", "READ"}
           [] b = "POLLERR" -> {"ADDRESSCHANGE"} [] b = "POLLPRI" -> {"QOS"}
           [] b \in {"POLLRDBAND", "POLLWRBAND"} -> {"QOB"}
           [] b = "POLLOUT" -> {"WRITE"} [] b = "POLLNVAL" -> {} : b \in bits}
-----------------------------------------------------------------------------
(***************************************************************************)
(* What the operations have in common.                                     *)
(***************************************************************************)
Goto(t, l, s) == pc' = [pc EXCEPT ![t] = l] /\ arg' = [arg EXCEPT ![t] = s]

(* The thread of s calls an operation on s, whose handle can be locked ...   *)
Calls(s) == pc[UserOf[s]] = "idle" /\ handle[s] = "valid"

(* ... and whose system call finds a descriptor.                             *)
Reaches(s) == Calls(s) /\ socket[s] # Closed

(* socket and accept open a descriptor for s, which is the kernel's choice   *)
(* among those that are not in use.                                          *)
Open(s, d, state) ==
  /\ open[d] = Closed
  /\ open' = [open EXCEPT ![d] = s]
  /\ conn' = [conn EXCEPT ![d] = state]
  /\ record' = [record EXCEPT ![s] = "live"]
  /\ socket' = [socket EXCEPT ![s] = d]
  /\ handle' = [handle EXCEPT ![s] = "valid"]

(* close: the descriptor may be given out again at once; closing -1 fails.   *)
Close(s) ==
  /\ open' = [d \in Descriptor |-> IF d = socket[s] THEN Closed ELSE open[d]]
  /\ conn' = [d \in Descriptor |-> IF d = socket[s] THEN "fresh" ELSE conn[d]]
  /\ cond' = [d \in Descriptor |-> IF d = socket[s] THEN {} ELSE cond[d]]
  /\ nonblock' = nonblock \ {socket[s]}
-----------------------------------------------------------------------------
(* ofc_socket_impl_create; it frees the record again, and returns no handle, *)
(* if there is no descriptor.                                                *)
Create(s, d) ==
  /\ pc[UserOf[s]] = "idle" /\ record[s] = "none" /\ ~InSet(s)
  /\ Open(s, d, "fresh")
  /\ events' = [events EXCEPT ![s] = {}] /\ revents' = [revents EXCEPT ![s] = {}]
  /\ UNCHANGED <<cond, nonblock, pc, arg, waitVars>>

(* ofc_socket_impl_connect: established, or in progress.                     *)
Connect(s) ==
  /\ Reaches(s) /\ conn[socket[s]] = "fresh"
  /\ conn' = [conn EXCEPT ![socket[s]] = "connected"]
  /\ UNCHANGED <<recordVars, open, cond, nonblock, pc, arg, waitVars>>

(* ofc_socket_impl_listen.                                                   *)
Listen(s) ==
  /\ Reaches(s) /\ conn[socket[s]] = "fresh"
  /\ conn' = [conn EXCEPT ![socket[s]] = "listening"]
  /\ UNCHANGED <<recordVars, open, cond, nonblock, pc, arg, waitVars>>

(* ofc_socket_impl_accept: the masks of the new record are what was in the   *)
(* memory; its descriptor has the mode of the listening one.                 *)
Accept(s, n, d) ==
  /\ Reaches(s) /\ conn[socket[s]] = "listening" /\ "POLLIN" \in cond[socket[s]]
  /\ UserOf[n] = UserOf[s] /\ record[n] = "none" /\ ~InSet(n)
  /\ Open(n, d, "connected")
  /\ \E e, r \in SUBSET Condition[n] : /\ events' = [events EXCEPT ![n] = e]
                                    /\ revents' = [revents EXCEPT ![n] = r]
  /\ \/ UNCHANGED cond
     \/ cond' = [cond EXCEPT ![socket[s]] = {}]
  /\ nonblock' = IF socket[s] \in nonblock THEN nonblock \cup {d} ELSE nonblock
  /\ UNCHANGED <<pc, arg, waitVars>>

(* ofc_socket_impl_no_block: whatever onoff says, the socket does not block. *)
NoBlock(s, onoff) ==
  /\ Reaches(s) /\ s \in Switched
  /\ nonblock' = nonblock \cup {socket[s]}
  /\ UNCHANGED <<recordVars, open, conn, cond, pc, arg, waitVars>>

(* Sending and receiving may use up what poll would report.                  *)
Transfer(s, bit) ==
  /\ Reaches(s) /\ conn[socket[s]] = "connected" /\ bit \in cond[socket[s]]
  /\ cond' = [cond EXCEPT ![socket[s]] = @ \ {bit}]
  /\ UNCHANGED <<recordVars, open, conn, nonblock, pc, arg, waitVars>>

(* ofc_socket_impl_send and ofc_socket_impl_sendto.                          *)
Send(s) == Transfer(s, "POLLOUT")

(* ofc_socket_impl_recv and ofc_socket_impl_recv_from.                       *)
Recv(s) == Transfer(s, "POLLIN")

(* ofc_socket_impl_enable: the mask is replaced.                             *)
Enable(s, type) ==
  /\ Calls(s)
  /\ events' = [events EXCEPT ![s] = EnableBits(type)]
  /\ UNCHANGED <<record, handle, socket, revents, kernelVars, pc, arg, waitVars>>
-----------------------------------------------------------------------------
(* ofc_socket_impl_close: close, ...                                         *)
CloseDescriptor(s) ==
  /\ Calls(s)
  /\ Close(s)
  /\ Goto(UserOf[s], "closed", s)
  /\ UNCHANGED <<recordVars, waitVars>>

(* Mutant: the closed descriptor stays in the record.                        *)
CloseForgetMissing(s) ==
  /\ pc[UserOf[s]] = "closed" /\ arg[UserOf[s]] = s
  /\ Goto(UserOf[s], "idle", Closed)
  /\ UNCHANGED <<recordVars, kernelVars, waitVars>>

(* ... then forget the descriptor.                                           *)
CloseForget(s) ==
  /\ pc[UserOf[s]] = "closed" /\ arg[UserOf[s]] = s
  /\ socket' = [socket EXCEPT ![s] = Closed]
  /\ Goto(UserOf[s], "idle", Closed)
  /\ UNCHANGED <<record, handle, events, revents, kernelVars, waitVars>>

(* Mutant: the record is freed with its descriptor open.                     *)
DestroyNoClose(s) ==
  /\ Calls(s)
  /\ Goto(UserOf[s], "free", s)
  /\ UNCHANGED <<recordVars, kernelVars, waitVars>>

(* ofc_socket_impl_destroy: close the descriptor unless that is done, ...    *)
Destroy(s) ==
  /\ Calls(s)
  /\ Close(s)
  /\ Goto(UserOf[s], "free", s)
  /\ UNCHANGED <<recordVars, waitVars>>

(* Mutant: the handle is left valid.                                         *)
DestroyHandleMissing(s) ==
  /\ pc[UserOf[s]] = "free" /\ arg[UserOf[s]] = s
  /\ record' = [record EXCEPT ![s] = "none"]
  /\ socket' = [socket EXCEPT ![s] = Closed]
  /\ events' = [events EXCEPT ![s] = {}] /\ revents' = [revents EXCEPT ![s] = {}]
  /\ Goto(UserOf[s], "idle", Closed)
  /\ UNCHANGED <<handle, kernelVars, waitVars>>

(* ... free the record with all that is in it, and invalidate the handle,    *)
(* which no other thread uses; both may serve for another socket.            *)
DestroyFree(s) ==
  /\ pc[UserOf[s]] = "free" /\ arg[UserOf[s]] = s
  /\ record' = [record EXCEPT ![s] = "none"]
  /\ handle' = [handle EXCEPT ![s] = "none"]
  /\ socket' = [socket EXCEPT ![s] = Closed]
  /\ events' = [events EXCEPT ![s] = {}] /\ revents' = [revents EXCEPT ![s] = {}]
  /\ Goto(UserOf[s], "idle", Closed)
  /\ UNCHANGED <<kernelVars, waitVars>>
-----------------------------------------------------------------------------
(* The network: a condition arises on a descriptor, ...                      *)
Arise(d, bit) ==
  /\ open[d] # Closed /\ bit \in Condition[open[d]] \ cond[d]
  /\ conn[d] = "connected" \/ (conn[d] = "listening" /\ bit = "POLLIN")
  /\ cond' = [cond EXCEPT ![d] = @ \cup {bit}]
  /\ UNCHANGED <<recordVars, open, conn, nonblock, pc, arg, waitVars>>

(* ... or a connection that nobody has accepted goes away.                   *)
Abort(d) ==
  /\ conn[d] = "listening" /\ cond[d] # {}
  /\ cond' = [cond EXCEPT ![d] = {}]
  /\ UNCHANGED <<recordVars, open, conn, nonblock, pc, arg, waitVars>>
-----------------------------------------------------------------------------
(***************************************************************************)
(* The scheduler waits for its sockets.                                    *)
(***************************************************************************)
(* The application adds a socket to the set of its scheduler, ...            *)
Watch(s) ==
  /\ pc[Sched] = "idle" /\ handle[s] = "valid" /\ ~InSet(s)
  /\ queue' = Append(queue, s)
  /\ UNCHANGED <<recordVars, kernelVars, pc, arg, list, hit>>

(* ... and takes it out, at the latest when another socket gets its handle.  *)
Unwatch(i) ==
  /\ pc[Sched] = "idle"
  /\ queue' = [j \in 1..(Len(queue) - 1) |-> IF j < i THEN queue[j] ELSE queue[j + 1]]
  /\ UNCHANGED <<recordVars, kernelVars, pc, arg, list, hit>>

(* What ofc_socket_impl_get_fd and ofc_socket_impl_get_event say of s now: a *)
(* socket that is closed, or whose handle is gone, has the descriptor -1.    *)
PollEntry(s) == [h |-> s, fd |-> IF handle[s] = "valid" THEN socket[s] ELSE Closed,
                 events |-> IF handle[s] = "valid" THEN events[s] ELSE {}]

(* Mutant: the last socket of the set is left out.                           *)
CollectShort ==
  /\ pc[Sched] = "idle" /\ Goto(Sched, "poll", Closed)
  /\ list' = [i \in 1..(IF queue = <<>> THEN 0 ELSE Len(queue) - 1) |-> PollEntry(queue[i])]
  /\ UNCHANGED <<recordVars, kernelVars, queue, hit>>

(* ofc_waitset_wait_impl up to the poll: an entry for every socket.          *)
Collect ==
  /\ pc[Sched] = "idle" /\ Goto(Sched, "poll", Closed)
  /\ list' = [i \in 1..Len(queue) |-> PollEntry(queue[i])]
  /\ UNCHANGED <<recordVars, kernelVars, queue, hit>>

(* What poll finds for an entry: -1 is passed over, a descriptor that is not *)
(* open is reported as such, and hangups and errors need no mask.            *)
PollFinds(e) ==
  CASE e.fd = Closed -> {}
    [] e.fd # Closed /\ open[e.fd] = Closed -> {"POLLNVAL"}
    [] OTHER -> cond[e.fd] \cap (e.events \cup {"POLLHUP", "POLLERR"})

(* poll returns, and the first entry that has revents counts.                *)
PollReady(i) ==
  /\ pc[Sched] = "poll" /\ PollFinds(list[i]) # {}
  /\ \A j \in 1..(i - 1) : PollFinds(list[j]) = {}
  /\ hit' = [h |-> list[i].h, revents |-> PollFinds(list[i])]
  /\ Goto(Sched, "store", Closed) /\ list' = <<>>
  /\ UNCHANGED <<recordVars, kernelVars, queue>>

(* A handle that is ready before the poll, the pipe, a timeout or a signal   *)
(* ends the wait.                                                            *)
PollOther ==
  /\ pc[Sched] = "poll" /\ Goto(Sched, "idle", Closed) /\ list' = <<>>
  /\ UNCHANGED <<recordVars, kernelVars, queue, hit>>

(* Mutant: what poll has found is added to what it found before.             *)
SetEventOr ==
  /\ pc[Sched] = "store" /\ Goto(Sched, "returned", Closed)
  /\ revents' = [revents EXCEPT ![hit.h] = @ \cup hit.revents]
  /\ UNCHANGED <<record, handle, socket, events, kernelVars, waitVars>>

(* ofc_socket_impl_set_event, if the handle can be locked; the wait returns  *)
(* the socket.                                                               *)
SetEvent ==
  /\ pc[Sched] = "store" /\ Goto(Sched, "returned", Closed)
  /\ revents' = IF handle[hit.h] = "valid" THEN [revents EXCEPT ![hit.h] = hit.revents]
                                           ELSE revents
  /\ UNCHANGED <<record, handle, socket, events, kernelVars, waitVars>>

(* The scheduler calls the application of the socket.                        *)
Dispatch ==
  /\ pc[Sched] = "returned" /\ Goto(Sched, "idle", Closed)
  /\ hit' = NoHit
  /\ UNCHANGED <<recordVars, kernelVars, queue, list>>
-----------------------------------------------------------------------------
Operate(s) ==
  \/ \E d \in Descriptor : Create(s, d) \/ \E n \in Sock : Accept(s, n, d)
  \/ Connect(s) \/ Listen(s) \/ \E onoff \in BOOLEAN : NoBlock(s, onoff)
  \/ Send(s) \/ Recv(s) \/ \E type \in Wanted[s] : Enable(s, type)
  \/ CloseDescriptor(s) \/ Destroy(s)

Continue(s) == CloseForget(s) \/ DestroyFree(s)

Wait == (\E i \in 1..Len(list) : PollReady(i)) \/ SetEvent \/ Dispatch

Next == \/ \E s \in Sock : Operate(s) \/ Continue(s)
        \/ \E d \in Descriptor : Abort(d) \/ \E bit \in PollBit : Arise(d, bit)
        \/ (\E s \in Watchable : Watch(s)) \/ (\E i \in 1..Len(queue) : Unwatch(i))
        \/ Collect \/ Wait \/ PollOther

(* An operation that is begun ends, a poll that has something returns, and   *)
(* applications return to their scheduler however much they do in between.   *)
Fairness == /\ \A s \in Sock : WF_vars(Continue(s))
            /\ WF_vars(Wait)
            /\ SF_vars(Collect)

Spec == Init /\ [][Next]_vars /\ Fairness
-----------------------------------------------------------------------------
(* Every socket that names a descriptor has it for itself: closing one       *)
(* socket, though its descriptor is given out again at once, and destroying  *)
(* it later never takes the descriptor of another thread's socket away.      *)
OwnDescriptor ==
  \A s \in Sock : socket[s] # Closed /\ arg[UserOf[s]] # s => open[socket[s]] = s

(* No descriptor is left open that no socket names any more.                 *)
NoDescriptorLeak ==
  \A d \in Descriptor : open[d] # Closed =>
    record[open[d]] = "live" /\ socket[open[d]] = d

(* The descriptors are copied before the poll, and other threads open and    *)
(* close theirs during it: no entry has a number that is another's by now.   *)
PolledIsOwn ==
  pc[Sched] = "poll" => \A i \in 1..Len(list) : list[i].fd # Closed => open[list[i].fd] = list[i].h

(* What ofc_socket_impl_test says of a socket that a wait returns is so: it  *)
(* names some event, and every one of them is one the kernel had for this    *)
(* socket in this wait, not one of an earlier wait, not what was in the      *)
(* memory of an accepted socket, and not one of another descriptor.  Only a  *)
(* connection nobody has accepted may be gone again.                         *)
ReportIsTrue ==
  pc[Sched] = "returned" =>
    LET s == hit.h
    IN  /\ handle[s] = "valid" /\ socket[s] # Closed /\ TestTypes(revents[s]) # {}
        /\ revents[s] \subseteq cond[socket[s]] \/ conn[socket[s]] = "listening"

(* A socket for which poll would have something ...                          *)
Ready(s) ==
  handle[s] = "valid" /\ socket[s] # Closed /\ PollFinds(PollEntry(s)) # {}

(* ... and that has no such socket before it in the set.                     *)
HeadReady(s) ==
  \E i \in 1..Len(queue) : /\ queue[i] = s /\ Ready(s)
                           /\ \A j \in 1..(i - 1) : ~Ready(queue[j])

(* A socket that stays ready, with none that is ready before it in the set,  *)
(* is returned again and again, unless other handles keep ending the waits.  *)
HeadServed ==
  \A s \in Watchable :
    <>[]HeadReady(s) /\ <>[][~PollOther]_vars => []<>(pc[Sched] = "returned" /\ hit.h = s)

(* The comment on ofc_socket_impl_no_block says of onoff "Whether setting    *)
(* blocking on or off": the two values have different effects.               *)
NoBlockHonoursOnOff ==
  [][\A s \in Sock : NoBlock(s, FALSE) => socket[s] \notin nonblock']_vars
=============================================================================
