---------------------------- MODULE Socket_proof ----------------------------
(***************************************************************************)
(* Theorems about Socket, for any number of threads, sockets, descriptors  *)
(* and conditions.                                                         *)
(***************************************************************************)
EXTENDS Socket, TLAPS

USE SocketAssumption

(* A record exists with its handle, and names no descriptor without one.     *)
RecordInv ==
  \A s \in Sock : /\ record[s] = "live" <=> handle[s] = "valid"
                  /\ record[s] = "none" => socket[s] = Closed

(* A thread is inside close or destroy with a socket of its own, for which   *)
(* no descriptor is open any more.                                           *)
CloserInv ==
  \A t \in User :
    /\ arg[t] # Closed <=> pc[t] \in {"closed", "free"}
    /\ arg[t] # Closed => /\ UserOf[arg[t]] = t /\ record[arg[t]] = "live"
                          /\ \A d \in Descriptor : open[d] # arg[t]

(* While the scheduler polls, the copies are what the sockets still have.    *)
ListInv ==
  pc[Sched] = "poll" =>
    \A i \in 1..Len(list) : list[i].fd # Closed =>
      handle[list[i].h] = "valid" /\ socket[list[i].h] = list[i].fd

(* What poll has reported stays true until the application sees it.          *)
HitInv ==
  pc[Sched] \in {"store", "returned"} =>
    /\ handle[hit.h] = "valid" /\ socket[hit.h] # Closed
    /\ hit.revents # {} /\ hit.revents \subseteq PollBit
    /\ hit.revents \subseteq cond[socket[hit.h]] \/ conn[socket[hit.h]] = "listening"
    /\ pc[Sched] = "returned" => revents[hit.h] = hit.revents

SocketInv ==
  TypeOK /\ RecordInv /\ CloserInv /\ OwnDescriptor /\ NoDescriptorLeak /\ ListInv /\ HitInv
-----------------------------------------------------------------------------
(* An application's operation on a socket of another thread, or the network, *)
(* does not reach what the scheduler has: two facts about who owns what.     *)
LEMMA IdleOwns ==
  ASSUME SocketInv, NEW s \in Sock, Reaches(s)
  PROVE  /\ socket[s] \in Descriptor /\ open[socket[s]] = s
         /\ pc[Sched] # "idle" => UserOf[s] # Sched
<1>1. UserOf[s] \in User /\ pc[UserOf[s]] = "idle" /\ socket[s] # Closed
  BY DEF Reaches, Calls
<1>2. socket[s] \in Descriptor
  BY <1>1 DEF SocketInv, TypeOK
<1>3. arg[UserOf[s]] = Closed
  BY <1>1 DEF SocketInv, CloserInv
<1>4. arg[UserOf[s]] # s
  BY <1>3
<1>5. open[socket[s]] = s
  BY <1>1, <1>4 DEF SocketInv, OwnDescriptor
<1> QED
  BY <1>1, <1>2, <1>5

(* The descriptor of a socket that the scheduler has polled is its own.      *)
LEMMA PolledOwns ==
  ASSUME SocketInv, NEW h \in Watchable, pc[Sched] \in {"poll", "store", "returned"},
         socket[h] # Closed
  PROVE  socket[h] \in Descriptor /\ open[socket[h]] = h
BY DEF SocketInv, TypeOK, CloserInv, OwnDescriptor, Watchable

LEMMA SeqElement ==
  ASSUME NEW S, NEW q \in Seq(S), NEW i \in 1..Len(q)
  PROVE  q[i] \in S
OBVIOUS

(* The entries of the list are of sockets of the scheduler.                  *)
LEMMA ListEntries ==
  ASSUME TypeOK, NEW i \in 1..Len(list)
  PROVE  /\ list[i].h \in Sock /\ UserOf[list[i].h] = Sched
         /\ list[i].fd \in Descriptor \cup {Closed} /\ list[i].events \in SUBSET PollBit
<1>1. list[i] \in [h : Watchable, fd : Descriptor \cup {Closed}, events : SUBSET PollBit]
  <2>1. list \in Seq([h : Watchable, fd : Descriptor \cup {Closed}, events : SUBSET PollBit])
    BY DEF TypeOK
  <2> QED
    BY <2>1, SeqElement
<1> QED
  BY <1>1 DEF Watchable
-----------------------------------------------------------------------------
(* Operations on a descriptor that stays open.                               *)
LEMMA UseStep ==
  ASSUME SocketInv, NEW s \in Sock,
         Connect(s) \/ Listen(s) \/ (\E onoff \in BOOLEAN : NoBlock(s, onoff))
                    \/ Send(s) \/ Recv(s) \/ (\E type \in Wanted[s] : Enable(s, type))
  PROVE  SocketInv'
<1> USE DEF SocketInv, TypeOK, RecordInv, CloserInv, OwnDescriptor, NoDescriptorLeak,
            ListInv, HitInv, recordVars, waitVars, kernelVars, Watchable
<1>1. CASE Connect(s)
  BY <1>1, IdleOwns, PolledOwns DEF Connect
<1>2. CASE Listen(s)
  BY <1>2, IdleOwns, PolledOwns DEF Listen
<1>3. CASE \E onoff \in BOOLEAN : NoBlock(s, onoff)
  BY <1>3, IdleOwns DEF NoBlock
<1>4. CASE Send(s) \/ Recv(s)
  <2>1. PICK bit \in PollBit : Transfer(s, bit)
    BY <1>4 DEF Send, Recv, PollBit
  <2> QED
    BY <2>1, IdleOwns, PolledOwns DEF Transfer
<1>5. CASE \E type \in Wanted[s] : Enable(s, type)
  <2>1. PICK type \in Wanted[s] : Enable(s, type)
    BY <1>5
  <2>2. EnableBits(type) \in SUBSET PollBit
    BY DEF EnableBits, PollBit, EventType
  <2> QED
    BY <2>1, <2>2 DEF Enable, Calls
<1> QED
  BY <1>1, <1>2, <1>3, <1>4, <1>5

(* The network.                                                              *)
LEMMA NetworkStep ==
  ASSUME SocketInv, NEW d \in Descriptor, Abort(d) \/ (\E bit \in PollBit : Arise(d, bit))
  PROVE  SocketInv'
<1> USE DEF SocketInv, TypeOK, RecordInv, CloserInv, OwnDescriptor, NoDescriptorLeak,
            ListInv, HitInv, recordVars, waitVars, kernelVars, Watchable
<1>1. CASE Abort(d)
  BY <1>1 DEF Abort
<1>2. CASE \E bit \in PollBit : Arise(d, bit)
  BY <1>2 DEF Arise
<1> QED
  BY <1>1, <1>2

(* A descriptor is opened for a record that was free.                        *)
LEMMA OpenStep ==
  ASSUME SocketInv, NEW s \in Sock, NEW d \in Descriptor,
         Create(s, d) \/ (\E n \in Sock : Accept(s, n, d))
  PROVE  SocketInv'
<1> USE DEF SocketInv, TypeOK, RecordInv, CloserInv, OwnDescriptor, NoDescriptorLeak,
            ListInv, HitInv, recordVars, waitVars, kernelVars, Watchable, Open
<1>1. CASE Create(s, d)
  <2>1. TypeOK'
    BY <1>1 DEF Create
  <2>2. RecordInv'
    BY <1>1 DEF Create
  <2>3. CloserInv'
    BY <1>1 DEF Create
  <2>4. OwnDescriptor'
    BY <1>1 DEF Create
  <2>5. NoDescriptorLeak'
    BY <1>1 DEF Create
  <2>6. ListInv'
    BY <1>1 DEF Create
  <2>7. HitInv'
    BY <1>1, PolledOwns DEF Create
  <2> QED
    BY <2>1, <2>2, <2>3, <2>4, <2>5, <2>6, <2>7
<1>2. CASE \E n \in Sock : Accept(s, n, d)
  <2>1. PICK n \in Sock : Accept(s, n, d)
    BY <1>2
  <2> DEFINE l == socket[s]
  <2>0. /\ Reaches(s) /\ open[d] = Closed /\ pc[UserOf[s]] = "idle" /\ UserOf[n] = UserOf[s]
        /\ record[n] = "none" /\ open' = [open EXCEPT ![d] = n]
        /\ conn' = [conn EXCEPT ![d] = "connected"] /\ record' = [record EXCEPT ![n] = "live"]
        /\ socket' = [socket EXCEPT ![n] = d] /\ handle' = [handle EXCEPT ![n] = "valid"]
        /\ nonblock' \in SUBSET Descriptor /\ UNCHANGED <<pc, arg, waitVars>>
    BY <2>1 DEF Accept, Reaches, Calls
  <2>2. l \in Descriptor /\ open[l] = s /\ l # d /\ (pc[Sched] # "idle" => UserOf[s] # Sched)
    BY <2>0, IdleOwns
  <2>10. cond' = cond \/ cond' = [cond EXCEPT ![l] = {}]
    BY <2>1 DEF Accept
  <2>11. cond' \in [Descriptor -> SUBSET PollBit] /\ \A x \in Descriptor \ {l} : cond'[x] = cond[x]
    BY <2>2, <2>10
  <2>12. PICK e, q \in SUBSET Condition[n] : /\ events' = [events EXCEPT ![n] = e]
                                            /\ revents' = [revents EXCEPT ![n] = q]
    BY <2>1 DEF Accept
  <2>3. TypeOK'
    <3>1. events' \in [Sock -> SUBSET PollBit] /\ revents' \in [Sock -> SUBSET (PollBit \cup {"POLLNVAL"})]
      BY <2>12
    <3>2. /\ record' \in [Sock -> {"none", "live"}] /\ handle' \in [Sock -> {"none", "valid"}]
          /\ socket' \in [Sock -> Descriptor \cup {Closed}]
          /\ open' \in [Descriptor -> Sock \cup {Closed}]
          /\ conn' \in [Descriptor -> {"fresh", "listening", "connected"}]
      BY <2>0
    <3>3. \A x \in Sock : handle'[x] = "valid" => record'[x] # "none"
      BY <2>0
    <3> QED
      BY <2>0, <2>11, <3>1, <3>2, <3>3
  <2>4. RecordInv'
    BY <2>0, <2>2
  <2>5. CloserInv'
    BY <2>0, <2>2
  <2>6. OwnDescriptor'
    BY <2>0, <2>2
  <2>7. NoDescriptorLeak'
    BY <2>0, <2>2
  <2>8. ListInv'
    BY <2>0, <2>2, ListEntries
  <2>9. HitInv'
    <3>1. SUFFICES ASSUME pc[Sched] \in {"store", "returned"} PROVE HitInv'
      BY <2>0
    <3>2. hit.h \in Watchable /\ hit.h # n /\ hit.h # s
      BY <2>0, <2>2, <3>1
    <3>3. socket[hit.h] \in Descriptor \ {l, d}
      BY <2>0, <2>2, <3>1, <3>2, PolledOwns
    <3> QED
      BY <2>0, <2>11, <2>12, <3>1, <3>2, <3>3
  <2> QED
    BY <2>3, <2>4, <2>5, <2>6, <2>7, <2>8, <2>9
<1> QED
  BY <1>1, <1>2

(* A descriptor is closed, and then its record forgets it or is freed.       *)
LEMMA CloseStep ==
  ASSUME SocketInv, NEW s \in Sock,
         CloseDescriptor(s) \/ Destroy(s) \/ CloseForget(s) \/ DestroyFree(s)
  PROVE  SocketInv'
<1> USE DEF SocketInv, TypeOK, RecordInv, CloserInv, OwnDescriptor, NoDescriptorLeak,
            ListInv, HitInv, recordVars, waitVars, kernelVars, Watchable, Goto
<1>0. ASSUME Calls(s), Close(s), NEW l \in {"closed", "free"}, Goto(UserOf[s], l, s),
             UNCHANGED <<recordVars, waitVars>>
      PROVE  SocketInv'
  <2> DEFINE u == UserOf[s]
  <2>1. /\ u \in User /\ pc[u] = "idle" /\ handle[s] = "valid" /\ record[s] = "live"
        /\ pc' = [pc EXCEPT ![u] = l] /\ arg' = [arg EXCEPT ![u] = s]
        /\ UNCHANGED <<record, handle, socket, events, revents, queue, list, hit>>
    BY <1>0 DEF Calls
  <2>2. /\ open' = [d \in Descriptor |-> IF d = socket[s] THEN Closed ELSE open[d]]
        /\ conn' = [d \in Descriptor |-> IF d = socket[s] THEN "fresh" ELSE conn[d]]
        /\ cond' = [d \in Descriptor |-> IF d = socket[s] THEN {} ELSE cond[d]]
        /\ nonblock' = nonblock \ {socket[s]}
    BY <1>0 DEF Close
  <2>3. \A v \in Sock : v # s /\ socket[v] # Closed /\ arg[UserOf[v]] # v => socket[v] # socket[s]
    <3> SUFFICES ASSUME NEW v \in Sock, v # s, socket[v] # Closed, arg[UserOf[v]] # v,
                        socket[v] = socket[s]
                 PROVE  FALSE
      OBVIOUS
    <3>1. open[socket[v]] = v
      BY DEF OwnDescriptor
    <3>2. open[socket[s]] = s
      BY <1>0, IdleOwns DEF Reaches
    <3> QED
      BY <3>1, <3>2
  <2>4. pc[Sched] \in {"poll", "store", "returned"} => u # Sched
    BY <2>1
  <2>5. TypeOK'
    BY <2>1, <2>2
  <2>6. RecordInv'
    BY <2>1
  <2>7. CloserInv'
    <3>1. \A d \in Descriptor : open'[d] # s
      BY <2>2
    <3>2. \A d \in Descriptor : open'[d] = open[d] \/ open'[d] = Closed
      BY <2>2
    <3>3. arg'[u] = s /\ pc'[u] = l
      BY <2>1
    <3>4. \A t \in User : t # u => arg'[t] = arg[t] /\ pc'[t] = pc[t]
      BY <2>1
    <3>5. ASSUME NEW t \in User, t # u
          PROVE  /\ arg'[t] # Closed <=> pc'[t] \in {"closed", "free"}
                 /\ arg'[t] # Closed => /\ UserOf[arg'[t]] = t /\ record'[arg'[t]] = "live"
                                        /\ \A d \in Descriptor : open'[d] # arg'[t]
      BY <2>1, <3>2, <3>4, <3>5
    <3> QED
      BY <2>1, <3>1, <3>3, <3>5
  <2>8. OwnDescriptor'
    <3> SUFFICES ASSUME NEW v \in Sock, socket[v] # Closed, arg'[UserOf[v]] # v
                 PROVE  open'[socket[v]] = v
      BY <2>1
    <3>1. v # s
      BY <2>1
    <3>2. arg[UserOf[v]] # v
      <4>1. CASE UserOf[v] = u
        BY <2>1, <4>1
      <4>2. CASE UserOf[v] # u
        BY <2>1, <4>2
      <4> QED
        BY <4>1, <4>2
    <3>3. open[socket[v]] = v /\ socket[v] \in Descriptor
      BY <3>2
    <3> QED
      BY <2>2, <2>3, <3>1, <3>2, <3>3
  <2>9. NoDescriptorLeak'
    BY <2>1, <2>2
  <2>10. ListInv'
    BY <2>1
  <2>11. HitInv'
    <3> SUFFICES ASSUME pc'[Sched] \in {"store", "returned"} PROVE HitInv'
      OBVIOUS
    <3>1. pc[Sched] = pc'[Sched] /\ u # Sched
      BY <2>1, <2>4
    <3>2. hit.h \in Watchable /\ socket[hit.h] # Closed
      BY <3>1
    <3>3. socket[hit.h] \in Descriptor /\ socket[hit.h] # socket[s]
      <4>1. hit.h # s
        BY <3>1, <3>2
      <4>2. arg[Sched] = Closed
        BY <3>1
      <4> QED
        BY <2>3, <3>2, <4>1, <4>2
    <3>4. cond'[socket[hit.h]] = cond[socket[hit.h]] /\ conn'[socket[hit.h]] = conn[socket[hit.h]]
      BY <2>2, <3>3
    <3> QED
      BY <2>1, <3>1, <3>4
  <2> QED
    BY <2>5, <2>6, <2>7, <2>8, <2>9, <2>10, <2>11
<1>1. CASE CloseDescriptor(s)
  BY <1>0, <1>1 DEF CloseDescriptor
<1>2. CASE Destroy(s)
  BY <1>0, <1>2 DEF Destroy
<1>3. CASE CloseForget(s)
  <2>1. TypeOK'
    BY <1>3 DEF CloseForget
  <2>2. RecordInv'
    BY <1>3 DEF CloseForget
  <2>3. CloserInv'
    BY <1>3 DEF CloseForget
  <2>4. OwnDescriptor'
    BY <1>3 DEF CloseForget
  <2>5. NoDescriptorLeak'
    BY <1>3 DEF CloseForget
  <2>6. ListInv'
    BY <1>3, ListEntries DEF CloseForget
  <2>7. HitInv'
    BY <1>3 DEF CloseForget
  <2> QED
    BY <2>1, <2>2, <2>3, <2>4, <2>5, <2>6, <2>7
<1>4. CASE DestroyFree(s)
  <2>1. TypeOK'
    BY <1>4 DEF DestroyFree
  <2>2. RecordInv'
    BY <1>4 DEF DestroyFree
  <2>3. CloserInv'
    BY <1>4 DEF DestroyFree
  <2>4. OwnDescriptor'
    BY <1>4 DEF DestroyFree
  <2>5. NoDescriptorLeak'
    BY <1>4 DEF DestroyFree
  <2>6. ListInv'
    BY <1>4, ListEntries DEF DestroyFree
  <2>7. HitInv'
    BY <1>4 DEF DestroyFree
  <2> QED
    BY <2>1, <2>2, <2>3, <2>4, <2>5, <2>6, <2>7
<1> QED
  BY <1>1, <1>2, <1>3, <1>4

(* The copies of ofc_waitset_wait_impl are what the sockets have.            *)
LEMMA CollectList ==
  ASSUME Collect, queue \in Seq(Watchable)
  PROVE  ListInv'
<1>1. /\ list' = [i \in 1..Len(queue) |-> PollEntry(queue[i])]
      /\ UNCHANGED <<handle, socket>>
  BY DEF Collect, recordVars
<1>2. Len(queue) \in Nat /\ Len(list') = Len(queue)
  BY <1>1
<1>3. ASSUME NEW i \in 1..Len(list'), list'[i].fd # Closed
      PROVE  handle[list'[i].h] = "valid" /\ socket[list'[i].h] = list'[i].fd
  <2>1. list'[i] = PollEntry(queue[i])
    BY <1>1, <1>2
  <2> QED
    BY <1>3, <2>1 DEF PollEntry
<1> QED
  BY <1>1, <1>3 DEF ListInv

(* What poll finds for a descriptor that is open is a condition of it.       *)
LEMMA PollFindsTrue ==
  ASSUME NEW e, PollFinds(e) # {}
  PROVE  /\ e.fd # Closed
         /\ open[e.fd] # Closed => PollFinds(e) \subseteq cond[e.fd]
BY DEF PollFinds

(* The scheduler.                                                            *)
LEMMA SchedulerStep ==
  ASSUME SocketInv,
         \/ \E s \in Watchable : Watch(s)
         \/ \E i \in 1..Len(queue) : Unwatch(i)
         \/ Collect \/ Wait \/ PollOther
  PROVE  SocketInv'
<1> USE DEF SocketInv, TypeOK, RecordInv, CloserInv, OwnDescriptor, NoDescriptorLeak,
            ListInv, HitInv, recordVars, waitVars, kernelVars, Watchable, Goto
<1>1. CASE \E s \in Watchable : Watch(s)
  BY <1>1 DEF Watch
<1>2. CASE \E i \in 1..Len(queue) : Unwatch(i)
  BY <1>2 DEF Unwatch
<1>3. CASE Collect
  <2>1. /\ pc[Sched] = "idle" /\ pc' = [pc EXCEPT ![Sched] = "poll"]
        /\ list' = [i \in 1..Len(queue) |-> PollEntry(queue[i])]
        /\ UNCHANGED <<recordVars, kernelVars, queue, hit>>
    BY <1>3 DEF Collect
  <2>2. arg' = arg
    BY <1>3 DEF Collect
  <2>3. \A i \in 1..Len(queue) : queue[i] \in Watchable
    BY SeqElement
  <2>4. \A s \in Watchable :
          PollEntry(s) \in [h : Watchable, fd : Descriptor \cup {Closed}, events : SUBSET PollBit]
    <3> TAKE s \in Watchable
    <3> DEFINE fd == IF handle[s] = "valid" THEN socket[s] ELSE Closed
               ev == IF handle[s] = "valid" THEN events[s] ELSE {}
    <3>1. fd \in Descriptor \cup {Closed} /\ ev \in SUBSET PollBit
      OBVIOUS
    <3>2. PollEntry(s) = [h |-> s, fd |-> fd, events |-> ev]
      BY DEF PollEntry
    <3> QED
      BY <3>1, <3>2
  <2>5. list' \in Seq([h : Watchable, fd : Descriptor \cup {Closed}, events : SUBSET PollBit])
    <3> DEFINE E == [h : Watchable, fd : Descriptor \cup {Closed}, events : SUBSET PollBit]
    <3>1. \A i \in 1..Len(queue) : PollEntry(queue[i]) \in E
      BY <2>3, <2>4
    <3>2. Len(queue) \in Nat
      OBVIOUS
    <3> HIDE DEF E
    <3>3. [i \in 1..Len(queue) |-> PollEntry(queue[i])] \in Seq(E)
      BY <3>1, <3>2
    <3> QED
      BY <2>1, <3>3 DEF E
  <2>6. TypeOK'
    BY <2>1, <2>2, <2>5
  <2>7. RecordInv' /\ CloserInv' /\ OwnDescriptor' /\ NoDescriptorLeak' /\ HitInv'
    BY <2>1, <2>2
  <2>8. ListInv'
    BY <1>3, CollectList
  <2> QED
    BY <2>6, <2>7, <2>8
<1>4. CASE \E i \in 1..Len(list) : PollReady(i)
  <2>1. PICK i \in 1..Len(list) : PollReady(i)
    BY <1>4
  <2> DEFINE h == list[i].h
             fd == list[i].fd
             found == PollFinds(list[i])
  <2>2. /\ pc[Sched] = "poll" /\ found # {} /\ hit' = [h |-> h, revents |-> found]
        /\ pc' = [pc EXCEPT ![Sched] = "store"] /\ arg' = [arg EXCEPT ![Sched] = Closed]
        /\ list' = <<>> /\ UNCHANGED <<recordVars, kernelVars, queue>>
    BY <2>1 DEF PollReady
  <2>3. h \in Watchable /\ fd \in Descriptor \cup {Closed}
    BY ListEntries
  <2>4. fd # Closed
    BY <2>2, PollFindsTrue
  <2>5. handle[h] = "valid" /\ socket[h] = fd /\ open[fd] = h
    BY <2>2, <2>3, <2>4, PolledOwns
  <2>6. found \subseteq cond[fd] /\ found \subseteq PollBit
    <3>1. open[fd] # Closed /\ cond[fd] \subseteq PollBit
      BY <2>3, <2>4, <2>5
    <3> QED
      BY <2>2, <3>1, PollFindsTrue
  <2> HIDE DEF h, fd, found
  <2>7. arg' = arg
    BY <2>2
  <2>8. TypeOK'
    BY <2>2, <2>3, <2>6, <2>7
  <2>9. HitInv'
    BY <2>2, <2>3, <2>4, <2>5, <2>6
  <2> QED
    BY <2>2, <2>7, <2>8, <2>9
<1>5. CASE SetEvent
  <2>1. TypeOK'
    BY <1>5 DEF SetEvent
  <2>2. RecordInv'
    BY <1>5 DEF SetEvent
  <2>3. CloserInv'
    BY <1>5 DEF SetEvent
  <2>4. OwnDescriptor'
    BY <1>5 DEF SetEvent
  <2>5. NoDescriptorLeak'
    BY <1>5 DEF SetEvent
  <2>6. ListInv'
    BY <1>5 DEF SetEvent
  <2>7. HitInv'
    BY <1>5 DEF SetEvent
  <2> QED
    BY <2>1, <2>2, <2>3, <2>4, <2>5, <2>6, <2>7
<1>6. CASE Dispatch
  <2>1. TypeOK'
    BY <1>6 DEF Dispatch, NoHit
  <2>2. RecordInv'
    BY <1>6 DEF Dispatch, NoHit
  <2>3. CloserInv'
    BY <1>6 DEF Dispatch, NoHit
  <2>4. OwnDescriptor'
    BY <1>6 DEF Dispatch, NoHit
  <2>5. NoDescriptorLeak'
    BY <1>6 DEF Dispatch, NoHit
  <2>6. ListInv'
    BY <1>6 DEF Dispatch, NoHit
  <2>7. HitInv'
    BY <1>6 DEF Dispatch, NoHit
  <2> QED
    BY <2>1, <2>2, <2>3, <2>4, <2>5, <2>6, <2>7
<1>7. CASE PollOther
  <2>1. arg' = arg
    BY <1>7 DEF PollOther
  <2> QED
    BY <1>7, <2>1 DEF PollOther
<1> QED
  BY <1>1, <1>2, <1>3, <1>4, <1>5, <1>6, <1>7 DEF Wait
-----------------------------------------------------------------------------
(* The inductive invariant of sockets, descriptors and the scheduler's copy  *)
(* of them.                                                                  *)
THEOREM SocketInvariant == Spec => []SocketInv
<1>1. Init => SocketInv
  BY DEF Init, SocketInv, TypeOK, RecordInv, CloserInv, OwnDescriptor, NoDescriptorLeak,
         ListInv, HitInv, NoHit
<1>2. SocketInv /\ [Next]_vars => SocketInv'
  <2> SUFFICES ASSUME SocketInv, [Next]_vars PROVE SocketInv'
    OBVIOUS
  <2>1. CASE UNCHANGED vars
    BY <2>1 DEF vars, recordVars, kernelVars, waitVars, SocketInv, TypeOK, RecordInv, CloserInv,
                OwnDescriptor, NoDescriptorLeak, ListInv, HitInv
  <2>2. ASSUME NEW s \in Sock, Operate(s) \/ Continue(s) PROVE SocketInv'
    BY <2>2, UseStep, OpenStep, CloseStep DEF Operate, Continue
  <2> QED
    BY <2>1, <2>2, NetworkStep, SchedulerStep DEF Next
<1> QED
  BY <1>1, <1>2, PTL DEF Spec

(* The variables of the sockets, the kernel and the wait have their types.   *)
THEOREM SocketTypes == Spec => []TypeOK
BY SocketInvariant, PTL DEF SocketInv

(* Every socket has its descriptor for itself, though the kernel gives the   *)
(* numbers out again at once and destroy closes what close has closed.       *)
THEOREM DescriptorSafety == Spec => []OwnDescriptor
BY SocketInvariant, PTL DEF SocketInv

(* No descriptor is left open that no live record of a socket names.         *)
THEOREM NoLeak == Spec => []NoDescriptorLeak
BY SocketInvariant, PTL DEF SocketInv

(* No entry that is polled has a number that is another's by now.            *)
THEOREM PolledOwn == Spec => []PolledIsOwn
<1>1. SocketInv => PolledIsOwn
  <2> SUFFICES ASSUME SocketInv, pc[Sched] = "poll", NEW i \in 1..Len(list), list[i].fd # Closed
               PROVE  open[list[i].fd] = list[i].h
    BY DEF PolledIsOwn
  <2>1. list[i].h \in Watchable /\ socket[list[i].h] = list[i].fd
    BY ListEntries DEF SocketInv, ListInv, Watchable
  <2> QED
    BY <2>1, PolledOwns
<1> QED
  BY <1>1, SocketInvariant, PTL

(* ofc_socket_impl_test names an event for everything poll may report of a   *)
(* descriptor that is open.                                                  *)
LEMMA SomeType ==
  ASSUME NEW bits \in SUBSET PollBit, bits # {}
  PROVE  TestTypes(bits) # {}
<1>1. PICK b \in bits : b \in PollBit
  OBVIOUS
<1>2. \E t \in EventType : t \in TestTypes(bits)
  BY <1>1 DEF TestTypes, PollBit, EventType
<1> QED
  BY <1>2

(* What a wait reports of a socket is so when the application asks.          *)
THEOREM ReportTrue == Spec => []ReportIsTrue
<1>1. SocketInv => ReportIsTrue
  BY SomeType DEF SocketInv, HitInv, TypeOK, ReportIsTrue
<1> QED
  BY <1>1, SocketInvariant, PTL

(* The two tables agree: whatever types an application enables, each of them *)
(* is reported when poll finds everything it was asked for.                  *)
THEOREM TablesAgree == \A T \in SUBSET EventType : T \subseteq TestTypes(EnableBits(T))
<1> SUFFICES ASSUME NEW T \in SUBSET EventType, NEW t \in T
             PROVE  t \in TestTypes(EnableBits(T))
  OBVIOUS
<1> QED
  BY DEF EventType, TestTypes, EnableBits
=============================================================================
