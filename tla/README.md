# of_core_darwin: specifications

TLA+ specifications of the Darwin platform layer of OpenFiles (`src/src/*.c`):
TLC checks them on small instances, TLAPS proves the safety properties for every
value of the constants. `PROJECT.json` maps every definition to the
lines it stands for.

## The system

The platform layer implements, for one process on Darwin, the primitives that
of_core (another repository) builds its scheduler on. Handles, queues, wait
queues, timers and files belong to of_core and appear here only as this code
uses them. `ofc_handle_lock` is a *reference*, not a mutual exclusion: it keeps
a handle from going away and does not stop a second thread.

| component | state | operations | how it interacts |
|---|---|---|---|
| wait set `waitset_darwin.c` | a non-blocking pipe; during a wait the list of watched events, the poll list, the earliest timer | create, destroy, signal, wake, set_assoc, add, wait (with `PollEvent`) | tests events, wait queues and timers; polls sockets and files; is written to by `ofc_event_set_impl` and `ofc_thread_delete_impl` |
| event `event_darwin.c` | flag, type, mutex, condition variable | create, set, reset, get_type, test, wait, destroy | a set writes into the pipe of the wait set the event is associated with, while it holds the mutex |
| thread `thread_darwin.c` | a record with `deleteMe`, `detachstate`, `wait_set`, `hNotify` behind a handle | create, set_waitset, delete, wait, is_deleting, detach, sleep, thread variables | a delete wakes the wait set; the record is freed by the thread itself or by whoever waits for it |
| process `process_darwin.c` | signal mask, SIGTERM trap, the handle of a daemon | exec (two forks), term, kill, block and unblock, trap, crash | processes and signals only |
| socket `socket_darwin.c` | a record with descriptor, event masks behind a handle | create, destroy, bind, connect, listen, accept, close, options, send, receive, event masks, addresses | the wait set polls the descriptor and stores `revents` |
| time `time_darwin.c` | none | clocks, file time to FAT date and back, time zone | pure, but for the clocks |
| net `net_darwin.c` | none of its own: the kernel's list of interfaces, read again by every call | interface_count, interface_addr by index, resolve_dns_name | a caller counts and then asks for each index |
| console, env, backtrace, lock | none of their own | | thin wrappers |

What is hard, and what makes each part correct:

* **wait set.** Any thread may set an event, fill a queue, add a handle or wake
  the set at any point of a wait that purges the pipe, tests the handles one by
  one, and sleeps. It must never sleep while a handle is ready and nobody is
  going to wake it; report an automatic event once per set; report only what
  was ready; return a timer only when it has expired, though timers are armed by
  others while it tests and sleeps.
* **event.** A set is several steps, a wait sleeps without rechecking the flag,
  `pthread_cond_wait` may return for no reason. To its users it must look as if
  a set were one step that releases everybody.
* **thread.** The record is shared by the thread and by clients that set its wait
  set, delete, detach and wait, in any order. It must be there while the thread
  runs and while a wait joins it, and be freed once, with its handle invalid first;
  a delete must be noticed although its wake can be lost.
* **process.** Signals interrupt `waitpid`, forks fail; the caller must learn
  whether the daemon was forked.
* **socket.** The kernel reuses a descriptor as soon as it is closed; closing
  and destroying must not touch the descriptor of somebody else, or leak one.
  The wait set polls copies of descriptors and masks; what it then says of a
  socket must be about that socket, and about now.
* **net.** Count and index come from two lists of a kernel that changes them in
  between; the array for the addresses of a name has a capacity.
* **time.** Leap days, century years, the width of the seconds.

`PROJECT.json` lists the hazards at their lines, with the properties that watch
them or the reason why none does.

## The modules

| module | models | checked by runs | theorems |
|---|---|---|---|
| `WaitSet` | the scheduler thread in `ofc_waitset_wait_impl`, other threads in set, reset, enqueue, add, set_assoc, wake, arming timers | queues, kinds | `WaitSet_proof` |
| `WaitSetHistory` | `WaitSet` with history variables, for properties of what has happened during a call | reports, purge | `WaitSetHistory_proof` |
| `EventSpec` | what an event promises: set in one step | (through Event) | |
| `Event` | one event: flag, mutex, condition variable | event | `Event_proof` |
| `Thread` | the life of one thread and of its record, under calls that nothing orders | thread | `Thread_proof` |
| `Process` | starting and terminating daemons | process, process_status | `Process_proof` |
| `Socket` | sockets, descriptors, event masks, and the wait set's poll of them | socket, socket_noblock | `Socket_proof` |
| `Net` | counting and asking for interfaces, resolving names | net | `Net_proof` |
| `Time` | the calendar conversions | time | `Time_proof` |

The `MC` modules add symmetry sets and constant values for TLC where a run needs
them. Operators whose
comment begins with "Mutant" take no part in any specification: each is a
plausible mistake in the code of the definition that follows it, and replacing
that definition by it makes TLC report the property that `PROJECT.json` names.

### WaitSet

One action is one step that another thread can tell apart: a read or write of
the pipe, a flag under its mutex, a test of a queue. Threads carry a program
counter (`pc`) and the handle they work on (`arg`), the scheduler thread has
`wpc`: `purge` (172-173), `scan` (181-311), `reset` (the second call on an
automatic event, 288-289), `poll` (317), `drain`, `probe`, `consume`
(`PollEvent`), `app` (returned). `registered` is `eventQueue`, `polled` is
`darwin_handle_list` without the pipe.

* Taking the mutex of an event and storing the flag are one action
  (`EventSetLock`): everybody else who reads the flag takes the mutex. Looking up
  the association and writing into the pipe are actions of their own, under the
  mutex, because the association is read and written without it.
* `ofc_event_test` on one's own waits for the mutex and reads: one action with
  the guard `mutex[h] = None`. `Event` shows the same code in finer steps.
* The model names an event by the handle that has it. For SMB overlapped the
  wait takes the event of the wait queue (line 274) and the add takes the
  overlapped's own event (443); of_core gives them one event, and the model
  takes them for one.
* Enqueueing puts a message into the queue and then sets the event, as
  `ofc_waitq_enqueue` does. `Application` is what the scheduler does after a
  wait: it takes messages, re-arms the timer, reads the socket.
* `EventReset` by another thread also stands for an `ofc_event_wait` there.
* `Rearm` is another thread that arms a timer at any time, during the loop and the
  poll as well. The return after a timeout (318-319) does not test the timer
  again, so a timer armed again after the test is returned early; `TimerNotEarly`
  excepts exactly that case, with the history variable `rearmed` of
  `WaitSetHistory` (armed again since a call last tested it).
* `SetAssoc` stores this set or another one (or none), but leaves the events of
  handles of the set with it: taking those away is how of_core removes a handle,
  which is not in this module.
* Not in this module: destroying the set, and removing a handle from it
  (of_core's).

Fairness (`FairSpec`): the scheduler thread and every thread inside an operation
keep running. That is the operating system's scheduling; nothing is assumed of
time, so `SleepEnds` does not lean on the timeout of poll. `TimerServed` is about
time, and its specification (`TimedSpec`) adds that the clock ticks and that a
poll whose time is over returns: `leastWait` is never infinite (159, 317). It
claims nothing while other handles keep ending the waits (`Calm`), because the
loop stops at the first ready handle, nor of a timer that other threads go on
arming.

### Event

Every operation is a step that takes the mutex, the steps inside, and `unlock`.
A waiter is in `check`, `blocked` (in `pthread_cond_wait`, mutex released in the
same step), `woken`, `consume`. `WaitSpurious` is the wakeup POSIX allows. A
destroyed event answers `TRUE` to a test, as the code does. The refinement to
`EventSpec` maps a blocked thread to `asleep`, except between the store of the
flag and the broadcast, when the set has already happened; then, and until it
leaves, it is `released`.

Fairness: a thread inside an operation keeps running unless it waits for the
mutex. The mutex is not assumed fair: `SleeperReturns` admits a thread that
others keep from the mutex for ever.

### Thread

`handle` and `record` are separate, because a reference to the handle does not
keep the record. Reads of a freed record are arbitrary (`MayShow`) and writes are
lost. Every call begins with `Lock`, which gives any client the record as long as
the handle is valid; after that nothing in the code orders the calls, and nothing in
the model does: a delete, a detach or another wait may run beside a wait, and each
read or write of the record is an action of its own. `Free` of a record that is not
live makes it "twice". The scheduler of the thread is of_core's: it asks
`ofc_thread_is_deleting` before each wait, or returns by itself; its wait is reduced
to purge, wake and timeout. `pthread_cancel` of itself (55) has no effect before the
thread returns and is left out.

What the code does not prevent can be reached: a delete between its mark and its wake
(118-119) finds the record freed by a wait (134) once the thread has ended; two
waits, or a detach during the join, free it twice. The properties say under which
condition this does not happen. `Proper` is what POSIX requires of `pthread_join`:
one client at most has called it, and the thread is not detached then (otherwise the
join is modelled as returning at any time). Under it the record is there for the thread until it has
ended, for every call that meets a thread that has not ended, and for the one wait
that joins (`RecordOutlivesThread`), and it is freed once (`FreedOnce`). That a freed
record's handle is invalid (`FreedHandleDestroyed`) needs no condition.

Fairness: calls end (a proper join when the thread has ended), and the thread runs; the timeout of poll passes because
`leastWait` is `OFC_MAX_SCHED_WAIT` at most (155, 317).

### Process

Each caller with its first child and its daemon; `ret` is `garbage` until
`waitpid` stores a status, and an uninitialized `ret` compares either way. The
identity a handle holds is the uninitialized `pid2` of the parent, so `Term`
signals any daemon or none. Processes keep running (weak fairness); signals may or
may not come.

### Socket

Each thread has its own sockets, as the scheduler keeps an application on one
thread; descriptors are shared, and the kernel gives a closed number out at once.
`record` and `handle` are reused once destroyed, so the model runs for ever on few
of them. Of the kernel the model keeps, per descriptor, whom it was opened for,
whether it listens or is connected, the conditions poll would find (`cond`), and
`O_NONBLOCK`. Failing calls, and calls that would block, change nothing and have no
action; a connect is established or in progress, for the record the same.

`Sched` is the thread that waits. A wait is three steps between which other
threads run: `Collect` copies descriptor and mask of every socket of the set
(waitset 237-256), `PollReady` takes the first entry with revents (317-329),
`SetEvent` stores them (330-332). `PollOther` is every other end of a wait; what
decides it is in `WaitSet`. A socket that accept returns has whatever was in the
memory for masks (`Accept`). Adding to and removing from the set is of_core's,
which also takes a socket out of the set before its handle serves for another.

The scheduler's sockets are touched by the scheduler's thread alone: that is why
a copied descriptor is still the socket's own in `poll` (`PolledIsOwn`), and the
mutant that keeps the number in a closed record shows what happens otherwise.

Fairness: an operation that has begun ends and a poll that has something returns
(weak); `Collect` is strong: applications do any number of things between two
waits, but return to their scheduler. `HeadServed` is what a socket can count on:
it is returned again and again while it stays ready, provided that no ready one
is before it in the set, and that other handles do not keep ending the waits.

### Net

The kernel's list is a sequence of entries that appear at any place, vanish, rise
and fall between two calls. `max_count` is the counter of both loops after the
first entries of a list; the count takes it at the end of the list, and the search
for an index ends at the usable entry before which it has reached the index
(`Finds`). Both functions pass over `en5`: `config.h.in` line 6
defines `OFC_DARWIN_IGNORE_EN5` whatever its value, and the code asks only whether
it is defined, so the filter is compiled in with the option off as well. The other
compile-time choices are a variable that never changes (`build`). IPv4 addresses
are sets of bits, for the broadcast address is computed; IPv6 addresses are only
copied. `steady` is a history variable: the interfaces that have been usable, at
the same place among the usable ones, since the count. An interface whose place
changes may be reported twice or not at all; the code cannot do better with an
index, and no property says so. `getaddrinfo` is the set of answers the resolver
may give, an error among them, with the family and `AI_ADDRCONFIG` of the hints.

### Time

Days run from 1 January 1970; at each day the operators that translate
`ofc_time_local_time` and `ofc_time_make_time` (tables, loops over the years, the
special case of 29 February, 32-bit seconds) are compared with a Gregorian
calendar that advances by one day per step. The loops over the years are the sum
`YearDays` and the year `YearOf` where it passes the day; times are pairs of days and
seconds because TLC's integers are no wider than the code's. An operation on an
`OFC_UINT32` is followed by `Wrap`, the remainder modulo 2^32 of such a pair.

A file time is a triple: days since 1601, seconds of the day, and ticks of 100 ns of
the second. `file_time_to_epoch_time` and `epoch_time_to_file_time` belong to of_core
and are modelled by what their callers rely on: 134774 days between the epochs, a
`tv_nsec` of 100 per tick. The 32 bits enter where this code has them, in
`ofc_time_make_time`; the `OFC_ULONG` through which of_core stores seconds into a
`time_t` (194) is taken to be as wide as that. The part of a second is lost because
a FAT time has no room for it and 240 sets `tv_nsec` to 0; `DosRoundTrip` says that
this and the odd second is all that is lost.

## The runs

| run | asks | bounds |
|---|---|---|
| queues | `WakeInv` (which implies that no interleaving loses a wakeup); a sleep with a ready handle ends | 2 threads, a wait queue and an SMB overlapped of 1 message each, a pipe of 1 entry |
| kinds | no lost wakeup next to sleeps that end for other reasons; a timer is served, though it was added or armed during the sleep | 1 thread, an automatic event, a Darwin overlapped, a timer, a socket, a poll limit of 2 ticks, a pipe of 1 |
| reports | reports are due, timers have expired, one report per set | 2 threads, an automatic event, 2 timers of 2 ticks, a poll limit of 3 ticks, a pipe of 2 |
| purge | **violated**: a purged wake is seen before the next sleep | 1 thread, one event |
| event | one event is `EventSpec`'s; sleepers return, the mutex is released | 3 threads, both types |
| thread | records and handles; a delete is noticed, a wait returns | 3 clients, the creator among them, any calls in any order, joined and detached, failing create |
| process | callers learn what happened | 2 callers, any signals and failures |
| process_status | **violated**: the caller has the child's status | 1 caller |
| socket | descriptors are owned and not leaked; what is polled is one's own, what is reported is so, the first ready socket is served | 3 sockets of 2 threads, 2 descriptors; readable, writable and hung up |
| socket_noblock | **violated**: `onoff` matters | as socket |
| net | an interface that keeps its place is reported there; broadcast addresses tell subnets apart; names fit the array | lists of 3 out of 7 interfaces, 2 configurations, addresses of 4 bits, names of 1 to 3 addresses, arrays of 1 and 2 |
| time | the calendar | every day from 1970 to 2107, four times of day, the first and the last tick of a second |

Why the bounds are enough: a lost wakeup takes the scheduler thread, one thread
that makes a handle ready, and at most one more that adds it, resets it or fills
the pipe; a pipe of one entry is full whenever it is not empty. A timer is mistaken
for another when there are two; one is armed again by a thread while another consumes
events. A record is freed twice by two, and a third may be inside another call
meanwhile. A broadcast differs from a signal with two sleepers. A descriptor is closed
twice when two threads share two. An index is wrong for the first time when
something before it is skipped, which takes two interfaces and one that does not
count. FAT dates end in 2107. The theorems remove the bounds, for every safety property
of every passing run.

Deadlock is checked where the system runs for ever. It is off for `Thread` (the
thread ends), `Process` (a process may be killed) and `Time` (the bound).

### What the violated runs show

* **purge** (`waitset_darwin.c:168-173`). The comment says of purged entries
  "We'll get these before we sleep the next time". That is true of events, which
  are tested after the purge, and false of `ofc_waitset_wake_impl`, whose entry
  stands for no handle: the wake is lost and the wait sleeps until its timeout.
  `DeleteNoticed` shows that a delete is still noticed, thanks to that timeout.
* **process_status** (`process_darwin.c:128-138`). The comment says the first
  child's status "will be returned to the parent in his waitpid". SIGTERM with a
  trap interrupts `waitpid`, whose result nobody looks at.
* **socket_noblock** (`socket_darwin.c:484, 501`). "onoff - Whether setting
  blocking on or off", but the code always sets `O_NONBLOCK`.

## What is proved

All proofs assume only the `ASSUME`s of the modules: kinds of handle are disjoint,
`None` is no handle or thread, the pipe holds at least one entry, the owner is a
client, every socket has a thread, -1 is no descriptor, interfaces of family
`AF_INET` have IPv4 addresses, names resolve to addresses of the two families,
the examined seconds are seconds of a day.

* `WaitSet_proof`. `TypeCorrect`, then `WakeInvariant` and from it `NoWakeupLost`.
  `NoLostWakeup` speaks of the sleep only and is not inductive. `WakeInv` says
  what the scheduler thread *relies on* from the moment it has found a handle not
  ready (`Relied`): once such a handle is ready there is an entry in the pipe, or
  a thread that will write one (`Noticed`). That needs the association to be
  there before the handle is tested (`Associated`), the watched events to be
  those of the set (`Watched`), and, since a queue and its event are two facts, a
  queue with messages to have its event set or about to be, unless the wait has
  looked at the queue since (`SmbEventSet`; the add tests the event there, and the
  queue itself for wait queues). A full pipe does no harm because it is not empty;
  a discarded entry does none because the scheduler is then still draining and
  ends by returning.
* `Event_proof`. `EventInvariant` (types, the holder of the mutex is the one
  thread inside, a set flag leaves nobody blocked but under the broadcast) is
  inductive as it stands; `EventImplements` uses it to show that every step is a
  step of `EventSpec` or a stutter.
* `Thread_proof`. `LifeInvariant` adds to the types that nobody has the handle before
  the creator returns it (`ClientsInv`) and that creation goes in order (`OwnerInv`);
  that whoever has joined destroys the handle, and that a proper join waits for the
  thread (`JoinInv`); and that the record goes after its handle, after the thread, and
  after a proper join (`RecordInv`).
  Nothing is assumed of the order of calls; `RecordSafety`, `HandleDestroyedFirst` and
  `RecordFreedOnce` follow.
* `Socket_proof`. `SocketInv` is inductive: a record lives with its handle
  (`RecordInv`); whoever is inside close or destroy has a socket of its own for
  which no descriptor is open any more (`CloserInv`), so that the second close of a
  destroy finds -1 and not another's number; the copies of a poll are what the
  sockets still have (`ListInv`); what poll has reported stays true until the
  application sees it (`HitInv`). `DescriptorSafety`, `NoLeak`, `PolledOwn` and
  `ReportTrue` follow. `TablesAgree` compares the tables of enable and test.
* `Process_proof`. `ProcessInv` says what the state of the first child and a
  stored status tell of the daemon; `HandleSpawned` and the action property
  `BlockedTold` follow.
* `WaitSetHistory_proof`. Every step is one of `WaitSet`, so the theorems of
  `WaitSet_proof` hold here too (the lemma `HistoryOnly`).
  `NextShape` says once what a step may do to events and triggered handles: events
  are set only by a set, a call begins with nothing triggered, and the two places
  that consume an automatic event are entered with the event set. From that,
  `SeenInv` (what is ready now, triggered, or about to be consumed by `PollEvent` was
  ready during this call) gives `NothingStaleReported`, and `FreshInv` (an automatic
  event that is set has been set since it was last found set, unless it is just
  being consumed) gives `SetsReportedOnce`. `TimersOnTime` rests on `TimerInv`: the
  timeout of the poll is never shorter than what is left of the timer it stands for,
  unless that timer has been armed again since it was tested.
* `Net_proof`. `NetInv` is `SteadyReported` with the types and the fact that a caller
  that does not enumerate has no answers. The work is in the counter: it never
  falls (`CountMonotone`) and a usable entry adds one (`CountStep`), so that exactly
  one entry has a given place (`FindsOne`, `PlaceOf`); and a list stays without
  duplicates when the kernel inserts or removes an entry. `BroadcastTellsSubnets` is
  Boolean algebra on masks and needs only the types; so does `ResolvedNamesFit`.
* `Time_proof`. `ClockInv` says that the number of a day is `YearDays` of its year plus
  the place of month and day in the tables, leap day included, which is what
  `ofc_time_make_time` adds up; every step of the calendar keeps it (`ClockStep`: a
  day, a month, a year; `LeapRule` shows that `_ISLEAP`, for years from 1900, is the
  Gregorian rule). `YearOfDay` and `MonthAndDay` show that the two loops of
  `ofc_time_local_time`, and its case of 29 February, invert that sum, because the
  sums are monotone. `YearDays` is a recursive function: that it satisfies its
  equation follows from a function that does, the count of leap years in closed
  form (`YearDaysEquation`). Its bounds and monotonicity are inductions, done with
  `SetInduction`, which derives induction for a *set* of numbers from the
  well-foundedness of `<`. The four properties follow on every day of any clock and
  for any seconds. `WrapIsModulo` shows that `Wrap` is the remainder on any day: it fits
  an `OFC_UINT32` and differs by a multiple of 2^32. `DosTimeSurvives` needs that 49710
  days end before the seven bits of the year do, and `WrapFits`: what fits an
  `OFC_UINT32` is unchanged.

Only model-checked: liveness (`SleepEnds`, `TimerServed`, `SleeperReturns`,
`MutexReleased`, `DeleteNoticed`, `WaitReturns`, `ExecReturns`, `HeadServed`), which
TLAPS cannot prove, and the three violated properties.

## Not modelled

* `console_darwin.c`, `env_darwin.c`, `backtrace_darwin.c`: pure input and output.
* `lock_darwin.c`: one pthread call per operation on a recursive mutex, which
  nothing in this repository takes; a model would be one of pthread.
* Clocks, `ofc_sleep_impl` and thread variables: one expression or library call
  each. The product of `ofc_sleep_impl` is listed as a hazard.
* Sockets: bind, reuse_addr and buffer sizes pass a value to the kernel, connected
  and get_addresses ask it; addresses and the bytes that are transferred.
* The life of a wait set. What keeps a signaller from a destroyed set is the order
  in which of_core calls, and nothing here enforces it.
* The debug dump of a wait set; arguments and users of daemons. Memory exhaustion:
  most of the code does not look at the result of `ofc_malloc`.

## Plan

1. Done: every module with its proofs; each safety property of a passing run is a
   theorem.
2. Left: what the steps of `Thread` and `WaitSet` that the liveness properties rest
   on guarantee, as safety facts (a deleted thread finds the mark at its next
   check; a poll that may sleep has a timeout); a wait set behind
   `ofc_thread_delete_impl` in place of the reduced one in `Thread`; the scope of
   IPv6 addresses that are received and answered.
