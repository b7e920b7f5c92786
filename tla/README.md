# Verification of dkftpbench 0.45

dkftpbench (under `src/dkftpbench-0.45/`) is an FTP load generator: one
single-threaded process simulates thousands of FTP users, each connecting,
logging in and fetching a file over and over at a limited bandwidth, and reports
how many users the server can sustain. All concurrency is event-driven: a
scheduler (`Sked`) and a readiness notifier (`Poller`) call back into objects
that call back into each other. The correctness questions are therefore about
re-entrancy, about the order in which callbacks of different objects run, about
state that is stale by the time a deferred callback looks at it, and about
connections that fail half-way.

## Inventory

| Part | Source | State | Operations | Correct means |
|---|---|---|---|---|
| Event scheduler | `Sked.cc`, `Sked.h` | heap array `m_records[1..m_used]`, `m_allocated`, each client's `skedIndex` | `addClient`, `delClient`, `runAll`, `nextTime` (over `push`, `pop`, `remove`, `siftUp`, `siftDown`) | earliest due client first, nothing due left behind, back pointers right while callbacks edit the heap |
| FTP protocol engine | `ftp_client_proto.cc/.h` | `m_state`, a return stack, one output line, `m_multiline`, `m_status`, PASV address | `login`, `cd`, `type`, `size`, `get`, `giveInput`, `getStatus`, `getOutput`, `isPortReady` | the reply being awaited is the reply of the oldest unanswered command |
| FTP session | `ftp_client_pipe.cc/.h` | control and data sockets, `m_state`, one timer, throttling, the guard `m_in_ftpCmdDone` | the same commands, `notifyPollEvent`, `skedCallback`, `shutdown` | each command is reported done exactly once; no timer or socket outlives its command |
| Simulated user | `robouser.cc/.h` | life-cycle state, byte counters | `start`, `stop`, `ftpCmdDone`, `handle_data_io`, `skedCallback` | a failed user is stopped once and stays stopped |
| Platoon | `Platoon.cc/.h` | users, per-state counters, list of dead users, targets | `set_*Target`, `countStateChange`, `startUser`, `reap`, `getStatus`, `reset`, `skedCallback` | counters agree with users; no user is reaped twice; the ramp-up respects its targets |
| Main loop | `bench.cc` | clock, last counts | one iteration: reap, `runAll`, drain events, wait | no dead user receives an event |
| Line buffer | `nbbio.cc/.h` | circular buffer, partial line | `put`, `readline`, `fillFrom`, `flushTo` | bytes come out in order; each line once |
| Readiness notifiers | `Poller*.cc/.h` | fd tables, interest masks, ready lists | `add`, `del`, `setMask`, `waitForEvents`, `getNextEvent`, `clearReadiness` | no event is lost; none is delivered for a descriptor that is gone |
| Clock | `eclock.h` | none | `eclock`, `eclock_after`, `eclock_before` | comparisons survive wrap-around |
| CORBA server | `CorbaPlatoon_impl.cc`, `CorbaPlatoon.idl` | a platoon, a scheduler, a poller between `init` and `reset`, a mutex | the remote calls, `perform_work` | remote calls come between iterations and find, or leave, a consistent platoon |
| CORBA controller | `corbaftpbench.cc` | the servers that took part, last counts, `test_end` | setup, rounds of `getStatus`, `reset` | the test lasts as long as it should, fails only when it failed, and leaves nobody running |
| Utilities | `dklimits.c`, `getifaddrs.c`, `profile.c`, `dprint`, `CHECK.h` | none of interest | | not modelled |
| Benches and tests | `Poller_bench.cc`, `*_test.cc` | | | used as evidence of intended behaviour |

How the parts interact: the main loop calls `Platoon::getStatus` (which reaps),
`Sked::runAll`, then takes events from the poller and gives each to the client
registered for it (`ftp_client_pipe_t::notifyPollEvent`), reaping after each.
The pipe gives lines to the protocol engine, reports a finished command through
`ftpCmdDone` to the user, which issues the next command on the pipe from inside
that callback. A user's state change is counted by the platoon, which schedules
itself to start more users. In the distributed form each CORBA server runs this
loop under a mutex, as `perform_work`, and a controller elsewhere initialises the
servers' platoons, polls their counts once a second, and resets them.

What makes it hard: a callback runs in the middle of the scheduler's and the
poller's loops and may change what they iterate over; a session calls its user,
which calls the session again, on the same stack; a user that has failed stays
allocated, registered and scheduled until somebody reaps it; one scheduler entry
per session serves as connect timeout, transfer timeout and wake-up; readiness
is reported now and handed out later, when descriptors may have been closed and
their numbers used again; and a controller adds up counts that were true at
different times, through calls that may fail before or after they were executed,
on a clock that wraps every five days.

## Modules

| Module | Models | Uses |
|---|---|---|
| `Sked` | the scheduler: `push`, `pop`, `remove`, `siftUp`, `siftDown`, `runAll` with re-entrant callbacks, one step per loop iteration | |
| `SkedAbs` | what `Sked.h` promises, without a heap | |
| `SkedProof` | `Sked`'s invariants and its refinement of `SkedAbs`, for any number of clients | `Sked` |
| `FtpProto` | the protocol engine, as operators on a record of its fields | |
| `FtpServer` | the reply lines of a server (external) | |
| `FtpSession` | engine, application and server over an ordered connection | `FtpProto`, `FtpServer` |
| `FtpInStep` | what it means that engine and server are in step, and lemmas on what a line, a command or a reply does to it; of constants only, so that both proofs can use it | `FtpProto`, `FtpServer` |
| `FtpSessionProof` | the stack is balanced, engine and server stay in step | `FtpSession`, `FtpInStep` |
| `FtpPipe` | a whole session: both sockets, timer, throttle, re-entrant `ftpCmdDone`, a server that may fall silent | `FtpProto`, `FtpServer` |
| `FtpPipeProof` | the session's invariant: completions are reported, once and truthfully, and leave nothing behind | `FtpPipe`, `FtpInStep` |
| `Platoon` | platoon and users, in the benchmark's main loop and in the CORBA server's | |
| `PlatoonAbs` | what `getStatus` shows of a platoon, as operators on a record; refined by `Platoon` | |
| `PlatoonProof` | the platoon's invariants and its refinement of `PlatoonAbs`, for any number of users | `Platoon` |
| `Eclock` | times as integers of a given width | |
| `CorbaBench` | the controller, its calls and several servers | `Eclock`, `PlatoonAbs` |
| `CorbaBenchProof` | deadlines on a clock that wraps; duration, failure and end of a test, for any number of servers | `CorbaBench` |
| `Nbbio` | the line buffer on its circular array | |
| `NbbioProof` | the buffer is a queue and its lines are the stream's, for every size of the array | `Nbbio` |
| `Poller_poll`, `Poller_select`, `Poller_devpoll`, `Poller_kqueue`, `Poller_sigio` | one notifier each: an object is a record, a method an operator | `Poller_sigio` holds a `Poller_poll` |
| `Pollers` | the interface, the application between its calls, and the kernel (external); the class is chosen in `Init` as `bench.cc` does with `-s` | the five classes |
| `PollersProof` | the invariants of the five classes, for any number of descriptors and clients | `Pollers` |
| `MC*` | instances for TLC; one `.cfg` per question (`Nbbio` needs no definitions for TLC: its configurations `MCNbbio*.cfg` are run on the module itself) | |

The order of work was: the scheduler (everything else hangs on it), the
protocol engine, the session around it, the platoon and the main loop, the line
buffer, the pollers, and then what distributes the benchmark: the server's loop,
the abstract platoon, the clock and the controller. State is named as in the code (`m_used`, `skedIndex`,
`nInState`, `m_fd2pfdnum`, ...) and an action as the function it models; a
definition's source lines are in `PROJECT.json` under `map`. Definitions
commented "Mutant" are deliberately wrong versions of the definition that
follows them: with them in its place the run that names them must fail, which
shows that the property can tell the difference.

### Sked

`m_records` is the array, `pc` and `index` say which loop is running and where.
A client's callback is the phase between `RunTop` and `CallbackReturn` in which
`AddClient` and `DelClient` may happen as they may from the application.
`AddClientNoMemory` is the failing `realloc`. `victim` is the client `remove` is
taking out. Slots above `m_used` keep their stale records, as in the code.

`clock` is what `eclock()` reads and goes on by itself (`Tick`), also while `runAll` is
busy; `RunAll(t)` may have an older reading. `CallbackAsks` says for what times a
callback schedules when `CallbacksReadClock`: for the tick the clock shows, as
`Platoon::wakeUp` (`Platoon.h:93`) and `robouser_t::start` (`robouser.cc:92`) do, which
may be the tick `runAll` is serving, or for one after it, as the session does
(`ftp_client_pipe.cc:225`, `329`, `843`). Without `CallbacksReadClock` they schedule
for any time.

### FtpProto, FtpSession, FtpPipe

A method of the engine returns the new fields and an error. A reply line is its
number, the character in column 4, whether it holds an address, and (for the
properties only) the command it answers. `FtpSession` lets the application call
any method at any time; the engine refuses what comes too early.

`FtpPipe` models `notifyPollEvent` as the code structures it: a handler for the
control socket, one for the data socket, and the common end that decides
whether the command is finished and calls `ftpCmdDone`. That call is a phase
(`report` holds its argument) in which the application may issue the next
command, which runs the same handlers again under the guard `m_in_ftpCmdDone`
(`calls`). The outcomes of `connect`, `read`, `write` and of the throttle are
chosen freely. Simplifications: `TYPE` stands for `cd`, `type` and `size`, which
differ in their text only; the buffers hold lines, not bytes (`Nbbio` has the
bytes); lines longer than the buffer and failures of `Poller::add` are left out;
`ls`, `quit` and `PUTTING` do nothing in the source. A session that was given up
is shut down before its next event; `Platoon` has the case in which it is late. A
failed assertion ends the program (`aborted`, `Halted`).

A successful reply to PASV from which no address can be scanned is the line 200 of
`FtpServer`, whatever its number: the engine looks at the first digit only. It then is
`IDLE` with a good status, and the pipe reports the `get` as done, though no data
connection was opened and no RETR sent, `m_state` is still `GETTING` and the five-second
event still scheduled (`Stranded`; `ftp_client_proto.cc:266`, `293-300`,
`ftp_client_pipe.cc:667`). `AssertsHold`, `NoLeftovers` and `OkMeansWholeFile` say what
holds in spite of this, and name what does not; what goes wrong is among the observations below.
With `NoAddress = FALSE` the server always sends an address.

With `Spurious` a POLLIN may come when there is nothing to read (`Poller_sigio::add`
assumes readiness, and `robouser.cc:190` expects `EWOULDBLOCK`); the read would block,
but the timeout of the `get` is cancelled before it (`ftp_client_pipe.cc:340`). `Deaf` is a
session to which this has happened: `SilenceTimesOut` names it as its exception, and
`SilenceEnds`, without the exception, is false.

### Platoon

`pc` is the place of the one thread in its loop, and `loop` says which loop it
is. That of `bench.cc` reaps, and looks for the end of the test, at the top of
each iteration (`Iterate`). That of `CorbaPlatoon_impl.cc` (`PerformWork` to
`WaitForEvents`) holds the mutex from `runAll` to the return of `waitForEvents`, so
that remote calls happen between iterations (`"unlocked"`): `set_*`, `GetStatus`,
which is all that reaps besides the loop over events, `Reset`, and `InitAgain`. Between `reset` and
the next `init` there is no poller and the loop does nothing.

`startUser` looks for an empty slot from `nalive` on. `BeginsInside` is the condition under
which that search stays in the table: the code wraps when its index is exactly
`MAXUSERS`, so from above it runs outside `m_users`, on memory of other objects, until it
crashes or finds a word that is 0. `StartUserOutside` is that case, and ends in
`crashed`. It needs phantoms, users counted as living that have no slot, which the situation `early`
leaves, and a target above `MAXUSERS`, which only a controller can set; targets in the
run `platoon` are 3 and 5 with three slots, so that both happen.

A session is represented by what it may report. `polled` holds the sockets that
may have an event waiting: those open at the last `waitForEvents`. `START_TYPE` and
`GET` are passed through within one call and so never seen between steps. A
test with a duration may end at any iteration (`TestOver`); when it does is
`CorbaBench`'s question. When a user is on the list of the dead twice, `reap`
deletes it twice; the model then goes to `crashed` and says nothing more.

`Situations` names what may happen besides the normal course, so that a property can
say which of it breaks it: `wake` (the read of a session that woke up in `runAll`
stops its user), `early` (`connect` succeeds at once and the write in `login` fails),
`slow` (handlers take so long that something is overdue when the server waits).
`CountsAgree` excepts `early` and the time between `reset` and `init`, `SearchStaysInside`
excepts `early` with a target above `MAXUSERS`, and
`DeadlistIsStopped` says in which situations a user may be listed twice. With these
exceptions removed (`CountsAgreeAlways`, `SearchIsInside`, `ReapedOnce`) they fail: each
has a configuration of its own, see Findings. For the server's loop `wake` is
left out: a session that has closed its data connection in such a read is not
reaped before the next wait, and what it then does is `FtpPipe`'s matter. Here `init` comes after
`reset` only (`InitAgain`); what it does to a platoon that is running is in `PlatoonAbs`.

### PlatoonAbs, Eclock, CorbaBench

`PlatoonAbs` is a platoon as the IDL shows it: targets, and how many users are
connecting, alive and dead. Its operators give the set of platoons that a call or a
spontaneous change may lead to; `Platoon` refines its `Spec` under the mapping
`platoonBar`, and `CorbaBench` has one such record per server. Calls that return answer
from the server's present state, so the composition rests on the refinement.

`init` on a running platoon sets its counters and slots to zero but leaves the old users
in the scheduler, which is the same one (`Platoon.cc:48-83`, `CorbaPlatoon_impl.cc:258`).
They are in no slot any more (`lost`), and their sockets belong to a poller nobody asks;
what the scheduler has for them still happens, and is counted (`Stray`, after
`Platoon.cc:17-20`): they connect, fail to, or time out, and take from counters that do
not count them (`drift`, which may be negative). `nalive`, `nconnecting` and
`ndead` are what `getStatus` shows, own users and drift together, and it is by these that
`Start` and the controller decide. `Tangled` is a platoon with such users; a
`reset` of one may fail its assertion that the scheduler is empty (`ResetAsserts`,
`Platoon.cc:106`). `Platoon`, in which this does not happen, refines the part without
`lost`; that a forgotten user behaves as `Stray` says is read from the code and not
proved.

`Eclock` has the widths of `int` and `long` as parameters, of which the second may be
greater (`IntHalf <= LongHalf`), and defines the casts by what two's complement makes of
a number. The first deadline of the test, a sum of two int, may wrap or not
(`StartTest`); the later ones are sums of `clock_t`. `CorbaBench` runs the controller line by
line, one step per remote call. A call may end in `COMM_FAILURE` or another
exception, executed or not, also because the server has crashed. A crashed server
stays down. Servers outlive the controller, so a run starts on what those before it have left:
`Before` is the set of the arrays of platoons that this may be, and `BeforeAssumption` bounds it (no more users of its own
than the target, the dead included, and what forgotten users may have done to the counts:
`WithinTarget`, `Drifted`). What the users of a platoon left running have done by the time of
`init` is up to `Progress`. `deserted` are the servers whose last `init` found the platoon running, and
`Untangled` says that none of them takes part in this test. Time passes during calls (up to `MaxLag` each) and in `sleep(1)`; a tick
is a second. Ghosts measure, without wrap, how long ago `now` was read and
how long ago the reading to which `test_end` belongs; they stop at `Longest`. Left
out: `set_verbosity`'s argument, servers that appear in the name service under other
kinds, crashes that come back.

### Nbbio

`readline` takes one step per character, every other method is one step. `read`
and `write` move any number of bytes. Calls that move none change nothing and are
no steps. `accepted`, `delivered` and `lines` are history.

`Ends` is where `nbbio.h:77-82` says that lines end: at a CR, and at an LF unless the
character before it is a CR. The code ignores all the LFs that follow a CR, so that CR
LF LF is one end where the comment has two. `LinesAreTheStream` therefore is about
streams in which no CR is followed by two LFs (`LonelyLFs`), and `OnlyEmptyLost` about all
streams: what is missing are empty lines, nothing else. `NextLFIgnored` is the comment's
claim for all streams, see Findings.

### Pollers

Between two calls of `getNextEvent`, and between a wait and the first of them,
the application adds, deletes and masks any descriptor. `due` and `foreign` are
ghosts: what the last wait reported and has not been handed out, and whether a
descriptor other than the one being handled was deleted since. `m_fd2pfdnum` of
`Poller_poll` starts with arbitrary contents where the code leaves `malloc`'s
(an entry is read only below `m_fd2client_used`). `m_rfds`, which `init` does not set, starts at 0, since
`new Poller_poll()` with parentheses makes it so (C++03 and later). A call
of `orMask` or `andMask` for a descriptor that is not registered fails the assertion there
(`failed`); the application makes none. For `Poller_sigio` the kernel keeps
what is ready, a queue of `MaxSignals` signals and the overflow flag, and a
descriptor may become ready again between `EWOULDBLOCK` and `clearReadiness`.
Left out: growth of the arrays and `ENOMEM`, failing `fcntl`, error bits
(`POLLERR`, `POLLHUP`), urgent data, descriptor 0 (which `Poller_poll`'s test
`< 1` never returns), `waitAndDispatchEvents` (unused; the main loop
takes its place), `shutdown`, the wake-up pipe for other threads. That `DP_POLL`
reports descriptors in rising order is an assumption.

In `Poller_kqueue` the changes take effect at once and not at the next `kevent`; nobody
looks in between, and every descriptor is deleted before it is closed. The kernel is
the one the code counts on (`Poller_kqueue.h`): deleting an event that does not
exist is no error, and adding one that exists with a null `udata` keeps the client.

Three properties name exceptions, which the code has. After another descriptor
than the one being handled was deleted, `Poller_poll` may repeat an event or
leave one for the next wait, and `Poller_devpoll` may give a new owner of a
number the old owner's event (`OnlyReported`, `NoneSkipped`). `Poller_devpoll`
may also give an event to a client whose `add` failed (`GivenToOwner`).
`Poller_kqueue` gives out the results of a descriptor deleted since the wait, to
the client it had, and events whose bit was added by `setMask` or `orMask` to no
client at all (`GivenToOwner`, `TablesAgree`); `MCPollersKqueueMask.cfg` shows the latter. Its waits do not fail in the run `pollers`: one
that does breaks `getNextEvent` (`MCPollersKqueueFails.cfg`).

## What is checked

| Run | Question | Bounds, and why they are enough |
|---|---|---|
| `sked` | heap order, back pointers, earliest first, refinement of `SkedAbs` | 4 clients, times 0..2: a tree of three levels with a node that has both children and one that has one; the array grows twice from 2; equal times occur |
| `sked_live` | every due client is served, `runAll` returns, though callbacks schedule for the tick being served | 3 clients, each of which may schedule another or itself again and again; no symmetry; the clock ticks at any step, up to `MaxTime` |
| `ftp_session` | engine and server stay in step; every command finishes | all replies in one and three lines, all calls at any time; the queues are bounded by the engine itself |
| `pipe` | no assertion fails; completions are reported once, truthfully, and leave nothing behind; every command ends if the server answers; silence before the first line or the first data ends in a timeout | one session of any length, over reconnects; breaks, timeouts, spurious events and replies without an address anywhere; replies in one and three lines |
| `platoon` | counters, list of the dead, search for a slot, no call after death, refinement of `PlatoonAbs` | 3 slots, targets 3 and 5: one dying while another is reaped and a third connects; both loops, all situations, targets that change, any number of resets |
| `platoon_live` | ramp-up reaches its target; the end is noticed | 2 users, both loops, no special situation |
| `corba_bench` | duration and end of the test, failure, what forgotten users do to the counts | 2 servers, so that one answers while the other changes, or fails while the other runs; one user each; earlier runs have left no server running or the first (`FreshOrRunning`), so that a platoon is initialised while it runs and its forgotten user dies while the new one connects; a clock of 8 ticks, which wraps in every longer behaviour, and is just wide enough for `Duration` and a slow round |
| `nbbio` | queue, and lines of the stream | array of 4, line of 3, 7 bytes: almost twice round, with every cut into reads and lines at every offset |
| `pollers` | right client, once, nothing lost, tables consistent | 3 descriptors: one handled, one moved into its slot, one new; each with a client of its own, so that an owner can be mistaken for its neighbour; one that has the number again is told from its predecessor by `due`; a signal queue of length 1 overflows; at most 2 descriptors at once for `Poller_sigio` and `Poller_kqueue`; both bits of a mask for `Poller_select` and `Poller_kqueue`, which keep the bits apart, one for the others |
| `platoon_double_reap`, `pollers_stale_slot`, `nbbio_lf` | findings, below: these end in a violation | the smallest instances that show them |

`MaxTime` (Sked), `MaxBytes` (Nbbio), `MaxSignals`, `MaxOpen` and `ClientsOf`
(Pollers) and `MaxLag` (CorbaBench) are bounds of the models; only
`MaxSignals` corresponds to something real. At `MaxTime` the clock of `Sked` stands still, so
`runAll` is not called for that time. Deadlock is
checked everywhere except in `nbbio`, where `MaxBytes` stops the stream.

### Fairness

* `Sked`: loops and callbacks end, the main loop calls `runAll` in each
  iteration, and time passes (`WF(Tick)`). A callback may schedule for the tick
  `runAll` is serving as long as the clock shows it (`CallbackAsks`); `runAll` returns
  because the clock moves on while it serves them. The scheduler itself checks nothing of
  the kind: with a callback that asks for the time `runAll` was given (mutant
  `CallbackAsksAtNow`) it need not return.
* `FtpSession`, `FtpPipe`: sockets that are ready are reported, scheduled calls
  are made, callbacks return. That data come, or that an event is spurious, is never forced. Fairness of the server is a hypothesis of
  `CommandsFinish` and not of `SilenceTimesOut`. The latter excepts a `get` whose timeout a spurious
  event has cancelled (`Deaf`). Silence after the
  first line or the first data is not covered by it: the code has no timeout there.
* `Platoon`: strong fairness for what is enabled in one phase of the loop only,
  since the loop alternates between phases; that scheduled calls are made is what
  `DueIsServed` says of `Sked`. A user's command succeeds if it is tried
  often enough. Liveness is checked in situation `calm`; in `slow` the server may
  wait for ever (Findings).
* `CorbaBench`: the controller takes its steps, which means that calls come back, with
  a result or an exception, and `sleep` ends. Nothing is assumed of the servers:
  `TestEnds` holds because users only go forward and cannot change for ever.

## What is proved

For every value of the constants, by TLAPS:

* `SkedProof!HeapCorrect`: types, back pointers, loop bookkeeping and heap order
  hold in every reachable state, for any set of clients and any initial
  allocation of at least two. The inductive invariant is `TypeOK /\ IndexInv /\
  LoopInv /\ HeapInv`. `HeapInv` alone is not inductive: while a loop is at
  `index`, the edges there are out of order (`Loose`), and it must be known that
  the parent of `index` is no later than its children; and `remove` moves its
  victim past the end of the heap, so the bounds of the back pointers depend on
  where the loop is (`HeapEnd`, `LoopInv`).
* `SkedProof!EarliestFirst`: `nextTime` is the time of an earliest event, and the
  consistency check of `runAll` never fails. The root is least by the smallest
  counterexample: its parent would be a smaller one.
* `SkedProof!SkedImplementsAbs`: `Sked` implements `SkedAbs` under the
  refinement mapping `pendingBar` (an event stops pending when its deletion
  begins). Steps of the loops stutter, `AddClient` adds, `RunTop` fires an earliest
  client, `RunAllReturn` ends only when nothing is due.
* `SkedProof!SkedTypes` and `IndicesAreRight`: `TypeOK` and `IndexInv` by themselves, as the
  run `sked` checks them.
* `NbbioProof!BufferIsAQueue`: for every size of the array and of a line, indices
  stay in bounds and bytes come out in their order. `TypeOK` and `Fifo` are
  inductive together only: that what comes out are bytes follows from `Fifo`. Each
  method moves at most two pieces that do not wrap; `StoreOne` and `TakeOne` treat
  one piece, and each action applies one of them once or twice.
* `NbbioProof!ReadlineIsRight` and `OnlyEmptyLinesAreLost`: `LinesAreTheStream` and
  `OnlyEmptyLost`, both from what the code takes for ends of lines (`Found`), which are those
  of `nbbio.h` but for LFs behind an LF (`FoundAreEnds`), where the line is empty (`EmptyLine`). `LineInv` adds to it what `readline` keeps between
  two calls: `m_lastchar` tells whether a CR followed by LFs only came last (`AfterCR`), and the
  caller's buffer holds the text behind the last end of line (`Unfinished`). An end is numbered by
  counting those before it, so one more character either leaves all lines as they are
  (`NoEnd`) or adds one (`OneMoreEnd`).
* `NbbioProof!IndicesInRange` (`TypeOK`) and `NeverStalls`: no I/O of length zero while there
  is something to do.
* `CorbaBenchProof!DeadlinesAreKept`: a deadline `d` ticks after a reading is seen as
  passed exactly when more than `d` ticks have gone by, as long as
  less than half the range of a `long` has, if `int` and `long` are equally wide or the clock
  did not wrap between the two readings. `Signed` is a congruence (`SignedIsCongruent`) and the
  identity on its range (`SignedIsUnique`); so readings and deadlines can be shifted
  by the time that passed (`ClockTicks`, `DeadlineMoves`).
* `CorbaBenchProof!EndsInTime`: `TestLasts` for any number of servers, users and
  calls and for every two widths, of behaviours in which either the widths are equal or the
  clock does not wrap (`Unwrapped`); `EndsThroughWraps`: with equal widths, of all
  behaviours. The invariant `TimeInv` relates the wrapped clock to the ghosts:
  `eclock_after(clock, test_end)` cannot be read off the numbers, but `clock` is `now`
  plus the time since, and `test_end` the reading it belongs to plus `Duration`, both
  modulo the range (`Apart`), and a round never begins with more than `Longest` seconds
  on the ghost (`Timely`). Both assume `Comparable`: `Duration` and a round fit into half the
  range of an int, which the code does not check. What happens with a wider `long` when the clock does
  wrap, `MCCorbaBenchWide.cfg` shows.
* `CorbaBenchProof!NobodyIsLeft` and `TheyAreDead`: from `ServersInv`, which says that each
  platoon's numbers are natural, that in the loop of resets those before `i` are
  stopped and stay so, and that in a round each platoon asked so far that had
  living users is either counted in the sums or gone: all dead, with a death that forbids
  new users (`Gone`). `PlatoonSteps` shows what an abstract platoon's step can do to
  these; it holds of `Platoon` through `PlatoonImplementsAbs`. `TheyAreDead` is about tests in which no
  server was initialised without a `reset` (`Untangled`): there no count has drifted. Without that it is
  false, which `MCCorbaBenchStray.cfg` shows.
* `CorbaBenchProof!BenchTypes`: `TypeOK`, for every behaviour, servers left running
  included: what forgotten users take from the counts of the living they add to that of the
  dead (`Drifted`), so `nalive` and `ndead` together stay within 0..`Users` (`WithinTarget`), and the sums over
  the servers have an upper bound always and a lower one if `Untangled`. Assumed of the earlier runs is
  `BeforeAssumption`, which says the same of what they left; that a run preserves it is what is proved.

* `PlatoonProof`: `PlatoonTypes`, `SearchesStayInside`, `CountersAreRight`, `TheDeadAreBuried`, `TheDeadAreNotCalled`
  and `NobodyDiesTwice`, for any number of slots, any targets and in both loops. The
  properties are not inductive one by one: that a counter is right after a death
  needs that the user was counted in its old state; that it dies only once needs that
  the poller has nothing left for the dead (`DeadAreSilent`); and `InitAgain` needs
  that nothing is left after `reset` (`EmptyAfterReset`). `Counted` is weaker than
  `CountsAgree` in the situation `early`, where counters only exceed the users there are.
  `SearchesStayInside` follows from the number of living users, which is never above the target nor, with right
  counters, above the number of slots. `NobodyDiesTwice` says that `reap` never deletes an object again, nor does `reset` find
  the scheduler not empty, nor does `startUser` leave the table (the ways to `crashed`), except where
  a user may be listed twice (`MayDieTwice`: the situation `wake`, and `early` in the server's loop, the only one in
  which the search can leave the table).
* `PlatoonProof!PlatoonImplementsAbs`: `Platoon` implements `PlatoonAbs` under `platoonBar`. A
  user's step is a stutter, `GetOn` or `Die` of the abstract platoon; `reap` and
  waiting stutter; the remote calls map to those of the same name.
* `FtpSessionProof!SessionTypes` and `StackIsBalanced`: the stack of states holds `RETR` while a port
  is negotiated and is empty otherwise, so neither `popState` nor `callState` aborts. The
  stack is a function of the state (`StackFor`), which is inductive with the types.
* `FtpSessionProof!StaysInSync` and `ReportedMeansDone`: `InSync` and `DoneMeansDone`, in passive
  and active mode, for streams of any length. The invariant has two halves. `WellFormed` is
  about the lines under way: they are whole replies, of one line or three, but for
  the rest of the one being read, which begins with a continuation exactly if
  `multiline` is set (`RestAt`, `WholeAt`). `Agreement` is about questions: for each state
  of the engine, which command is outstanding, and where (in `obuf`, under way, owed, or
  answered by exactly one reply on its way), or that two are, if `USER` was sent ahead of
  the server's hello (`SentAhead`). The lemmas `Rest...` say what is left of this when a
  line is read, `Longer...` when the server replies. Assumed is `RetryLogin = FALSE`: an
  application that calls `login` again after a refusal loses step, as
  `MCFtpSessionRetry.cfg` shows; the benchmark's users do not. Invariant and lemmas are in
  `FtpInStep`, stated for any conversation (`Sound`, `InStep`), of which the variables of
  `FtpSession` are one and those of `FtpPipe` another.
* `FtpPipeProof`: `PipeTypes`, `AssertionsHold`, `DoneIsReported`, `NothingIsLeft`,
  `EachIsReportedOnce` and `FilesAreWhole`, one for each safety property of the run `pipe`, with failures or without, replies in one line or several, with addresses or without, with
  spurious events or without; and `NoneFails`: no assertion fails if every successful reply
  to PASV has its address. Assumed is `GivesUp`: the
  application ends a session after a failure (`CarriesOn = FALSE`) and starts no new one inside
  `ftpCmdDone` (`RestartInCallback = FALSE`), which is what `robouser.cc` does; what
  happens to another application is among the observations below. `PipeInv` has three parts:
  - `Typed`, with the bounds of the buffers;
  - `Known`: what holds also in a session that has failed, in particular that the
    depth of calls tells whether `ftpCmdDone` is running, and that a session without a
    socket holds nothing and owes no report;
  - `Fit`, while the session is alive: the conversation made of the lines read and unread, the
    commands unsent and unread and the server's debt is in step (`InTouch`), and the
    session is where the awaited command needs it to be (`Working`), or stranded. Of a `get` there are four
    places, which relate the engine, the data socket, the timer and the server's end of the data
    connection: the port is awaited; it is known; the transfer is awaited, with data that
    come or have come; the verdict is there, and the data are not. That the server has not begun to send before it was told to
    (`NotAsked`, and the last line of `AwaitsPort`) is needed because data of an earlier transfer would
    otherwise be taken for those of this one.

  `Fit` does not hold inside the handlers. `ReadLines` gives the session after each line, and `Loop` says
  what holds there: the session is `Fit` for the lines still to come, or the loop was left, with the command
  `Answered`, the rest being lines of the same reply. That it holds after all lines, however many were read at
  once, is by the least line after which it would not (`LoopRuns`). `Processed`, `Controlled` and `Handled` carry
  the result through the flush, the opening of the data connection and the data handler to `NotifyEnds`, which shows that a verdict is
  reported if and only if both channels are done.
* `PollersProof`: `PollerTypes`, `TablesStayRight`, `EventsFindTheirOwner`, `NothingInvented`,
  `NothingForgotten` and `ReadinessIsKept`, for any number of descriptors, any clients, any length
  of the signal queue and each of the five classes. For all but `sigio`, `Steps` splits a step into
  what it does to the registrations and ghosts, which is the same for all four (`Common`), and the method
  that is called. Each class has an invariant of its own:
  - `PollInv`: the slots in use and the registered descriptors are inverse to each other
    (`PollTables`), and while nothing but the descriptor being handled was deleted, the slots
    below `m_cur_pfdnum` with `revents` are exactly what is due, `m_rfds` counts them, and
    the slot of the one being handled is not among them; so `del`, which moves the
    last slot into the hole, moves none of them past the scan.
  - `SelectInv`: the sets contain registered descriptors only, `m_max_fd` is the greatest, what
    is due are the bits after `m_cur_fd`, and `m_rbits` is at least their number (deletions
    leave it too large): the scan never stops early.
  - `DevInv`: what the driver watches is what is registered, what is due is among the
    answers left, and is all of them, each once, while nothing else was deleted.
  - `KqInv`: the kernel's events belong to registered descriptors and name their client or nobody;
    what is due has a result left, whose client is that of the registration.
  - `SigInv`: the nodes agree with what is registered, and the ring (`RingRight`) consists of those
    that are ready for something in their mask. `Ring` says that the links are inverse to each other on
    a set of nodes, and that no part of it but the whole is closed under `m_next`, so that it is one
    ring and not several; `RingGrows` and `RingShrinks` show that
    a node joins and leaves such a ring by the assignments of `readyListAdd` and
    `readyListDel`, the cases of a node that is its own neighbour included. `m_backup` is right as a
    `Poller_poll` (`BackRight`), by the lemmas about that class, and watches for everything.
    `SigKnown` strengthens `NothingLost`: after `EWOULDBLOCK` and before
    `clearReadiness`, what the descriptor is ready for has a signal of its own in the queue. Both loops of
    `waitForEvents` are recursive functions whose value exists by `Iterates`: a function that does `i` steps is
    extended to one that does `i + 1`, and that there is one for every `i` follows from the least `i` for which there would be none
    (`UpTo`). After an overflow each event of `m_backup` makes those still `Coming` one fewer, so
    as many steps as there are descriptors use them up (`OverflowTaken`).

  What `DP_POLL` and `kevent` report is in an order given by counting (`InOrder`, `place`);
  `Ranks` shows once that counting enumerates a finite set. Assumed is
  `"kqueue" \notin Interrupted`: after a failed `kevent` the
  properties do not hold (`MCPollersKqueueFails.cfg`).

The inductive invariants of `Platoon`, `FtpSession`, `FtpPipe` and `Pollers` were checked by TLC on the
constants of their runs before they were proved.

The assumptions are those named in the modules (`SkedAssumption`, `PlatoonAssumption`,
`SessionAssumption`, `PipeAssumption`, `NbbioAssumption`, `EclockAssumption`, `CorbaBenchAssumption`, `BeforeAssumption`, `PollersAssumption`,
which includes that a client is never the value `"absent"` that stands for no client).

Only model-checked:

* all liveness: fairness is beyond the prover.

`NextTimeIsEarliest`, `NoCrash`, `StackMatchesState` and `NobodyLeftRunning` are proved and not among the
properties of a run: the first follows from `HeapInv`, the second says where the model of the platoon may
stop, the third and fourth hold as long as the engine pops what it pushed (which the bound of the stack in `TypeOK` tests) and
the controller goes through all its servers.

## Findings

Three runs end in a violation of something the code or its comments say;
`PROJECT.json` quotes what.

* `platoon_double_reap`: `stop()` leaves a user's sockets registered. A user stopped
  in `runAll`, by a failing or slow read after a sleep, can be stopped again by an
  error on its control socket in the same iteration, and `reap()` deletes it twice.
* `pollers_stale_slot`: a descriptor added to `Poller_poll` between a wait and its
  last event takes over the slot, and the `revents`, of one that was deleted.
* `nbbio_lf`: after a CR all LFs that follow are ignored (`nbbio.cc:115`), where `nbbio.h` says
  that the next character is, if it is an LF.

Further observations, each of which a configuration that is not among the runs
reproduces: TLC finds the property it checks violated. In the benchmark as it is:

* `MCPlatoonPhantom.cfg`: when `connect` succeeds at once and the write in `login`
  fails, the user is stopped and then set to `CONNECTING` (`robouser.cc:262`); it is reaped, and
  counted as connecting for ever.
* `MCFtpPipeAddress.cfg`: a `get` whose PASV was answered successfully but without an address is
  reported as done, though no data connection was opened. `robouser.cc:223-227` takes
  an `xerr` of zero to mean that the local part succeeded.
* `MCFtpPipeAssert.cfg`: the next `get` of that session fails the scheduler's assertion
  (`Sked.cc:332`).
* `MCFtpPipeSpurious.cfg`: a POLLIN behind which there are no data cancels the timeout of a
  `get`; if the server then stays silent, the `get` never ends ("Abort if no response in five
  seconds", `ftp_client_pipe.cc:842`).
* `MCPollersKqueueMask.cfg`: an event of a bit that `setMask` or `orMask` added has no
  client (`Poller_kqueue.cc:126`), which `bench.cc:334` would call.
* `MCPollersKqueueFails.cfg`: after a `kevent` that failed, `getNextEvent` gives out
  the results of the wait before and runs past them, since it looks for
  `mCurResult == mNumResults` (`Poller_kqueue.cc:246`) when the latter is -1; `bench.cc:349` goes on after `EINTR`.

With CORBA:

* `MCPlatoonOutside.cfg`: with a target above `MAXUSERS` and users counted without a slot,
  `startUser` looks for an empty slot outside `m_users` (`Platoon.cc:129`).
* `MCPlatoonSlow.cfg`: when the scheduler is overdue at the end of an iteration the server waits with a
  negative timeout, which means without end, and holds the mutex
  (`CorbaPlatoon_impl.cc:324`); `bench.cc:346` has the test that is missing there.
* `MCCorbaBenchLeft.cfg`: a server whose call ended in `COMM_FAILURE` although it was executed is left
  out of the test and of the resets at its end ("don't leave the sourcerer's apprentice
  fetching files forever", `corbaftpbench.cc:201`). Another exception, or "All users
  dead", ends the controller without any resets.
* `MCCorbaBenchStray.cfg`: the controller initialises a platoon that was left running; its forgotten users
  die, and "All users dead.  Test failed." is printed while a user lives.
* `MCCorbaBenchWide.cfg`: where `long` and `clock_t` are wider than `int`, `eclock()` wraps
  at the width of an int and the comparison does not: a test that spans the wrap
  does not end in time (`eclock.h:31-33` has "one half the maximum representable in a long").

In the engine, as an application other than this benchmark's users would meet them:

* `MCFtpSessionRetry.cfg`: a failed login returns to the state that awaits the
  server's hello, which does not come again (`ftp_client_proto.cc:207,217`).
* `MCFtpSessionPort.cfg`: in PORT mode RETR is never queued
  (`ftp_client_proto.cc:252`); the pipe uses passive mode only.

Observations made while modelling, without a configuration:

* Starting a session over inside `ftpCmdDone` resets the guard `m_in_ftpCmdDone`, which
  then drops to -1: no completion is reported any more (`RestartInCallback = TRUE`).
* An application that goes on after a refusal (`CarriesOn = TRUE`) meets the assertion of
  `MCFtpPipeAssert.cfg` at the next `get`, and is told once per line of a login that was refused in several lines.
* After `reset` and before `init`, `getStatus` still counts the users that were deleted.
* In the server's loop (`loop = "corba"`) the case of `MCPlatoonPhantom.cfg` leads to a user that is reaped twice.
* `set_lastConnectingState` gives `CONNECT_START` the value `CONNECTING` and
  `CONNECT_FINISH` the value `CONNECT` (`CorbaPlatoon_impl.cc:131-132`), the reverse of what
  the IDL says they mean (`CorbaPlatoon.idl:61-62`): with the latter the next connection
  starts before the last one is complete. The model follows the code.
* "All users dead.  Test failed." may be printed while a platoon asked early in the round
  has just started its first user, which is why `FailedMeansDead` is about those that had
  one when the round began.

## What is not modelled

The wake-up pipe of `Poller`, which no program here uses (`Poller_test.cc` tests it); `Poller_sigfd`,
which differs from `Poller_sigio` in one `fcntl` and needs a kernel patch; the ORB, the name
service and the mapping of the IDL, which are external; calls to a server before its first `init` or
to `reset` without a poller, which follow pointers that are null or not set and which the
controller never makes; utilities (`dklimits.c`, `getifaddrs.c`, `profile.c`), benches and tests, which
keep no state others depend on; the amounts of data and bandwidth (whether a session
sleeps is free); replies of fewer than four characters, where the engine looks at
what lies behind the end of the line (`ftp_client_proto.cc:157`); argument parsing and
SIGINT.

## What the plan has left

1. Composition: a session with a scheduler and a poller of its own, instead of
   their fairness.
2. Proofs: that `FtpPipe` runs the engine as `FtpSession` does.
3. Liveness of the pollers' loop: what stays ready is handed out.

## Running

`tlc -config MCSked.cfg MCSked` and so on for each run of `PROJECT.json`;
`tlapm` on `SkedProof.tla`, `FtpInStep.tla`, `FtpSessionProof.tla`, `FtpPipeProof.tla`, `PlatoonProof.tla`,
`NbbioProof.tla`, `CorbaBenchProof.tla` and `PollersProof.tla` (the last takes some nine
minutes, the others less). The runs of `Nbbio` are `tlc -config MCNbbio.cfg Nbbio` and
`tlc -config MCNbbioLF.cfg Nbbio`; a configuration not among the runs goes with the module whose name it
begins with (`tlc -config MCPlatoonSlow.cfg MCPlatoon`). The longest runs, `pipe`, `pollers` and `corba_bench`, take
one to two minutes.
