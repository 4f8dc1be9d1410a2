# A TLA+ model of the HaaS SSH trap

The program (`src/src`) is a trap for SSH clients: a master process accepts TCP
connections and forks one process per client; the client process answers the
SSH protocol through libssh, hands the password the client tries to a honeypot
service ("HaaS") and, once HaaS accepts one, relays everything between the two,
forwarded TCP connections included.  This directory holds TLA+ modules for the
parts that carry its logic, the TLC configurations that check them on small
instances, and TLAPS proofs of what holds for every instance.

`PROJECT.json` maps each definition to its source lines and lists the runs, the
mutations each property was shown to detect, the hazards, the findings and the
theorems.

    tlc -config MCMaster.cfg MCMaster.tla        # check one instance
    tlapm MasterProofs.tla                       # check the proofs

## Inventory

| part | state | operations | models |
|---|---|---|---|
| Master (`main.c`) | `ShouldStop`, `ChildCount`, `CurrTomb`, `GraveYard[2]`; the kernel's children, queue and pending signals | loop `select` / harvest / `accept` / `fork` / console; `SigHandler` | `Master`, `Admission`, `MasterProofs` |
| Forward pool (`fw_pool.c`) | `Used`, `Alloc`, `Items` | `FwPoolAdd`, `FwPoolRemove`, `FwPoolGet`, `FwPoolFindClosed`, `FwPoolDone` | `FwPool`, `ForwardSet`, `FwPoolProofs` |
| Forward pairs (`fw_pair.c`) | `Context`, `Closed`, two ends with a channel each | `FwPairAlloc`, `FwPairRelease` | `Forward`, `ForwardProofs` |
| Port forwarding (`proxy.c`) | the pool, libssh channels and their callbacks | `TrapMessageCallback`, the `ForwardChannel...` callbacks, `HandleForwards` | `Forward`, `ForwardProofs` |
| Client session (`proxy.c`) | `tSshContext`: sessions, channels, `Authenticated`, `Retries`, `Closed`, timers | `ProxyProcess`, `HaasConnect`, the trap and HaaS callbacks, `SessionClose` | `Session`, `Lifecycle`, `SessionProofs` |
| Channel data relay (`proxy.c`) | what libssh keeps of each stream, windows, the mode of each session | the data, EOF and close callbacks of session channels and forwarded pairs | `Relay`, `Pipe`, `RelayProofs` |
| Start-up, `daemonize` (`main.c`) | descriptors, session, directory, nice value, exit status | options, nice, two forks, `/dev/null`, server socket | `Startup`, `StartupProofs` |
| Configuration (`config.c`) | `tConfig` | `ConfigInit`, `ConfigParse` | `Config`, `ConfigProofs` |
| Timers (`proxy.c`) | two `timeval`s | `TimerStart`, `TimerGet`, the waits of the loops | `Timer`, `TimerProofs`; as ticks, in `Session` |
| Debug output (`debug.c`) | level and destination | `qprintf`, `qdone`, called by the program and by its signal handler | partly: `SignalLog` |
| libssh | external | - | external definitions |

How they interact: the master and a client process share nothing but signals and
the exit of the process, which comes back as `SIGCHLD`.  Within a client process
there is one thread; what makes it hard is that libssh calls back into `proxy.c`
from inside nearly every call it is given, so that state read before such a call
may be stale after it.  Callbacks and main program share `tSshContext` and, for
forwards, the pool.

What is hard in this code, and where the properties aim:

* **Interleaving of the signal handler** with every statement of the master:
  deaths counted twice, lost, or late; `errno` replaced under the test of it.
* **Callbacks during every libssh call**: pairs added while the pool is walked,
  packets for a pair that is being released, a close while a request waits.
* **Removal by swapping, growth with a failing `realloc()`** in the pool.
* **Order of release** on every way out of `ProxyProcess()`, with callbacks running
  inside the calls that release.
* **Timers and flags that are looked at only at some places**: `ShouldStop`,
  `Closed`, the CPU limit, two time-outs of which one `dopoll` must honour both.
* **Partial writes**: a data callback does not wait for a window; what it leaves is
  offered again, a callback of the other direction may run inside it, and each
  switches the mode of a session there and back.
* **Numbers**: milliseconds of the wall clock in an `int`, ranges tested by hand.
* **The lock of the log**, which the signal handler takes as well.
* **Any step of the start-up failing**, in one of three processes.

`PROJECT.json` "hazards" lists each at its line with the properties that cover
it, or the reason why none does yet.

## The modules

### Master, Admission

`Master` is the loop of `main()` with `SigHandler()`.  A label of `pc` stands
between any two statements that a signal may separate and where the separation
matters: `Check` (test of `ShouldStop`), `Call` (`FD_SET` up to the blocking in
`select()`, where a handled signal interrupts nothing), `Select`, `Unblocked`
(`select()` returned -1 by a signal), `Eintr`, `Bury`, `Switch`, `Count`,
`Burn`, `Settle` (the harvest of the tombs, main.c:314-327), `Accept`, `Fork`,
`Born`, `Console`, `Exit`.  The handler is a second program on the same process:
`Deliver` starts it, each `Reap` is one `waitpid()` that found a zombie and the
burial, `HandlerReturns` is the `waitpid()` that found none and leaves its `errno`
behind.  While it runs (`handling`) the main program stands still.  A stop signal handled at
`Call` is noticed because `SelectTimeout` ends the wait after its one second.  The
kernel is
three sets and a flag: `alive`, `zombie`, the bounded `backlog` and the one
pending `sigchld`, which merges several deaths.  Process identifiers are the
constant `Child`; one can be used again after it was waited for.

`Admission` is what the limit promises, with no signal in sight: at most `Limit`
slots, taken on admission, given back after the client process left, never
before.  `Master` implements it (`ImplementsAdmission`) with a slot held from
`fork()` until `ChildCount` is corrected.

### FwPool, ForwardSet

`FwPool` is the array with its chunks.  Each operation is an action with its
result as a parameter, so that `Forward` uses the same definitions.  `Spec` is
the use the session makes of the pool, and `ForwardSet` the set it implements:
pairs leave it one at a time, and only once they were marked closed or when the pool
is drained.  A store beyond the array, which a failing `realloc()` leads to, is
undefined behaviour: after it the model says nothing more of the pool
(`Undefined`), and `InBounds` is the property that it never comes to that.

### Forward

Composes the pool with pairs, channels and callbacks.  `pc` is where the main
program is (`Wait` stands for everything outside `HandleForwards()`, where libssh
may dispatch at any time); callbacks are actions enabled wherever a call that
dispatches is going on (`Dispatching`): in a poll, in the sweep of `HandleForwards()`,
in `FwPoolDone()` and in `SessionClose()`.  The loop of `FwPoolDone()` is `Drain` for each
pair, with the same release, until `Drained`; pairs that join meanwhile are drained too.
`ForwardPool` is `freed` from then on, while `Context` still points there, and a request
that comes in `SessionClose()` uses what is freed (`LateRequest`).  A request in mode ALLOW is split at
`ssh_channel_open_forward()`, which waits for HaaS and dispatches meanwhile:
`OpenForward`, `Confirm`, `Early` (packets before the callbacks are set),
`AcceptForward` or one of the failures.  `FwPairRelease()` is split at each channel
it frees, since closing one dispatches packets for the other.  `frees` counts the
calls of `ssh_channel_free()` per channel.  `Crashed` is the end of a process that
went through a NULL pointer after a failed `malloc()`, stored beyond the array or used
freed memory.

### Session

`ProxyProcess()` from the key exchange to the last release.  `held` is the set of
what is allocated, `inLoop` the sessions in the event loop, `up` the connections
that have not broken, `call` the blocking call to HaaS a callback is in.  Time
passes (`Tick`) only where the process blocks: in `ssh_event_dopoll()`, in a call
to HaaS, in the two flushes; `idle` and `session` are the ticks left.  `CallTimeout` is
what a callback may wait for HaaS in all: `HaasConnect()` has 60 s for each of its steps.
Any signal may interrupt a poll, and then `Closed` is not looked at
(`PollInterrupted`); `skipped` counts the polls with `Closed` set that this happened to,
up to `MaxSkips`.  Callbacks run in polls and flushes and, while the session is
released, in the calls that close channels (`ClosingChannels`).  In the `SessionClose()`
of the client a callback may use the HaaS session and channel that are freed by then
(`UseFreed`), which ends in the place `Crashed`.  Callbacks that only restart the idle
timer (data, window changes, signals, denied methods) are one action, `Served`.  Forwards appear as the pool that is released; `Forward` has the
rest.

`Lifecycle` is what the process promises about its resources: it takes them while
the client logs in, relays only with all that relaying needs, takes and gives
nothing meanwhile, may take some more while its forwards are drained (a callback
there may still open the channel), nothing once it closes its sessions, and comes to its
end with nothing held, or in a use of what it has freed.  `Session` implements it, the liveness of
giving back included (`ImplementsLifecycle`), with `stage` read off `pc`.  Its
`Safety` is the part without fairness, which the proofs can reach.

### Relay, Pipe

The data between two channels, for the session channel (mode `CHANNEL`) and for
forwarded pairs in the modes that carry data.  A data callback is `Data` (the
mode of the session it writes to is switched to non-blocking), any number of
`Write` (one unit each, while the window lasts), then `DataWritten` or `DataFails`
(the mode is switched back, what was taken leaves the buffer of libssh).  `callbacks`
is a stack: while a write is `Stuck` for a window libssh handles packets of the
other session, whose callback runs inside.  The mode NULL takes all and writes
nothing (`DataNull`).  `Eof` is passed on at once, `Close` and `Break` end a side,
`Release` is the sweep of `HandleForwards()` for a pair (`AtEof`), `Stop` the end of
the session.

`Pipe` is one direction of one stream: what comes out is a beginning of what went
in, and nothing comes out after the end.  `Relay` implements four of them.

### Timer

`TimerStart()`, `TimerGet()` and the loop around `ssh_event_dopoll()`, with time in
microseconds and the largest `int` and the length of a second as constants.
`TimerGet` rounds each moment down to milliseconds and cuts the result to an `int`, as
the code does; `wall` is the clock, which `SetClock` may move, `now` the time that
really passed, `ahead` and `behind` sum up the moves.  Besides the polls time passes
at `Busy`, between the return of a poll and the next look at the timers, in callbacks
that wait for HaaS and in the flushes: `busy`, at most `MaxBusy` a turn.

### Config

`ConfigInit()` and `ConfigParse()`: `given` is what `getopt()` has returned so far,
`ParseInt`, `Text`, `Switch`, `Wrong` its cases, `Check` the defaults and the tests at the
end.  The number is cut to an `int` first and tested then, as in the code.

### Startup

`main()` up to the loop of `Master`, which is the place `serve`, with `daemonize()`.
The three processes (the one invoked, the session leader, the daemon) each have
their descriptors, session, directory, nice value and `ShouldStop`; `Fork` copies
them.  The system log may be out of reach when the first line is written
(`Configured`); any later line, of the handler too, tries again and takes a descriptor
then (`Log`).  The handler of `Stop` is one step here: that it may hang in the system log
before it sets the flag is shown by `SignalLog`.  Every step has the action of its failure, and `Stop` is a signal at any
moment.

### SignalLog

A stack of frames: the program and the handlers running in it.  Each log line is
`Lock` and `Unlock` around the printing; on `stderr` the holder may take the lock
again, in the system log it may not.  The handler of `main.c` is `Caught`,
`Stopping`, `SetShouldStop`, `Bury`, `NoneDead`, `Return`; `Hang` is the process that
waits for a lock that it holds itself (`Stuck`).  Other locks under `vsyslog()` (the
heap, the time zone) and a blocking `/dev/log` are left out; they could only add ways to
hang.  The module has one run, which shows that a stop signal may go unseen.

## Runs

| run | instance | shows |
|---|---|---|
| `master` | 3 children, limit 2, backlog 1, console | deaths counted once, limit, tombs, refinement of `Admission`; zombies reaped, stop obeyed, tomb emptied after EINTR |
| `master_errno` | 2 children | violated: `errno` overwritten by the handler ends the master |
| `pool` | 4 pairs, chunks of 2, failing memory | the pool implements the set, no pair twice, as long as no entry lies beyond the array |
| `pool_memory` | the same | violated: `FwPoolAdd()` stores beyond the array instead of refusing |
| `forward` | 2 pairs, 3 channels, chunks of 1, 4 modes, failing memory | ownership, callbacks, EOF, release, also in the drain; a pair at its end of file is released |
| `session_safety` | idle 2, session 4, 3 tries, calls of 2 ticks, flushes of 1 each, one interrupted poll with `Closed` set | order of release, waits within the timers |
| `session_live` | idle 1, no session limit, CPU limit, 2 tries | stop, too many tries and, before the relay, the CPU limit each end the session; refinement of `Lifecycle` |
| `relay` | 4 modes, 2 units sent by each peer, windows up to 2 | streams in order through partial writes and nested callbacks; refinement of `Pipe` |
| `timer` | 6-bit `int`, 2 ms to the second, 3 us to the ms, idle 2 s, session 3 s, clock set twice, up to 4 us busy a turn, 40 us in all | never early; never late beyond a millisecond, what the clock was moved by and one turn's `MaxBusy` |
| `config` | 3 options, numbers at every edge, 20-bit `int` | what is accepted is usable and is what was given |
| `startup` | daemon and foreground, any standard descriptors open, nice 10 from 0, 5 or 15 | one master, served as asked, a stop signal survives the forks |
| `signal_stuck` | both destinations, 3 signals of 4 kinds, 2 dead children | violated: a handler that interrupts a line of the system log hangs before it sets `ShouldStop` |

Each passing run checks for deadlock as well.  The processes that may really come
to a halt (`Hang` in `SignalLog`, `Crashed` in `Forward`, the ends of all of them) have a
step of their own for it, so that no other halt goes unnoticed.

The invariants `TypeOK` of `FwPool`, `Relay`, `Config` and `Startup` are in no run: they
are proved.  `MCForwardPairs.cfg` is `forward` without its liveness property and with a
fourth channel, under symmetry: two forwards with both ends each at a time.  It passes.

### Why the bounds are enough

* *Master*: with a limit of two and three identifiers, one slot may be free,
  taken, or owed while a child dies, is buried in either tomb or merges its
  signal with another's; a third identifier lets a new child start while two
  deaths are uncounted.  The theorems hold for every `Child` and `ConnLimit`.
* *Pool*: four pairs with chunks of two reach a second growth, removal from the
  first, middle and last place, and a pool that is full after a failed growth;
  proved for every chunk size and set of pairs.
* *Forward*: two pairs are the least at which swapping moves another pair; three
  channels give two pairs in the modes with one end, and in mode ALLOW a pair with both
  its ends while another is opened (`MCForwardPairs.cfg` has two complete ones); a chunk of
  one makes every second add grow.  Mode DENY changes no state and is left out of the instance.
* *Session*: idle 2 < session 4, so either timer may end first, and with restarts of the
  idle timer the last poll gets what the session has left; calls of two ticks outlast
  what the idle timer has left.  One interrupted poll with `Closed` set, followed by
  another that waits out its time, is the case `ClosedWaitBounded` is about; the theorem
  holds for any number.  Three tries, as in the
  code.  Without a session limit nothing but what is asserted ends the session.
* *Relay*: two units are the least of which a write may take a part, windows of one
  and two are used up and adjusted; nesting is two deep at most, since a session
  whose callback runs gets no other.
* *Timer*: the scale keeps a carry from milliseconds to seconds, three phases of a
  millisecond, and timers short enough that all of their phases at start and at each
  reading occur; idle 2 < session 3 < two restarts; a turn may be busy for more than a
  millisecond, and 40 us are more than the session and all that may come on top.  With 32 bits, 1000 and 1000 the
  arithmetic is the same, as the theorems say.
* *Config*: an option given, given again, and another one need three.  The numbers
  are -1, 0, 1, both sides of a mode and of a port, and two that an `int` does not
  hold.
* *Startup*: every subset of standard descriptors; from 5 a nice value of 10 is
  missed, from 0 it is met.  That a daemon keeps its standard descriptors is claimed only
  if it was started with all three.
* *SignalLog*: three signals nest three deep, each kind in each other.

### Fairness

* *Master*: weak fairness of the main program and of the handler: the process is
  scheduled, `select()` waits one second at most (`SelectTimeout`, without which a stop
  signal handled just before it blocks would be missed), pending signals are delivered.
  No fairness for clients, children, the console or the stop signal, nor for a failure
  of `select()` (`SelectFails`), which would end the wait as well.
* *Forward*: strong fairness of the main program's step and of the end of a
  pending open request: the calls of libssh dispatch what has arrived and return,
  so callbacks delay the loop but do not stop it; an open request is answered or
  fails by the session's own time-out.
* *Session*: strong fairness of loop steps and of the return of
  `ssh_event_dopoll()` (a callback may disable both for a while, but one poll
  handles a bounded number of packets); weak fairness of the end of a call to
  HaaS, which has a time-out, and of time.  None for the key exchange, whose
  length is left to libssh and the client.
* *Relay* (`FairSpec`, used by a counterexample only): a running callback gets on and
  both peers go on reading.
* *Startup*, *SignalLog*: weak fairness of each process, which runs as long as it can.

## Findings

Three counterexamples are runs of `PROJECT.json`:

1. `EintrNeverFatal` (`master_errno`): `SigHandler()` does not preserve `errno` (main.c:53, 308).
2. `InBounds` (`pool_memory`): `FwPoolAdd()` tests `Used<=Alloc` where `<` is meant
   (fw_pool.c:103), and stores beyond the array when it could not be enlarged.
3. `StopSeen` (`signal_stuck`): a handler that interrupts a line of the system log waits for
   its lock for ever and never sets `ShouldStop` (main.c:46, debug.c:81).

Others are kept as configurations beside them, each with one property that says what a
comment or the usage says and that TLC refutes:

| configuration | property | what the code does |
|---|---|---|
| `MCMasterLockout.cfg` | `NoLockout` | tombs are harvested only after `EINTR` (main.c:314): at the limit with no child left, every client is refused until some other signal |
| `MCSessionLength.cfg` | `SessionMaximum` | `-s` does not bound a session that waits for HaaS in a callback (proxy.c:1254) |
| `MCSessionUsage.cfg` | `UsageEnds` | `-u` is enforced only until the client's channel is open (proxy.c:1753) |
| `MCRelayPending.cfg` | `PendingFlushed` | `ssh_channel_poll()` reports what a data callback left, it does not pass it on (proxy.c:1757) |
| `MCRelayHalf.cfg` | `AllSent` | a pair is released at the end of file of one direction, with data of the other still kept (proxy.c:1445) |
| `MCTimerOverflow.cfg` | `InactivityTimeout` | seconds times 1000 overflow an `int`; the wait becomes endless (proxy.c:102) |
| `MCConfigRange.cfg` | `OutOfRangeRefused` | numbers are cut to an `int` before their range is tested (config.c:94) |
| `MCConfigDefaults.cfg` | `DefaultsGivable` | `-n 0` is refused, although 0 is the documented default (config.c:99) |
| `MCStartupError.cfg` | `DaemonErrorShown` | `daemonize()` returns 0 for every failure, so none is reported (main.c:156) |

`FreedOnceUnlessRefused` is worded around one more: the channel of a forward that
HaaS refuses is freed at proxy.c:356 and again at proxy.c:425.  The model counts
the two calls and goes on as if the second did nothing; what libssh makes of it is
not followed.  Likewise line 1645 assigns `Context.ClientSshCB` to itself, so the
HaaS session gets no callbacks of its own, which nothing depends on.

## Proofs

`MasterProofs`: `Invariance` proves `IInv` invariant.  `DeathsCountedOnce`
(`ChildCount`, with the child about to be counted, equals running children, zombies
and buried ones) is not inductive by itself: it needs `TwoTombsEnough` (which tomb
holds what at each label of the harvest), `NotBoth` (a child is not running and a
zombie at once, so that cardinalities add up), `RoomForOne` (the limit still has
room between its test and the count of the new child) and `ClientWaits`
(`accept()` finds the connection `select()` reported).  One lemma for the steps of
the main program, one for those of the handler and the environment.  Type
correctness, the counting, the tombs and the limit follow from it, and
`Refinement` uses it to map each step of `Master` to a step of `Admission` or to a
stutter.  Assumed: `MasterAssumption`, which makes `Child` finite, the limit positive
and the backlog a natural number.

`FwPoolProofs`: `IInv` is types and `NoPairTwice`; lemmas say what each operation does to
the set of members (`AddIsJoin`, and its likes for removal, the release of the first entry
and the search for a closed pair), from which both the invariant and `SetRefinement`
follow.  `InBoundsCorrect` proves the bound that `pool_memory` refutes, from the
assumption that memory never fails: the off-by-one is the only way out of the array.

`ForwardProofs`: none of the properties of `Forward` is inductive by itself, since
each step relies on who may touch a channel or a pair.  `IInv` therefore says who
owns what: a channel belongs to the request that opens it or to the pair whose
callbacks it has (`ChannelsOwned`, `EndsOwned`); a pair to the pool or to the release at
work on it, in the sweep as in the drain (`PairsOwned`, `VictimLeft`, `DrainAtEnd`); and a
pair is marked because one of its own ends was closed
or at its end of file (`MarkedForCause`).  The lemmas about the pool's operations are
those of `FwPoolProofs`, instantiated.  From it follow the five invariants of the
run, the two action properties (`OpenPairsCorrect`, `FreesCorrect`), and
`PoolUseCorrect`: `Forward` uses the pool as the `Spec` of `FwPool` does, so that
`PoolIsSet` carries `SetRefinement` over to the composed system.  Assumed:
`ForwardAssumption` (`NoPair` and `NoChannel` are none, the modes are those of the
code, chunks are not empty).

`SessionProofs`: `IInv` says for each place of the program what is held and what is
in the event loop (`Holdings`, `LoopMembers`), where a callback may wait for HaaS
(`CallsInLoop`, the release included), that a poll that has seen no event was given no more than either
timer has left (`WaitInTimers`), how long a closed channel may still be waited for
after any number of interrupted polls (`ClosedWait`), and that a client is asked only while it has tries left
(`TriesLeft`).  `ReleasedInOrder`, `NoWaitAfterExpiry` and `ClosedWaitBounded` follow.
`LifecycleCorrect` shows that each step is a step of `Lifecycle` or leaves it alone;
the liveness in `ImplementsLifecycle` stays with TLC.

`RelayProofs`: `RestKept` is the heart of `IInv`: what came is what was written
followed by what is in the buffer less what a running callback has in hand, for
every stream whose other end can still take it; for one whose end has failed
`Beginning` is left.  It needs that a callback has in hand no more than it was offered
(`Lengths`), that nothing but a failure ends the side a callback writes to
(`Nesting`), and that callbacks inside each other have different sides.
`BlockingSaved` says what each callback saved, from which `BlockingRestored` follows:
although each callback restores only what it found, no session is left in the
wrong mode.  `PipeCorrect` maps each step to a step of each of the four pipes or to a
stutter.  The lemmas on sequences cut one in two and put it together again.  They
hold for every amount of data (`MaxSent`) and window.

`TimerProofs`: the lemmas say that `gettimeofday()` and `timercmp()` agree with the
time in microseconds (`ClockSplit`, `BeforeIsLess`), that the milliseconds between two
moments are right to less than one whatever the rounding of each (`MsRight`), and so
that `TimerGet()` returns 0 only with less than a millisecond left (`LeftOnTimer`).
`LateByBusy` says that after a poll only what was busy since makes a client late: the
delays of earlier turns do not add up, since each poll gets what is left.  `IInv` adds to
the properties that a timer tracks the time since it was started up
to what the clock was moved by (`TimersTrack`), and that a poll that is waiting ends
before either timer is over by a millisecond (`PollEnds`).  The theorems have one
hypothesis, `NoOverflow(most)`: with the clock set back by at most `most` at a time, the
time a timer can have left fits in an `int` of milliseconds.  With 32 bits these are
24 days.  `MCTimer.cfg` meets it with a `most` of 7; `MCTimerOverflow.cfg` does not,
and there the property fails.

`ConfigProofs`: `IInv` relates the options that were given to the configuration while
nothing was refused (`Stored`): an option has its mark, -1 or a null pointer, if and only
if it was not given, and else the value of the one time it was given, in its range.
That is why "already set" can be tested by the mark: no accepted number is the mark.
`CheckKeeps` then follows what the defaults replace.  Assumed: `ConfigAssumption`: an
`int` has 16 bits or more, so that the defaults fit, and no string is the null pointer.

`StartupProofs`: `IInv` says which process can be where (`Places`), that at most two
descriptors besides the standard ones are taken, so that `/dev/null` and the socket
get one (`FdsLeft`), that descriptors which are open at the start stay taken, so that
those of the log, whenever it connects, and of the socket are others (`StandardTaken`,
`SocketsClosed`), and how far the daemon has come (`Detaching`, `NiceSet`).

Only model-checked: all liveness (`ZombiesReaped`, `StopObeyed`, `EintrHarvests`,
`EofReleases`, `StopEnds`, `TooManyTriesEnd`, `UsageEndsLogin`, the fairness of
`Lifecycle`, `StopInherited`), which is out of the prover's reach.
Every invariant and every action property of a passing run is the subject of a
theorem.

## Assumptions about libssh

libssh is not part of the repository.  The model assumes of it what `proxy.c`
needs, and leaves the rest open:

* password requests are passed on only before authentication, and requests for
  session channels only after it;
* while a callback of a session runs, no other callback of that session's own
  socket does; those of the other session may;
* `ssh_event_dopoll()` returns after one round of packets, at its time-out, for a
  signal or not, or with an error when a connection it polls has broken;
* closing a channel sends and flushes, and may run callbacks of its session, also after
  the session has left the event loop; `ssh_disconnect()` and `ssh_free()` run none;
* `ssh_channel_free()` drops the callbacks of the channel: none of them is called
  afterwards;
* the second `ssh_channel_free()` of a refused forward does nothing (see Findings);
* data that a callback does not take is kept and offered again only with new data
  of the same stream, and `ssh_channel_poll()` reports the standard stream only;
* a write that finds the window used up handles packets of the sessions whose
  callbacks are not running, and in non-blocking mode returns what it wrote.

## Not modelled

The text of the log: levels, `-d`, formatting, hex dumps, `PrintUsage()`.  The
addresses kept in a forward pair.  `HaasConnect()` step by step (one call that
succeeds, or fails and counts a try, after no more than `CallTimeout` in all).  What the
process does after undefined behaviour: a store beyond the array, a use of what is
freed.  The numbers a second session channel of a
client gets, which libssh overwrites.  Children that the master did not fork itself,
which `waitpid(-1)` would find as well.  Memory used up by forwards of a client that
never opens a channel.  Build scripts have no run-time behaviour.

## Plan

1. What the abstract specifications promise (the bound of `Admission`, the beginning in
   `Pipe`, the order of `Lifecycle`) as theorems of their own, carried over by the
   refinements.
2. `Service`: master and sessions composed, a silent key exchange keeping a slot.
