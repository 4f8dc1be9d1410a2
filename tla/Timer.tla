------------------------------- MODULE Timer -------------------------------
(***************************************************************************)
(* The two timers of a client process (proxy.c): moments of the wall clock *)
(* kept as timevals, the time left on them in milliseconds in an int, and  *)
(* the loop that waits in ssh_event_dopoll() for the lesser of the two.    *)
(* Time is counted in microseconds.  It passes in the wait, and from there *)
(* to the next look at the timers: in callbacks that block, as HaasConnect *)
(* does for up to 60 seconds in each of its steps, and in the two flushes. *)
(* The clock may be set while the process runs.                            *)
(***************************************************************************)
EXTENDS Integers

CONSTANTS
  MaxInt,          \* the largest int
  MsPerSec, UsPerMs,
  IdleTimeout,     \* Config.IdleTimeout, seconds
  SessionTimeout,  \* Config.SessionTimeout, seconds, not above 0 for none
  BootTime,        \* the second of the wall clock at which the process begins
  MaxBusy,         \* the most that passes between a wait and a look at the timers
  Moves,           \* by how much the clock may be set
  MaxMoves,        \* how often
  MaxTime          \* for how long the process is watched

ASSUME TimerAssumption ==
  /\ MaxInt \in Nat
  /\ MsPerSec \in Nat \ {0} /\ UsPerMs \in Nat \ {0}
  /\ IdleTimeout \in Nat \ {0} /\ SessionTimeout \in Int
  /\ BootTime \in Nat /\ MaxBusy \in Nat /\ Moves \subseteq Int
  /\ MaxMoves \in Nat /\ MaxTime \in Nat

UsPerSec == MsPerSec * UsPerMs

VARIABLES
  pc,            \* "Loop", "Poll", "Busy" or "Done"
  now,           \* time since the process began
  wall,          \* the wall clock
  IdleTimer, SessionTimer,
  wait,          \* milliseconds given to ssh_event_dopoll()
  waited,        \* how long it has been waiting
  busy,          \* how long callbacks and flushes have taken since
  idleSince,     \* when the client was last active
  ahead, behind, \* by how much the clock was set forward and back in all
  moves          \* how often

timers == <<IdleTimer, SessionTimer, idleSince>>
clock == <<ahead, behind, moves>>
poll == <<wait, waited, busy>>
vars == <<pc, now, wall, timers, poll, clock>>

\* The value of an int that was assigned i.
ToInt(i) == ((i + MaxInt + 1) % (2 * (MaxInt + 1))) - (MaxInt + 1)

gettimeofday == [tv_sec |-> wall \div UsPerSec, tv_usec |-> wall % UsPerSec]

TimerStart(Sec) == [gettimeofday EXCEPT !.tv_sec = @ + Sec]

\* timercmp(a, b, <)
Before(a, b) ==
  \/ a.tv_sec < b.tv_sec
  \/ a.tv_sec = b.tv_sec /\ a.tv_usec < b.tv_usec

MsBetween(a, b) ==
  (b.tv_sec - a.tv_sec) * MsPerSec + b.tv_usec \div UsPerMs - a.tv_usec \div UsPerMs

MutNotCompared(Timer) == ToInt(MsBetween(gettimeofday, Timer))

MutSecondsOnly(Timer) ==
  IF Before(gettimeofday, Timer)
  THEN ToInt((Timer.tv_sec - gettimeofday.tv_sec) * MsPerSec)
  ELSE 0

\* The multiplication overflows in an int; compilers for the targets of the
\* Makefile let it wrap.
TimerGet(Timer) ==
  IF Before(gettimeofday, Timer) THEN ToInt(MsBetween(gettimeofday, Timer)) ELSE 0

-----------------------------------------------------------------------------

Init ==
  /\ pc = "Loop"
  /\ now = 0
  /\ wall \in BootTime * UsPerSec .. (BootTime + 1) * UsPerSec - 1
  /\ IdleTimer = TimerStart(IdleTimeout)
  /\ SessionTimer = TimerStart(SessionTimeout)
  /\ wait = 0 /\ waited = 0 /\ busy = 0
  /\ idleSince = 0
  /\ ahead = 0 /\ behind = 0 /\ moves = 0

Limited == SessionTimeout > 0

Timeout ==
  /\ pc = "Loop"
  /\ \/ TimerGet(IdleTimer) = 0
     \/ Limited /\ TimerGet(SessionTimer) = 0
  /\ pc' = "Done"
  /\ UNCHANGED <<now, wall, timers, poll, clock>>

MutWaitForIdle ==
  /\ pc = "Loop"
  /\ TimerGet(IdleTimer) # 0
  /\ Limited => TimerGet(SessionTimer) # 0
  /\ wait' = TimerGet(IdleTimer)
  /\ waited' = 0
  /\ pc' = "Poll"
  /\ UNCHANGED <<now, wall, timers, busy, clock>>

\* The lesser of the two is waited for.
Poll ==
  /\ pc = "Loop"
  /\ TimerGet(IdleTimer) # 0
  /\ Limited => TimerGet(SessionTimer) # 0
  /\ wait' = IF Limited /\ TimerGet(SessionTimer) < TimerGet(IdleTimer)
             THEN TimerGet(SessionTimer) ELSE TimerGet(IdleTimer)
  /\ waited' = 0
  /\ pc' = "Poll"
  /\ UNCHANGED <<now, wall, timers, busy, clock>>

\* A poll with a negative time waits for events only.
Over == wait >= 0 /\ waited >= wait * UsPerMs

\* Its time is over, an event came, or a signal.
PollReturns ==
  /\ pc = "Poll"
  /\ busy' = 0
  /\ pc' = "Busy"
  /\ UNCHANGED <<now, wall, timers, wait, waited, clock>>

\* The client is active: a callback, run by the poll or by a flush, ends.
IdleTimerReset ==
  /\ pc = "Busy"
  /\ IdleTimer' = TimerStart(IdleTimeout)
  /\ idleSince' = now
  /\ UNCHANGED <<pc, now, wall, SessionTimer, poll, clock>>

\* The loop looks at the timers again.
Continue ==
  /\ pc = "Busy"
  /\ pc' = "Loop"
  /\ UNCHANGED <<now, wall, timers, poll, clock>>

Tick ==
  /\ \/ pc = "Poll" /\ ~Over /\ waited' = waited + 1 /\ UNCHANGED busy
     \/ pc = "Busy" /\ busy < MaxBusy /\ busy' = busy + 1 /\ UNCHANGED waited
  /\ now < MaxTime
  /\ now' = now + 1 /\ wall' = wall + 1
  /\ UNCHANGED <<pc, timers, wait, clock>>

\* settimeofday(2) by somebody else.
SetClock(d) ==
  /\ pc # "Done" /\ moves < MaxMoves
  /\ wall + d >= 0
  /\ wall' = wall + d
  /\ ahead' = ahead + (IF d > 0 THEN d ELSE 0)
  /\ behind' = behind + (IF d < 0 THEN -d ELSE 0)
  /\ moves' = moves + 1
  /\ UNCHANGED <<pc, now, timers, poll>>

Finished == (pc = "Done" \/ now = MaxTime) /\ UNCHANGED vars

Next ==
  \/ Timeout \/ Poll \/ PollReturns \/ IdleTimerReset \/ Continue
  \/ Tick
  \/ \E d \in Moves : SetClock(d)
  \/ Finished

Spec == Init /\ [][Next]_vars

-----------------------------------------------------------------------------
(***************************************************************************)
(* Properties.                                                             *)
(***************************************************************************)

Timeval == [tv_sec : Int, tv_usec : 0..UsPerSec-1]

\* The state has its types; in particular the time given to a poll is positive:
\* it neither returns at once, for ever, nor waits for ever.
TypeOK ==
  /\ pc \in {"Loop", "Poll", "Busy", "Done"}
  /\ now \in Nat /\ wall \in Nat
  /\ IdleTimer \in Timeval /\ SessionTimer \in Timeval
  /\ wait \in 0..MaxInt /\ (pc = "Poll" => wait > 0)
  /\ waited \in Nat /\ busy \in 0..MaxBusy
  /\ idleSince \in 0..now
  /\ ahead \in Nat /\ behind \in Nat /\ moves \in 0..MaxMoves

\* The process ends by timeout only when a timer has less than a millisecond
\* left, whatever the rounding of its two moments; setting the clock forward
\* takes away no more than the clock was moved by.
NotEarly ==
  pc = "Done" =>
    \/ now + ahead + UsPerMs > idleSince + IdleTimeout * UsPerSec
    \/ Limited /\ now + ahead + UsPerMs > SessionTimeout * UsPerSec

\* [-i IDLE_TIMEOUT] - inactivity timeout: a client that does nothing is not
\* served a millisecond longer, plus what the clock was set back by, and what
\* callbacks and flushes take between one wait and the next look at the timer.
InactivityTimeout ==
  now <= idleSince + IdleTimeout * UsPerSec + UsPerMs + behind + MaxBusy

\* However active a client is, and however often its callbacks block, it is late
\* by one such delay only: the delays do not add up, the session timer runs on
\* meanwhile, and the loop wakes up for whichever timer is first
\* (proxy.c:1704-1725, 1768-1787).
NotLate ==
  /\ InactivityTimeout
  /\ Limited => now <= SessionTimeout * UsPerSec + UsPerMs + behind + MaxBusy
=============================================================================
