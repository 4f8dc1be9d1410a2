---------------------------- MODULE TimerProofs ----------------------------
(***************************************************************************)
(* Proofs about Timer, for every length of an int, of the two time-outs    *)
(* and of a second, and however the clock is set.  They assume that what a *)
(* timer can have left fits in an int of milliseconds: beyond that the     *)
(* multiplication in TimerGet() overflows, and the properties fail.        *)
(***************************************************************************)
EXTENDS Timer, TLAPS

\* A clock that is set back by at most most at a time never leaves a timer more
\* milliseconds than an int holds.
NoOverflow(most) ==
  /\ \A d \in Moves : -d <= most
  /\ IdleTimeout * UsPerSec + MaxMoves * most <= UsPerMs * MaxInt
  /\ Limited => SessionTimeout * UsPerSec + MaxMoves * most <= UsPerMs * MaxInt

\* A timeval in microseconds.
Micro(t) == t.tv_sec * UsPerSec + t.tv_usec

\* A timer that was started sec seconds long when elapsed had yet to pass expires
\* when the clock has passed that much more, as it was set.
Tracks(t, sec, elapsed) ==
  /\ Micro(t) - wall <= sec * UsPerSec - elapsed + behind
  /\ Micro(t) - wall >= sec * UsPerSec - elapsed - ahead

\* Both timers track the time since they were started.
TimersTrack ==
  /\ Tracks(IdleTimer, IdleTimeout, now - idleSince)
  /\ Tracks(SessionTimer, SessionTimeout, now)

\* The clock was set back by no more than its moves allow.
BackBounded(most) == behind <= moves * most

\* A poll ends before a timer is over by a millisecond.
PollEnds ==
  pc = "Poll" =>
    /\ wait > 0
    /\ waited <= wait * UsPerMs
    /\ now - waited + wait * UsPerMs <= idleSince + IdleTimeout * UsPerSec + UsPerMs + behind
    /\ Limited =>
         now - waited + wait * UsPerMs <= SessionTimeout * UsPerSec + UsPerMs + behind

\* When a poll has returned, only what was busy since makes a client late.
LateByBusy ==
  pc = "Busy" =>
    /\ now <= idleSince + IdleTimeout * UsPerSec + UsPerMs + behind + busy
    /\ Limited => now <= SessionTimeout * UsPerSec + UsPerMs + behind + busy

IInv(most) ==
  /\ TypeOK
  /\ TimersTrack
  /\ BackBounded(most)
  /\ PollEnds
  /\ LateByBusy
  /\ NotEarly
  /\ NotLate

-----------------------------------------------------------------------------
(***************************************************************************)
(* Arithmetic.                                                             *)
(***************************************************************************)

\* What division leaves is less than the divisor.
LEMMA DivMod ==
  ASSUME NEW a \in Nat, NEW k \in Nat \ {0}
  PROVE  /\ a \div k \in Nat /\ a % k \in 0..k-1
         /\ a = k * (a \div k) + (a % k)
  OBVIOUS

\* A factor of a product of naturals keeps the order.
LEMMA TimesMono ==
  ASSUME NEW a \in Int, NEW b \in Int, NEW k \in Nat, a <= b
  PROVE  k * a <= k * b /\ a * k <= b * k
  OBVIOUS

\* A smaller multiple has a smaller factor.
LEMMA TimesCancel ==
  ASSUME NEW a \in Int, NEW b \in Int, NEW k \in Nat \ {0}, k * a < k * b + k
  PROVE  a <= b
<1> SUFFICES ASSUME a >= b + 1 PROVE FALSE
  OBVIOUS
<1>1. k * a >= k * (b + 1)
  BY TimesMono
<1>2. k * (b + 1) = k * b + k
  OBVIOUS
<1> QED
  BY <1>1, <1>2

\* A second has microseconds.
LEMMA SecondIsLong == UsPerSec \in Nat \ {0} /\ UsPerSec = MsPerSec * UsPerMs
  BY TimerAssumption DEF UsPerSec

-----------------------------------------------------------------------------
(***************************************************************************)
(* Moments and what is left of them.                                       *)
(***************************************************************************)

\* gettimeofday() splits the clock into seconds and microseconds.
LEMMA ClockSplit ==
  ASSUME wall \in Nat
  PROVE  gettimeofday \in Timeval /\ Micro(gettimeofday) = wall
<1>1. /\ wall \div UsPerSec \in Nat /\ wall % UsPerSec \in 0..UsPerSec-1
      /\ wall = UsPerSec * (wall \div UsPerSec) + (wall % UsPerSec)
  BY SecondIsLong, DivMod
<1> DEFINE s == wall \div UsPerSec
<1>2. UsPerSec * s = s * UsPerSec
  BY <1>1, SecondIsLong
<1> QED
  BY <1>1, <1>2 DEF gettimeofday, Timeval, Micro

\* A timer that is started for sec seconds is the clock sec seconds on.
LEMMA Started ==
  ASSUME wall \in Nat, NEW sec \in Int
  PROVE  TimerStart(sec) \in Timeval /\ Micro(TimerStart(sec)) = wall + sec * UsPerSec
<1> DEFINE g == gettimeofday
<1>1. g \in Timeval /\ Micro(g) = wall
  BY ClockSplit
<1>2. /\ TimerStart(sec) \in Timeval
      /\ TimerStart(sec).tv_sec = g.tv_sec + sec /\ TimerStart(sec).tv_usec = g.tv_usec
  BY <1>1 DEF TimerStart, Timeval
<1>3. (g.tv_sec + sec) * UsPerSec = g.tv_sec * UsPerSec + sec * UsPerSec
  BY <1>1, SecondIsLong DEF Timeval
<1>4. g.tv_sec * UsPerSec \in Int /\ sec * UsPerSec \in Int /\ g.tv_usec \in Int
  BY <1>1, SecondIsLong DEF Timeval
<1> QED
  BY <1>1, <1>2, <1>3, <1>4 DEF Micro

\* A timeval is a moment.
LEMMA MicroType == ASSUME NEW t \in Timeval PROVE Micro(t) \in Int
  BY SecondIsLong DEF Micro, Timeval

\* timercmp() compares the moments.
LEMMA BeforeIsLess ==
  ASSUME NEW a \in Timeval, NEW b \in Timeval
  PROVE  Before(a, b) <=> Micro(a) < Micro(b)
<1> DEFINE U == UsPerSec
<1>1. /\ a.tv_sec \in Int /\ a.tv_usec \in 0..U-1
      /\ b.tv_sec \in Int /\ b.tv_usec \in 0..U-1
      /\ U \in Nat \ {0}
  BY SecondIsLong DEF Timeval
<1> HIDE DEF U
<1>2. ASSUME NEW i \in Int, NEW j \in Int, i < j PROVE i * U + U <= j * U
  <2>1. (i + 1) * U <= j * U
    <3>1. U \in Nat /\ i + 1 \in Int /\ i + 1 <= j
      BY <1>1, <1>2
    <3> QED
      BY <3>1, TimesMono
  <2>2. (i + 1) * U = i * U + U
    BY <1>1
  <2> QED
    BY <2>1, <2>2
<1>3. a.tv_sec * U \in Int /\ b.tv_sec * U \in Int
  BY <1>1
<1>4. CASE a.tv_sec < b.tv_sec
  <2>1. a.tv_sec * U + U <= b.tv_sec * U
    BY <1>1, <1>2, <1>4
  <2> QED
    BY <1>1, <1>3, <1>4, <2>1 DEF Before, Micro, U
<1>5. CASE b.tv_sec < a.tv_sec
  <2>1. b.tv_sec * U + U <= a.tv_sec * U
    BY <1>1, <1>2, <1>5
  <2> QED
    BY <1>1, <1>3, <1>5, <2>1 DEF Before, Micro, U
<1>6. CASE a.tv_sec = b.tv_sec
  BY <1>1, <1>3, <1>6 DEF Before, Micro, U
<1> QED
  BY <1>1, <1>4, <1>5, <1>6

\* The milliseconds between two moments are right to less than one.
LEMMA MsRight ==
  ASSUME NEW a \in Timeval, NEW b \in Timeval
  PROVE  /\ MsBetween(a, b) \in Int
         /\ UsPerMs * MsBetween(a, b) < Micro(b) - Micro(a) + UsPerMs
         /\ UsPerMs * MsBetween(a, b) > Micro(b) - Micro(a) - UsPerMs
<1> DEFINE K == UsPerMs
           M == MsPerSec
           S == b.tv_sec - a.tv_sec
           qa == a.tv_usec \div K
           qb == b.tv_usec \div K
<1>1. /\ a.tv_sec \in Int /\ a.tv_usec \in Nat
      /\ b.tv_sec \in Int /\ b.tv_usec \in Nat
      /\ K \in Nat \ {0} /\ M \in Nat \ {0} /\ UsPerSec = M * K
  BY SecondIsLong, TimerAssumption DEF Timeval
<1>2. /\ qa \in Nat /\ K * qa <= a.tv_usec /\ a.tv_usec < K * qa + K /\ K * qa \in Int
      /\ qb \in Nat /\ K * qb <= b.tv_usec /\ b.tv_usec < K * qb + K /\ K * qb \in Int
  <2>1. \A u \in Nat : /\ u \div K \in Nat /\ K * (u \div K) \in Int
                        /\ K * (u \div K) <= u /\ u < K * (u \div K) + K
    <3> TAKE u \in Nat
    <3>1. /\ u \div K \in Nat /\ u % K \in 0..K-1 /\ u = K * (u \div K) + (u % K)
      BY <1>1, DivMod
    <3>2. K * (u \div K) \in Int
      BY <1>1, <3>1
    <3> QED
      BY <1>1, <3>1, <3>2
  <2> QED
    BY <1>1, <2>1
<1>3. MsBetween(a, b) = S * M + qb - qa
  BY DEF MsBetween
<1>4. S \in Int
  BY <1>1
<1>5. Micro(b) - Micro(a) = S * UsPerSec + b.tv_usec - a.tv_usec
  <2>1. S * UsPerSec = b.tv_sec * UsPerSec - a.tv_sec * UsPerSec
    BY <1>1, SecondIsLong
  <2>2. b.tv_sec * UsPerSec \in Int /\ a.tv_sec * UsPerSec \in Int
    BY <1>1, SecondIsLong
  <2> QED
    BY <1>1, <2>1, <2>2 DEF Micro
<1> HIDE DEF K, M, S, qa, qb
<1>6. K * (S * M + qb - qa) = K * (S * M) + K * qb - K * qa
  <2>1. S * M \in Int
    BY <1>1, <1>4
  <2>2. \A x \in Int : K * (x + qb - qa) = K * x + K * qb - K * qa
    BY <1>1, <1>2
  <2> QED
    BY <2>1, <2>2
<1>7. K * (S * M) = S * UsPerSec /\ S * UsPerSec \in Int
  BY <1>1, <1>4
<1>8. S * M + qb - qa \in Int
  BY <1>1, <1>2, <1>4
<1>9. MsBetween(a, b) \in Int
  BY <1>3, <1>8
<1>10. K * MsBetween(a, b) = S * UsPerSec + K * qb - K * qa
  BY <1>3, <1>6, <1>7
<1> QED
  BY <1>1, <1>2, <1>5, <1>7, <1>9, <1>10 DEF K

\* An int holds what is in its range.
LEMMA ToIntSame == ASSUME NEW i \in 0..MaxInt PROVE ToInt(i) = i
<1> DEFINE n == 2 * (MaxInt + 1)
           x == i + MaxInt + 1
<1>1. MaxInt \in Nat /\ n \in Nat \ {0} /\ x \in Nat /\ x < n
  BY TimerAssumption
<1>2. \A y \in Nat, m \in Nat \ {0} : y < m => y % m = y
  OBVIOUS
<1>3. x % n = x
  BY <1>1, <1>2
<1> QED
  BY <1>1, <1>3 DEF ToInt

\* What TimerGet() returns: the milliseconds left, right to less than one, and
\* 0 only when there is less than one left.
LEMMA LeftOnTimer ==
  ASSUME wall \in Nat, NEW t \in Timeval, Micro(t) - wall <= UsPerMs * MaxInt
  PROVE  /\ TimerGet(t) \in 0..MaxInt
         /\ TimerGet(t) # 0 => UsPerMs * TimerGet(t) < Micro(t) - wall + UsPerMs
         /\ TimerGet(t) = 0 => Micro(t) < wall + UsPerMs
<1> DEFINE g == gettimeofday
           ms == MsBetween(g, t)
<1>1. g \in Timeval /\ Micro(g) = wall
  BY ClockSplit
<1>2. UsPerMs \in Nat \ {0} /\ MaxInt \in Nat /\ Micro(t) \in Int
  BY TimerAssumption, MicroType
<1>3. CASE ~Before(g, t)
  <2>1. TimerGet(t) = 0
    BY <1>3 DEF TimerGet
  <2>2. Micro(t) <= wall
    BY <1>1, <1>2, <1>3, BeforeIsLess
  <2> QED
    BY <1>2, <2>1, <2>2
<1>4. CASE Before(g, t)
  <2>1. Micro(t) > wall
    BY <1>1, <1>2, <1>4, BeforeIsLess
  <2>2. /\ ms \in Int
        /\ UsPerMs * ms < Micro(t) - wall + UsPerMs
        /\ UsPerMs * ms > Micro(t) - wall - UsPerMs
    BY <1>1, MsRight
  <2> HIDE DEF ms
  <2>3. UsPerMs * ms \in Int /\ UsPerMs * MaxInt \in Int
    BY <1>2, <2>2
  <2>4. ms <= MaxInt
    <3>1. UsPerMs * ms < UsPerMs * MaxInt + UsPerMs
      BY <1>2, <2>2, <2>3
    <3> QED
      BY <1>2, <2>2, <3>1, TimesCancel
  <2>5. 0 <= ms
    <3>1. UsPerMs * 0 < UsPerMs * ms + UsPerMs
      BY <1>2, <2>1, <2>2, <2>3
    <3> QED
      BY <1>2, <2>2, <3>1, TimesCancel
  <2>6. ms \in 0..MaxInt
    BY <1>2, <2>2, <2>4, <2>5
  <2>7. TimerGet(t) = ms
    BY <1>4, <2>6, ToIntSame DEF TimerGet, ms
  <2>8. ms = 0 => Micro(t) < wall + UsPerMs
    BY <1>2, <2>2
  <2> QED
    BY <2>2, <2>6, <2>7, <2>8
<1> QED
  BY <1>3, <1>4

-----------------------------------------------------------------------------
(***************************************************************************)
(* The invariant.                                                          *)
(***************************************************************************)

\* Seconds that are given as an int are an int of microseconds.
LEMMA Products ==
  /\ UsPerMs \in Nat \ {0} /\ UsPerMs * MaxInt \in Nat
  /\ IdleTimeout * UsPerSec \in Nat /\ SessionTimeout * UsPerSec \in Int
  /\ UsPerSec \in Nat \ {0}
<1>1. \A a \in Int, b \in Int : a * b \in Int
  OBVIOUS
<1>2. \A a \in Nat, b \in Nat : a * b \in Nat
  OBVIOUS
<1> QED
  BY <1>1, <1>2, SecondIsLong, TimerAssumption

\* The timers are started together, with the whole of their time left.
LEMMA InitIInv == ASSUME NEW most \in Nat, Init PROVE IInv(most)
<1>1. wall \in Nat
  <2>1. BootTime * UsPerSec \in Nat /\ (BootTime + 1) * UsPerSec \in Nat
    BY Products, TimerAssumption
  <2> QED
    BY <2>1 DEF Init
<1>2. /\ IdleTimer \in Timeval /\ Micro(IdleTimer) = wall + IdleTimeout * UsPerSec
      /\ SessionTimer \in Timeval /\ Micro(SessionTimer) = wall + SessionTimeout * UsPerSec
  BY <1>1, Started, TimerAssumption DEF Init
<1>3. TypeOK
  BY <1>1, <1>2, TimerAssumption DEF Init, TypeOK
<1>4. TimersTrack
  BY <1>1, <1>2, Products DEF Init, TimersTrack, Tracks
<1>5. BackBounded(most)
  BY DEF Init, BackBounded
<1>6. NotEarly /\ PollEnds /\ LateByBusy
  BY DEF Init, NotEarly, PollEnds, LateByBusy
<1>7. NotLate
  <2>1. now = 0 /\ idleSince = 0 /\ behind = 0
    BY DEF Init
  <2>2. Limited => SessionTimeout * UsPerSec \in Nat
    BY Products, TimerAssumption DEF Limited
  <2> QED
    BY <2>1, <2>2, Products, TimerAssumption DEF NotLate, InactivityTimeout
<1> QED
  BY <1>3, <1>4, <1>5, <1>6, <1>7 DEF IInv

\* What the timers have left fits in an int.
LEMMA TimersFit ==
  ASSUME NEW most \in Nat, NoOverflow(most), IInv(most)
  PROVE  /\ Micro(IdleTimer) - wall <= UsPerMs * MaxInt
         /\ Limited => Micro(SessionTimer) - wall <= UsPerMs * MaxInt
<1>1. /\ wall \in Nat /\ now \in Nat /\ idleSince \in 0..now
      /\ behind \in Nat /\ moves \in 0..MaxMoves
      /\ Micro(IdleTimer) \in Int /\ Micro(SessionTimer) \in Int
  BY MicroType DEF IInv, TypeOK
<1>2. behind <= MaxMoves * most
  <2>1. moves * most <= MaxMoves * most
    BY <1>1, TimesMono, TimerAssumption
  <2>2. moves * most \in Int /\ MaxMoves * most \in Int
    BY <1>1, TimerAssumption
  <2> QED
    BY <1>1, <2>1, <2>2 DEF IInv, BackBounded
<1>3. MaxMoves * most \in Int
  BY TimerAssumption
<1> QED
  BY <1>1, <1>2, <1>3, Products DEF IInv, TimersTrack, Tracks, NoOverflow

\* What TimerGet() returns of the two timers.
LEMMA LeftOnBoth ==
  ASSUME NEW most \in Nat, NoOverflow(most), IInv(most)
  PROVE  /\ TimerGet(IdleTimer) \in 0..MaxInt
         /\ TimerGet(IdleTimer) # 0 =>
              UsPerMs * TimerGet(IdleTimer) < Micro(IdleTimer) - wall + UsPerMs
         /\ TimerGet(IdleTimer) = 0 => Micro(IdleTimer) < wall + UsPerMs
         /\ Limited =>
              /\ TimerGet(SessionTimer) \in 0..MaxInt
              /\ TimerGet(SessionTimer) # 0 =>
                   UsPerMs * TimerGet(SessionTimer) < Micro(SessionTimer) - wall + UsPerMs
              /\ TimerGet(SessionTimer) = 0 => Micro(SessionTimer) < wall + UsPerMs
<1>1. wall \in Nat /\ IdleTimer \in Timeval /\ SessionTimer \in Timeval
  BY DEF IInv, TypeOK
<1> QED
  BY <1>1, TimersFit, LeftOnTimer

\* The process ends when a timer has less than a millisecond left.
LEMMA TimeoutKeeps ==
  ASSUME NEW most \in Nat, NoOverflow(most), IInv(most), Timeout
  PROVE  IInv(most)'
<1>1. /\ wall \in Nat /\ now \in Nat /\ idleSince \in 0..now
      /\ behind \in Nat /\ ahead \in Nat
      /\ Micro(IdleTimer) \in Int /\ Micro(SessionTimer) \in Int
  BY MicroType DEF IInv, TypeOK
<1>2. /\ pc' = "Done"
      /\ UNCHANGED <<now, wall, IdleTimer, SessionTimer, idleSince, wait, waited, busy,
                     ahead, behind, moves>>
  BY DEF Timeout, timers, poll, clock
<1>3. TypeOK' /\ TimersTrack' /\ BackBounded(most)' /\ PollEnds' /\ LateByBusy' /\ NotLate'
  BY <1>2 DEF IInv, TypeOK, TimersTrack, Tracks, Micro, BackBounded, PollEnds, LateByBusy,
     NotLate, InactivityTimeout
<1>4. NotEarly'
  <2>1. CASE TimerGet(IdleTimer) = 0
    <3>1. Micro(IdleTimer) < wall + UsPerMs
      BY <2>1, LeftOnBoth
    <3>2. Micro(IdleTimer) - wall >= IdleTimeout * UsPerSec - (now - idleSince) - ahead
      BY DEF IInv, TimersTrack, Tracks
    <3>3. now + ahead + UsPerMs > idleSince + IdleTimeout * UsPerSec
      BY <1>1, <3>1, <3>2, Products
    <3> QED
      BY <1>2, <3>3 DEF NotEarly
  <2>2. CASE Limited /\ TimerGet(SessionTimer) = 0
    <3>1. Micro(SessionTimer) < wall + UsPerMs
      BY <2>2, LeftOnBoth
    <3>2. Micro(SessionTimer) - wall >= SessionTimeout * UsPerSec - now - ahead
      BY DEF IInv, TimersTrack, Tracks
    <3>3. now + ahead + UsPerMs > SessionTimeout * UsPerSec
      BY <1>1, <3>1, <3>2, Products
    <3> QED
      BY <1>2, <2>2, <3>3 DEF NotEarly
  <2> QED
    BY <2>1, <2>2 DEF Timeout
<1> QED
  BY <1>3, <1>4 DEF IInv

\* A poll is given what the lesser timer has left, so that it ends before either
\* timer is over by a millisecond.
LEMMA PollKeeps ==
  ASSUME NEW most \in Nat, NoOverflow(most), IInv(most), Poll
  PROVE  IInv(most)'
<1>1. /\ wall \in Nat /\ now \in Nat /\ idleSince \in 0..now
      /\ behind \in Nat /\ ahead \in Nat
      /\ Micro(IdleTimer) \in Int /\ Micro(SessionTimer) \in Int
  BY MicroType DEF IInv, TypeOK
<1>2. /\ pc' = "Poll" /\ waited' = 0
      /\ UNCHANGED <<now, wall, IdleTimer, SessionTimer, idleSince, busy, ahead, behind, moves>>
  BY DEF Poll, timers, clock
<1>3. TimersTrack' /\ BackBounded(most)' /\ NotEarly' /\ LateByBusy' /\ NotLate'
  BY <1>2 DEF IInv, TimersTrack, Tracks, Micro, BackBounded, NotEarly, LateByBusy, NotLate,
     InactivityTimeout
<1> DEFINE i == TimerGet(IdleTimer)
           s == TimerGet(SessionTimer)
<1>4. /\ i \in 0..MaxInt /\ i # 0 /\ UsPerMs * i < Micro(IdleTimer) - wall + UsPerMs
      /\ Limited => /\ s \in 0..MaxInt /\ s # 0
                    /\ UsPerMs * s < Micro(SessionTimer) - wall + UsPerMs
  BY LeftOnBoth DEF Poll
<1>5. wait' = IF Limited /\ s < i THEN s ELSE i
  BY DEF Poll
<1> HIDE DEF i, s
<1>6. MaxInt \in Nat
  BY TimerAssumption
<1>7. /\ wait' \in 0..MaxInt /\ wait' > 0 /\ wait' <= i
      /\ Limited => wait' <= s
  BY <1>4, <1>5, <1>6
<1>8. TypeOK'
  BY <1>2, <1>7 DEF IInv, TypeOK
<1>9. ASSUME NEW x \in 0..MaxInt, wait' <= x
      PROVE  wait' * UsPerMs <= UsPerMs * x /\ UsPerMs * x \in Int
  <2>1. x \in Int /\ wait' \in Int /\ UsPerMs \in Nat
    BY <1>6, <1>7, Products
  <2>2. UsPerMs * wait' <= UsPerMs * x
    BY <1>9, <2>1, TimesMono
  <2>3. UsPerMs * wait' = wait' * UsPerMs /\ UsPerMs * x \in Int
    BY <2>1
  <2> QED
    BY <2>2, <2>3
<1>10. /\ wait' * UsPerMs \in Nat
       /\ wait' * UsPerMs <= UsPerMs * i /\ UsPerMs * i \in Int
       /\ Limited => wait' * UsPerMs <= UsPerMs * s /\ UsPerMs * s \in Int
  <2>1. wait' \in Nat /\ UsPerMs \in Nat
    BY <1>6, <1>7, Products
  <2>2. \A a \in Nat, b \in Nat : a * b \in Nat
    OBVIOUS
  <2>3. wait' * UsPerMs \in Nat
    BY <2>1, <2>2, Zenon
  <2> QED
    BY <1>4, <1>7, <1>9, <2>3
<1>11. /\ Micro(IdleTimer) - wall <= IdleTimeout * UsPerSec - (now - idleSince) + behind
       /\ Micro(SessionTimer) - wall <= SessionTimeout * UsPerSec - now + behind
  BY DEF IInv, TimersTrack, Tracks
<1>12. PollEnds'
  <2>1. now + wait' * UsPerMs <= idleSince + IdleTimeout * UsPerSec + UsPerMs + behind
    BY <1>1, <1>4, <1>10, <1>11, Products
  <2>2. Limited => now + wait' * UsPerMs <= SessionTimeout * UsPerSec + UsPerMs + behind
    BY <1>1, <1>4, <1>10, <1>11, Products
  <2> QED
    BY <1>1, <1>2, <1>7, <1>10, <2>1, <2>2 DEF PollEnds
<1> QED
  BY <1>3, <1>8, <1>12 DEF IInv

\* A poll that returns, at its time or before it, is not late yet.
LEMMA ReturnKeeps ==
  ASSUME NEW most \in Nat, IInv(most), PollReturns
  PROVE  IInv(most)'
<1>1. /\ pc = "Poll" /\ pc' = "Busy" /\ busy' = 0
      /\ UNCHANGED <<now, wall, IdleTimer, SessionTimer, idleSince, wait, waited,
                     ahead, behind, moves>>
  BY DEF PollReturns, timers, clock
<1>2. /\ now \in Nat /\ behind \in Nat /\ wait \in Nat /\ waited \in Nat /\ idleSince \in 0..now
      /\ wait * UsPerMs \in Nat
  BY Products, TimerAssumption DEF IInv, TypeOK
<1>3. LateByBusy'
  BY <1>1, <1>2, Products DEF IInv, PollEnds, LateByBusy
<1>4. TypeOK'
  BY <1>1, TimerAssumption DEF IInv, TypeOK
<1> QED
  BY <1>1, <1>3, <1>4 DEF IInv, TimersTrack, Tracks, Micro, BackBounded, PollEnds, NotEarly,
     NotLate, InactivityTimeout

\* The loop looks at the timers again, late by no more than it may be busy.
LEMMA ContinueKeeps ==
  ASSUME NEW most \in Nat, IInv(most), Continue
  PROVE  IInv(most)'
<1>1. /\ pc' = "Loop"
      /\ UNCHANGED <<now, wall, IdleTimer, SessionTimer, idleSince, wait, waited, busy,
                     ahead, behind, moves>>
  BY DEF Continue, timers, poll, clock
<1> QED
  BY <1>1 DEF IInv, TypeOK, TimersTrack, Tracks, Micro, BackBounded, PollEnds, LateByBusy,
     NotEarly, NotLate, InactivityTimeout

\* Activity starts the idle timer anew.
LEMMA ResetKeeps ==
  ASSUME NEW most \in Nat, IInv(most), IdleTimerReset
  PROVE  IInv(most)'
<1>1. /\ wall \in Nat /\ now \in Nat /\ behind \in Nat /\ ahead \in Nat /\ busy \in Nat
  BY TimerAssumption DEF IInv, TypeOK
<1>2. /\ pc = "Busy" /\ pc' = "Busy" /\ idleSince' = now /\ IdleTimer' = TimerStart(IdleTimeout)
      /\ UNCHANGED <<now, wall, SessionTimer, wait, waited, busy, ahead, behind, moves>>
  BY DEF IdleTimerReset, poll, clock
<1>3. IdleTimer' \in Timeval /\ Micro(IdleTimer') = wall + IdleTimeout * UsPerSec
  BY <1>1, <1>2, Started, TimerAssumption
<1>4. TypeOK'
  BY <1>1, <1>2, <1>3 DEF IInv, TypeOK
<1>5. TimersTrack'
  <2>1. Tracks(IdleTimer, IdleTimeout, now - idleSince)'
    BY <1>1, <1>2, <1>3, Products DEF Tracks, Micro
  <2>2. Tracks(SessionTimer, SessionTimeout, now)'
    BY <1>2 DEF IInv, TimersTrack, Tracks, Micro
  <2> QED
    BY <2>1, <2>2 DEF TimersTrack
<1>6. NotLate' /\ LateByBusy'
  BY <1>1, <1>2, Products, TimerAssumption DEF IInv, LateByBusy, NotLate, InactivityTimeout
<1> QED
  BY <1>2, <1>4, <1>5, <1>6 DEF IInv, BackBounded, PollEnds, NotEarly

\* Time passes in a poll that has not reached its end, or in what follows it.
LEMMA TickKeeps ==
  ASSUME NEW most \in Nat, IInv(most), Tick
  PROVE  IInv(most)'
<1>1. /\ wall \in Nat /\ now \in Nat /\ idleSince \in 0..now
      /\ behind \in Nat /\ ahead \in Nat /\ wait \in Nat /\ waited \in Nat
      /\ busy \in 0..MaxBusy /\ MaxBusy \in Nat
      /\ Micro(IdleTimer) \in Int /\ Micro(SessionTimer) \in Int
  BY MicroType, TimerAssumption DEF IInv, TypeOK
<1>2. /\ now' = now + 1 /\ wall' = wall + 1
      /\ UNCHANGED <<pc, IdleTimer, SessionTimer, idleSince, wait, ahead, behind, moves>>
  BY DEF Tick, timers, clock
<1>3. \/ pc = "Poll" /\ ~(waited >= wait * UsPerMs) /\ waited' = waited + 1 /\ busy' = busy
      \/ pc = "Busy" /\ busy < MaxBusy /\ busy' = busy + 1 /\ waited' = waited
  BY <1>1 DEF Tick, Over
<1>4. wait * UsPerMs \in Nat
  BY <1>1, Products
<1>5. TypeOK'
  BY <1>1, <1>2, <1>3 DEF IInv, TypeOK
<1>6. TimersTrack'
  <2>1. Micro(IdleTimer)' = Micro(IdleTimer) /\ Micro(SessionTimer)' = Micro(SessionTimer)
    BY <1>2 DEF Micro
  <2> QED
    BY <1>1, <1>2, <2>1, Products DEF IInv, TimersTrack, Tracks
<1>7. PollEnds' /\ LateByBusy'
  BY <1>1, <1>2, <1>3, <1>4, Products DEF IInv, PollEnds, LateByBusy
<1>8. NotLate'
  <2>1. CASE pc = "Poll"
    BY <1>1, <1>2, <1>3, <1>4, <2>1, Products DEF IInv, PollEnds, NotLate, InactivityTimeout
  <2>2. CASE pc = "Busy"
    BY <1>1, <1>2, <1>3, <2>2, Products DEF IInv, LateByBusy, NotLate, InactivityTimeout
  <2> QED
    BY <1>3, <2>1, <2>2
<1> QED
  BY <1>2, <1>3, <1>5, <1>6, <1>7, <1>8 DEF IInv, BackBounded, NotEarly

\* A clock that is set moves both timers by what it is set by.
LEMMA SetClockKeeps ==
  ASSUME NEW most \in Nat, NoOverflow(most), IInv(most), NEW d \in Moves, SetClock(d)
  PROVE  IInv(most)'
<1>1. /\ wall \in Nat /\ now \in Nat /\ idleSince \in 0..now /\ moves \in Nat
      /\ behind \in Nat /\ ahead \in Nat /\ wait \in Nat /\ waited \in Nat
      /\ busy \in Nat /\ MaxBusy \in Nat
      /\ Micro(IdleTimer) \in Int /\ Micro(SessionTimer) \in Int
  BY MicroType, TimerAssumption DEF IInv, TypeOK
<1>2. d \in Int /\ -d <= most
  BY TimerAssumption DEF NoOverflow
<1>3. /\ wall' = wall + d /\ wall' >= 0 /\ moves' = moves + 1 /\ moves < MaxMoves
      /\ ahead' = ahead + (IF d > 0 THEN d ELSE 0)
      /\ behind' = behind + (IF d < 0 THEN -d ELSE 0)
      /\ pc # "Done"
      /\ UNCHANGED <<pc, now, IdleTimer, SessionTimer, idleSince, wait, waited, busy>>
  BY DEF SetClock, timers, poll
<1>4. /\ ahead' \in Nat /\ ahead' >= ahead /\ ahead' >= ahead + d
      /\ behind' \in Nat /\ behind' >= behind /\ behind' >= behind - d
      /\ behind' <= behind + most
  BY <1>1, <1>2, <1>3
<1>5. TypeOK'
  BY <1>1, <1>2, <1>3, <1>4, TimerAssumption DEF IInv, TypeOK
<1>6. TimersTrack'
  <2>1. Micro(IdleTimer)' = Micro(IdleTimer) /\ Micro(SessionTimer)' = Micro(SessionTimer)
    BY <1>3 DEF Micro
  <2> QED
    BY <1>1, <1>2, <1>3, <1>4, <2>1, Products DEF IInv, TimersTrack, Tracks
<1>7. BackBounded(most)'
  <2>1. (moves + 1) * most = moves * most + most /\ moves * most \in Int
    BY <1>1
  <2> QED
    BY <1>1, <1>3, <1>4, <2>1 DEF IInv, BackBounded
<1>8. wait * UsPerMs \in Nat
  BY <1>1, Products
<1>9. PollEnds' /\ LateByBusy'
  BY <1>1, <1>3, <1>4, <1>8, Products DEF IInv, PollEnds, LateByBusy
<1>10. NotLate'
  BY <1>1, <1>3, <1>4, Products DEF IInv, NotLate, InactivityTimeout
<1> QED
  BY <1>3, <1>5, <1>6, <1>7, <1>9, <1>10 DEF IInv, NotEarly

\* Nothing changes in a stuttering step.
LEMMA StutterKeeps ==
  ASSUME NEW most \in Nat, IInv(most), UNCHANGED vars
  PROVE  IInv(most)'
  BY DEF vars, timers, poll, clock, IInv, TypeOK, TimersTrack, Tracks, Micro, BackBounded,
     PollEnds, LateByBusy, NotEarly, NotLate, InactivityTimeout

\* Unless an int overflows, the timers track the clock, and no poll outlasts them.
THEOREM Invariance ==
  ASSUME NEW most \in Nat, NoOverflow(most)
  PROVE  Spec => []IInv(most)
<1>1. Init => IInv(most)
  BY InitIInv
<1>2. IInv(most) /\ [Next]_vars => IInv(most)'
  <2> SUFFICES ASSUME IInv(most), [Next]_vars PROVE IInv(most)'
    OBVIOUS
  <2>1. CASE Timeout
    BY <2>1, TimeoutKeeps
  <2>2. CASE Poll
    BY <2>2, PollKeeps
  <2>3. CASE PollReturns
    BY <2>3, ReturnKeeps
  <2>8. CASE Continue
    BY <2>8, ContinueKeeps
  <2>4. CASE IdleTimerReset
    BY <2>4, ResetKeeps
  <2>5. CASE Tick
    BY <2>5, TickKeeps
  <2>6. CASE \E d \in Moves : SetClock(d)
    BY <2>6, SetClockKeeps
  <2>7. CASE UNCHANGED vars
    BY <2>7, StutterKeeps
  <2> QED
    BY <2>1, <2>2, <2>3, <2>4, <2>5, <2>6, <2>7, <2>8 DEF Next, Finished
<1> QED
  BY <1>1, <1>2, PTL DEF Spec

-----------------------------------------------------------------------------
(***************************************************************************)
(* What the runs check.                                                    *)
(***************************************************************************)

\* Every poll is given a positive time that fits in an int: the loop neither
\* spins nor waits for ever.
THEOREM TypeCorrect ==
  ASSUME NEW most \in Nat, NoOverflow(most)
  PROVE  Spec => []TypeOK
<1>1. IInv(most) => TypeOK
  BY DEF IInv
<1> QED
  BY <1>1, Invariance, PTL

\* No client is timed out before a timer has less than a millisecond left.
THEOREM NotEarlyCorrect ==
  ASSUME NEW most \in Nat, NoOverflow(most)
  PROVE  Spec => []NotEarly
<1>1. IInv(most) => NotEarly
  BY DEF IInv
<1> QED
  BY <1>1, Invariance, PTL

\* No client is served a millisecond longer than either timer, plus what the
\* clock was set back by and what callbacks and flushes take once.
THEOREM NotLateCorrect ==
  ASSUME NEW most \in Nat, NoOverflow(most)
  PROVE  Spec => []NotLate
<1>1. IInv(most) => NotLate
  BY DEF IInv
<1> QED
  BY <1>1, Invariance, PTL
=============================================================================
