------------------------------ MODULE Session ------------------------------
(***************************************************************************)
(* A client process, from the accepted connection to its end: the function *)
(* ProxyProcess() of proxy.c with the callbacks libssh runs inside its     *)
(* calls, those by which the session is released included.  Time is        *)
(* counted in ticks that pass only where the process blocks; the two       *)
(* timers are kept as the ticks left on them.  Forwarded connections       *)
(* (module Forward) appear as the pool that is freed with the session.     *)
(***************************************************************************)
EXTENDS Integers

CONSTANTS IdleTimeout,     \* Config.IdleTimeout
          SessionTimeout,  \* Config.SessionTimeout, 0 for none
          CpuUsage,        \* there is a Config.CpuUsage limit
          MAX_RETRIES,     \* failed passwords that end the session
          CallTimeout,     \* what a callback may wait for HaaS, all its steps
          FlushTimeout,    \* the one second given to each ssh_blocking_flush()
          MaxSkips         \* bound on the interrupted polls with Closed set

ASSUME SessionAssumption ==
  /\ IdleTimeout \in Nat \ {0}
  /\ SessionTimeout \in Nat
  /\ CpuUsage \in BOOLEAN
  /\ MAX_RETRIES \in Nat \ {0}
  /\ CallTimeout \in Nat
  /\ FlushTimeout \in Nat
  /\ MaxSkips \in Nat

VARIABLES
  pc,             \* where the program is
  ShouldStop,     \* set by the signal handler
  Authenticated,
  Retries,
  Closed,         \* a channel of the session was closed by its other end
  have,           \* HavePty and HaveShell
  held,           \* what is allocated
  inLoop,         \* the sessions in MainLoop
  up,             \* the sessions whose connection is up
  idle,           \* ticks left on IdleTimer
  session,        \* ticks left on SessionTimer
  wait,           \* ticks ssh_event_dopoll() may still wait
  due,            \* it has seen an event and will return
  call,           \* the blocking call a callback is in
  blocked,        \* ticks spent in the current blocking call or flush
  overUsage,      \* the process used more CPU time than CpuUsage
  late,           \* time has passed with SessionTimer expired
  closedWait,     \* ticks waited in dopoll with Closed set, capped
  skipped         \* polls with Closed set that a signal interrupted

context == <<Authenticated, Retries, Closed, have, held, up>>
timers == <<idle, session, late, closedWait, skipped>>
poll == <<wait, due, call, blocked>>
outside == <<ShouldStop, overUsage>>
vars == <<pc, context, inLoop, timers, poll, outside>>

Least(a, b) == IF a < b THEN a ELSE b
Polling == pc \in {"AuthPoll", "RelayPoll"}
Expired == SessionTimeout > 0 /\ session = 0

\* What may be waited in dopoll with Closed set, after n interrupted polls.
Allowed(n) == IdleTimeout * (1 + n)

\* ssh_new(), ssh_bind_new(), FwPoolInit(); the key exchange begins.
Init ==
  /\ pc = "KeyExchange"
  /\ ShouldStop = FALSE
  /\ Authenticated = FALSE
  /\ Retries = 0
  /\ Closed = FALSE
  /\ have = {}
  /\ held \in {{"trapSession", "bind"}, {"trapSession", "bind", "pool"}}
  /\ inLoop = {}
  /\ up = {"trapSession"}
  /\ idle = 0 /\ session = 0 /\ late = FALSE
  /\ closedWait = 0 /\ skipped = 0
  /\ wait = 0 /\ due = FALSE /\ call = "none" /\ blocked = 0
  /\ overUsage = FALSE

-----------------------------------------------------------------------------
(***************************************************************************)
(* ProxyProcess(): set-up and the authentication loop.                     *)
(***************************************************************************)

\* The timers start after the key exchange, to which the program sets no time limit.
KeyExchanged ==
  /\ pc = "KeyExchange"
  /\ "trapSession" \in up
  /\ held' = held \cup {"mainLoop"}
  /\ inLoop' = {"trapSession"}
  /\ idle' = IdleTimeout
  /\ session' = SessionTimeout
  /\ pc' = "Auth"
  /\ UNCHANGED <<Authenticated, Retries, Closed, have, up, late, closedWait,
                 skipped, poll, outside>>

KeyExchangeFails ==
  /\ pc = "KeyExchange"
  /\ pc' = "Release"
  /\ UNCHANGED <<context, inLoop, timers, poll, outside>>

\* ShouldStop, CheckUsage() and the timers end the loop.
AuthEnds ==
  /\ pc = "Auth"
  /\ ShouldStop \/ overUsage \/ idle = 0 \/ Expired
  /\ pc' = "Remove"
  /\ UNCHANGED <<context, inLoop, timers, poll, outside>>

MutLongerTimer(label) ==
  /\ wait' = IF SessionTimeout > 0 /\ session > idle THEN session ELSE idle
  /\ due' = FALSE
  /\ blocked' = 0
  /\ pc' = label
  /\ UNCHANGED <<context, inLoop, timers, call, outside>>

\* The arguments of ssh_event_dopoll(): it waits for the timer that ends first.
StartPoll(label) ==
  /\ wait' = IF SessionTimeout > 0 THEN Least(idle, session) ELSE idle
  /\ due' = FALSE
  /\ blocked' = 0
  /\ pc' = label
  /\ UNCHANGED <<context, inLoop, timers, call, outside>>

MutAuthIgnoresUsage ==
  /\ pc = "Auth"
  /\ ~(ShouldStop \/ idle = 0 \/ Expired)
  /\ StartPoll("AuthPoll")

AuthPolls ==
  /\ pc = "Auth"
  /\ ~(ShouldStop \/ overUsage \/ idle = 0 \/ Expired)
  /\ StartPoll("AuthPoll")

\* It returns SSH_ERROR when it meets a broken connection or has nothing left to
\* poll.  While one of two sessions is up it may also wait on (Tick).
PollFails == ~(inLoop \subseteq up)

\* A signal, one that stops the program or any other: SSH_EINTR goes back to the
\* head of the loop without a look at Closed.
PollInterrupted ==
  /\ Polling /\ call = "none"
  /\ pc' = IF pc = "AuthPoll" THEN "Auth" ELSE "Relay"
  /\ Closed => skipped < MaxSkips
  /\ skipped' = IF Closed THEN skipped + 1 ELSE skipped
  /\ UNCHANGED <<context, inLoop, idle, session, late, closedWait, poll, outside>>

PollOver == due \/ wait = 0

AuthPollReturns ==
  /\ pc = "AuthPoll"
  /\ \/ PollFails /\ pc' = "Remove"
     \/ /\ PollOver
        /\ pc' = IF Closed THEN "Remove"
                 ELSE IF "trapChannel" \in held /\ Authenticated THEN "Join"
                 ELSE "Auth"
  /\ UNCHANGED <<context, inLoop, timers, poll, outside>>

-----------------------------------------------------------------------------
(***************************************************************************)
(* ProxyProcess(): the relay loop.                                         *)
(***************************************************************************)

Join ==
  /\ pc = "Join"
  /\ IF ShouldStop
     THEN pc' = "Remove" /\ UNCHANGED <<inLoop, idle>>
     ELSE /\ inLoop' = inLoop \cup {"haasSession"}
          /\ idle' = IdleTimeout
          /\ pc' = "Relay"
  /\ UNCHANGED <<context, session, late, closedWait, skipped, poll, outside>>

MutRelayIgnoresStop ==
  /\ pc = "Relay"
  /\ pc' = "Flush"
  /\ blocked' = 0
  /\ UNCHANGED <<context, inLoop, timers, wait, due, call, outside>>

Relay ==
  /\ pc = "Relay"
  /\ pc' = IF ShouldStop THEN "RemoveHaas" ELSE "Flush"
  /\ blocked' = 0
  /\ UNCHANGED <<context, inLoop, timers, wait, due, call, outside>>

\* ssh_channel_poll(), HandleForwards() and ssh_blocking_flush() are over.
RelayEnds ==
  /\ pc = "Flush"
  /\ idle = 0 \/ Expired
  /\ pc' = "RemoveHaas"
  /\ UNCHANGED <<context, inLoop, timers, poll, outside>>

MutRelayIgnoresSession ==
  /\ pc = "Flush"
  /\ idle > 0
  /\ wait' = idle
  /\ due' = FALSE
  /\ blocked' = 0
  /\ pc' = "RelayPoll"
  /\ UNCHANGED <<context, inLoop, timers, call, outside>>

RelayPolls ==
  /\ pc = "Flush"
  /\ ~(idle = 0 \/ Expired)
  /\ StartPoll("RelayPoll")

MutRelayIgnoresClosed ==
  /\ pc = "RelayPoll"
  /\ \/ PollFails /\ pc' = "RemoveHaas"
     \/ PollOver /\ pc' = "Relay"
  /\ UNCHANGED <<context, inLoop, timers, poll, outside>>

RelayPollReturns ==
  /\ pc = "RelayPoll"
  /\ \/ PollFails /\ pc' = "RemoveHaas"
     \/ PollOver /\ pc' = IF Closed THEN "RemoveHaas" ELSE "Relay"
  /\ UNCHANGED <<context, inLoop, timers, poll, outside>>

-----------------------------------------------------------------------------
(***************************************************************************)
(* ProxyProcess(): the end.                                                *)
(***************************************************************************)

Step(from, to) == pc = from /\ pc' = to
Give(S) == held' = held \ S /\ UNCHANGED <<Authenticated, Retries, Closed, have, up>>

RemoveHaas ==
  /\ Step("RemoveHaas", "Remove")
  /\ inLoop' = inLoop \ {"haasSession"}
  /\ UNCHANGED <<context, timers, poll, outside>>

\* ssh_event_remove_session(), ssh_event_free()
Remove ==
  /\ Step("Remove", "Release")
  /\ inLoop' = inLoop \ {"trapSession"}
  /\ Give({"mainLoop"})
  /\ UNCHANGED <<timers, poll, outside>>

ReleasePool ==
  /\ Step("Release", "CloseHaas")
  /\ Give({"pool"})
  /\ UNCHANGED <<inLoop, timers, poll, outside>>

MutCloseSessionFirst ==
  /\ pc = "CloseHaas"
  /\ IF "haasSession" \in held
     THEN Give({"haasSession"}) /\ pc' = "CloseHaas"
     ELSE Give({"haasChannel"}) /\ pc' = "CloseTrap"
  /\ UNCHANGED <<inLoop, timers, poll, outside>>

\* SessionClose(Context.HaasSession,Context.HaasChannel): the channel first.
CloseHaas ==
  /\ pc = "CloseHaas"
  /\ IF "haasChannel" \in held
     THEN Give({"haasChannel"}) /\ pc' = "CloseHaas"
     ELSE Give({"haasSession"}) /\ pc' = "CloseTrap"
  /\ UNCHANGED <<inLoop, timers, poll, outside>>

MutForgetSession ==
  /\ pc = "CloseTrap"
  /\ IF "trapChannel" \in held
     THEN Give({"bind", "trapChannel"}) /\ pc' = "Done"
     ELSE Give({"bind", "trapSession"}) /\ pc' = "Done"
  /\ UNCHANGED <<inLoop, timers, poll, outside>>

\* ssh_bind_free(), SessionClose(Context.TrapSession,Context.TrapChannel)
CloseTrap ==
  /\ pc = "CloseTrap"
  /\ IF "trapChannel" \in held
     THEN Give({"bind", "trapChannel"}) /\ pc' = "CloseTrap"
     ELSE Give({"bind", "trapSession"}) /\ pc' = "Done"
  /\ UNCHANGED <<inLoop, timers, poll, outside>>

-----------------------------------------------------------------------------
(***************************************************************************)
(* Callbacks.  They run while the program polls or flushes, and while it   *)
(* closes channels, which sends and flushes too; each is an event that     *)
(* lets ssh_event_dopoll() return.  A callback of the client that waits    *)
(* for an answer of HaaS keeps the other callbacks of the client away, but *)
(* while it waits libssh runs those of the HaaS channel.                   *)
(***************************************************************************)

\* FwPoolDone() has forwarded channels to close, which only a client that has
\* logged in can have opened; each SessionClose() has its own.
ClosingChannels ==
  \/ pc = "Release" /\ "pool" \in held /\ Authenticated
  \/ pc = "CloseHaas" /\ "haasChannel" \in held
  \/ pc = "CloseTrap" /\ "trapChannel" \in held

MayCall == (Polling \/ pc = "Flush" \/ ClosingChannels) /\ call = "none"
FromTrap == MayCall /\ "trapSession" \in up
FromHaas ==
  /\ "haasSession" \in up
  /\ \/ /\ MayCall
        /\ "haasSession" \in inLoop \/ (pc # "CloseTrap" /\ "haasChannel" \in held)
     \/ call \in {"pty", "shell", "exec"}

\* IdleTimerReset() is the last thing almost every callback does.
Answered == idle' = IdleTimeout /\ due' = TRUE

\* TrapAuthNone(), TrapAuthPubkey(), TrapAuthGssapiMic() deny; service, X11 and
\* agent requests, messages, window changes and data change only the timer.
Served ==
  /\ FromTrap \/ FromHaas
  /\ Answered
  /\ UNCHANGED <<pc, context, inLoop, session, late, closedWait, skipped, wait,
                 call, blocked, outside>>

\* A late one: the HaaS channel and session that it uses are freed, but Context
\* still points there.  What the process does after that is not modelled.
UseFreed ==
  /\ FromTrap
  /\ pc = "CloseTrap"
  /\ pc' = "Crashed"
  /\ UNCHANGED <<context, inLoop, timers, poll, outside>>

\* A callback that waits for an answer of HaaS.
Ask(kind) ==
  /\ call' = kind
  /\ due' = TRUE
  /\ blocked' = 0
  /\ UNCHANGED <<pc, context, inLoop, timers, wait, outside>>

Answer ==
  /\ Answered
  /\ call' = "none"
  /\ UNCHANGED <<pc, inLoop, session, late, closedWait, skipped, wait, blocked,
                 outside>>

\* TrapAuthPassword(): libssh passes it on only before authentication.
TrapAuthPassword ==
  /\ FromTrap
  /\ ~Authenticated
  /\ Ask("connect")

HaasConnectSucceeds ==
  /\ call = "connect"
  /\ Authenticated' = TRUE
  /\ held' = held \cup {"haasSession"}
  /\ up' = up \cup {"haasSession"}
  /\ Answer
  /\ UNCHANGED <<Retries, Closed, have>>

MutNoDisconnect ==
  /\ call = "connect"
  /\ Retries' = Least(Retries + 1, MAX_RETRIES)
  /\ Answer
  /\ UNCHANGED <<Authenticated, Closed, have, held, up>>

\* Context.Error, which is set as well, is read nowhere: it is the disconnected
\* session that ends the loop.
HaasConnectFails ==
  /\ call = "connect"
  /\ Retries' = Retries + 1
  /\ up' = IF Retries + 1 >= MAX_RETRIES THEN up \ {"trapSession"} ELSE up
  /\ Answer
  /\ UNCHANGED <<Authenticated, Closed, have, held>>

\* TrapNewChannel(), the first time; later it returns the same channel.
TrapNewChannel ==
  /\ FromTrap
  /\ Authenticated
  /\ "trapChannel" \notin held
  /\ Ask("channel")

\* ssh_channel_open_session(); if it fails both channels are freed again.
ChannelOpened(ok) ==
  /\ call = "channel"
  /\ held' = held \cup IF ok THEN {"trapChannel", "haasChannel"} ELSE {}
  /\ Answer
  /\ UNCHANGED <<Authenticated, Retries, Closed, have, up>>

\* Pty and shell are requested until HaaS grants them; exec and env each time.
TrapChannelRequest(kind) ==
  /\ FromTrap /\ pc # "CloseTrap"
  /\ "trapChannel" \in held
  /\ kind \notin have
  /\ Ask(kind)

Requested(ok) ==
  /\ call \in {"pty", "shell", "exec"}
  /\ have' = have \cup IF ok /\ call # "exec" THEN {call} ELSE {}
  /\ Answer
  /\ UNCHANGED <<Authenticated, Retries, Closed, held, up>>

\* TrapChannelCloseCallback(), HaasChannelCloseCallback(): the timer runs on.
ChannelClosed ==
  /\ FromTrap \/ FromHaas
  /\ "trapChannel" \in held
  /\ Closed' = TRUE
  /\ due' = TRUE
  /\ UNCHANGED <<pc, Authenticated, Retries, have, held, up, inLoop, timers,
                 wait, call, blocked, outside>>

-----------------------------------------------------------------------------
(***************************************************************************)
(* The environment.                                                        *)
(***************************************************************************)

\* Time passes: in a poll that nothing has ended, in a blocking call, in the two
\* flushes.  What passes in the release of the session concerns no timer any more.
Tick ==
  /\ \/ Polling /\ call = "none" /\ ~due /\ wait > 0 /\ inLoop \cap up # {}
     \/ call # "none" /\ blocked < CallTimeout
     \/ pc = "Flush" /\ call = "none" /\ blocked < 2 * FlushTimeout
  /\ idle' = IF idle > 0 THEN idle - 1 ELSE 0
  /\ session' = IF session > 0 THEN session - 1 ELSE 0
  /\ late' = (late \/ Expired)
  /\ IF Polling /\ call = "none"
     THEN wait' = wait - 1 /\ UNCHANGED blocked
     ELSE blocked' = blocked + 1 /\ UNCHANGED wait
  /\ closedWait' = IF Polling /\ call = "none" /\ Closed
                      /\ closedWait <= Allowed(MaxSkips)
                   THEN closedWait + 1 ELSE closedWait
  /\ UNCHANGED <<pc, skipped, context, inLoop, due, call, outside>>

StopSignal ==
  /\ pc \notin {"Done", "Crashed"} /\ ~ShouldStop
  /\ ShouldStop' = TRUE
  /\ UNCHANGED <<pc, context, inLoop, timers, poll, overUsage>>

UseCpu ==
  /\ CpuUsage /\ pc \notin {"Done", "Crashed"} /\ ~overUsage
  /\ overUsage' = TRUE
  /\ UNCHANGED <<pc, context, inLoop, timers, poll, ShouldStop>>

\* A connection breaks, without a close of its channels.
Lost ==
  /\ pc \notin {"Done", "Crashed"}
  /\ \E s \in up : up' = up \ {s}
  /\ UNCHANGED <<pc, Authenticated, Retries, Closed, have, held, inLoop, timers,
                 poll, outside>>

Finished == pc \in {"Done", "Crashed"} /\ UNCHANGED vars

-----------------------------------------------------------------------------

PollReturns == call = "none" /\ (AuthPollReturns \/ RelayPollReturns)

CallReturns ==
  \/ HaasConnectSucceeds \/ HaasConnectFails
  \/ \E ok \in BOOLEAN : ChannelOpened(ok) \/ Requested(ok)

LoopStep ==
  \/ AuthEnds \/ AuthPolls \/ Join \/ Relay
  \/ call = "none" /\ (RelayEnds \/ RelayPolls)
  \/ RemoveHaas \/ Remove
  \/ call = "none" /\ (ReleasePool \/ CloseHaas \/ CloseTrap)

Callback ==
  \/ Served \/ UseFreed \/ TrapAuthPassword \/ TrapNewChannel \/ ChannelClosed
  \/ \E kind \in {"pty", "shell", "exec"} : TrapChannelRequest(kind)

Next ==
  \/ KeyExchanged \/ KeyExchangeFails
  \/ LoopStep \/ PollReturns \/ PollInterrupted \/ CallReturns \/ Callback
  \/ Tick \/ StopSignal \/ UseCpu \/ Lost
  \/ Finished

Spec == Init /\ [][Next]_vars

\* The process is scheduled, time passes, blocking calls end, and a call of
\* ssh_event_dopoll() handles only so many packets before it returns; it is not
\* interrupted each time.  How long the key exchange takes is up to libssh and
\* the client.
FairSpec ==
  /\ Spec
  /\ SF_vars(LoopStep) /\ SF_vars(PollReturns)
  /\ WF_vars(CallReturns) /\ WF_vars(Tick)

-----------------------------------------------------------------------------
(***************************************************************************)
(* Properties.                                                             *)
(***************************************************************************)

TypeOK ==
  /\ pc \in {"KeyExchange", "Auth", "AuthPoll", "Join", "Relay", "Flush",
             "RelayPoll", "RemoveHaas", "Remove", "Release", "CloseHaas",
             "CloseTrap", "Done", "Crashed"}
  /\ ShouldStop \in BOOLEAN
  /\ Authenticated \in BOOLEAN
  /\ Retries \in 0..MAX_RETRIES
  /\ Closed \in BOOLEAN
  /\ have \in SUBSET {"pty", "shell"}
  /\ held \in SUBSET {"trapSession", "bind", "pool", "mainLoop", "haasSession",
                      "haasChannel", "trapChannel"}
  /\ inLoop \in SUBSET {"trapSession", "haasSession"}
  /\ up \in SUBSET {"trapSession", "haasSession"}
  /\ idle \in 0..IdleTimeout
  /\ session \in 0..SessionTimeout
  /\ wait \in 0..IdleTimeout
  /\ due \in BOOLEAN
  /\ call \in {"none", "connect", "channel", "pty", "shell", "exec"}
  /\ blocked \in Nat
  /\ overUsage \in BOOLEAN
  /\ late \in BOOLEAN
  /\ closedWait \in Nat
  /\ skipped \in 0..MaxSkips

\* Whatever ends a session, what it allocated is released in an order in which
\* nothing outlives what it uses: channels and forwards before their session,
\* sessions not before they left the event loop (proxy.c:1802-1819).
ReleasedInOrder ==
  /\ "haasChannel" \in held => "haasSession" \in held
  /\ "trapChannel" \in held => "trapSession" \in held
  /\ "pool" \in held /\ pc # "KeyExchange" => "trapSession" \in held
  /\ inLoop \subseteq held
  /\ inLoop # {} => "mainLoop" \in held
  /\ pc = "Done" => held = {}

\* ssh_event_dopoll() never waits beyond the end of a timer: whenever it goes on
\* waiting both have time left (proxy.c:1704-1725, 1768-1787).
NoWaitAfterExpiry ==
  (Polling /\ call = "none" /\ ~due /\ wait > 0) => idle > 0 /\ ~Expired

\* A session whose channel is closed, be it in a flush, is polled for no longer
\* than one idle timeout, and one more for each signal that takes the loop past
\* the test of Closed (proxy.c:1726-1743, 1788-1799).
ClosedWaitBounded == closedWait <= Allowed(skipped)

\* A stop signal ends the process, unless it is still in the key exchange.
StopEnds == (ShouldStop /\ pc # "KeyExchange") ~> pc \in {"Done", "Crashed"}

\* A client that used up its tries is thrown out, although nothing looks at
\* Context.Error: no packet it still sends keeps the session alive.
TooManyTriesEnd == (Retries = MAX_RETRIES) ~> (pc = "Done")

\* A client that uses more CPU time than it may does not log in for ever, however
\* many packets it sends: it comes to the relay loop or its process ends.
UsageEndsLogin ==
  (overUsage /\ pc \in {"Auth", "AuthPoll"}) ~> pc \in {"Relay", "Done", "Crashed"}

L == INSTANCE Lifecycle WITH
  Needed <- {"mainLoop", "trapSession", "haasSession", "trapChannel", "haasChannel"},
  stage <- IF pc \in {"KeyExchange", "Auth", "AuthPoll", "Join"} THEN "login"
           ELSE IF pc \in {"Relay", "Flush", "RelayPoll"} THEN "relay"
           ELSE IF pc \in {"RemoveHaas", "Remove", "Release"} THEN "drain"
           ELSE IF pc = "Done" THEN "done"
           ELSE IF pc = "Crashed" THEN "crashed" ELSE "closing"

\* Whatever the client, HaaS, the timers and the signals do, a process goes from
\* login over relaying to its end as Lifecycle says: what a callback still
\* allocates while FwPoolDone() closes the forwarded channels is released with
\* the rest, and once SessionClose() is called nothing is allocated any more
\* (proxy.c:1802-1819, 1301-1368).
ImplementsLifecycle == L!Spec

\* "-s SESSION_TIMEOUT - maximum session length in sec" (README.md:23).
SessionMaximum == SessionTimeout > 0 => ~late

\* "-u CPU_USAGE_LIMIT - maximum cpu suage limit in sec" (README.md:24).
UsageEnds == (overUsage /\ pc # "KeyExchange") ~> pc \in {"Done", "Crashed"}
=============================================================================
