---------------------------- MODULE SessionProofs ----------------------------
(***************************************************************************)
(* Proofs about Session for every time-out and every number of tries.      *)
(* IInv says what each place of the program holds, which callbacks may     *)
(* still block there, that a poll was given no more time than either timer *)
(* has left, and how long a closed channel may still be waited for.        *)
(***************************************************************************)
EXTENDS Session, TLAPS

Login == {"Auth", "AuthPoll", "Join"}
Relaying == {"Relay", "Flush", "RelayPoll"}
Closing == {"CloseHaas", "CloseTrap", "Done", "Crashed"}

\* A client is asked for a password only while it has tries left.
TriesLeft == "trapSession" \in up \/ call = "connect" => Retries < MAX_RETRIES

\* A callback that waits for HaaS was run by a poll, by a flush, or by the closing
\* of a channel while the session to HaaS is still there.
CallsInLoop ==
  /\ call # "none" => pc \in {"AuthPoll", "Flush", "RelayPoll", "Release", "CloseHaas"}
  /\ call = "connect" => ~Authenticated
  /\ call = "channel" => "trapChannel" \notin held
  /\ call \in {"channel", "pty", "shell", "exec"} => Authenticated

\* Where the program is tells which sessions are in the event loop.
LoopMembers ==
  inLoop = IF pc \in Login \cup {"Remove"} THEN {"trapSession"}
           ELSE IF pc \in Relaying \cup {"RemoveHaas"} THEN {"trapSession", "haasSession"}
           ELSE {}

\* What is held at each place, from which the order of release follows.
Holdings ==
  /\ IF pc = "Done" THEN held = {} ELSE "trapSession" \in held
  /\ pc = "CloseHaas" => ("trapChannel" \notin held => "haasChannel" \notin held)
  /\ pc = "CloseHaas" /\ call # "none" => "trapChannel" \in held
  /\ "mainLoop" \in held <=> pc \in Login \cup Relaying \cup {"RemoveHaas", "Remove"}
  /\ pc \in Closing => "pool" \notin held
  /\ pc \in {"CloseTrap", "Crashed"} => held \cap {"haasSession", "haasChannel"} = {}
  /\ "haasChannel" \in held => "haasSession" \in held
  /\ Authenticated /\ pc \notin Closing => "haasSession" \in held
  /\ pc \notin Closing => ("trapChannel" \in held <=> "haasChannel" \in held)
  /\ "trapChannel" \in held => Authenticated
  /\ pc \in {"Join", "RemoveHaas"} \cup Relaying => "trapChannel" \in held

\* A poll that has seen no event waits no longer than either timer.
WaitInTimers ==
  Polling /\ ~due =>
    /\ call = "none"
    /\ wait <= idle
    /\ SessionTimeout > 0 => wait <= session

\* A closed channel is waited for in one poll, and one more for each interrupted:
\* of what may be waited then, the loops leave the time of a poll.
ClosedWait ==
  /\ closedWait <= Allowed(skipped)
  /\ ~Closed => closedWait = 0 /\ skipped = 0
  /\ Closed => pc \notin {"KeyExchange", "Join"}
  /\ pc \in {"Auth", "Relay", "Flush"} => closedWait + IdleTimeout <= Allowed(skipped)
  /\ Polling /\ ~due => closedWait + wait <= Allowed(skipped)

IInv ==
  /\ TypeOK
  /\ TriesLeft
  /\ CallsInLoop
  /\ LoopMembers
  /\ Holdings
  /\ WaitInTimers
  /\ ClosedWait

-----------------------------------------------------------------------------

\* Each interrupted poll allows for the time of one more.
LEMMA AllowedMore ==
  ASSUME NEW n \in Nat
  PROVE  /\ Allowed(n) \in Nat /\ IdleTimeout <= Allowed(n)
         /\ Allowed(n + 1) = Allowed(n) + IdleTimeout
<1> USE SessionAssumption DEF Allowed
<1>1. IdleTimeout * n \in Nat
  OBVIOUS
<1>2. IdleTimeout * (1 + n) = IdleTimeout + IdleTimeout * n
  OBVIOUS
<1>3. IdleTimeout * (1 + (n + 1)) = IdleTimeout + IdleTimeout + IdleTimeout * n
  OBVIOUS
<1> QED
  BY <1>1, <1>2, <1>3

\* A process begins in the key exchange, with its session and nothing to poll.
LEMMA InitIInv == Init => IInv
<1> SUFFICES ASSUME Init PROVE IInv
  OBVIOUS
<1>1. /\ ShouldStop \in BOOLEAN /\ Authenticated \in BOOLEAN /\ Closed \in BOOLEAN
      /\ due \in BOOLEAN /\ overUsage \in BOOLEAN /\ late \in BOOLEAN
  BY Zenon DEF Init
<1>2. TypeOK
  BY <1>1, SessionAssumption DEF Init, TypeOK
<1>3. Allowed(0) \in Nat
  BY AllowedMore
<1> QED
  BY <1>2, <1>3, SessionAssumption DEF Init, IInv, TriesLeft, CallsInLoop, LoopMembers,
     Holdings, WaitInTimers, ClosedWait, Login, Relaying, Closing, Polling

\* A step of the main program outside its polls keeps the invariant.
LEMMA LoopStepIInv == IInv /\ LoopStep => IInv'
<1> SUFFICES ASSUME IInv, LoopStep PROVE IInv'
  OBVIOUS
<1>0. Allowed(skipped) \in Nat /\ IdleTimeout <= Allowed(skipped)
  BY AllowedMore DEF IInv, TypeOK
<1> USE <1>0, SessionAssumption
    DEF IInv, TypeOK, TriesLeft, CallsInLoop, LoopMembers, Holdings, WaitInTimers,
        ClosedWait, Login, Relaying, Closing, Polling, Expired,
        context, timers, poll, outside, vars
<1>1. CASE AuthEnds
  BY <1>1 DEF AuthEnds
<1>2. CASE AuthPolls
  <2>1. due' \in BOOLEAN
    BY <1>2, Zenon DEF AuthPolls, StartPoll
  <2>2. wait' \in Nat /\ wait' <= idle /\ (SessionTimeout > 0 => wait' <= session)
    BY <1>2 DEF AuthPolls, StartPoll, Least
  <2> QED
    BY <1>2, <2>1, <2>2 DEF AuthPolls, StartPoll
<1>3. CASE Join
  BY <1>3 DEF Join
<1>4. CASE Relay
  BY <1>4 DEF Relay
<1>5. CASE call = "none" /\ RelayEnds
  BY <1>5 DEF RelayEnds
<1>6. CASE call = "none" /\ RelayPolls
  <2>1. due' \in BOOLEAN
    BY <1>6, Zenon DEF RelayPolls, StartPoll
  <2>2. wait' \in Nat /\ wait' <= idle /\ (SessionTimeout > 0 => wait' <= session)
    BY <1>6 DEF RelayPolls, StartPoll, Least
  <2> QED
    BY <1>6, <2>1, <2>2 DEF RelayPolls, StartPoll
<1>7. CASE RemoveHaas
  BY <1>7 DEF RemoveHaas, Step
<1>8. CASE Remove
  BY <1>8 DEF Remove, Step, Give
<1>9. CASE call = "none" /\ ReleasePool
  <2>1. /\ pc = "Release" /\ pc' = "CloseHaas" /\ call' = "none"
        /\ held' = held \ {"pool"}
        /\ UNCHANGED <<Authenticated, Retries, Closed, have, up, inLoop, timers, poll, outside>>
    BY <1>9 DEF ReleasePool, Step, Give
  <2>2. TypeOK'
    BY <2>1
  <2>3. Holdings'
    BY <2>1
  <2>4. TriesLeft' /\ CallsInLoop' /\ LoopMembers' /\ WaitInTimers' /\ ClosedWait'
    BY <2>1
  <2> QED
    BY <2>2, <2>3, <2>4
<1>10. CASE call = "none" /\ CloseHaas
  <2>1. /\ pc = "CloseHaas" /\ pc' \in {"CloseHaas", "CloseTrap"} /\ call' = "none"
        /\ held' = held \ {"haasChannel"} \/ held' = held \ {"haasSession"}
        /\ UNCHANGED <<Authenticated, Retries, Closed, have, up, inLoop, timers, poll, outside>>
    BY <1>10 DEF CloseHaas, Give
  <2>2. TypeOK'
    BY <2>1
  <2>3. Holdings'
    BY <1>10 DEF CloseHaas, Give
  <2>4. TriesLeft' /\ CallsInLoop' /\ LoopMembers' /\ WaitInTimers' /\ ClosedWait'
    BY <2>1
  <2> QED
    BY <2>2, <2>3, <2>4
<1>11. CASE call = "none" /\ CloseTrap
  <2>1. "trapChannel" \notin held => held \subseteq {"trapSession", "bind"}
    BY <1>11 DEF CloseTrap
  <2>2. "trapChannel" \notin held => held' = {}
    BY <1>11, <2>1 DEF CloseTrap, Give
  <2>3. CASE "trapChannel" \in held
    BY <1>11, <2>3 DEF CloseTrap, Give
  <2>4. CASE "trapChannel" \notin held
    <3>1. /\ pc' = "Done"
          /\ UNCHANGED <<Authenticated, Retries, Closed, have, up,
                         inLoop, timers, poll, outside>>
      BY <1>11, <2>4 DEF CloseTrap, Give
    <3>2. held' = {}
      BY <2>2, <2>4
    <3>3. TypeOK'
      BY <3>1, <3>2
    <3> QED
      BY <3>1, <3>2, <3>3, <1>11 DEF CloseTrap
  <2> QED
    BY <2>3, <2>4
<1> QED
  BY <1>1, <1>2, <1>3, <1>4, <1>5, <1>6, <1>7, <1>8, <1>9, <1>10, <1>11 DEF LoopStep

\* A poll returns only when libssh lets it, or it is interrupted: either way the
\* invariant still holds.
LEMMA PollReturnsIInv ==
  IInv /\ (PollReturns \/ PollInterrupted) => IInv'
<1> SUFFICES ASSUME IInv, PollReturns \/ PollInterrupted PROVE IInv'
  OBVIOUS
<1>0. Allowed(skipped) \in Nat /\ IdleTimeout <= Allowed(skipped)
  BY AllowedMore DEF IInv, TypeOK
<1> USE <1>0, SessionAssumption
    DEF IInv, TypeOK, TriesLeft, CallsInLoop, LoopMembers, Holdings, WaitInTimers,
        ClosedWait, Login, Relaying, Closing, Polling,
        PollOver, PollFails, context, timers, poll, outside
<1>1. CASE call = "none" /\ AuthPollReturns
  BY <1>1 DEF AuthPollReturns
<1>2. CASE call = "none" /\ RelayPollReturns
  BY <1>2 DEF RelayPollReturns
<1>3. CASE PollInterrupted
  <2>1. Allowed(skipped + 1) = Allowed(skipped) + IdleTimeout /\ Allowed(skipped) \in Nat
    BY AllowedMore
  <2> QED
    BY <1>3, <2>1 DEF PollInterrupted
<1> QED
  BY <1>1, <1>2, <1>3 DEF PollReturns

\* A callback, and the answer it waits for, keep the invariant.
LEMMA CallbackIInv == IInv /\ (CallReturns \/ Callback) => IInv'
<1> SUFFICES ASSUME IInv, CallReturns \/ Callback PROVE IInv'
  OBVIOUS
<1>0. Allowed(skipped) \in Nat /\ IdleTimeout <= Allowed(skipped)
  BY AllowedMore DEF IInv, TypeOK
<1> USE <1>0, SessionAssumption
    DEF IInv, TypeOK, TriesLeft, CallsInLoop, LoopMembers, Holdings, WaitInTimers,
        ClosedWait, Login, Relaying, Closing, Polling, MayCall, ClosingChannels, FromTrap, FromHaas,
        Answered, Answer, Ask, context, timers, poll, outside
<1>1. CASE HaasConnectSucceeds
  BY <1>1 DEF HaasConnectSucceeds
<1>2. CASE HaasConnectFails
  BY <1>2 DEF HaasConnectFails
<1>3. ASSUME NEW ok \in BOOLEAN, ChannelOpened(ok) PROVE IInv'
  BY <1>3 DEF ChannelOpened
<1>4. ASSUME NEW ok \in BOOLEAN, Requested(ok) PROVE IInv'
  BY <1>4 DEF Requested
<1>5. CASE Served
  BY <1>5 DEF Served
<1>6. CASE TrapAuthPassword
  BY <1>6 DEF TrapAuthPassword
<1>7. CASE TrapNewChannel
  BY <1>7 DEF TrapNewChannel
<1>8. CASE ChannelClosed
  BY <1>8 DEF ChannelClosed
<1>9. ASSUME NEW kind \in {"pty", "shell", "exec"}, TrapChannelRequest(kind) PROVE IInv'
  <2>1. due' \in BOOLEAN
    BY <1>9, Zenon DEF TrapChannelRequest, Ask
  <2>2. /\ call' \in {"pty", "shell", "exec"} /\ blocked' = 0
        /\ UNCHANGED <<pc, context, inLoop, timers, wait, outside>>
    BY <1>9 DEF TrapChannelRequest, Ask
  <2>3. /\ pc \in {"AuthPoll", "RelayPoll", "Flush", "Release", "CloseHaas"} /\ call = "none"
        /\ "trapSession" \in up /\ "trapChannel" \in held
    BY <1>9 DEF TrapChannelRequest
  <2>4. due' = TRUE
    BY <1>9 DEF TrapChannelRequest, Ask
  <2> QED
    BY <2>1, <2>2, <2>3, <2>4
<1>10. CASE UseFreed
  BY <1>10 DEF UseFreed
<1> QED
  BY <1>1, <1>2, <1>3, <1>4, <1>5, <1>6, <1>7, <1>8, <1>9, <1>10 DEF CallReturns, Callback

\* The key exchange, the passing of time and the environment keep it.
LEMMA OtherStepIInv ==
  ASSUME IInv,
         \/ KeyExchanged \/ KeyExchangeFails
         \/ Tick \/ StopSignal \/ UseCpu \/ Lost \/ UNCHANGED vars
  PROVE  IInv'
<1>0. Allowed(skipped) \in Nat /\ IdleTimeout <= Allowed(skipped)
  BY AllowedMore DEF IInv, TypeOK
<1> USE <1>0, SessionAssumption
    DEF IInv, TypeOK, TriesLeft, CallsInLoop, LoopMembers, Holdings, WaitInTimers,
        ClosedWait, Login, Relaying, Closing, Polling, Expired,
        context, timers, poll, outside
<1>1. CASE KeyExchanged
  BY <1>1 DEF KeyExchanged
<1>2. CASE KeyExchangeFails
  BY <1>2 DEF KeyExchangeFails
<1>3. CASE Tick
  BY <1>3 DEF Tick
<1>4. CASE StopSignal
  BY <1>4 DEF StopSignal
<1>5. CASE UseCpu
  BY <1>5 DEF UseCpu
<1>6. CASE Lost
  BY <1>6 DEF Lost
<1>7. CASE UNCHANGED vars
  BY <1>7 DEF vars
<1> QED
  BY <1>1, <1>2, <1>3, <1>4, <1>5, <1>6, <1>7

\* The invariant holds in every reachable state.
THEOREM Invariance == Spec => []IInv
<1>1. IInv /\ [Next]_vars => IInv'
  <2> SUFFICES ASSUME IInv, [Next]_vars PROVE IInv'
    OBVIOUS
  <2>1. CASE LoopStep \/ CallReturns \/ Callback
    BY <2>1, LoopStepIInv, CallbackIInv
  <2>2. CASE PollReturns \/ PollInterrupted
    BY <2>2, PollReturnsIInv
  <2>3. CASE KeyExchanged \/ KeyExchangeFails \/ Tick \/ StopSignal \/ UseCpu \/ Lost
    BY <2>3, OtherStepIInv
  <2>4. CASE Finished \/ UNCHANGED vars
    BY <2>4, OtherStepIInv DEF Finished
  <2> QED
    BY <2>1, <2>2, <2>3, <2>4 DEF Next
<1> QED
  BY <1>1, InitIInv, PTL DEF Spec

-----------------------------------------------------------------------------

\* Every variable of a session keeps its type: the client never has more than
\* MAX_RETRIES tries counted, the timers never more time left than was set.
THEOREM TypeCorrect == Spec => []TypeOK
BY Invariance, PTL DEF IInv

\* Nothing a session holds outlives what it uses, and nothing is left at its end
\* (proxy.c:1802-1819).
THEOREM ReleaseCorrect == Spec => []ReleasedInOrder
<1>1. IInv => ReleasedInOrder
  BY DEF IInv, TypeOK, LoopMembers, Holdings, ReleasedInOrder, Login, Relaying, Closing
<1> QED
  BY <1>1, Invariance, PTL

\* A poll that goes on waiting has time left on both timers (proxy.c:1704-1725,
\* 1768-1787).
THEOREM WaitCorrect == Spec => []NoWaitAfterExpiry
<1>1. IInv => NoWaitAfterExpiry
  BY SessionAssumption DEF IInv, TypeOK, WaitInTimers, NoWaitAfterExpiry, Polling, Expired
<1> QED
  BY <1>1, Invariance, PTL

\* A session with a closed channel is polled for no longer than one idle timeout,
\* and one more for each poll that was interrupted (proxy.c:1726-1743, 1788-1799).
THEOREM ClosedWaitCorrect == Spec => []ClosedWaitBounded
<1>1. IInv => ClosedWaitBounded
  BY DEF IInv, ClosedWait, ClosedWaitBounded
<1> QED
  BY <1>1, Invariance, PTL

-----------------------------------------------------------------------------

\* A step of the loops is a step of Lifecycle or changes none of its variables:
\* relaying begins with all it needs, and each release gives something back.
LEMMA LoopStepRefines == IInv /\ LoopStep => [L!Next]_L!vars
<1> SUFFICES ASSUME IInv, LoopStep PROVE [L!Next]_L!vars
  OBVIOUS
<1> USE DEF L!vars, context, outside
<1>1. CASE AuthEnds \/ AuthPolls
  BY <1>1 DEF AuthEnds, AuthPolls, StartPoll, L!Next, L!End
<1>2. CASE Join
  BY <1>2 DEF Join, IInv, Holdings, Login, Relaying, Closing, L!Next, L!Begin, L!End
<1>3. CASE Relay
  BY <1>3 DEF Relay, L!Next, L!End
<1>4. CASE RelayEnds \/ RelayPolls
  BY <1>4 DEF RelayEnds, RelayPolls, StartPoll, L!Next, L!End
<1>5. ASSUME NEW S, Give(S),
             \/ pc = "Remove" /\ pc' = "Release"
             \/ pc \in {"CloseHaas", "CloseTrap"} /\ pc' \in {"CloseHaas", "CloseTrap"}
      PROVE  [L!Next]_L!vars
  <2>1. CASE held \cap S = {}
    BY <1>5, <2>1 DEF Give
  <2>2. CASE held \cap S # {}
    <3>1. held \cap S \in (SUBSET held) \ {{}} /\ held' = held \ (held \cap S)
      BY <1>5, <2>2 DEF Give
    <3>2. L!Give
      BY <1>5, <3>1 DEF L!Give
    <3> QED
      BY <3>2 DEF L!Next
  <2> QED
    BY <2>1, <2>2
<1>6. CASE RemoveHaas \/ Remove
  BY <1>5, <1>6 DEF RemoveHaas, Remove, Step
<1>9. CASE ReleasePool
  BY <1>9 DEF ReleasePool, Step, Give, L!Next, L!Close
<1>7. CASE CloseHaas
  BY <1>5, <1>7 DEF CloseHaas
<1>8. CASE CloseTrap
  <2>1. CASE "trapChannel" \in held
    BY <1>5, <1>8, <2>1 DEF CloseTrap
  <2>2. CASE "trapChannel" \notin held
    <3>1. held \subseteq {"trapSession", "bind"}
      BY <1>8, <2>2 DEF CloseTrap, IInv, TypeOK, Holdings, Closing, Login, Relaying
    <3>2. held' = {} /\ pc' = "Done" /\ pc = "CloseTrap"
      BY <1>8, <2>2, <3>1 DEF CloseTrap, Give
    <3> QED
      BY <3>2 DEF L!Next, L!Done
  <2> QED
    BY <2>1, <2>2
<1> QED
  BY <1>1, <1>2, <1>3, <1>4, <1>6, <1>7, <1>8, <1>9 DEF LoopStep

\* Of the other steps only the callbacks of the login and of FwPoolDone() take
\* anything, and only they can: once the session relays, and when its channels are
\* closed, it has all that a callback asks for.
LEMMA OtherStepRefines ==
  ASSUME IInv, Next, ~LoopStep
  PROVE  [L!Next]_L!vars
<1> USE DEF L!vars, context, outside
<1>1. CASE KeyExchanged
  BY <1>1 DEF KeyExchanged, L!Next, L!Take
<1>2. CASE KeyExchangeFails
  BY <1>2 DEF KeyExchangeFails, L!Next, L!End
<1>3. CASE PollReturns \/ PollInterrupted
  BY <1>3 DEF PollReturns, AuthPollReturns, RelayPollReturns, PollInterrupted, Polling,
     L!Next, L!End
<1>4. CASE CallReturns
  <2>1. UNCHANGED pc /\ held \subseteq held'
    BY <1>4 DEF CallReturns, HaasConnectSucceeds, HaasConnectFails, ChannelOpened,
       Requested, Answer
  <2>2. CASE pc \in {"AuthPoll", "Release"}
    BY <2>1, <2>2 DEF L!Next, L!Take
  <2>3. CASE pc \notin {"AuthPoll", "Release"}
    <3>1. call \notin {"connect", "channel"}
      BY <1>4, <2>3 DEF IInv, CallsInLoop, Holdings, Relaying, CallReturns,
         HaasConnectSucceeds, HaasConnectFails, ChannelOpened, Requested
    <3>2. UNCHANGED held
      BY <1>4, <3>1 DEF CallReturns, HaasConnectSucceeds, HaasConnectFails,
         ChannelOpened, Requested
    <3> QED
      BY <2>1, <3>2
  <2> QED
    BY <2>2, <2>3
<1>5. CASE Callback
  BY <1>5 DEF Callback, Served, UseFreed, TrapAuthPassword, TrapNewChannel, ChannelClosed,
     TrapChannelRequest, Ask, L!Next, L!Crash
<1>6. CASE Tick \/ StopSignal \/ UseCpu \/ Lost \/ Finished
  BY <1>6 DEF Tick, StopSignal, UseCpu, Lost, Finished, vars
<1> QED
  BY <1>1, <1>2, <1>3, <1>4, <1>5, <1>6 DEF Next

\* Whatever happens, a process goes from login over relaying to its end as
\* Lifecycle allows: relaying begins only with all it needs, what a callback takes
\* while the forwarded channels are closed is given back, nothing is taken once
\* the sessions are closed, and the process ends with nothing (proxy.c:1802-1819).
THEOREM LifecycleCorrect == Spec => L!Safety
<1>1. Init => L!Init
  BY DEF Init, L!Init
<1>2. IInv /\ [Next]_vars => [L!Next]_L!vars
  BY LoopStepRefines, OtherStepRefines DEF vars, context, L!vars
<1> QED
  BY <1>1, <1>2, Invariance, PTL DEF Spec, L!Safety
=============================================================================
