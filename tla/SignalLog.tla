----------------------------- MODULE SignalLog -----------------------------
(***************************************************************************)
(* Log lines of the program and of its signal handler (main.c, debug.c).   *)
(* The handler runs inside the program, at any point of it, and logs as    *)
(* the program does; a line is written under the lock of syslog(3), which  *)
(* its own holder cannot take again, or of a stdio stream, which it can.   *)
(* vsyslog() has other ways to wait for what the program it interrupted    *)
(* holds, the locks of malloc() and of the time zone, and a full /dev/log: *)
(* they are not modelled, one is enough.                                   *)
(* Handlers of different signals nest; a signal is masked while its own    *)
(* handler runs.                                                           *)
(***************************************************************************)
EXTENDS Integers, Sequences

CONSTANTS Signals,     \* the signals that are sent
          MaxSignals,  \* how many in all
          MaxDead      \* how many children die

StopSignals == {"SIGINT", "SIGHUP"}

VARIABLES
  Foreground, \* the log goes to stderr, not to the system log
  stack,      \* the program and the handlers that run in it, the innermost last
  depth,      \* how often the lock is taken
  ShouldStop,
  GraveYard,
  dead,       \* children that wait to be waited for
  sent,       \* the number of signals delivered
  stopSent    \* a stop signal has been delivered

vars == <<Foreground, stack, depth, ShouldStop, GraveYard, dead, sent, stopSent>>

Frame(who, at) == [who |-> who, at |-> at, then |-> at]

Init ==
  /\ Foreground \in BOOLEAN
  /\ stack = <<Frame("main", "loop")>>
  /\ depth = 0
  /\ ShouldStop = FALSE
  /\ GraveYard = 0
  /\ dead \in 0..MaxDead
  /\ sent = 0
  /\ stopSent = FALSE

Top == stack[Len(stack)]
At(who, at) == Top.who \in who /\ Top.at = at
Goto(at) == stack' = [stack EXCEPT ![Len(stack)].at = at]

\* qprintf() begins; afterwards the frame goes on at "then".
Log(then) == stack' = [stack EXCEPT ![Len(stack)].at = "lock", ![Len(stack)].then = then]

-----------------------------------------------------------------------------
(***************************************************************************)
(* One line: vsyslog(), or vfprintf() and fflush().                        *)
(***************************************************************************)

Lock ==
  /\ Top.at = "lock"
  /\ depth = 0 \/ Foreground
  /\ depth' = depth + 1
  /\ Goto("print")
  /\ UNCHANGED <<Foreground, ShouldStop, GraveYard, dead, sent, stopSent>>

Unlock ==
  /\ Top.at = "print"
  /\ depth' = depth - 1
  /\ Goto(Top.then)
  /\ UNCHANGED <<Foreground, ShouldStop, GraveYard, dead, sent, stopSent>>

-----------------------------------------------------------------------------
(***************************************************************************)
(* The program.                                                            *)
(***************************************************************************)

\* The loop of the master, or of a client process, logs what it does.
MainLogs ==
  /\ At({"main"}, "loop") /\ ~ShouldStop
  /\ Log("loop")
  /\ UNCHANGED <<Foreground, depth, ShouldStop, GraveYard, dead, sent, stopSent>>

\* qdone(): closelog() takes the lock as well.
MainEnds ==
  /\ At({"main"}, "loop") /\ ShouldStop
  /\ IF Foreground THEN Goto("end") ELSE Log("end")
  /\ UNCHANGED <<Foreground, depth, ShouldStop, GraveYard, dead, sent, stopSent>>

-----------------------------------------------------------------------------
(***************************************************************************)
(* The handler.                                                            *)
(***************************************************************************)

\* A signal is delivered, unless its own handler is running.
Signal(s) ==
  /\ ~At({"main"}, "end")
  /\ sent < MaxSignals
  /\ \A i \in DOMAIN stack : stack[i].who # s
  /\ stack' = Append(stack, Frame(s, "caught"))
  /\ sent' = sent + 1
  /\ stopSent' = (stopSent \/ s \in StopSignals)
  /\ UNCHANGED <<Foreground, depth, ShouldStop, GraveYard, dead>>

\* "Caught signal"
Caught ==
  /\ At(Signals, "caught")
  /\ Log(IF Top.who \in StopSignals THEN "stop"
         ELSE IF Top.who = "SIGCHLD" THEN "wait" ELSE "return")
  /\ UNCHANGED <<Foreground, depth, ShouldStop, GraveYard, dead, sent, stopSent>>

\* "Stopping ....."
Stopping ==
  /\ At(Signals, "stop")
  /\ Log("set")
  /\ UNCHANGED <<Foreground, depth, ShouldStop, GraveYard, dead, sent, stopSent>>

SetShouldStop ==
  /\ At(Signals, "set")
  /\ ShouldStop' = TRUE
  /\ Goto("return")
  /\ UNCHANGED <<Foreground, depth, GraveYard, dead, sent, stopSent>>

\* waitpid() finds a child, it is buried, and that is logged ...
Bury ==
  /\ At(Signals, "wait")
  /\ dead > 0
  /\ dead' = dead - 1 /\ GraveYard' = GraveYard + 1
  /\ Log("wait")
  /\ UNCHANGED <<Foreground, depth, ShouldStop, sent, stopSent>>

\* ... or it finds none.
NoneDead ==
  /\ At(Signals, "wait")
  /\ dead = 0
  /\ Goto("return")
  /\ UNCHANGED <<Foreground, depth, ShouldStop, GraveYard, dead, sent, stopSent>>

Return ==
  /\ At(Signals, "return")
  /\ stack' = SubSeq(stack, 1, Len(stack) - 1)
  /\ UNCHANGED <<Foreground, depth, ShouldStop, GraveYard, dead, sent, stopSent>>

Finished == At({"main"}, "end") /\ UNCHANGED vars

\* A handler wants the lock of the system log, which the code it interrupted
\* holds: the process waits for itself.
Stuck ==
  /\ ~Foreground
  /\ Top.at = "lock"
  /\ \E i \in 1..Len(stack) - 1 : stack[i].at = "print"

Hang == Stuck /\ UNCHANGED vars

Step ==
  \/ Lock \/ Unlock \/ MainLogs \/ MainEnds
  \/ Caught \/ Stopping \/ SetShouldStop \/ Bury \/ NoneDead \/ Return

Next == Step \/ Finished \/ Hang \/ \E s \in Signals : Signal(s)

\* The process runs as long as it can.
Spec == Init /\ [][Next]_vars /\ WF_vars(Step)

-----------------------------------------------------------------------------
(***************************************************************************)
(* Properties.                                                             *)
(***************************************************************************)

\* "set to 1 in signal handler, can be read after EINTR" (global.h:6): once a stop
\* signal is delivered ShouldStop is set in the end, whatever the handler and
\* those nested in it have interrupted (main.c:44-65, debug.c:73-91).
StopSeen == stopSent ~> ShouldStop
=============================================================================
