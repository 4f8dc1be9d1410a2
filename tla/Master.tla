------------------------------- MODULE Master -------------------------------
(***************************************************************************)
(* The master process of the trap (main.c): it accepts clients, forks one  *)
(* child per client up to ConnLimit, and keeps ChildCount by letting the   *)
(* SIGCHLD handler "bury" dead children in the current one of two tombs,   *)
(* which the main loop empties only after select() failed with EINTR.      *)
(*                                                                         *)
(* One action of the main program per point at which a signal can come in  *)
(* between; while the handler runs the main program does not.  Children,   *)
(* clients, the terminal and the kernel are the environment.               *)
(***************************************************************************)
EXTENDS Integers, FiniteSets

CONSTANTS Child,       \* process identifiers fork() can return
          ConnLimit,   \* Config.ConnLimit
          Backlog,     \* connections the kernel queues for accept()
          Foreground   \* Config.Foreground: the console is watched too

ASSUME MasterAssumption ==
  /\ IsFiniteSet(Child)
  /\ ConnLimit \in Nat \ {0}
  /\ Backlog \in Nat
  /\ Foreground \in BOOLEAN

VARIABLES
  pc,          \* where the main program is
  ShouldStop,  \* set by SIGINT and SIGHUP
  ChildCount,  \* children the master believes to be living
  CurrTomb,    \* the tomb the handler buries in
  GraveYard,   \* dead children per tomb, not yet subtracted
  PrevTomb,    \* local of the harvest: the tomb being emptied
  DeadCount,   \* local of the harvest: its content
  FDSet,       \* descriptors select() reported
  errno,       \* shared by the main program and the handler
  alive,       \* children that are running
  zombie,      \* children that ended and were not waited for
  sigchld,     \* SIGCHLD is pending (pending signals do not queue)
  handling,    \* the SIGCHLD handler is running
  backlog,     \* connections waiting for accept()
  tty          \* what a read of the console would return

program == <<pc, ShouldStop, ChildCount, CurrTomb, GraveYard, PrevTomb,
             DeadCount, FDSet, errno>>
environment == <<alive, zombie, sigchld, handling, backlog, tty>>
vars == <<program, environment>>

Tomb == {0, 1}
Other(t) == 1 - t
Label == {"Check", "Call", "Select", "Unblocked", "Eintr", "Failed", "Bury",
          "Switch", "Count", "Burn", "Settle", "Accept", "Fork", "Born",
          "Console", "Exit", "Done"}

Init ==
  /\ pc = "Check"
  /\ ShouldStop = FALSE
  /\ ChildCount = 0
  /\ CurrTomb = 0
  /\ GraveYard = [t \in Tomb |-> 0]
  /\ PrevTomb = 0
  /\ DeadCount = 0
  /\ FDSet = {}
  /\ errno = "none"
  /\ alive = {}
  /\ zombie = {}
  /\ sigchld = FALSE
  /\ handling = FALSE
  /\ backlog = 0
  /\ tty = "none"

At(l) == pc = l /\ ~handling
Goto(l) == pc' = l

(***************************************************************************)
(* Signals.                                                                *)
(***************************************************************************)

\* What select() would report now.  A ready descriptor wins over a pending
\* signal: select() then returns it and the handler runs after that.
Ready == {fd \in {"listen", "console"} :
            \/ fd = "listen" /\ backlog > 0
            \/ fd = "console" /\ Foreground /\ tty # "none"}

\* A handler that runs while select() blocks makes it return EINTR.  One that
\* runs before select() blocks, at "Call", does not.
InterruptSelect ==
  pc' = IF pc = "Select" /\ Ready = {} THEN "Unblocked" ELSE pc

\* SIGCHLD is delivered: its own signal stays blocked until the handler ends.
Deliver ==
  /\ pc # "Done"
  /\ sigchld /\ ~handling
  /\ sigchld' = FALSE
  /\ handling' = TRUE
  /\ InterruptSelect
  /\ UNCHANGED <<ShouldStop, ChildCount, CurrTomb, GraveYard, PrevTomb,
                 DeadCount, FDSet, errno, alive, zombie, backlog, tty>>

\* One turn of the handler's loop: waitpid() yields a zombie, which is buried.
Reap(c) ==
  /\ handling
  /\ c \in zombie
  /\ zombie' = zombie \ {c}
  /\ GraveYard' = [GraveYard EXCEPT ![CurrTomb] = @ + 1]
  /\ UNCHANGED <<pc, ShouldStop, ChildCount, CurrTomb, PrevTomb, DeadCount,
                 FDSet, errno, alive, sigchld, handling, backlog, tty>>

MutReturnAfterOne ==
  /\ handling
  /\ handling' = FALSE
  /\ UNCHANGED <<program, alive, zombie, sigchld, backlog, tty>>

\* waitpid() yields no zombie and the handler returns.  With no child left at
\* all waitpid() fails, and errno, which the handler does not save, changes.
HandlerReturns ==
  /\ handling
  /\ zombie = {}
  /\ handling' = FALSE
  /\ errno' = IF alive = {} THEN "ECHILD" ELSE errno
  /\ UNCHANGED <<pc, ShouldStop, ChildCount, CurrTomb, GraveYard, PrevTomb,
                 DeadCount, FDSet, alive, zombie, sigchld, backlog, tty>>

\* SIGINT or SIGHUP; this handler may also run on top of the SIGCHLD one.
StopSignal ==
  /\ pc # "Done"
  /\ ShouldStop' = TRUE
  /\ InterruptSelect
  /\ UNCHANGED <<ChildCount, CurrTomb, GraveYard, PrevTomb, DeadCount, FDSet,
                 errno, environment>>

(***************************************************************************)
(* The main loop.                                                          *)
(***************************************************************************)

\* while (!ShouldStop), and FD_SET.
Check ==
  /\ At("Check")
  /\ Goto(IF ShouldStop THEN "Exit" ELSE "Call")
  /\ UNCHANGED <<ShouldStop, ChildCount, CurrTomb, GraveYard, PrevTomb,
                 DeadCount, FDSet, errno, environment>>

\* select() is called and blocks: what ShouldStop was is not looked at again.
Block ==
  /\ At("Call")
  /\ Goto("Select")
  /\ UNCHANGED <<ShouldStop, ChildCount, CurrTomb, GraveYard, PrevTomb,
                 DeadCount, FDSet, errno, environment>>

MutWaitForEver ==
  /\ At("Select")
  /\ Ready = {}
  /\ UNCHANGED vars

\* Its one second is over with nothing ready and no signal pending: i = 0.
\* Nothing else ends a wait begun after the signal it should have seen.
SelectTimeout ==
  /\ At("Select")
  /\ Ready = {}
  /\ ~sigchld
  /\ Goto("Check")
  /\ UNCHANGED <<ShouldStop, ChildCount, CurrTomb, GraveYard, PrevTomb,
                 DeadCount, FDSet, errno, environment>>

SelectReady ==
  /\ At("Select")
  /\ Ready # {}
  /\ FDSet' = Ready
  /\ Goto(IF "listen" \in Ready THEN "Accept" ELSE "Console")
  /\ UNCHANGED <<ShouldStop, ChildCount, CurrTomb, GraveYard, PrevTomb,
                 DeadCount, errno, environment>>

\* select() fails for a reason of its own, ENOMEM for one.
SelectFails ==
  /\ At("Select")
  /\ errno' = "other"
  /\ Goto("Failed")
  /\ UNCHANGED <<ShouldStop, ChildCount, CurrTomb, GraveYard, PrevTomb,
                 DeadCount, FDSet, environment>>

\* After the handler that interrupted it, select() stores its error code.
SelectInterrupted ==
  /\ At("Unblocked")
  /\ errno' = "EINTR"
  /\ Goto("Eintr")
  /\ UNCHANGED <<ShouldStop, ChildCount, CurrTomb, GraveYard, PrevTomb,
                 DeadCount, FDSet, environment>>

\* if (errno!=EINTR) break;
TestErrno ==
  /\ At("Eintr") \/ At("Failed")
  /\ Goto(IF errno = "EINTR" THEN "Bury" ELSE "Exit")
  /\ UNCHANGED <<ShouldStop, ChildCount, CurrTomb, GraveYard, PrevTomb,
                 DeadCount, FDSet, errno, environment>>

MutBuryOtherTomb ==
  /\ At("Bury")
  /\ Goto(IF GraveYard[Other(CurrTomb)] > 0 THEN "Switch" ELSE "Check")
  /\ PrevTomb' = IF GraveYard[Other(CurrTomb)] > 0 THEN CurrTomb ELSE PrevTomb
  /\ UNCHANGED <<ShouldStop, ChildCount, CurrTomb, GraveYard, DeadCount, FDSet,
                 errno, environment>>

\* if (GraveYard[CurrTomb]) PrevTomb=CurrTomb;
Bury ==
  /\ At("Bury")
  /\ Goto(IF GraveYard[CurrTomb] > 0 THEN "Switch" ELSE "Check")
  /\ PrevTomb' = IF GraveYard[CurrTomb] > 0 THEN CurrTomb ELSE PrevTomb
  /\ UNCHANGED <<ShouldStop, ChildCount, CurrTomb, GraveYard, DeadCount, FDSet,
                 errno, environment>>

MutNoSwitch ==
  /\ At("Switch")
  /\ Goto("Count")
  /\ UNCHANGED <<ShouldStop, ChildCount, CurrTomb, GraveYard, PrevTomb,
                 DeadCount, FDSet, errno, environment>>

\* CurrTomb^=1;
Switch ==
  /\ At("Switch")
  /\ CurrTomb' = Other(CurrTomb)
  /\ Goto("Count")
  /\ UNCHANGED <<ShouldStop, ChildCount, GraveYard, PrevTomb, DeadCount, FDSet,
                 errno, environment>>

\* DeadCount=GraveYard[PrevTomb];
Count ==
  /\ At("Count")
  /\ DeadCount' = GraveYard[PrevTomb]
  /\ Goto("Burn")
  /\ UNCHANGED <<ShouldStop, ChildCount, CurrTomb, GraveYard, PrevTomb, FDSet,
                 errno, environment>>

MutNotBurnt ==
  /\ At("Burn")
  /\ Goto("Settle")
  /\ UNCHANGED <<ShouldStop, ChildCount, CurrTomb, GraveYard, PrevTomb,
                 DeadCount, FDSet, errno, environment>>

\* GraveYard[PrevTomb]=0;
Burn ==
  /\ At("Burn")
  /\ GraveYard' = [GraveYard EXCEPT ![PrevTomb] = 0]
  /\ Goto("Settle")
  /\ UNCHANGED <<ShouldStop, ChildCount, CurrTomb, PrevTomb, DeadCount, FDSet,
                 errno, environment>>

\* ChildCount-=DeadCount;
Settle ==
  /\ At("Settle")
  /\ ChildCount' = ChildCount - DeadCount
  /\ Goto("Check")
  /\ UNCHANGED <<ShouldStop, CurrTomb, GraveYard, PrevTomb, DeadCount, FDSet,
                 errno, environment>>

MutAcceptOneMore ==
  /\ At("Accept")
  /\ ChildCount <= ConnLimit
  /\ backlog' = backlog - 1
  /\ Goto("Fork")
  /\ UNCHANGED <<ShouldStop, ChildCount, CurrTomb, GraveYard, PrevTomb,
                 DeadCount, FDSet, errno, alive, zombie, sigchld, handling, tty>>

\* accept(), below the limit.  The socket is not contended: it does not block.
Accept ==
  /\ At("Accept")
  /\ ChildCount < ConnLimit
  /\ backlog' = backlog - 1
  /\ Goto("Fork")
  /\ UNCHANGED <<ShouldStop, ChildCount, CurrTomb, GraveYard, PrevTomb,
                 DeadCount, FDSet, errno, alive, zombie, sigchld, handling, tty>>

\* accept(), and the connection is closed because the limit is reached.
Refuse ==
  /\ At("Accept")
  /\ ChildCount >= ConnLimit
  /\ backlog' = backlog - 1
  /\ Goto("Console")
  /\ UNCHANGED <<ShouldStop, ChildCount, CurrTomb, GraveYard, PrevTomb,
                 DeadCount, FDSet, errno, alive, zombie, sigchld, handling, tty>>

\* accept() fails; the connection is gone (ECONNABORTED) or waits on (EMFILE).
AcceptFails ==
  /\ At("Accept")
  /\ backlog' \in {backlog - 1, backlog}
  /\ errno' = "other"
  /\ Goto("Console")
  /\ UNCHANGED <<ShouldStop, ChildCount, CurrTomb, GraveYard, PrevTomb,
                 DeadCount, FDSet, alive, zombie, sigchld, handling, tty>>

\* The child runs from here on, before the master has counted it.
Fork(c) ==
  /\ At("Fork")
  /\ c \notin alive \cup zombie
  /\ alive' = alive \cup {c}
  /\ Goto("Born")
  /\ UNCHANGED <<ShouldStop, ChildCount, CurrTomb, GraveYard, PrevTomb,
                 DeadCount, FDSet, errno, zombie, sigchld, handling, backlog, tty>>

\* fork() fails; the accepted connection is closed all the same.
ForkFails ==
  /\ At("Fork")
  /\ errno' = "other"
  /\ Goto("Console")
  /\ UNCHANGED <<ShouldStop, ChildCount, CurrTomb, GraveYard, PrevTomb,
                 DeadCount, FDSet, environment>>

MutUncounted ==
  /\ At("Born")
  /\ Goto("Console")
  /\ UNCHANGED <<ShouldStop, ChildCount, CurrTomb, GraveYard, PrevTomb,
                 DeadCount, FDSet, errno, environment>>

\* ChildCount+=1; close(ChildSock);
Born ==
  /\ At("Born")
  /\ ChildCount' = ChildCount + 1
  /\ Goto("Console")
  /\ UNCHANGED <<ShouldStop, CurrTomb, GraveYard, PrevTomb, DeadCount, FDSet,
                 errno, environment>>

\* ProcessConsole(): ESC, end of file and a read error end the loop.
Console ==
  /\ At("Console")
  /\ \/ /\ "console" \notin FDSet
        /\ Goto("Check")
        /\ UNCHANGED tty
     \/ /\ "console" \in FDSet
        /\ tty = "key"
        /\ Goto("Check")
        /\ tty' = "none"
     \/ /\ "console" \in FDSet
        /\ tty \in {"esc", "eof"}
        /\ Goto("Exit")
        /\ UNCHANGED tty
  /\ UNCHANGED <<ShouldStop, ChildCount, CurrTomb, GraveYard, PrevTomb,
                 DeadCount, FDSet, errno, alive, zombie, sigchld, handling, backlog>>

\* close(MasterSock), ProxyDone(), qdone(), return: the children are left alone.
Exit ==
  /\ At("Exit")
  /\ Goto("Done")
  /\ UNCHANGED <<ShouldStop, ChildCount, CurrTomb, GraveYard, PrevTomb,
                 DeadCount, FDSet, errno, environment>>

(***************************************************************************)
(* The environment.                                                        *)
(***************************************************************************)

\* A child ends, for whatever reason.
Die(c) ==
  /\ c \in alive
  /\ alive' = alive \ {c}
  /\ zombie' = zombie \cup {c}
  /\ sigchld' = TRUE
  /\ UNCHANGED <<program, handling, backlog, tty>>

Connect ==
  /\ pc # "Done"
  /\ backlog < Backlog
  /\ backlog' = backlog + 1
  /\ UNCHANGED <<program, alive, zombie, sigchld, handling, tty>>

Type ==
  /\ Foreground /\ tty = "none"
  /\ tty' \in {"key", "esc", "eof"}
  /\ UNCHANGED <<program, alive, zombie, sigchld, handling, backlog>>

Finished == pc = "Done" /\ UNCHANGED vars

-----------------------------------------------------------------------------

MainStep ==
  \/ Check \/ Block \/ SelectTimeout \/ SelectReady
  \/ SelectInterrupted \/ TestErrno
  \/ Bury \/ Switch \/ Count \/ Burn \/ Settle
  \/ Accept \/ Refuse \/ AcceptFails
  \/ (\E c \in Child : Fork(c)) \/ ForkFails \/ Born
  \/ Console \/ Exit

HandlerStep == Deliver \/ (\E c \in Child : Reap(c)) \/ HandlerReturns

Next ==
  \/ MainStep
  \/ SelectFails
  \/ HandlerStep
  \/ StopSignal
  \/ \E c \in Child : Die(c)
  \/ Connect
  \/ Type
  \/ Finished

Spec == Init /\ [][Next]_vars

\* The scheduler runs the master, whose select() waits one second at most
\* (main.c:304; this is what the fairness of SelectTimeout says), and the kernel
\* delivers a pending signal; nothing is assumed of the others, nor that select()
\* fails, which would end a wait as well.
FairSpec == Spec /\ WF_vars(MainStep) /\ WF_vars(HandlerStep)

-----------------------------------------------------------------------------
(***************************************************************************)
(* Properties.                                                             *)
(***************************************************************************)

TypeOK ==
  /\ pc \in Label
  /\ ShouldStop \in BOOLEAN
  /\ ChildCount \in 0..ConnLimit
  /\ CurrTomb \in Tomb
  /\ GraveYard \in [Tomb -> Nat]
  /\ PrevTomb \in Tomb
  /\ DeadCount \in Nat
  /\ FDSet \in SUBSET {"listen", "console"}
  /\ errno \in {"none", "EINTR", "ECHILD", "other"}
  /\ alive \in SUBSET Child
  /\ zombie \in SUBSET Child
  /\ sigchld \in BOOLEAN
  /\ handling \in BOOLEAN
  /\ backlog \in 0..Backlog
  /\ tty \in {"none", "key", "esc", "eof"}

\* Children not yet subtracted from ChildCount, and the one not yet added.
Buried == GraveYard[0] + GraveYard[1]
Owed == IF pc = "Settle" THEN DeadCount ELSE 0
Ended == Cardinality(zombie) + Buried + Owed
Held == IF pc = "Born" THEN ChildCount + 1 ELSE ChildCount

\* "Correctly count the dead children": whatever the handler interrupts, no
\* death is lost and none is counted twice (main.c:28).
DeathsCountedOnce == Held = Cardinality(alive) + Ended

\* There are never more client processes, zombies included, than the limit.
LimitRespected == Cardinality(alive \cup zombie) <= ConnLimit

\* "actually two is enough": the handler never buries into the tomb being
\* counted, and the tomb it is switched to is empty (main.c:40).
TwoTombsEnough ==
  /\ pc = "Switch" => PrevTomb = CurrTomb
  /\ pc \in {"Count", "Burn"} => PrevTomb = Other(CurrTomb)
  /\ pc = "Burn" => DeadCount = GraveYard[PrevTomb]
  /\ pc \notin {"Count", "Burn"} => GraveYard[Other(CurrTomb)] = 0

\* The master implements the slot discipline of Admission, a slot being held
\* from fork() until ChildCount is corrected.
AdmissionInst == INSTANCE Admission
  WITH open <- pc # "Done", living <- alive, held <- Held, owed <- Ended,
       Limit <- ConnLimit

ImplementsAdmission == AdmissionInst!Spec

\* Every child that ended is waited for, although SIGCHLD of several deaths
\* collapse into one (the handler's loop, main.c:53): when there are zombies there
\* will be a moment without any.
ZombiesReaped == zombie # {} ~> (zombie = {} \/ pc = "Done")

\* A stop signal ends the master, whatever it is doing, also when it is handled
\* after the test of ShouldStop and before select() blocks, where it interrupts
\* nothing: the second select() waits at most is then all that ends the wait
\* (main.c:50, 293, 304).
StopObeyed == ShouldStop ~> pc = "Done"

\* A tomb with dead children in it when select() is interrupted is emptied.
EintrHarvests ==
  \A t \in Tomb :
    (pc = "Unblocked" /\ GraveYard[t] > 0) ~> (GraveYard[t] = 0 \/ pc = "Done")

\* "not so elegant, but working on any unix flavor" (main.c:36): being
\* interrupted by a signal does not make a master give up that was not told to.
EintrNeverFatal == [][pc = "Eintr" /\ ~ShouldStop => pc' # "Exit"]_vars

\* "Correctly count the dead children" (main.c:28): once all children are
\* dead, the master stops believing that the limit is reached.
NoLockout ==
  (alive = {} /\ ChildCount >= ConnLimit)
    ~> (ChildCount < ConnLimit \/ pc = "Done")
=============================================================================
