------------------------------ MODULE Startup ------------------------------
(***************************************************************************)
(* How the program comes to serve (main.c): options, nice value, the two   *)
(* forks of daemonize() and the server socket, any of which may fail, with *)
(* a stop signal at any moment.  The loop of the master (module Master) is *)
(* the place "serve", left when ShouldStop is set.                         *)
(***************************************************************************)
EXTENDS Integers, FiniteSets

CONSTANTS ProcessNice,  \* Config.ProcessNice, -1 for none
          Inherited     \* the nice values with which the program may be invoked

ASSUME StartupAssumption ==
  /\ ProcessNice \in {-1} \cup (Nat \ {0})
  /\ Inherited \subseteq -20..19

\* The process that was invoked, the session leader and the daemon.
Process == {"invoked", "child", "daemon"}
Fd == 0..5
Standard == 0..2

VARIABLES
  Foreground, \* Config.Foreground
  pc,
  ShouldStop,
  status,    \* the variable Back of main()
  sid,       \* the session of each process: "user" or the leader that made it
  dir,       \* its working directory
  fds,       \* its file descriptors
  niceness,
  failed,    \* the steps that failed in each process
  printed,   \* processes that printed "Error, going to daemon ...."
  openAtStart

process == <<ShouldStop, status, sid, dir, fds, niceness>>
history == <<failed, printed, openAtStart, Foreground>>
vars == <<pc, process, history>>

Init ==
  /\ Foreground \in BOOLEAN
  /\ pc = [p \in Process |-> IF p = "invoked" THEN "config" ELSE "none"]
  /\ ShouldStop = [p \in Process |-> FALSE]
  /\ status = [p \in Process |-> 0]
  /\ sid = [p \in Process |-> "user"]
  /\ dir = [p \in Process |-> "cwd"]
  /\ openAtStart \in SUBSET Standard
  /\ fds = [p \in Process |-> [f \in Fd |-> IF f \in openAtStart THEN "user" ELSE "closed"]]
  /\ \E n \in Inherited : niceness = [p \in Process |-> n]
  /\ failed = [p \in Process |-> {}]
  /\ printed = {}

Lowest(p) ==
  CHOOSE f \in Fd : /\ fds[p][f] = "closed"
                    /\ \A g \in Fd : g < f => fds[p][g] # "closed"

Goto(p, from, to) == pc[p] = from /\ pc' = [pc EXCEPT ![p] = to]
Opened(p, what) == fds' = [fds EXCEPT ![p][Lowest(p)] = what]

\* A step fails and the process goes on to the end of main() with this result.
Fail(p, from, Back) ==
  /\ Goto(p, from, "exit")
  /\ failed' = [failed EXCEPT ![p] = @ \cup {from}]
  /\ status' = [status EXCEPT ![p] = Back]
  /\ UNCHANGED <<ShouldStop, sid, dir, fds, niceness, printed, openAtStart, Foreground>>

-----------------------------------------------------------------------------
(***************************************************************************)
(* main()                                                                  *)
(***************************************************************************)

\* Wrong options, or -h.
Usage(p) ==
  \/ Fail(p, "config", 1)
  \/ Goto(p, "config", "exit") /\ UNCHANGED <<process, history>>

\* A line of the log connects to the system log, if nothing before it has.
Connected(p) ==
  /\ ~Foreground
  /\ \A f \in Fd : fds[p][f] # "log"
  /\ Opened(p, "log")

\* The first lines are written; the system log may be out of reach.
Configured(p) ==
  /\ Goto(p, "config", "nice")
  /\ Connected(p) \/ UNCHANGED fds
  /\ UNCHANGED <<ShouldStop, status, sid, dir, niceness, history>>

\* A later line, of the program or of its signal handler, tries again.
Log(p) ==
  /\ pc[p] \notin {"none", "config", "exit"}
  /\ Connected(p)
  /\ UNCHANGED <<pc, ShouldStop, status, sid, dir, niceness, history>>

AfterNice == IF Foreground THEN "server" ELSE "fork"

\* nice(2) adds, up to 19; any other result than the value asked for is an error.
Added(p) == IF niceness[p] + ProcessNice > 19 THEN 19 ELSE niceness[p] + ProcessNice

Nice(p) ==
  /\ Goto(p, "nice", AfterNice)
  /\ ProcessNice # -1 => Added(p) = ProcessNice
  /\ niceness' = [niceness EXCEPT ![p] = IF ProcessNice = -1 THEN @ ELSE Added(p)]
  /\ UNCHANGED <<ShouldStop, status, sid, dir, fds, history>>

NiceFails(p) == ProcessNice # -1 /\ Fail(p, "nice", 1)

\* CreateTCPServer() closes the socket when a later step of it fails.
ServerFails(p) == Fail(p, "server", 2)

CreateTCPServer(p) ==
  /\ Goto(p, "server", "serve")
  /\ Opened(p, "socket")
  /\ UNCHANGED <<ShouldStop, status, sid, dir, niceness, history>>

\* The loop ends, the socket is closed; the program returns Back.
Served(p) ==
  /\ ShouldStop[p]
  /\ Goto(p, "serve", "exit")
  /\ fds' = [fds EXCEPT ![p] = [f \in Fd |-> IF @[f] = "socket" THEN "closed" ELSE @[f]]]
  /\ UNCHANGED <<ShouldStop, status, sid, dir, niceness, history>>

-----------------------------------------------------------------------------
(***************************************************************************)
(* daemonize()                                                             *)
(***************************************************************************)

Copied(f, p, q) == [f EXCEPT ![q] = f[p]]

MutBothGoOn(p, q, from, to) ==
  /\ pc[p] = from
  /\ pc' = [pc EXCEPT ![p] = "server", ![q] = to]
  /\ sid' = Copied(sid, p, q) /\ dir' = Copied(dir, p, q) /\ fds' = Copied(fds, p, q)
  /\ niceness' = Copied(niceness, p, q) /\ status' = Copied(status, p, q)
  /\ ShouldStop' = Copied(ShouldStop, p, q)
  /\ UNCHANGED history

MutFork(p, q, from, to) ==
  /\ pc[p] = from
  /\ pc' = [pc EXCEPT ![p] = "exit", ![q] = to]
  /\ sid' = Copied(sid, p, q) /\ dir' = Copied(dir, p, q) /\ fds' = Copied(fds, p, q)
  /\ niceness' = Copied(niceness, p, q) /\ status' = Copied(status, p, q)
  /\ UNCHANGED <<ShouldStop, history>>

\* fork(): the new process q is a copy of p; in p daemonize() returns 0 and the
\* program ends.
Fork(p, q, from, to) ==
  /\ pc[p] = from
  /\ pc' = [pc EXCEPT ![p] = "exit", ![q] = to]
  /\ sid' = Copied(sid, p, q) /\ dir' = Copied(dir, p, q) /\ fds' = Copied(fds, p, q)
  /\ niceness' = Copied(niceness, p, q) /\ status' = Copied(status, p, q)
  /\ ShouldStop' = Copied(ShouldStop, p, q)
  /\ UNCHANGED history

Fork1 == Fork("invoked", "child", "fork", "setsid")

MutSetsid ==
  /\ Goto("child", "setsid", "fork2")
  /\ UNCHANGED <<process, history>>

setsid ==
  /\ Goto("child", "setsid", "fork2")
  /\ sid' = [sid EXCEPT !["child"] = "child"]
  /\ UNCHANGED <<ShouldStop, status, dir, fds, niceness, history>>

Fork2 == Fork("child", "daemon", "fork2", "chdir")

\* What daemonize() returns when a step of it fails: Back as it was in the beginning.
FailedBack == 0

DaemonizeSteps == {"fork", "setsid", "fork2", "chdir", "open"}

\* main() prints its error when the result is negative, and ends in either case.
DaemonizeFails(p) ==
  \E step \in DaemonizeSteps :
    /\ Goto(p, step, "exit")
    /\ failed' = [failed EXCEPT ![p] = @ \cup {step}]
    /\ printed' = IF FailedBack < 0 THEN printed \cup {p} ELSE printed
    /\ UNCHANGED <<process, openAtStart, Foreground>>

Chdir ==
  /\ Goto("daemon", "chdir", "open")
  /\ dir' = [dir EXCEPT !["daemon"] = "/"]
  /\ UNCHANGED <<ShouldStop, status, sid, fds, niceness, history>>

\* /dev/null is opened, copied to the standard descriptors, and its own
\* descriptor closed again, also if that is one of them.
DevNull ==
  /\ Goto("daemon", "open", "server")
  /\ fds' = [fds EXCEPT !["daemon"] =
               [f \in Fd |-> IF f = Lowest("daemon") THEN "closed"
                             ELSE IF f \in Standard THEN "null" ELSE @[f]]]
  /\ UNCHANGED <<ShouldStop, status, sid, dir, niceness, history>>

-----------------------------------------------------------------------------

\* SIGINT or SIGHUP.
Stop(p) ==
  /\ pc[p] \notin {"none", "exit"}
  /\ ShouldStop' = [ShouldStop EXCEPT ![p] = TRUE]
  /\ UNCHANGED <<pc, status, sid, dir, fds, niceness, history>>

Main(p) ==
  \/ Usage(p) \/ Configured(p) \/ Nice(p) \/ NiceFails(p)
  \/ DaemonizeFails(p) \/ ServerFails(p) \/ CreateTCPServer(p) \/ Served(p)

Daemonize == Fork1 \/ setsid \/ Fork2 \/ Chdir \/ DevNull

Finished ==
  /\ \A p \in Process : pc[p] \in {"none", "exit", "serve"}
  /\ UNCHANGED vars

Next == Daemonize \/ Finished \/ \E p \in Process : Main(p) \/ Log(p) \/ Stop(p)

\* Every process is scheduled.
Spec ==
  /\ Init /\ [][Next]_vars
  /\ WF_vars(Daemonize)
  /\ \A p \in Process : WF_vars(Main(p))

-----------------------------------------------------------------------------
(***************************************************************************)
(* Properties.                                                             *)
(***************************************************************************)

\* The state has its types, and a descriptor is always to be had.
TypeOK ==
  /\ Foreground \in BOOLEAN
  /\ pc \in [Process -> {"none", "config", "nice", "fork", "setsid", "fork2", "chdir",
                         "open", "server", "serve", "exit"}]
  /\ ShouldStop \in [Process -> BOOLEAN]
  /\ status \in [Process -> 0..2]
  /\ sid \in [Process -> {"user", "child"}]
  /\ dir \in [Process -> {"cwd", "/"}]
  /\ fds \in [Process -> [Fd -> {"closed", "user", "log", "null", "socket"}]]
  /\ \A p \in Process : \E f \in Fd : fds[p][f] = "closed"
  /\ niceness \in [Process -> -20..19]
  /\ failed \in [Process -> SUBSET {"config", "nice", "fork", "setsid", "fork2", "chdir",
                                    "open", "server"}]
  /\ printed \subseteq Process /\ openAtStart \subseteq Standard

Serving == {p \in Process : pc[p] = "serve"}

\* Whatever fails on the way, at most one process comes to serve, it is the right
\* one, and the sockets of the others are not left open behind it.
SingleMaster ==
  /\ Serving \subseteq (IF Foreground THEN {"invoked"} ELSE {"daemon"})
  /\ \A p \in Process \ Serving, f \in Fd : fds[p][f] # "socket"

\* The daemon is in another session, without leading it, so that it can get no
\* terminal, and keeps neither the directory nor a descriptor of the user.
Detached ==
  /\ sid["daemon"] \notin {"user", "daemon"}
  /\ dir["daemon"] = "/"
  /\ \A f \in Fd : fds["daemon"][f] # "user"

\* Its standard descriptors are taken: neither its log nor its socket is one of them.
StandardKept == \A f \in Standard : fds["daemon"][f] = "null"

\* Who serves is as it was asked to be, after all the forks: at its nice value,
\* whatever the one it was invoked with; and a daemon is detached and, if it was
\* started with its three standard descriptors, never has its socket or its log,
\* whenever it gets a connection to one, among them.
ServesAsAsked ==
  /\ \A p \in Serving : ProcessNice # -1 => niceness[p] = ProcessNice
  /\ "daemon" \in Serving => Detached /\ (openAtStart = Standard => StandardKept)

\* A stop signal that comes before the first fork also stops what is forked
\* after it: in the end no process of the program is left.
StopInherited ==
  pc["invoked"] \in {"config", "nice", "fork"} /\ ShouldStop["invoked"]
    ~> \A p \in Process : pc[p] \in {"none", "exit"}

\* "Error, going to daemon ....": a process that fails to become the daemon says
\* so before it ends.
DaemonErrorShown ==
  \A p \in Process :
    pc[p] = "exit" /\ failed[p] \cap DaemonizeSteps # {}
      => p \in printed
=============================================================================
