---------------------------- MODULE StartupProofs ----------------------------
(***************************************************************************)
(* Proofs about Startup for every nice value, every set of descriptors the *)
(* program may be started with, and any step failing.  IInv says where     *)
(* each process can be, and what it has done by then.                      *)
(***************************************************************************)
EXTENDS Startup, TLAPS

\* Which process gets where; it forks in order to serve or serves without.
Places ==
  /\ pc["invoked"] \in {"config", "nice", "exit"} \cup IF Foreground THEN {"server", "serve"} ELSE {"fork"}
  /\ pc["child"] \in {"none"} \cup IF Foreground THEN {} ELSE {"setsid", "fork2", "exit"}
  /\ pc["daemon"] \in {"none"} \cup IF Foreground THEN {} ELSE {"chdir", "open", "server", "serve", "exit"}

\* At most two descriptors are taken besides the standard ones: there is always
\* one for /dev/null and for the socket.
FdsLeft ==
  \A p \in Process :
    /\ \A f \in Fd \ Standard : fds[p][f] \in {"closed", "log", "socket"}
    /\ \A f, g \in Fd : fds[p][f] = fds[p][g] /\ fds[p][f] \in {"log", "socket"} => f = g

\* Only a process that serves has a socket.
SocketsClosed == \A p \in Process \ Serving, f \in Fd : fds[p][f] # "socket"

\* What is open in the beginning stays taken, so that log and socket are others.
StandardTaken ==
  openAtStart = Standard => \A p \in Process, f \in Standard : fds[p][f] \in {"user", "null"}

\* The nice value is set before the first fork and inherited.
NiceSet ==
  \A p \in Process :
    ProcessNice # -1 /\ pc[p] \notin {"none", "config", "nice", "exit"} => niceness[p] = ProcessNice

\* How far the daemon has come.
Detaching ==
  /\ pc["child"] = "fork2" => sid["child"] = "child"
  /\ pc["daemon"] \in {"chdir", "open", "server", "serve"} => sid["daemon"] = "child"
  /\ pc["daemon"] \in {"open", "server", "serve"} => dir["daemon"] = "/"
  /\ pc["daemon"] \in {"server", "serve"} =>
       /\ \A f \in Fd : fds["daemon"][f] # "user"
       /\ openAtStart = Standard => \A f \in Standard : fds["daemon"][f] = "null"

IInv ==
  /\ TypeOK
  /\ Places
  /\ FdsLeft
  /\ SocketsClosed
  /\ StandardTaken
  /\ NiceSet
  /\ Detaching

-----------------------------------------------------------------------------
(***************************************************************************)
(* Descriptors.                                                            *)
(***************************************************************************)

\* There is a descriptor to be had, and Lowest() is one.
LEMMA LowestClosed ==
  ASSUME TypeOK, NEW p \in Process
  PROVE  Lowest(p) \in Fd /\ fds[p][Lowest(p)] = "closed"
<1> DEFINE Free(f) == /\ fds[p][f] = "closed"
                      /\ \A g \in Fd : g < f => fds[p][g] # "closed"
<1>1. \E f \in Fd : fds[p][f] = "closed"
  BY DEF TypeOK
<1>2. \E f \in Fd : Free(f)
  <2>1. \A f \in Fd : f \in {0, 1, 2, 3, 4, 5}
    BY DEF Fd
  <2> QED
    BY <1>1, <2>1 DEF Fd
<1> QED
  BY <1>2 DEF Lowest

\* Those beyond the standard ones cannot all be taken.
LEMMA ClosedLeft ==
  ASSUME NEW F \in [Fd -> {"closed", "user", "log", "null", "socket"}],
         \A f \in Fd \ Standard : F[f] \in {"closed", "log", "socket"},
         \A f, g \in Fd : F[f] = F[g] /\ F[f] \in {"log", "socket"} => f = g
  PROVE  \E f \in Fd : F[f] = "closed"
<1>1. 3 \in Fd \ Standard /\ 4 \in Fd \ Standard /\ 5 \in Fd \ Standard
  BY DEF Fd, Standard
<1>2. 3 # 4 /\ 3 # 5 /\ 4 # 5
  OBVIOUS
<1> QED
  BY <1>1, <1>2

-----------------------------------------------------------------------------
(***************************************************************************)
(* The steps.                                                              *)
(***************************************************************************)

\* The program begins with at most its standard descriptors.
LEMMA InitIInv == Init => IInv
<1> SUFFICES ASSUME Init PROVE IInv
  OBVIOUS
<1>1. \A p \in Process, f \in Fd : /\ fds[p][f] \in {"closed", "user"}
                                   /\ f \notin Standard => fds[p][f] = "closed"
                                   /\ f \in openAtStart => fds[p][f] = "user"
  BY DEF Init, Standard
<1>2. fds \in [Process -> [Fd -> {"closed", "user", "log", "null", "socket"}]]
  BY DEF Init
<1>3. \A p \in Process : \E f \in Fd : fds[p][f] = "closed"
  <2>1. 3 \in Fd \ Standard
    BY DEF Fd, Standard
  <2> QED
    BY <1>1, <2>1
<1>4. pc \in [Process -> {"none", "config"}]
  BY DEF Init
<1>5. TypeOK
  <2>1. niceness \in [Process -> -20..19]
    BY StartupAssumption DEF Init
  <2> QED
    BY <1>2, <1>3, <1>4, <2>1 DEF Init, TypeOK
<1>6. Places
  BY DEF Init, Places, Process
<1>7. FdsLeft /\ SocketsClosed
  BY <1>1 DEF FdsLeft, SocketsClosed
<1>8. StandardTaken
  BY <1>1 DEF StandardTaken, Standard, Fd
<1>9. NiceSet
  BY <1>4 DEF NiceSet
<1>10. Detaching
  BY <1>4 DEF Detaching, Process
<1> QED
  BY <1>5, <1>6, <1>7, <1>8, <1>9, <1>10 DEF IInv

\* A process ends.
LEMMA ExitKeeps ==
  ASSUME IInv, NEW p \in Process, pc[p] \notin {"none", "serve"},
         pc' = [pc EXCEPT ![p] = "exit"],
         UNCHANGED <<sid, dir, fds, niceness, ShouldStop, openAtStart, Foreground>>,
         TypeOK'
  PROVE  IInv'
<1>1. pc \in [Process -> {"none", "config", "nice", "fork", "setsid", "fork2", "chdir",
                          "open", "server", "serve", "exit"}]
  BY DEF IInv, TypeOK
<1>2. \A q \in Process : pc'[q] = IF q = p THEN "exit" ELSE pc[q]
  BY <1>1
<1>3. "invoked" \in Process /\ "child" \in Process /\ "daemon" \in Process
  BY DEF Process
<1>4. Places'
  BY <1>2, <1>3 DEF IInv, Places
<1>5. FdsLeft' /\ SocketsClosed' /\ StandardTaken'
  BY <1>2 DEF IInv, FdsLeft, SocketsClosed, StandardTaken, Serving
<1>6. NiceSet'
  BY <1>2 DEF IInv, NiceSet
<1>7. Detaching'
  BY <1>2, <1>3 DEF IInv, Detaching
<1> QED
  BY <1>4, <1>5, <1>6, <1>7 DEF IInv

\* fork() and the end of the parent.
LEMMA ForkKeeps ==
  ASSUME IInv, NEW p \in Process, NEW q \in Process, NEW from, NEW to, Fork(p, q, from, to),
         \/ p = "invoked" /\ q = "child" /\ from = "fork" /\ to = "setsid"
         \/ p = "child" /\ q = "daemon" /\ from = "fork2" /\ to = "chdir"
  PROVE  IInv'
<1>1. /\ pc[p] = from
      /\ pc' = [pc EXCEPT ![p] = "exit", ![q] = to]
      /\ sid' = [sid EXCEPT ![q] = sid[p]] /\ dir' = [dir EXCEPT ![q] = dir[p]]
      /\ fds' = [fds EXCEPT ![q] = fds[p]] /\ niceness' = [niceness EXCEPT ![q] = niceness[p]]
      /\ status' = [status EXCEPT ![q] = status[p]]
      /\ ShouldStop' = [ShouldStop EXCEPT ![q] = ShouldStop[p]]
      /\ UNCHANGED <<failed, printed, openAtStart, Foreground>>
  BY DEF Fork, Copied, history
<1>0. pc[p] = from /\ UNCHANGED <<openAtStart, Foreground>>
  BY <1>1
<1>2. p # q /\ from \in {"fork", "fork2"} /\ to \in {"setsid", "chdir"}
  OBVIOUS
<1>3. \A r \in Process :
        /\ pc'[r] = IF r = p THEN "exit" ELSE IF r = q THEN to ELSE pc[r]
        /\ sid'[r] = IF r = q THEN sid[p] ELSE sid[r]
        /\ dir'[r] = IF r = q THEN dir[p] ELSE dir[r]
        /\ fds'[r] = IF r = q THEN fds[p] ELSE fds[r]
        /\ niceness'[r] = IF r = q THEN niceness[p] ELSE niceness[r]
  BY <1>1, <1>2 DEF IInv, TypeOK
<1>4. "invoked" \in Process /\ "child" \in Process /\ "daemon" \in Process
  BY DEF Process
<1>5. TypeOK'
  <2>1. \A r \in Process : \E f \in Fd : fds'[r][f] = "closed"
    BY <1>3 DEF IInv, TypeOK
  <2>2. pc' \in [Process -> {"none", "config", "nice", "fork", "setsid", "fork2", "chdir",
                             "open", "server", "serve", "exit"}]
    BY <1>1, <1>2 DEF IInv, TypeOK
  <2>3. /\ ShouldStop' \in [Process -> BOOLEAN]
        /\ status' \in [Process -> 0..2]
        /\ sid' \in [Process -> {"user", "child"}]
        /\ dir' \in [Process -> {"cwd", "/"}]
    BY <1>1 DEF IInv, TypeOK
  <2>4. /\ fds' \in [Process -> [Fd -> {"closed", "user", "log", "null", "socket"}]]
        /\ niceness' \in [Process -> -20..19]
    BY <1>1 DEF IInv, TypeOK
  <2> QED
    BY <1>1, <2>1, <2>2, <2>3, <2>4 DEF IInv, TypeOK
<1>6. Places'
  <2>1. CASE p = "invoked" /\ q = "child" /\ from = "fork" /\ to = "setsid"
    <3>1. pc["invoked"] = "fork" /\ pc'["invoked"] = "exit" /\ pc'["child"] = "setsid" /\ pc'["daemon"] = pc["daemon"]
      BY <1>0, <1>2, <1>3, <1>4, <2>1
    <3> QED
      BY <1>0, <3>1 DEF IInv, Places
  <2>2. CASE p = "child" /\ q = "daemon" /\ from = "fork2" /\ to = "chdir"
    <3>1. pc["child"] = "fork2" /\ pc'["invoked"] = pc["invoked"] /\ pc'["child"] = "exit" /\ pc'["daemon"] = "chdir"
      BY <1>0, <1>2, <1>3, <1>4, <2>2
    <3> QED
      BY <1>0, <3>1 DEF IInv, Places
  <2> QED
    BY <2>1, <2>2
<1>7. FdsLeft' /\ SocketsClosed' /\ StandardTaken'
  <2>1. \A r \in Process : \/ fds'[r] = fds[r] /\ (pc'[r] = pc[r] \/ pc'[r] = "exit")
                           \/ fds'[r] = fds[p] /\ pc'[r] \in {"setsid", "chdir"}
    BY <1>2, <1>3
  <2>2. FdsLeft'
    <3>1. ASSUME NEW r \in Process
          PROVE  /\ \A f \in Fd \ Standard : fds'[r][f] \in {"closed", "log", "socket"}
                 /\ \A f, g \in Fd : fds'[r][f] = fds'[r][g] /\ fds'[r][f] \in {"log", "socket"} => f = g
      <4>1. fds'[r] = fds[r] \/ fds'[r] = fds[p]
        BY <2>1
      <4> QED
        BY <4>1 DEF IInv, FdsLeft
    <3> QED
      BY <3>1 DEF FdsLeft
  <2>3. p \in Process \ Serving
    BY <1>0, <1>2 DEF Serving
  <2>4. \A r \in Process \ Serving' : fds'[r] = fds[p] \/ (r \in Process \ Serving /\ fds'[r] = fds[r])
    BY <1>0, <1>2, <1>3 DEF Serving
  <2>5. SocketsClosed'
    BY <2>3, <2>4 DEF IInv, SocketsClosed
  <2>6. StandardTaken'
    BY <1>0, <2>1 DEF IInv, StandardTaken
  <2> QED
    BY <2>2, <2>5, <2>6
<1>8. NiceSet'
  <2>1. \A r \in Process : pc'[r] \notin {"none", "config", "nice", "exit"} =>
           \/ niceness'[r] = niceness[p]
           \/ niceness'[r] = niceness[r] /\ pc'[r] = pc[r]
    BY <1>2, <1>3
  <2> QED
    BY <1>0, <1>2, <2>1 DEF IInv, NiceSet
<1>9. Detaching'
  <2>1. CASE p = "invoked" /\ q = "child" /\ to = "setsid"
    <3>1. pc'["child"] = "setsid" /\ UNCHANGED <<pc["daemon"], sid["daemon"], dir["daemon"], fds["daemon"]>>
      BY <1>2, <1>3, <1>4, <2>1
    <3> QED
      BY <1>0, <3>1 DEF IInv, Detaching
  <2>2. CASE p = "child" /\ q = "daemon" /\ from = "fork2" /\ to = "chdir"
    <3>1. pc["child"] = "fork2" /\ pc'["child"] = "exit" /\ pc'["daemon"] = "chdir" /\ sid'["daemon"] = sid["child"]
      BY <1>0, <1>2, <1>3, <1>4, <2>2
    <3> QED
      BY <1>0, <3>1 DEF IInv, Detaching
  <2> QED
    BY <2>1, <2>2
<1> QED
  BY <1>5, <1>6, <1>7, <1>8, <1>9 DEF IInv

\* A line of the log, with or without a connection made for it.
LEMMA LineKeeps ==
  ASSUME IInv, NEW p \in Process,
         Connected(p) \/ UNCHANGED fds,
         pc' = pc \/ (pc[p] = "config" /\ pc' = [pc EXCEPT ![p] = "nice"]),
         UNCHANGED <<ShouldStop, status, sid, dir, niceness, failed, printed, openAtStart, Foreground>>
  PROVE  IInv'
<1>1. \A r \in Process : pc'[r] = pc[r] \/ (pc[r] = "config" /\ pc'[r] = "nice")
  BY DEF IInv, TypeOK
<1>2. pc' \in [Process -> {"none", "config", "nice", "fork", "setsid", "fork2", "chdir",
                           "open", "server", "serve", "exit"}]
  BY DEF IInv, TypeOK
<1>3. Lowest(p) \in Fd /\ fds[p][Lowest(p)] = "closed"
  BY LowestClosed DEF IInv
<1>4. PICK low \in Fd : low = Lowest(p)
  BY <1>3
<1>5. fds[p][low] = "closed"
  BY <1>3, <1>4
<1>6. "invoked" \in Process /\ "child" \in Process /\ "daemon" \in Process
  BY DEF Process
<1>7. Places'
  <2>1. \A r \in Process : pc[r] = "config" => r = "invoked"
    BY DEF IInv, Places, Process
  <2> QED
    BY <1>1, <1>6, <2>1 DEF IInv, Places
<1>8. NiceSet'
  BY <1>1 DEF IInv, NiceSet
<1>9. \A r \in Process \ Serving' : r \in Process \ Serving
  BY <1>1 DEF Serving
<1>10. CASE UNCHANGED fds
  <2>1. TypeOK'
    BY <1>2, <1>10 DEF IInv, TypeOK
  <2>2. FdsLeft' /\ StandardTaken'
    BY <1>10 DEF IInv, FdsLeft, StandardTaken
  <2>3. SocketsClosed'
    BY <1>9, <1>10 DEF IInv, SocketsClosed
  <2>4. Detaching'
    BY <1>1, <1>6, <1>10 DEF IInv, Detaching
  <2> QED
    BY <1>7, <1>8, <2>1, <2>2, <2>3, <2>4 DEF IInv
<1>11. CASE Connected(p)
  <2>1. /\ \A f \in Fd : fds[p][f] # "log"
        /\ fds' = [fds EXCEPT ![p][low] = "log"]
    BY <1>4, <1>11 DEF Connected, Opened
  <2>2. fds \in [Process -> [Fd -> {"closed", "user", "log", "null", "socket"}]]
    BY DEF IInv, TypeOK
  <2>3. /\ fds' \in [Process -> [Fd -> {"closed", "user", "log", "null", "socket"}]]
        /\ \A r \in Process, f \in Fd :
             fds'[r][f] = IF r = p /\ f = low THEN "log" ELSE fds[r][f]
    BY <2>1, <2>2
  <2>4. FdsLeft'
    <3> SUFFICES ASSUME NEW r \in Process
                 PROVE  /\ \A f \in Fd \ Standard : fds'[r][f] \in {"closed", "log", "socket"}
                        /\ \A f, g \in Fd : fds'[r][f] = fds'[r][g] /\ fds'[r][f] \in {"log", "socket"} => f = g
      BY DEF FdsLeft
    <3>1. CASE r = p
      BY <2>1, <2>3, <3>1 DEF IInv, FdsLeft
    <3>2. CASE r # p
      BY <2>3, <3>2 DEF IInv, FdsLeft
    <3> QED
      BY <3>1, <3>2
  <2>5. TypeOK'
    <3>1. \A r \in Process : \E f \in Fd : fds'[r][f] = "closed"
      BY <2>3, <2>4, ClosedLeft DEF FdsLeft
    <3> QED
      BY <1>2, <2>3, <3>1 DEF IInv, TypeOK
  <2>6. SocketsClosed'
    BY <1>9, <2>3 DEF IInv, SocketsClosed
  <2>7. /\ \A f \in Standard : f \in Fd
        /\ openAtStart = Standard => low \notin Standard
    BY <1>5 DEF IInv, StandardTaken, Standard, Fd
  <2>8. StandardTaken'
    BY <2>3, <2>7 DEF IInv, StandardTaken
  <2>9. Detaching'
    <3>1. \A f \in Fd : fds["daemon"][f] # "user" => fds'["daemon"][f] # "user"
      BY <1>6, <2>3
    <3>2. openAtStart = Standard => \A f \in Standard : fds'["daemon"][f] = fds["daemon"][f]
      BY <1>6, <2>3, <2>7
    <3> QED
      BY <1>1, <1>6, <3>1, <3>2 DEF IInv, Detaching
  <2> QED
    BY <1>7, <1>8, <2>4, <2>5, <2>6, <2>8, <2>9 DEF IInv
<1> QED
  BY <1>10, <1>11

\* The first lines are written, or later ones.
LEMMA LogKeeps ==
  ASSUME IInv, NEW p \in Process, Configured(p) \/ Log(p)
  PROVE  IInv'
<1>1. CASE Configured(p)
  BY <1>1, LineKeeps DEF Configured, Goto, history
<1>2. CASE Log(p)
  BY <1>2, LineKeeps DEF Log, history
<1> QED
  BY <1>1, <1>2

\* The nice value is what was asked for, or as it was.
LEMMA NiceKeeps ==
  ASSUME IInv, NEW p \in Process, Nice(p)
  PROVE  IInv'
<1>1. /\ pc[p] = "nice" /\ pc' = [pc EXCEPT ![p] = AfterNice]
      /\ ProcessNice # -1 => Added(p) = ProcessNice
      /\ niceness' = [niceness EXCEPT ![p] = IF ProcessNice = -1 THEN @ ELSE Added(p)]
      /\ UNCHANGED <<ShouldStop, status, sid, dir, fds, failed, printed, openAtStart, Foreground>>
  BY DEF Nice, Goto, history
<1>2. p = "invoked" /\ "invoked" \in Process /\ "child" \in Process /\ "daemon" \in Process
  BY <1>1 DEF IInv, Places, Process
<1>3. AfterNice = IF Foreground THEN "server" ELSE "fork"
  BY DEF AfterNice
<1>4. \A r \in Process : pc'[r] = IF r = p THEN AfterNice ELSE pc[r]
  BY <1>1 DEF IInv, TypeOK
<1>5. niceness[p] \in -20..19 /\ niceness \in [Process -> -20..19]
  BY DEF IInv, TypeOK
<1>6. ProcessNice # -1 => Added(p) \in -20..19
  BY <1>5, StartupAssumption DEF Added
<1>7. /\ niceness' \in [Process -> -20..19]
      /\ \A r \in Process : niceness'[r] = IF r = p /\ ProcessNice # -1 THEN ProcessNice ELSE niceness[r]
  BY <1>1, <1>5, <1>6
<1>8. TypeOK'
  <2>1. pc' \in [Process -> {"none", "config", "nice", "fork", "setsid", "fork2", "chdir",
                             "open", "server", "serve", "exit"}]
    BY <1>1, <1>3 DEF IInv, TypeOK
  <2> QED
    BY <1>1, <1>7, <2>1 DEF IInv, TypeOK
<1>9. Places'
  BY <1>1, <1>2, <1>3, <1>4 DEF IInv, Places
<1>10. FdsLeft'
  BY <1>1, <1>3, <1>4 DEF IInv, FdsLeft
<1>11. SocketsClosed'
  <2>1. \A r \in Process \ Serving' : r \in Process \ Serving
    BY <1>1, <1>4 DEF Serving
  <2> QED
    BY <1>1, <2>1 DEF IInv, SocketsClosed
<1>12. StandardTaken'
  BY <1>1 DEF IInv, StandardTaken
<1>13. NiceSet'
  BY <1>4, <1>7 DEF IInv, NiceSet
<1>14. Detaching'
  BY <1>1, <1>2, <1>4 DEF IInv, Detaching
<1> QED
  BY <1>8, <1>9, <1>10, <1>11, <1>12, <1>13, <1>14 DEF IInv

\* The program listens.
LEMMA ServerKeeps ==
  ASSUME IInv, NEW p \in Process, CreateTCPServer(p)
  PROVE  IInv'
<1>1. /\ pc[p] = "server" /\ pc' = [pc EXCEPT ![p] = "serve"]
      /\ fds' = [fds EXCEPT ![p][Lowest(p)] = "socket"]
      /\ UNCHANGED <<ShouldStop, status, sid, dir, niceness, failed, printed, openAtStart, Foreground>>
  BY DEF CreateTCPServer, Goto, Opened, history
<1>2. "invoked" \in Process /\ "child" \in Process /\ "daemon" \in Process
  BY DEF Process
<1> DEFINE low == Lowest(p)
<1>3. low \in Fd /\ fds[p][low] = "closed"
  BY LowestClosed DEF IInv
<1>4. fds' = [fds EXCEPT ![p][low] = "socket"]
  BY <1>1
<1> HIDE DEF low
<1>5. \A r \in Process : pc'[r] = IF r = p THEN "serve" ELSE pc[r]
  BY <1>1 DEF IInv, TypeOK
<1>6. /\ fds' \in [Process -> [Fd -> {"closed", "user", "log", "null", "socket"}]]
      /\ \A r \in Process, f \in Fd : fds'[r][f] = IF r = p /\ f = low THEN "socket" ELSE fds[r][f]
  <2>1. fds \in [Process -> [Fd -> {"closed", "user", "log", "null", "socket"}]]
    BY DEF IInv, TypeOK
  <2> QED
    BY <1>3, <1>4, <2>1
<1>7. FdsLeft'
  <2>1. \A f \in Fd : fds[p][f] # "socket"
    BY <1>1 DEF IInv, SocketsClosed, Serving
  <2>2. ASSUME NEW r \in Process
        PROVE  /\ \A f \in Fd \ Standard : fds'[r][f] \in {"closed", "log", "socket"}
               /\ \A f, g \in Fd : fds'[r][f] = fds'[r][g] /\ fds'[r][f] \in {"log", "socket"} => f = g
    <3>1. CASE r = p
      BY <1>3, <1>5, <1>6, <2>1, <3>1 DEF IInv, FdsLeft
    <3>2. CASE r # p
      BY <1>5, <1>6, <3>2 DEF IInv, FdsLeft
    <3> QED
      BY <3>1, <3>2
  <2> QED
    BY <2>2 DEF FdsLeft
<1>8. TypeOK'
  <2>1. pc' \in [Process -> {"none", "config", "nice", "fork", "setsid", "fork2", "chdir",
                             "open", "server", "serve", "exit"}]
    BY <1>1 DEF IInv, TypeOK
  <2>2. \A r \in Process : \E f \in Fd : fds'[r][f] = "closed"
    BY <1>6, <1>7, ClosedLeft DEF FdsLeft
  <2> QED
    BY <1>1, <1>6, <2>1, <2>2 DEF IInv, TypeOK
<1>9. Places'
  BY <1>1, <1>2, <1>5 DEF IInv, Places
<1>10. SocketsClosed'
  <2>1. \A r \in Process \ Serving' : r \in Process \ Serving /\ r # p
    BY <1>1, <1>5 DEF Serving
  <2> QED
    BY <1>6, <2>1 DEF IInv, SocketsClosed
<1>11. StandardTaken'
  <2>1. openAtStart = Standard => low \notin Standard
    BY <1>3 DEF IInv, StandardTaken
  <2>2. \A f \in Standard : f \in Fd
    BY DEF Standard, Fd
  <2> QED
    BY <1>1, <1>6, <2>1, <2>2 DEF IInv, StandardTaken
<1>12. NiceSet'
  BY <1>1, <1>5 DEF IInv, NiceSet
<1>13. Detaching'
  <2>1. openAtStart = Standard => low \notin Standard
    BY <1>3 DEF IInv, StandardTaken
  <2>2. \A f \in Standard : f \in Fd
    BY DEF Standard, Fd
  <2>3. pc'["daemon"] = pc["daemon"] \/ (pc["daemon"] = "server" /\ pc'["daemon"] = "serve")
    BY <1>1, <1>2, <1>5
  <2>4. pc'["child"] = "fork2" => pc["child"] = "fork2"
    BY <1>2, <1>5
  <2> QED
    BY <1>1, <1>2, <1>6, <2>1, <2>2, <2>3, <2>4 DEF IInv, Detaching
<1> QED
  BY <1>7, <1>8, <1>9, <1>10, <1>11, <1>12, <1>13 DEF IInv

\* The program has served: it closes the socket and ends.
LEMMA ServedKeeps ==
  ASSUME IInv, NEW p \in Process, Served(p)
  PROVE  IInv'
<1>1. /\ pc[p] = "serve" /\ pc' = [pc EXCEPT ![p] = "exit"]
      /\ fds' = [fds EXCEPT ![p] = [f \in Fd |-> IF @[f] = "socket" THEN "closed" ELSE @[f]]]
      /\ UNCHANGED <<ShouldStop, status, sid, dir, niceness, failed, printed, openAtStart, Foreground>>
  BY DEF Served, Goto, history
<1>2. "invoked" \in Process /\ "child" \in Process /\ "daemon" \in Process
  BY DEF Process
<1>3. \A r \in Process : pc'[r] = IF r = p THEN "exit" ELSE pc[r]
  BY <1>1 DEF IInv, TypeOK
<1>4. /\ fds' \in [Process -> [Fd -> {"closed", "user", "log", "null", "socket"}]]
      /\ \A r \in Process, f \in Fd :
           fds'[r][f] = IF r = p /\ fds[r][f] = "socket" THEN "closed" ELSE fds[r][f]
  <2>1. fds \in [Process -> [Fd -> {"closed", "user", "log", "null", "socket"}]]
    BY DEF IInv, TypeOK
  <2> QED
    BY <1>1, <2>1
<1>5. TypeOK'
  <2>1. pc' \in [Process -> {"none", "config", "nice", "fork", "setsid", "fork2", "chdir",
                             "open", "server", "serve", "exit"}]
    BY <1>1 DEF IInv, TypeOK
  <2>2. \A r \in Process : \E f \in Fd : fds'[r][f] = "closed"
    BY <1>4 DEF IInv, TypeOK
  <2> QED
    BY <1>1, <1>4, <2>1, <2>2 DEF IInv, TypeOK
<1>6. Places'
  BY <1>1, <1>2, <1>3 DEF IInv, Places
<1>7. FdsLeft'
  BY <1>3, <1>4 DEF IInv, FdsLeft
<1>8. SocketsClosed'
  <2>1. \A r \in Process \ Serving' : r = p \/ r \in Process \ Serving
    BY <1>3 DEF Serving
  <2> QED
    BY <1>4, <2>1 DEF IInv, SocketsClosed
<1>9. StandardTaken'
  <2>1. \A f \in Standard : f \in Fd
    BY DEF Standard, Fd
  <2> QED
    BY <1>1, <1>3, <1>4, <2>1 DEF IInv, StandardTaken
<1>10. NiceSet'
  BY <1>1, <1>3 DEF IInv, NiceSet
<1>11. Detaching'
  <2>1. \A f \in Standard : f \in Fd
    BY DEF Standard, Fd
  <2> QED
    BY <1>1, <1>2, <1>3, <1>4, <2>1 DEF IInv, Detaching
<1> QED
  BY <1>5, <1>6, <1>7, <1>8, <1>9, <1>10, <1>11 DEF IInv

\* The child leads a session of its own.
LEMMA SetsidKeeps == IInv /\ setsid => IInv'
<1> SUFFICES ASSUME IInv, setsid PROVE IInv'
  OBVIOUS
<1>1. /\ pc["child"] = "setsid" /\ pc' = [pc EXCEPT !["child"] = "fork2"]
      /\ sid' = [sid EXCEPT !["child"] = "child"]
      /\ UNCHANGED <<ShouldStop, status, dir, fds, niceness, failed, printed, openAtStart, Foreground>>
  BY DEF setsid, Goto, history
<1>2. "invoked" \in Process /\ "child" \in Process /\ "daemon" \in Process
  BY DEF Process
<1>3. \A r \in Process : /\ pc'[r] = IF r = "child" THEN "fork2" ELSE pc[r]
                         /\ sid'[r] = IF r = "child" THEN "child" ELSE sid[r]
  BY <1>1 DEF IInv, TypeOK
<1>4. TypeOK'
  BY <1>1 DEF IInv, TypeOK
<1>5. Places' /\ FdsLeft'
  BY <1>1, <1>2, <1>3 DEF IInv, Places, FdsLeft
<1>6. SocketsClosed' /\ StandardTaken' /\ NiceSet'
  BY <1>1, <1>3 DEF IInv, SocketsClosed, Serving, StandardTaken, NiceSet
<1>7. Detaching'
  BY <1>1, <1>2, <1>3 DEF IInv, Detaching
<1> QED
  BY <1>4, <1>5, <1>6, <1>7 DEF IInv

\* The daemon leaves the directory it was started in.
LEMMA ChdirKeeps == IInv /\ Chdir => IInv'
<1> SUFFICES ASSUME IInv, Chdir PROVE IInv'
  OBVIOUS
<1>1. /\ pc["daemon"] = "chdir" /\ pc' = [pc EXCEPT !["daemon"] = "open"]
      /\ dir' = [dir EXCEPT !["daemon"] = "/"]
      /\ UNCHANGED <<ShouldStop, status, sid, fds, niceness, failed, printed, openAtStart, Foreground>>
  BY DEF Chdir, Goto, history
<1>2. "invoked" \in Process /\ "child" \in Process /\ "daemon" \in Process
  BY DEF Process
<1>3. \A r \in Process : /\ pc'[r] = IF r = "daemon" THEN "open" ELSE pc[r]
                         /\ dir'[r] = IF r = "daemon" THEN "/" ELSE dir[r]
  BY <1>1 DEF IInv, TypeOK
<1>4. TypeOK'
  BY <1>1 DEF IInv, TypeOK
<1>5. Places' /\ FdsLeft'
  BY <1>1, <1>2, <1>3 DEF IInv, Places, FdsLeft
<1>6. SocketsClosed' /\ StandardTaken' /\ NiceSet'
  BY <1>1, <1>3 DEF IInv, SocketsClosed, Serving, StandardTaken, NiceSet
<1>7. Detaching'
  BY <1>1, <1>2, <1>3 DEF IInv, Detaching
<1> QED
  BY <1>4, <1>5, <1>6, <1>7 DEF IInv

\* Its standard descriptors become /dev/null.
LEMMA DevNullKeeps == IInv /\ DevNull => IInv'
<1> SUFFICES ASSUME IInv, DevNull PROVE IInv'
  OBVIOUS
<1> DEFINE low == Lowest("daemon")
<1>1. /\ pc["daemon"] = "open" /\ pc' = [pc EXCEPT !["daemon"] = "server"]
      /\ fds' = [fds EXCEPT !["daemon"] = [f \in Fd |-> IF f = low THEN "closed"
                                             ELSE IF f \in Standard THEN "null" ELSE @[f]]]
      /\ UNCHANGED <<ShouldStop, status, sid, dir, niceness, failed, printed, openAtStart, Foreground>>
  BY DEF DevNull, Goto, history
<1>2. "invoked" \in Process /\ "child" \in Process /\ "daemon" \in Process
  BY DEF Process
<1>3. low \in Fd /\ fds["daemon"][low] = "closed"
  BY <1>2, LowestClosed DEF IInv
<1> HIDE DEF low
<1>4. \A r \in Process : pc'[r] = IF r = "daemon" THEN "server" ELSE pc[r]
  BY <1>1 DEF IInv, TypeOK
<1>5. /\ fds' \in [Process -> [Fd -> {"closed", "user", "log", "null", "socket"}]]
      /\ \A r \in Process, f \in Fd :
           fds'[r][f] = IF r # "daemon" THEN fds[r][f]
                        ELSE IF f = low THEN "closed" ELSE IF f \in Standard THEN "null" ELSE fds[r][f]
  <2>1. fds \in [Process -> [Fd -> {"closed", "user", "log", "null", "socket"}]]
    BY DEF IInv, TypeOK
  <2> QED
    BY <1>1, <2>1
<1>6. FdsLeft'
  <2> SUFFICES ASSUME NEW r \in Process
               PROVE  /\ \A f \in Fd \ Standard : fds'[r][f] \in {"closed", "log", "socket"}
                      /\ \A f, g \in Fd : fds'[r][f] = fds'[r][g] /\ fds'[r][f] \in {"log", "socket"} => f = g
    BY DEF FdsLeft
  <2>1. CASE r = "daemon"
    BY <1>2, <1>3, <1>4, <1>5, <2>1 DEF IInv, FdsLeft
  <2>2. CASE r # "daemon"
    BY <1>4, <1>5, <2>2 DEF IInv, FdsLeft
  <2> QED
    BY <2>1, <2>2
<1>7. TypeOK'
  <2>1. pc' \in [Process -> {"none", "config", "nice", "fork", "setsid", "fork2", "chdir",
                             "open", "server", "serve", "exit"}]
    BY <1>1 DEF IInv, TypeOK
  <2>2. \A r \in Process : \E f \in Fd : fds'[r][f] = "closed"
    BY <1>5, <1>6, ClosedLeft DEF FdsLeft
  <2> QED
    BY <1>1, <1>5, <2>1, <2>2 DEF IInv, TypeOK
<1>8. Places'
  BY <1>1, <1>2, <1>4 DEF IInv, Places
<1>9. SocketsClosed'
  <2>1. \A r \in Process \ Serving' : r \in Process \ Serving
    BY <1>1, <1>4 DEF Serving
  <2> QED
    BY <1>5, <2>1 DEF IInv, SocketsClosed
<1>10. /\ \A f \in Standard : f \in Fd
       /\ openAtStart = Standard => low \notin Standard
  BY <1>2, <1>3 DEF IInv, StandardTaken, Standard, Fd
<1>11. StandardTaken'
  BY <1>1, <1>5, <1>10 DEF IInv, StandardTaken
<1>13. NiceSet'
  BY <1>1, <1>4 DEF IInv, NiceSet
<1>14. Detaching'
  <2>1. \A f \in Fd : fds'["daemon"][f] # "user"
    BY <1>2, <1>5 DEF IInv, FdsLeft
  <2>2. openAtStart = Standard => \A f \in Standard : fds'["daemon"][f] = "null"
    BY <1>2, <1>5, <1>10
  <2>3. pc'["child"] = pc["child"]
    BY <1>2, <1>4
  <2> QED
    BY <1>1, <2>1, <2>2, <2>3 DEF IInv, Detaching
<1> QED
  BY <1>6, <1>7, <1>8, <1>9, <1>11, <1>13, <1>14 DEF IInv

\* Every step keeps the invariant.
LEMMA NextKeeps == IInv /\ [Next]_vars => IInv'
<1> SUFFICES ASSUME IInv, [Next]_vars PROVE IInv'
  OBVIOUS
<1>1. CASE Fork1 \/ Fork2
  BY <1>1, ForkKeeps DEF Fork1, Fork2, Process
<1>2. CASE setsid \/ Chdir \/ DevNull
  BY <1>2, SetsidKeeps, ChdirKeeps, DevNullKeeps
<1>3. ASSUME NEW p \in Process, Configured(p) \/ Log(p) \/ Nice(p) \/ CreateTCPServer(p) \/ Served(p)
      PROVE  IInv'
  BY <1>3, LogKeeps, NiceKeeps, ServerKeeps, ServedKeeps
<1>4. ASSUME NEW p \in Process, Usage(p) \/ NiceFails(p) \/ ServerFails(p)
      PROVE  IInv'
  <2>1. PICK from \in {"config", "nice", "server"} :
          /\ pc[p] = from /\ pc' = [pc EXCEPT ![p] = "exit"]
          /\ failed' \in {failed, [failed EXCEPT ![p] = @ \cup {from}]}
    BY <1>4 DEF Usage, NiceFails, ServerFails, Fail, Goto, history
  <2>2. /\ status' \in {status, [status EXCEPT ![p] = 1], [status EXCEPT ![p] = 2]}
        /\ UNCHANGED <<sid, dir, fds, niceness, ShouldStop, printed, openAtStart, Foreground>>
    BY <1>4 DEF Usage, NiceFails, ServerFails, Fail, process, history
  <2>3. pc' \in [Process -> {"none", "config", "nice", "fork", "setsid", "fork2", "chdir",
                             "open", "server", "serve", "exit"}]
    BY <2>1 DEF IInv, TypeOK
  <2>4. failed' \in [Process -> SUBSET {"config", "nice", "fork", "setsid", "fork2", "chdir",
                                        "open", "server"}]
    BY <2>1 DEF IInv, TypeOK
  <2>5. status' \in [Process -> 0..2]
    <3>1. status \in [Process -> 0..2] /\ 1 \in 0..2 /\ 2 \in 0..2
      BY DEF IInv, TypeOK
    <3>2. CASE status' = status
      BY <3>1, <3>2
    <3>3. CASE status' = [status EXCEPT ![p] = 1]
      BY <3>1, <3>3
    <3>4. CASE status' = [status EXCEPT ![p] = 2]
      BY <3>1, <3>4
    <3> QED
      BY <2>2, <3>2, <3>3, <3>4
  <2>6. TypeOK'
    BY <2>2, <2>3, <2>4, <2>5 DEF IInv, TypeOK
  <2> QED
    BY <2>1, <2>2, <2>6, ExitKeeps
<1>5. ASSUME NEW p \in Process, DaemonizeFails(p)
      PROVE  IInv'
  <2>1. PICK step \in DaemonizeSteps :
          /\ pc[p] = step /\ pc' = [pc EXCEPT ![p] = "exit"]
          /\ failed' = [failed EXCEPT ![p] = @ \cup {step}]
          /\ printed' = IF FailedBack < 0 THEN printed \cup {p} ELSE printed
          /\ UNCHANGED <<process, openAtStart, Foreground>>
    BY <1>5 DEF DaemonizeFails, Goto
  <2>2. UNCHANGED <<sid, dir, fds, niceness, ShouldStop, status, openAtStart, Foreground>>
    BY <2>1 DEF process
  <2>3. pc' \in [Process -> {"none", "config", "nice", "fork", "setsid", "fork2", "chdir",
                             "open", "server", "serve", "exit"}]
    BY <2>1 DEF IInv, TypeOK
  <2>4. failed' \in [Process -> SUBSET {"config", "nice", "fork", "setsid", "fork2", "chdir",
                                        "open", "server"}]
    BY <2>1 DEF IInv, TypeOK, DaemonizeSteps
  <2>5. printed' \subseteq Process
    BY <2>1 DEF IInv, TypeOK
  <2>6. TypeOK'
    BY <2>2, <2>3, <2>4, <2>5 DEF IInv, TypeOK
  <2> QED
    BY <2>1, <2>2, <2>6, ExitKeeps DEF DaemonizeSteps
<1>6. CASE UNCHANGED <<pc, status, sid, dir, fds, niceness, history>> /\ ShouldStop' \in [Process -> BOOLEAN]
  BY <1>6 DEF IInv, TypeOK, Places, FdsLeft, SocketsClosed, Serving, StandardTaken,
     NiceSet, Detaching, history
<1>7. ASSUME NEW p \in Process, Stop(p) PROVE IInv'
  <2>1. ShouldStop' \in [Process -> BOOLEAN]
    BY <1>7 DEF Stop, IInv, TypeOK
  <2> QED
    BY <1>6, <1>7, <2>1 DEF Stop
<1>8. CASE UNCHANGED vars
  BY <1>6, <1>8 DEF vars, process, IInv, TypeOK
<1> QED
  BY <1>1, <1>2, <1>3, <1>4, <1>5, <1>7, <1>8 DEF Next, Daemonize, Main, Finished

\* The invariant holds in every behaviour.
THEOREM Invariance == Spec => []IInv
BY InitIInv, NextKeeps, PTL DEF Spec

\* The state has its types, and open() and socket() always find a descriptor,
\* whichever of the standard ones the program was started without.
THEOREM TypeCorrect == Spec => []TypeOK
<1>1. IInv => TypeOK
  BY DEF IInv
<1> QED
  BY <1>1, Invariance, PTL

\* Whatever fails and whenever a signal comes, at most one process of the two
\* forks comes to serve, and no socket is left open behind it (main.c).
THEOREM SingleMasterCorrect == Spec => []SingleMaster
<1>1. IInv => SingleMaster
  <2> SUFFICES ASSUME IInv PROVE SingleMaster
    OBVIOUS
  <2>1. Serving \subseteq (IF Foreground THEN {"invoked"} ELSE {"daemon"})
    BY DEF IInv, Places, Serving, Process
  <2> QED
    BY <2>1 DEF IInv, SocketsClosed, SingleMaster
<1> QED
  BY <1>1, Invariance, PTL

\* What serves has the nice value asked for, and a daemon is detached from its
\* user and has neither socket nor log among its standard descriptors (daemonize()).
THEOREM ServesCorrect == Spec => []ServesAsAsked
<1>1. IInv => ServesAsAsked
  <2> SUFFICES ASSUME IInv PROVE ServesAsAsked
    OBVIOUS
  <2>1. \A p \in Serving : ProcessNice # -1 => niceness[p] = ProcessNice
    BY DEF IInv, NiceSet, Serving
  <2> SUFFICES ASSUME "daemon" \in Serving
               PROVE  Detached /\ (openAtStart = Standard => StandardKept)
    BY <2>1 DEF ServesAsAsked
  <2>2. "daemon" \in Process /\ pc["daemon"] = "serve" /\ ~Foreground
    BY DEF IInv, Places, Serving
  <2>3. Detached
    BY <2>2 DEF IInv, Detaching, Detached
  <2>4. openAtStart = Standard => StandardKept
    BY <2>2 DEF IInv, Detaching, StandardKept
  <2> QED
    BY <2>3, <2>4
<1> QED
  BY <1>1, Invariance, PTL
=============================================================================
