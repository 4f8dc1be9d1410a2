------------------------------- MODULE Relay -------------------------------
(***************************************************************************)
(* The data that a client process relays between two channels (proxy.c),   *)
(* either the session channel and its HaaS channel or the two ends of a    *)
(* forwarded pair.  A data callback writes what its channel has received   *)
(* to the other end without blocking and returns how much it wrote; libssh *)
(* keeps the rest and offers it again, with what comes next, when there is *)
(* more data in that stream.  While a write finds the window of the other  *)
(* end used up libssh handles packets, so that the callback of the other   *)
(* direction may run inside this one.                                      *)
(***************************************************************************)
EXTENDS Integers, Sequences

CONSTANTS Modes,     \* ways of relaying to consider
          MaxSent,   \* what each peer may send, both streams together
          MaxWindow  \* the largest window of a channel

\* "CHANNEL" is the channel of the session; the others are the forward modes in
\* which a pair carries data.
ASSUME RelayAssumption ==
  /\ Modes \subseteq {"CHANNEL", "ALLOW", "NULL", "ECHO"}
  /\ MaxSent \in Nat
  /\ MaxWindow \in Nat \ {0}

Side == {"trap", "haas"}
Stream == {"stdout", "stderr"}

VARIABLES
  Mode,
  received,   \* all that arrived on the channel of each side, by stream
  buffer,     \* what libssh still keeps of it
  written,    \* all that was written to the channel of each side
  window,     \* what its peer still allows to be written
  blocking,   \* the session of each side is in blocking mode
  eof,        \* the sides whose peer has sent EOF
  sentEof,    \* the sides to whose peer EOF was sent
  gone,       \* the sides whose peer has closed the channel
  broken,     \* the sides whose connection is lost
  callbacks,  \* data callbacks that are running, the innermost last
  closed      \* both channels are closed and freed

data == <<received, buffer, written, window>>
ends == <<eof, sentEof, gone, broken>>
vars == <<Mode, data, blocking, ends, callbacks, closed>>

Empty == [s \in Side |-> [k \in Stream |-> <<>>]]

Init ==
  /\ Mode \in Modes
  /\ received = Empty /\ buffer = Empty /\ written = Empty
  /\ window \in [Side -> 1..MaxWindow]
  /\ blocking = [s \in Side |-> TRUE]
  /\ eof = {} /\ sentEof = {} /\ gone = {} /\ broken = {}
  /\ callbacks = <<>>
  /\ closed = FALSE

Relaying == Mode \in {"CHANNEL", "ALLOW"}
Other(s) == IF s = "trap" THEN "haas" ELSE "trap"

\* Where the data of a side is written to: in mode ECHO, back.
Target(s) == IF Mode = "ECHO" THEN s ELSE Other(s)

Drop(q, n) == SubSeq(q, n + 1, Len(q))
Sent(s) == Len(received[s]["stdout"]) + Len(received[s]["stderr"])

-----------------------------------------------------------------------------
(***************************************************************************)
(* Packets.                                                                *)
(***************************************************************************)

Running == callbacks # <<>>
Top == callbacks[Len(callbacks)]
Offered(f) == buffer[f.side][f.stream]
Stuck(f) == window[Target(f.side)] = 0

\* libssh handles packets of side s: while the program polls or waits, and while
\* a write waits for a window, except for the session whose callback that is.
Handles(s) ==
  /\ ~closed /\ s \notin broken
  /\ Relaying \/ s = "trap"
  /\ \A i \in DOMAIN callbacks : callbacks[i].side # s
  /\ Running => Stuck(Top)

\* What stays in the channel is offered together with the n new units.
Packet(s, k, n) ==
  LET New == [i \in 1..n |-> Sent(s) + i]
  IN  /\ s \notin eof \cup gone
      /\ Sent(s) + n <= MaxSent
      /\ received' = [received EXCEPT ![s][k] = @ \o New]
      /\ buffer' = [buffer EXCEPT ![s][k] = @ \o New]

\* The window of a channel grows when its peer has read something.
Adjust(s) ==
  /\ Handles(s)
  /\ s \notin gone
  /\ \E w \in window[s]+1..MaxWindow : window' = [window EXCEPT ![s] = w]
  /\ UNCHANGED <<Mode, received, buffer, written, blocking, ends, callbacks, closed>>

-----------------------------------------------------------------------------
(***************************************************************************)
(* The data callbacks.                                                     *)
(***************************************************************************)

MutDataBlocks(s, k, n) ==
  /\ Handles(s)
  /\ Mode # "NULL"
  /\ Packet(s, k, n)
  /\ callbacks' = Append(callbacks, [side |-> s, stream |-> k, n |-> 0,
                                     Blocking |-> blocking[Target(s)]])
  /\ UNCHANGED <<Mode, written, window, blocking, ends, closed>>

\* TrapChannelDataCallback(), HaasChannelDataCallback(), and in the modes ALLOW
\* and ECHO ForwardChannelDataCallback(), up to ssh_channel_write().
Data(s, k, n) ==
  /\ Handles(s)
  /\ Mode # "NULL"
  /\ Packet(s, k, n)
  /\ callbacks' = Append(callbacks, [side |-> s, stream |-> k, n |-> 0,
                                     Blocking |-> blocking[Target(s)]])
  /\ blocking' = [blocking EXCEPT ![Target(s)] = FALSE]
  /\ UNCHANGED <<Mode, written, window, ends, closed>>

\* In mode NULL the callback takes it all.
DataNull(s, k, n) ==
  /\ Handles(s)
  /\ Mode = "NULL"
  /\ s \notin eof \cup gone
  /\ Sent(s) + n <= MaxSent
  /\ received' = [received EXCEPT ![s][k] = @ \o [i \in 1..n |-> Sent(s) + i]]
  /\ UNCHANGED <<Mode, buffer, written, window, blocking, ends, callbacks, closed>>

Writable(s) == s \notin sentEof \cup gone \cup broken

\* ssh_channel_write() sends as much as the window allows.
Write ==
  /\ Running
  /\ LET t == Target(Top.side)
         rest == Drop(Offered(Top), Top.n)
         m == IF Len(rest) < window[t] THEN Len(rest) ELSE window[t]
     IN  /\ Writable(t) /\ m > 0
         /\ written' = [written EXCEPT ![t][Top.stream] = @ \o SubSeq(rest, 1, m)]
         /\ window' = [window EXCEPT ![t] = @ - m]
         /\ callbacks' = [callbacks EXCEPT ![Len(callbacks)].n = @ + m]
  /\ UNCHANGED <<Mode, received, buffer, blocking, ends, closed>>

\* The end of a data callback that returns Back.
Return(Back) ==
  /\ buffer' = [buffer EXCEPT ![Top.side][Top.stream] = Drop(@, Back)]
  /\ blocking' = [blocking EXCEPT ![Target(Top.side)] = Top.Blocking]
  /\ callbacks' = SubSeq(callbacks, 1, Len(callbacks) - 1)
  /\ UNCHANGED <<Mode, received, written, window, ends, closed>>

MutTakeNothing ==
  /\ Running
  /\ Top.n = Len(Offered(Top)) \/ Stuck(Top)
  /\ Return(0)

MutTakeAll ==
  /\ Running
  /\ Top.n = Len(Offered(Top)) \/ Stuck(Top)
  /\ Return(Len(Offered(Top)))

\* All is written, or the window is used up: the callback takes what it wrote.
DataWritten ==
  /\ Running
  /\ Top.n = Len(Offered(Top)) \/ Stuck(Top)
  /\ Return(Top.n)

\* The write returns SSH_ERROR, and so does the callback: it takes nothing.
DataFails ==
  /\ Running
  /\ ~Writable(Target(Top.side))
  /\ Return(0)

-----------------------------------------------------------------------------
(***************************************************************************)
(* The other callbacks, and the end.                                       *)
(***************************************************************************)

\* TrapChannelEofCallback(), HaasChannelEofCallback(), ForwardChannelEofCallback():
\* EOF goes to the other end at once, whatever is still kept for it.
Eof(s) ==
  /\ Handles(s)
  /\ s \notin eof \cup gone
  /\ eof' = eof \cup {s}
  /\ sentEof' = sentEof \cup (IF Relaying /\ Writable(Other(s)) THEN {Other(s)} ELSE {})
  /\ UNCHANGED <<Mode, data, blocking, gone, broken, callbacks, closed>>

\* TrapChannelCloseCallback() and its likes only set the Closed flag.
Close(s) ==
  /\ Handles(s)
  /\ s \notin gone
  /\ gone' = gone \cup {s}
  /\ UNCHANGED <<Mode, data, blocking, eof, sentEof, broken, callbacks, closed>>

Break(s) ==
  /\ ~closed /\ s \notin broken
  /\ broken' = broken \cup {s}
  /\ UNCHANGED <<Mode, data, blocking, eof, sentEof, gone, callbacks, closed>>

\* ssh_channel_poll() looks at the first stream only.
AtEof(s) == s \in eof \cup gone /\ buffer[s]["stdout"] = <<>>

\* SessionClose() and FwPairRelease(): EOF and CLOSE to both ends.
Shut ==
  /\ ~Running /\ ~closed
  /\ closed' = TRUE
  /\ sentEof' = Side
  /\ UNCHANGED <<Mode, data, blocking, eof, gone, broken, callbacks>>

\* The main loop ends the session when one of its channels was closed, and
\* HandleForwards() a pair when one of its ends was or is at its end of file.
Release ==
  /\ \E s \in Side :
       \/ s \in gone \cup broken
       \/ Mode # "CHANNEL" /\ AtEof(s)
  /\ Shut

\* A timer or a stop signal ends the session (module Session).
Stop == Shut

Finished == closed /\ UNCHANGED vars

-----------------------------------------------------------------------------

Callback ==
  \/ \E s \in Side, k \in Stream, n \in 1..MaxSent : Data(s, k, n) \/ DataNull(s, k, n)
  \/ \E s \in Side : Eof(s) \/ Close(s)

Program == Write \/ DataWritten \/ DataFails

Next ==
  \/ Callback
  \/ Program
  \/ Release
  \/ Stop
  \/ \E s \in Side : Adjust(s) \/ Break(s)
  \/ Finished

Spec == Init /\ [][Next]_vars

\* A running callback gets on, and both peers go on reading.
FairSpec ==
  /\ Spec
  /\ WF_vars(Program)
  /\ \A s \in Side : WF_vars(Adjust(s))

-----------------------------------------------------------------------------
(***************************************************************************)
(* Properties.                                                             *)
(***************************************************************************)

Units == Seq(1..MaxSent)
Calls == [side : Side, stream : Stream, n : 0..MaxSent, Blocking : BOOLEAN]

\* The state has its types; at most one data callback runs inside another, and
\* never two of the same side.
TypeOK ==
  /\ Mode \in Modes
  /\ {received, buffer, written} \subseteq [Side -> [Stream -> Units]]
  /\ window \in [Side -> 0..MaxWindow]
  /\ blocking \in [Side -> BOOLEAN]
  /\ eof \subseteq Side /\ sentEof \subseteq Side /\ gone \subseteq Side /\ broken \subseteq Side
  /\ callbacks \in Seq(Calls)
  /\ \A i, j \in DOMAIN callbacks : callbacks[i].side = callbacks[j].side => i = j
  /\ closed \in BOOLEAN

\* What one of the callbacks C has written of a stream and not yet returned.
Hand(C, s, k) ==
  LET I == {i \in DOMAIN C : C[i].side = s /\ C[i].stream = k}
  IN  IF I = {} THEN 0 ELSE C[CHOOSE i \in I : TRUE].n

InHand(s, k) == Hand(callbacks, s, k)

\* At every moment the bytes a stream has brought are, in order, those written to
\* the other end and those libssh still keeps: a partial write loses and repeats
\* nothing, even with a callback inside a callback, unless an end has failed.
PassedInOrder ==
  Mode # "NULL" /\ gone = {} /\ broken = {} =>
    \A s \in Side, k \in Stream :
      received[s][k] = written[Target(s)][k] \o Drop(buffer[s][k], InHand(s, k))

\* A data callback never writes in blocking mode, however callbacks nest, and
\* when none runs both sessions are back in the mode that the rest of the
\* program counts on.
BlockingRestored ==
  /\ \A i \in DOMAIN callbacks : ~blocking[Target(callbacks[i].side)]
  /\ ~Running => \A s \in Side : blocking[s]

TrapOut == INSTANCE Pipe WITH
  sent <- received["trap"]["stdout"],
  got <- written[Target("trap")]["stdout"],
  ended <- Target("trap") \in sentEof

TrapErr == INSTANCE Pipe WITH
  sent <- received["trap"]["stderr"],
  got <- written[Target("trap")]["stderr"],
  ended <- Target("trap") \in sentEof

HaasOut == INSTANCE Pipe WITH
  sent <- received["haas"]["stdout"],
  got <- written[Target("haas")]["stdout"],
  ended <- Target("haas") \in sentEof

HaasErr == INSTANCE Pipe WITH
  sent <- received["haas"]["stderr"],
  got <- written[Target("haas")]["stderr"],
  ended <- Target("haas") \in sentEof

\* Each stream of each direction is a pipe: whatever fails and whenever it ends,
\* what comes out is the beginning of what went in, and nothing follows an EOF.
ImplementsPipe == TrapOut!Spec /\ TrapErr!Spec /\ HaasOut!Spec /\ HaasErr!Spec

\* "flush all pending packets ....": what is kept is passed on in the end, as the
\* other end goes on reading, unless the channels are closed.
PendingFlushed ==
  \A s \in Side, k \in Stream :
    buffer[s][k] # <<>> ~> buffer[s][k] = <<>> \/ closed \/ gone # {} \/ broken # {}

\* "send to the other end ...": a pair that is released while both connections
\* and both ends are well has sent all its data.
AllSent ==
  [][Release /\ gone = {} /\ broken = {} =>
       \A s \in Side, k \in Stream : buffer[s][k] = <<>>]_vars
=============================================================================
