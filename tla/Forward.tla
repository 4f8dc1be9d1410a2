------------------------------ MODULE Forward ------------------------------
(***************************************************************************)
(* Port forwarding in a client process (proxy.c, fw_pair.c, fw_pool.c): a  *)
(* direct-tcpip request opens a pair of channels, callbacks relay between  *)
(* them, and HandleForwards(), once per turn of the relay loop, releases   *)
(* the pairs of which an end is at its end of file.                        *)
(*                                                                         *)
(* libssh runs the callbacks inside the calls it is given: wherever the    *)
(* program polls, waits, flushes or closes a channel, in FwPoolDone() and  *)
(* SessionClose() as well, and, for the HaaS side only, while              *)
(* ssh_channel_open_forward() waits for its answer.                        *)
(***************************************************************************)
EXTENDS Integers

CONSTANTS Pair,        \* addresses FwPairAlloc() can return
          Channel,     \* addresses of libssh channels
          NoPair,      \* the NULL pair
          NoChannel,   \* the NULL channel
          Modes,       \* values of Config.ForwardMode to consider
          ChunkSize,   \* POOL_ALLOC_SIZE
          MemoryFails  \* malloc() and realloc() may fail

ASSUME ForwardAssumption ==
  /\ NoPair \notin Pair
  /\ NoChannel \notin Channel
  /\ Modes \subseteq {"DENY", "ALLOW", "FAKE", "NULL", "ECHO"}
  /\ ChunkSize \in Nat \ {0}
  /\ MemoryFails \in BOOLEAN

VARIABLES
  Used, Alloc, Items, Closed,  \* the pool, and the Closed flag of the pairs
  ForwardMode,  \* Config.ForwardMode
  ForwardPool,  \* Context.ForwardPool: NULL, the pool, or where it was
  pc,           \* where the main program is
  phase,        \* the authentication loop, the relay loop, or after both
  index,        \* the loop index of HandleForwards()
  Count,        \* the pairs HandleForwards() found when it was called
  victim,       \* the pair FwPairRelease() is at work on
  allocated,    \* pairs that are allocated
  context,      \* pairs whose Context is set
  Source,       \* Source.Channel of each pair
  Destiny,      \* Destiny.Channel of each pair
  opening,      \* the channel ssh_channel_open_forward() waits for
  confirmed,    \* and whether the answer has come
  live,         \* channels that are allocated
  frees,        \* calls of ssh_channel_free() since each was allocated
  callbacks,    \* the pair whose callbacks each channel has
  eof,          \* channels on which EOF was received
  gone,         \* channels the other end has closed
  pending,      \* channels with data that no callback has taken
  sentEof       \* channels on which EOF was sent

pool == <<Used, Alloc, Items, Closed>>
loop == <<ForwardMode, ForwardPool, pc, phase, index, Count, victim>>
pairs == <<allocated, context, Source, Destiny>>
request == <<opening, confirmed>>
remote == <<eof, gone, pending, sentEof>>
channels == <<live, frees, callbacks, remote>>
vars == <<pool, loop, pairs, request, channels>>

Pool == INSTANCE FwPool WITH Done <- phase = "over"

Pooling == {"ALLOW", "NULL", "ECHO"}

\* FwPoolInit() is called in these modes only, and may find no memory.
Init ==
  /\ pc = "Wait"
  /\ phase = "auth"
  /\ Pool!Init
  /\ ForwardMode \in Modes
  /\ ForwardPool \in {"null", "pool"}
  /\ ForwardMode \notin Pooling => ForwardPool = "null"
  /\ ForwardMode \in Pooling /\ ~MemoryFails => ForwardPool = "pool"
  /\ index = 0
  /\ Count = 0
  /\ victim = NoPair
  /\ allocated = {}
  /\ context = {}
  /\ Source = [p \in Pair |-> NoChannel]
  /\ Destiny = [p \in Pair |-> NoChannel]
  /\ opening = NoChannel
  /\ confirmed = FALSE
  /\ live = {}
  /\ frees = [c \in Channel |-> 0]
  /\ callbacks = [c \in Channel |-> NoPair]
  /\ eof = {} /\ gone = {} /\ pending = {} /\ sentEof = {}

-----------------------------------------------------------------------------
(***************************************************************************)
(* Channels.                                                               *)
(***************************************************************************)

\* libssh may be running callbacks.
Dispatching == pc \in {"Wait", "PollSource", "PollDestiny", "FreeSource",
                       "FreeDestiny", "Closing"}

\* The channel is freed n times: it and what libssh knew of it is gone.
Free(S, n) ==
  /\ live' = live \ S
  /\ frees' = [c \in Channel |-> frees[c] + IF c \in S THEN n ELSE 0]
  /\ callbacks' = [c \in Channel |-> IF c \in S THEN NoPair ELSE callbacks[c]]
  /\ eof' = eof \ S
  /\ gone' = gone \ S
  /\ pending' = pending \ S
  /\ sentEof' = sentEof \ S

\* ssh_channel_poll() returns SSH_EOF: nothing is left to be read.
AtEof(c) == c \in (eof \cup gone) \ pending

-----------------------------------------------------------------------------
(***************************************************************************)
(* TrapMessageCallback(): a request for a direct-tcpip channel.  In mode   *)
(* DENY it is left to libssh to refuse, and nothing changes.               *)
(***************************************************************************)

MayRequest == Dispatching /\ opening = NoChannel

\* One that comes in SessionClose() finds Context as it was, with the pool and
\* the HaaS session freed.
LateRequest ==
  /\ pc = "Closing"
  /\ ForwardPool = "freed" \/ ForwardMode = "ALLOW"
  /\ pc' = "Crashed"
  /\ UNCHANGED <<pool, ForwardMode, ForwardPool, phase, index, Count, victim,
                 pairs, request, channels>>

\* A request waits in ssh_channel_open_forward().
Opening == Dispatching /\ opening # NoChannel

\* ALLOW: ssh_channel_new() and the call of ssh_channel_open_forward().
OpenForward(dst) ==
  /\ MayRequest /\ pc # "Closing"
  /\ ForwardMode = "ALLOW"
  /\ dst \notin live
  /\ opening' = dst
  /\ confirmed' = FALSE
  /\ live' = live \cup {dst}
  /\ frees' = [frees EXCEPT ![dst] = 0]
  /\ UNCHANGED <<pool, loop, pairs, callbacks, remote>>

Confirm ==
  /\ Opening /\ ~confirmed
  /\ confirmed' = TRUE
  /\ UNCHANGED <<pool, loop, pairs, opening, channels>>

\* What came together with the confirmation is handled before the call
\* returns, when the channel has no callbacks yet.
Early ==
  /\ Opening /\ confirmed
  /\ opening \notin eof \cup gone
  /\ \/ pending' = pending \cup {opening} /\ UNCHANGED <<eof, gone>>
     \/ eof' = eof \cup {opening} /\ UNCHANGED <<pending, gone>>
     \/ gone' = gone \cup {opening} /\ UNCHANGED <<pending, eof>>
  /\ UNCHANGED <<pool, loop, pairs, request, live, frees, callbacks, sentEof>>

\* The call fails: DstChannel is freed but not reset, so that the clean-up at
\* the end of the callback closes and frees it once more.
ForwardRefused ==
  /\ Opening /\ ~confirmed
  /\ opening' = NoChannel
  /\ Free({opening}, 2)
  /\ UNCHANGED <<pool, loop, pairs, confirmed>>

\* The request can be accepted: at once, or when the forward is open.
Accepting ==
  \/ MayRequest /\ ForwardMode \in {"FAKE", "NULL", "ECHO"}
  \/ Opening /\ confirmed

Opened == {opening} \ {NoChannel}

MutReplyFailsTwice ==
  /\ Accepting
  /\ opening' = NoChannel
  /\ Free(Opened, 2)
  /\ UNCHANGED <<pool, loop, pairs, confirmed>>

\* ssh_message_channel_request_open_reply_accept() returns NULL.
ReplyFails ==
  /\ Accepting
  /\ opening' = NoChannel
  /\ Free(Opened, 1)
  /\ UNCHANGED <<pool, loop, pairs, confirmed>>

\* The accepted channel is closed at once: mode FAKE, or no pool, for which
\* FwPoolAdd() returns -1 and the pair is released again.
AcceptAndClose(src) ==
  /\ Accepting
  /\ src \notin live
  /\ ForwardMode = "FAKE" \/ ForwardPool = "null"
  /\ opening' = NoChannel
  /\ live' = live \ Opened
  /\ frees' = [c \in Channel |-> IF c = src THEN 1
                                 ELSE IF c = opening THEN frees[c] + 1 ELSE frees[c]]
  /\ eof' = eof \ Opened
  /\ gone' = gone \ Opened
  /\ pending' = pending \ Opened
  /\ UNCHANGED <<pool, loop, pairs, confirmed, callbacks, sentEof>>

\* FwPairAlloc(), FwPoolAdd(), and both channels get the callbacks of the pair.
AcceptForward(src, p) ==
  /\ Accepting
  /\ ForwardPool = "pool"
  /\ src \notin live
  /\ p \notin allocated
  /\ Pool!FwPoolAdd(p) /\ Pool!InBounds'
  /\ allocated' = allocated \cup {p}
  /\ context' = context \cup {p}
  /\ Source' = [Source EXCEPT ![p] = src]
  /\ Destiny' = [Destiny EXCEPT ![p] = opening]
  /\ opening' = NoChannel
  /\ live' = live \cup {src}
  /\ frees' = [frees EXCEPT ![src] = 0]
  /\ callbacks' = [c \in Channel |-> IF c \in {src} \cup Opened THEN p ELSE callbacks[c]]
  /\ UNCHANGED <<loop, confirmed, remote>>

\* FwPairAlloc() returned NULL, which FwPoolAdd() takes and the next statement
\* dereferences; or FwPoolAdd() stores beyond the array it could not enlarge.
\* What the process does after that is not modelled.
AcceptCrashes ==
  /\ Accepting
  /\ ForwardPool = "pool"
  /\ MemoryFails
  /\ pc' = "Crashed"
  /\ UNCHANGED <<pool, ForwardMode, ForwardPool, phase, index, Count, victim,
                 pairs, request, channels>>

-----------------------------------------------------------------------------
(***************************************************************************)
(* ForwardChannel...Callback(): packets for the channels of a pair.        *)
(***************************************************************************)

\* A packet for c is handled now.  Nested packets of the trap side wait; the
\* HaaS session joins the event loop only when relaying begins.
Heard(c) ==
  /\ Dispatching
  /\ c \in live /\ callbacks[c] # NoPair
  /\ IF c = Source[callbacks[c]] THEN opening = NoChannel
                                 ELSE phase # "auth" \/ opening # NoChannel

MutPeerDestiny(c) == {Destiny[callbacks[c]]} \ {NoChannel}

\* FwChannel, the other end; there is none in the modes NULL and ECHO.
Peer(c) == (IF c = Source[callbacks[c]] THEN {Destiny[callbacks[c]]}
                                        ELSE {Source[callbacks[c]]}) \ {NoChannel}

\* The callback takes all of the data, or, because a write takes a part of it
\* or fails, leaves some in the channel until there is more.
Data(c) ==
  /\ Heard(c)
  /\ c \notin eof \cup gone
  /\ \/ /\ callbacks[c] \in context
        /\ pending' = pending \ {c}
     \/ /\ callbacks[c] \notin context \/ ForwardMode # "NULL"
        /\ pending' = pending \cup {c}
  /\ UNCHANGED <<pool, loop, pairs, request, live, frees, callbacks, eof, gone, sentEof>>

Eof(c) ==
  /\ Heard(c)
  /\ c \notin eof \cup gone
  /\ eof' = eof \cup {c}
  /\ sentEof' = IF callbacks[c] \in context /\ ForwardMode = "ALLOW"
                THEN sentEof \cup Peer(c) ELSE sentEof
  /\ UNCHANGED <<pool, loop, pairs, request, live, frees, callbacks, gone, pending>>

MutCloseRemoves(c) ==
  /\ Heard(c)
  /\ c \notin gone
  /\ gone' = gone \cup {c}
  /\ \E i \in 0..Used-1 : Items[i] = callbacks[c] /\ Pool!FwPoolRemove(i)
  /\ UNCHANGED <<Closed, loop, pairs, request, live, frees, callbacks, eof,
                 pending, sentEof>>

\* The pair is only marked: it is released by HandleForwards().
Close(c) ==
  /\ Heard(c)
  /\ c \notin gone
  /\ gone' = gone \cup {c}
  /\ Closed' = Closed \cup {callbacks[c]}
  /\ UNCHANGED <<Used, Alloc, Items, loop, pairs, request, live, frees,
                 callbacks, eof, pending, sentEof>>

-----------------------------------------------------------------------------
(***************************************************************************)
(* HandleForwards() and the loop it is called from.                        *)
(***************************************************************************)

MainAt(l) == pc = l /\ opening = NoChannel

StartRelay ==
  /\ MainAt("Wait")
  /\ phase = "auth"
  /\ phase' = "relay"
  /\ UNCHANGED <<pool, ForwardMode, ForwardPool, pc, index, Count, victim, pairs,
                 request, channels>>

HandleForwards ==
  /\ MainAt("Wait")
  /\ phase = "relay" /\ ForwardPool = "pool"
  /\ Used > 0
  /\ Count' = Used
  /\ index' = 0
  /\ pc' = "PollSource"
  /\ UNCHANGED <<pool, ForwardMode, ForwardPool, phase, victim, pairs, request, channels>>

Current == Pool!FwPoolGet(index, NoPair)

\* The current pair is marked if the end is at its end of file.
MarkIfEof(End) ==
  /\ Closed' = IF Current # NoPair /\ AtEof(End[Current])
               THEN Closed \cup {Current} ELSE Closed
  /\ UNCHANGED <<Used, Alloc, Items>>

PollSource ==
  /\ MainAt("PollSource")
  /\ MarkIfEof(Source)
  /\ pc' = "PollDestiny"
  /\ UNCHANGED <<ForwardMode, ForwardPool, phase, index, Count, victim, pairs,
                 request, channels>>

MutPollSourceOnly ==
  /\ MainAt("PollDestiny")
  /\ UNCHANGED pool
  /\ index' = index + 1
  /\ pc' = IF index + 1 < Count THEN "PollSource" ELSE "Find"
  /\ UNCHANGED <<ForwardMode, ForwardPool, phase, Count, victim, pairs, request,
                 channels>>

PollDestiny ==
  /\ MainAt("PollDestiny")
  /\ MarkIfEof(Destiny)
  /\ index' = index + 1
  /\ pc' = IF index + 1 < Count THEN "PollSource" ELSE "Find"
  /\ UNCHANGED <<ForwardMode, ForwardPool, phase, Count, victim, pairs, request,
                 channels>>

MutSweepKeepsContext ==
  /\ MainAt("Find")
  /\ Pool!RemoveClosed
  /\ victim' = Items[Pool!FwPoolFindClosed]
  /\ pc' = "FreeSource"
  /\ UNCHANGED <<ForwardMode, ForwardPool, phase, index, Count, pairs, request, channels>>

\* FwPoolFindClosed(), FwPoolGet(), FwPoolRemove(), and the first lines of
\* FwPairRelease().
Sweep ==
  /\ MainAt("Find")
  /\ Pool!RemoveClosed
  /\ victim' = Items[Pool!FwPoolFindClosed]
  /\ context' = context \ {victim'}
  /\ pc' = "FreeSource"
  /\ UNCHANGED <<ForwardMode, ForwardPool, phase, index, Count, allocated,
                 Source, Destiny,
                 request, channels>>

Swept ==
  /\ MainAt("Find")
  /\ Pool!ClosedAt = {}
  /\ pc' = "Wait"
  /\ UNCHANGED <<pool, ForwardMode, ForwardPool, phase, index, Count, victim,
                 pairs, request, channels>>

\* FwEndpointDone(&Pair->Source)
FreeSource ==
  /\ MainAt("FreeSource")
  /\ Free({Source[victim]} \ {NoChannel}, 1)
  /\ Source' = [Source EXCEPT ![victim] = NoChannel]
  /\ pc' = "FreeDestiny"
  /\ UNCHANGED <<pool, ForwardMode, ForwardPool, phase, index, Count, victim, allocated,
                 context, Destiny, request>>

MutFreePairOnly ==
  /\ MainAt("FreeDestiny")
  /\ Destiny' = [Destiny EXCEPT ![victim] = NoChannel]
  /\ allocated' = allocated \ {victim}
  /\ Closed' = Closed \ {victim}
  /\ victim' = NoPair
  /\ pc' = IF phase = "over" THEN "Drain" ELSE "Find"
  /\ UNCHANGED <<Used, Alloc, Items, ForwardMode, ForwardPool, phase, index,
                 Count, context,
                 Source, request, channels>>

MutFreeKeepsClosed ==
  /\ MainAt("FreeDestiny")
  /\ Free({Destiny[victim]} \ {NoChannel}, 1)
  /\ Destiny' = [Destiny EXCEPT ![victim] = NoChannel]
  /\ allocated' = allocated \ {victim}
  /\ victim' = NoPair
  /\ pc' = IF phase = "over" THEN "Drain" ELSE "Find"
  /\ UNCHANGED <<pool, ForwardMode, ForwardPool, phase, index, Count, context,
                 Source, request>>

\* FwEndpointDone(&Pair->Destiny), free(Pair), and back to the loop that
\* releases the pairs.
FreeDestiny ==
  /\ MainAt("FreeDestiny")
  /\ Free({Destiny[victim]} \ {NoChannel}, 1)
  /\ Destiny' = [Destiny EXCEPT ![victim] = NoChannel]
  /\ allocated' = allocated \ {victim}
  /\ Closed' = Closed \ {victim}
  /\ victim' = NoPair
  /\ pc' = IF phase = "over" THEN "Drain" ELSE "Find"
  /\ UNCHANGED <<Used, Alloc, Items, ForwardMode, ForwardPool, phase, index,
                 Count, context,
                 Source, request>>

\* One of the loops is left, for whatever reason, and FwPoolDone() called.
Quit ==
  /\ MainAt("Wait")
  /\ phase' = "over"
  /\ pc' = IF ForwardPool = "pool" THEN "Drain" ELSE "Closing"
  /\ UNCHANGED <<pool, ForwardMode, ForwardPool, index, Count, victim, pairs,
                 request, channels>>

\* One more turn of the loop of FwPoolDone(), and the first lines of
\* FwPairRelease().  Pairs that join in the calls that follow come last.
Drain ==
  /\ MainAt("Drain")
  /\ Pool!ReleaseFirst
  /\ victim' = Items[0]
  /\ context' = context \ {victim'}
  /\ pc' = "FreeSource"
  /\ UNCHANGED <<ForwardMode, ForwardPool, phase, index, Count, allocated, Source,
                 Destiny, request, channels>>

MutDrainedEarly ==
  /\ MainAt("Drain")
  /\ Used <= 1
  /\ ForwardPool' = "freed"
  /\ pc' = "Closing"
  /\ UNCHANGED <<pool, ForwardMode, phase, index, Count, victim, pairs, request,
                 channels>>

\* FwPoolDone() frees the pool; Context.ForwardPool still points there.
Drained ==
  /\ MainAt("Drain")
  /\ Used = 0
  /\ ForwardPool' = "freed"
  /\ pc' = "Closing"
  /\ UNCHANGED <<pool, ForwardMode, phase, index, Count, victim, pairs, request,
                 channels>>

\* SessionClose() of both sessions.
SessionClose ==
  /\ MainAt("Closing")
  /\ pc' = "Done"
  /\ UNCHANGED <<pool, ForwardMode, ForwardPool, phase, index, Count, victim,
                 pairs, request, channels>>

Finished == pc \in {"Done", "Crashed"} /\ UNCHANGED vars

-----------------------------------------------------------------------------

MainStep ==
  \/ StartRelay \/ HandleForwards \/ PollSource \/ PollDestiny
  \/ Sweep \/ Swept \/ FreeSource \/ FreeDestiny
  \/ Quit \/ Drain \/ Drained \/ SessionClose

\* ssh_channel_open_forward() returns, and the callback with it.
RequestEnds ==
  \/ ForwardRefused
  \/ opening # NoChannel /\ ReplyFails
  \/ \E src \in Channel : opening # NoChannel /\ AcceptAndClose(src)
  \/ \E src \in Channel, p \in Pair : opening # NoChannel /\ AcceptForward(src, p)

Next ==
  \/ MainStep
  \/ \E c \in Channel : OpenForward(c) \/ AcceptAndClose(c)
  \/ Confirm \/ Early \/ ForwardRefused \/ ReplyFails \/ AcceptCrashes \/ LateRequest
  \/ \E c \in Channel, p \in Pair : AcceptForward(c, p)
  \/ \E c \in Channel : Data(c) \/ Eof(c) \/ Close(c)
  \/ Finished

Spec == Init /\ [][Next]_vars

\* ssh_event_dopoll() and its like run the callbacks of what has arrived and
\* return, so that the main program comes back to its loop whatever the peers
\* send; opening a forward ends with an answer or with a time-out.
FairSpec == Spec /\ SF_vars(MainStep) /\ SF_vars(RequestEnds)

-----------------------------------------------------------------------------
(***************************************************************************)
(* Properties.                                                             *)
(***************************************************************************)

Ends(p) == {Source[p], Destiny[p]} \ {NoChannel}

TypeOK ==
  /\ Pool!TypeOK
  /\ ForwardMode \in Modes
  /\ pc \in {"Wait", "PollSource", "PollDestiny", "Find", "FreeSource",
             "FreeDestiny", "Drain", "Closing", "Crashed", "Done"}
  /\ ForwardPool \in {"null", "pool", "freed"}
  /\ phase \in {"auth", "relay", "over"}
  /\ index \in Nat /\ Count \in Nat
  /\ victim \in Pair \cup {NoPair}
  /\ allocated \in SUBSET Pair /\ context \in SUBSET allocated
  /\ Source \in [Pair -> Channel \cup {NoChannel}]
  /\ Destiny \in [Pair -> Channel \cup {NoChannel}]
  /\ opening \in Channel \cup {NoChannel}
  /\ confirmed \in BOOLEAN
  /\ live \in SUBSET Channel
  /\ frees \in [Channel -> 0..2]
  /\ callbacks \in [Channel -> Pair \cup {NoPair}]
  /\ eof \in SUBSET live /\ gone \in SUBSET live
  /\ pending \in SUBSET live /\ sentEof \in SUBSET live

\* A callback finds its pair allocated and, while Context is set, the channel
\* it would write to as well, whether libssh calls it from a poll, from the sweep
\* of HandleForwards() or from FwPoolDone() (proxy.c:1094-1228, fw_pair.c:76-86,
\* fw_pool.c:41-49).
CallbacksFindPair ==
  \A c \in live : callbacks[c] # NoPair =>
    /\ callbacks[c] \in allocated
    /\ callbacks[c] \in context => Ends(callbacks[c]) \subseteq live

\* Every allocated pair is in the pool or being released, and every channel has
\* one owner: nothing leaks, and when the pool is gone all of it is freed, what
\* joined while it was drained included (fw_pool.c:36-58, fw_pair.c:76-86).
NothingLeaks ==
  /\ allocated = Pool!Members \cup ({victim} \ {NoPair})
  /\ live = ({opening} \ {NoChannel}) \cup UNION {Ends(p) : p \in allocated}
  /\ \A p, q \in allocated : p # q => Ends(p) \cap Ends(q) = {}
  /\ pc \in {"Closing", "Done"} => allocated = {} /\ live = {}

\* The entries HandleForwards() counted are still there while it polls them:
\* callbacks only add to the pool (proxy.c:1426-1464).
SnapshotValid ==
  pc \in {"PollSource", "PollDestiny"} => index < Count /\ Count <= Used

\* In a forwarded pair EOF is passed on to the other end and to no one else;
\* one that came before the callbacks were set is not (proxy.c:1118-1127, 1209).
EofPassedOn ==
  ForwardMode = "ALLOW" =>
    \A p \in context :
      /\ Source[p] \in eof <=> Destiny[p] \in sentEof
      /\ Source[p] \in sentEof => Destiny[p] \in eof

\* While the session relays, a pair leaves the pool only if one of its ends was
\* closed or at its end of file: moving pool entries never hits another pair.
OpenPairKept ==
  [][\A p \in Pool!Members : (p \notin Pool!Members' /\ phase' = "relay")
       => Ends(p) \cap (eof \cup gone) # {}]_vars

\* No channel is freed twice, but for the one whose forward was refused
\* (proxy.c:356 and 425).
FreedOnceUnlessRefused ==
  [][\A c \in Channel : (frees'[c] > 1 /\ frees'[c] # frees[c])
       => c = opening /\ ~confirmed]_vars

\* The session uses the pool as FwPool assumes, whose theorems then apply.
PoolUsed == Pool!Spec

\* In the relay loop a pair of which an end is at its end of file is released.
EofReleases ==
  \A p \in Pair :
    (phase = "relay" /\ p \in Pool!Members /\ \E c \in Ends(p) : AtEof(c))
      ~> (p \notin Pool!Members \/ pc = "Crashed")
=============================================================================
