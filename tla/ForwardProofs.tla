--------------------------- MODULE ForwardProofs ---------------------------
(***************************************************************************)
(* Proofs about Forward for every set of pairs and channels and every      *)
(* ForwardMode.  IInv adds to the properties who owns what: a channel is   *)
(* owned by the request that opens it or by the pair whose callbacks it    *)
(* has, and a pair by the pool or by the release that is at work on it.    *)
(***************************************************************************)
EXTENDS Forward, TLAPS

PoolInv == Pool!TypeOK /\ Pool!InBounds /\ Pool!NoPairTwice

\* The ends of a pair are its channels, and no one else's.
EndsOwned ==
  /\ \A p \in Pair : p \notin allocated => Source[p] = NoChannel /\ Destiny[p] = NoChannel
  /\ \A p \in context : Source[p] # NoChannel /\ (Destiny[p] = NoChannel <=> ForwardMode # "ALLOW")
  /\ \A p \in allocated : Source[p] = Destiny[p] => Source[p] = NoChannel
  /\ \A p \in allocated : \A c \in Ends(p) : callbacks[c] = p
  /\ \A c \in Channel : callbacks[c] # NoPair =>
       callbacks[c] \in allocated /\ c \in Ends(callbacks[c])

\* A channel is live while it is opened or has the callbacks of a pair.
ChannelsOwned ==
  /\ live = ({opening} \ {NoChannel}) \cup {c \in Channel : callbacks[c] # NoPair}
  /\ opening # NoChannel => callbacks[opening] = NoPair /\ ForwardMode = "ALLOW"
  /\ \A c \in live : frees[c] = 0
  /\ \A c \in sentEof : callbacks[c] # NoPair

\* Pairs are in the pool until they are released, one at a time.
PairsOwned ==
  /\ allocated = Pool!Members \cup ({victim} \ {NoPair})
  /\ context = allocated \ {victim}
  /\ victim \notin Pool!Members
  /\ ForwardPool # "pool" => Used = 0

\* The pair being released, and what of it is left.
VictimLeft ==
  /\ pc \in {"FreeSource", "FreeDestiny"} => victim # NoPair
  /\ pc \notin {"FreeSource", "FreeDestiny", "Crashed"} => victim = NoPair
  /\ pc = "FreeDestiny" => Source[victim] = NoChannel

\* A pair is marked because of one of its ends.
MarkedForCause ==
  /\ Closed \subseteq allocated
  /\ \A p \in Closed \cap context : Ends(p) \cap (eof \cup gone) # {}

\* The pool is drained after the loops, and nothing is in it after that.
DrainAtEnd ==
  /\ pc \in {"Drain", "Closing", "Done"} => phase = "over"
  /\ phase = "over" => pc \notin {"Wait", "PollSource", "PollDestiny", "Find"}
  /\ pc \in {"Closing", "Done"} =>
       allocated = {} /\ opening = NoChannel /\ ForwardPool # "pool"

IInv ==
  /\ TypeOK /\ PoolInv
  /\ EndsOwned /\ ChannelsOwned /\ PairsOwned
  /\ VictimLeft /\ MarkedForCause /\ DrainAtEnd
  /\ SnapshotValid /\ EofPassedOn

-----------------------------------------------------------------------------

\* What FwPoolProofs shows of the operations of the pool.
PoolProofs == INSTANCE FwPoolProofs WITH Done <- phase = "over"

\* A session allocates and grows the pool as FwPool assumes.
LEMMA PoolAssumed == PoolProofs!FwPoolAssumption
BY ForwardAssumption DEF PoolProofs!FwPoolAssumption

\* The flag of the module FwPool that its drain has begun is one.
LEMMA PhaseFlag == (phase = "over") \in BOOLEAN
BY Zenon

\* The entries of the pool keep its invariant, whatever pairs are marked.
LEMMA PoolKept ==
  ASSUME PoolInv, UNCHANGED <<Used, Alloc, Items>>, Closed' \in SUBSET Pair
  PROVE  PoolInv' /\ Pool!Members' = Pool!Members
<1>1. (phase = "over")' \in BOOLEAN
  BY Zenon
<1> QED
  BY <1>1 DEF PoolInv, Pool!TypeOK, Pool!InBounds, Pool!NoPairTwice, Pool!Members

\* The invariant of the pool is the one FwPoolProofs is about.
LEMMA PoolMeets ==
  ASSUME PoolInv
  PROVE  PoolProofs!IInv /\ PoolProofs!InBounds /\ PoolProofs!Members = Pool!Members
BY DEF PoolInv, PoolProofs!IInv, Pool!TypeOK, PoolProofs!TypeOK, Pool!InBounds,
   PoolProofs!InBounds, Pool!NoPairTwice, PoolProofs!NoPairTwice, Pool!Members,
   PoolProofs!Members

\* An operation that keeps the invariant of FwPoolProofs, within bounds, keeps it.
LEMMA PoolMeetsNext ==
  ASSUME Used' \in Nat, Alloc' \in Nat, Items' \in [0..Used'-1 -> Pair],
         Closed' \in SUBSET Pair, Used' <= Alloc', PoolProofs!NoPairTwice'
  PROVE  PoolInv'
<1>1. (phase = "over")' \in BOOLEAN
  BY Zenon
<1> QED
  BY <1>1 DEF PoolInv, Pool!TypeOK, Pool!InBounds, Pool!NoPairTwice, PoolProofs!NoPairTwice

\* Adding a pair that is in no entry adds it at the end.
LEMMA PoolAdd ==
  ASSUME PoolInv, NEW p \in Pair, p \notin Pool!Members, Pool!FwPoolAdd(p), Pool!InBounds'
  PROVE  /\ PoolInv'
         /\ Pool!Members' = Pool!Members \cup {p}
         /\ Used' = Used + 1 /\ Closed' = Closed
<1>1. PoolProofs!FwPoolAdd(p) /\ p \notin PoolProofs!Members
  BY PoolMeets DEF Pool!FwPoolAdd, PoolProofs!FwPoolAdd, Pool!HasRoom, PoolProofs!HasRoom,
     Pool!Grow, PoolProofs!Grow, Pool!GrowFails, PoolProofs!GrowFails, Pool!Append,
     PoolProofs!Append
<1>2. /\ Used' \in Nat /\ Alloc' \in Nat /\ Items' \in [0..Used'-1 -> Pair]
      /\ PoolProofs!NoPairTwice'
      /\ PoolProofs!Members' = PoolProofs!Members \cup {p}
  BY <1>1, PoolMeets, PoolAssumed, PoolProofs!AddIsJoin
<1>3. Closed' = Closed /\ Closed \in SUBSET Pair /\ Used' = Used + 1 /\ Used' <= Alloc'
  BY DEF Pool!FwPoolAdd, PoolInv, Pool!TypeOK, Pool!InBounds
<1>4. Pool!Members' = Pool!Members \cup {p}
  BY <1>2 DEF Pool!Members, PoolProofs!Members
<1> QED
  BY <1>2, <1>3, <1>4, PoolMeetsNext

\* Sweeping the pool takes a closed pair, and only that, out of it.
LEMMA PoolSweep ==
  ASSUME PoolInv, Pool!RemoveClosed
  PROVE  LET p == Items[Pool!FwPoolFindClosed] IN
           /\ PoolInv'
           /\ p \in Pool!Members \cap Closed
           /\ Pool!Members' = Pool!Members \ {p}
           /\ Closed' = Closed \ {p}
           /\ Used' \in Nat /\ Used > 0
<1> DEFINE k == Pool!FwPoolFindClosed
<1>1. /\ PoolProofs!IInv /\ k = PoolProofs!FwPoolFindClosed /\ PoolProofs!ClosedAt # {}
      /\ PoolProofs!Members = Pool!Members
  BY PoolMeets DEF Pool!RemoveClosed, Pool!ClosedAt, PoolProofs!ClosedAt,
     Pool!FwPoolFindClosed, PoolProofs!FwPoolFindClosed
<1>2. k \in 0..Used-1 /\ Items[k] \in Closed
  BY <1>1, PoolAssumed, PoolProofs!FoundClosed DEF PoolProofs!IInv, PoolProofs!ClosedAt
<1>3. Pool!FwPoolRemove(k) /\ PoolProofs!FwPoolRemove(k) /\ Closed' = Closed \ {Items[k]}
  BY DEF Pool!RemoveClosed, Pool!FwPoolRemove, PoolProofs!FwPoolRemove
<1> HIDE DEF k
<1>4. /\ Used' \in Nat /\ Alloc' \in Nat /\ Items' \in [0..Used'-1 -> Pair]
      /\ PoolProofs!NoPairTwice'
      /\ PoolProofs!Members' = PoolProofs!Members \ {Items[k]}
  BY <1>1, <1>2, <1>3, PoolAssumed, PoolProofs!RemoveIsLeave
<1>5. Pool!Members' = Pool!Members \ {Items[k]} /\ Items[k] \in Pool!Members
  BY <1>1, <1>2, <1>4 DEF Pool!Members, PoolProofs!Members
<1>6. Used > 0 /\ Closed' \in SUBSET Pair /\ Used' <= Alloc'
  BY <1>2, <1>3 DEF PoolInv, Pool!TypeOK, Pool!InBounds, Pool!FwPoolRemove
<1>7. PoolInv'
  BY <1>4, <1>6, PoolMeetsNext
<1> QED
  BY <1>2, <1>3, <1>4, <1>5, <1>6, <1>7 DEF k

\* Draining the pool takes its first pair, and only that, out of it.
LEMMA PoolFirst ==
  ASSUME PoolInv, Pool!ReleaseFirst
  PROVE  /\ PoolInv'
         /\ Items[0] \in Pool!Members
         /\ Pool!Members' = Pool!Members \ {Items[0]}
         /\ Closed' = Closed \ {Items[0]}
         /\ Used' \in Nat /\ Used > 0
<1>1. PoolProofs!ReleaseFirst /\ Closed' = Closed \ {Items[0]} /\ Used > 0
  BY DEF Pool!ReleaseFirst, PoolProofs!ReleaseFirst
<1>2. /\ Used' \in Nat /\ Alloc' \in Nat /\ Items' \in [0..Used'-1 -> Pair]
      /\ PoolProofs!NoPairTwice' /\ PoolProofs!InBounds'
      /\ Items[0] \in PoolProofs!Members
      /\ PoolProofs!Members' = PoolProofs!Members \ {Items[0]}
  BY <1>1, PoolMeets, PoolAssumed, PoolProofs!FirstIsLeave
<1>3. Closed' \in SUBSET Pair /\ Used' <= Alloc'
  BY <1>1, <1>2 DEF PoolInv, Pool!TypeOK, PoolProofs!InBounds
<1>4. Pool!Members' = Pool!Members \ {Items[0]} /\ Items[0] \in Pool!Members
  BY <1>2 DEF Pool!Members, PoolProofs!Members
<1> QED
  BY <1>1, <1>2, <1>3, <1>4, PoolMeetsNext

-----------------------------------------------------------------------------

\* Initially nothing is allocated.
LEMMA InitIInv == Init => IInv
<1> SUFFICES ASSUME Init PROVE IInv
  OBVIOUS
<1>1. confirmed \in BOOLEAN
  BY Zenon DEF Init
<1>2. PoolInv
  BY PhaseFlag DEF Init, PoolInv, Pool!Init, Pool!TypeOK, Pool!InBounds, Pool!NoPairTwice
<1>5. TypeOK
  BY <1>1, <1>2, ForwardAssumption DEF Init, TypeOK, PoolInv
<1>3. Pool!Members = {}
  BY DEF Init, Pool!Init, Pool!Members
<1>4. EndsOwned /\ ChannelsOwned /\ PairsOwned
  BY <1>3, ForwardAssumption
     DEF Init, Pool!Init, EndsOwned, ChannelsOwned, PairsOwned, Ends
<1> QED
  BY <1>2, <1>4, <1>5, ForwardAssumption
     DEF Init, Pool!Init, IInv, VictimLeft, MarkedForCause, DrainAtEnd, SnapshotValid, EofPassedOn

\* The steps of the main program that only move between its places.
LEMMA MoveIInv ==
  IInv /\ (StartRelay \/ HandleForwards \/ Swept \/ Quit \/ Drained \/ SessionClose) => IInv'
<1> SUFFICES ASSUME IInv,
                    StartRelay \/ HandleForwards \/ Swept \/ Quit \/ Drained \/ SessionClose
             PROVE  IInv'
  OBVIOUS
<1> USE ForwardAssumption DEF IInv
<1>1. /\ UNCHANGED <<pool, ForwardMode, victim, pairs, request, channels>>
      /\ pc \in {"Wait", "Find", "Drain", "Closing"} /\ opening = NoChannel
      /\ pc' \in {"Wait", "PollSource", "Drain", "Closing", "Done"}
  BY DEF StartRelay, HandleForwards, Swept, Quit, Drained, SessionClose, MainAt
<1>2. PoolInv' /\ Pool!Members' = Pool!Members
  BY <1>1, PoolKept DEF pool, PoolInv, Pool!TypeOK
<1>3. TypeOK'
  <2>1. /\ phase' \in {"auth", "relay", "over"}
        /\ ForwardPool' \in {"null", "pool", "freed"}
    BY DEF TypeOK, StartRelay, HandleForwards, Swept, Quit, Drained, SessionClose, MainAt
  <2>2. index' \in Nat /\ Count' \in Nat
    BY DEF TypeOK, PoolInv, Pool!TypeOK, StartRelay, HandleForwards, Swept, Quit, Drained,
       SessionClose, MainAt
  <2>3. Pool!TypeOK'
    BY <1>2 DEF PoolInv
  <2>4. UNCHANGED <<ForwardMode, victim, allocated, context, Source, Destiny, opening, confirmed,
                    live, frees, callbacks, eof, gone, pending, sentEof>>
    BY <1>1 DEF pairs, request, channels, remote
  <2> QED
    BY <1>1, <2>1, <2>2, <2>3, <2>4 DEF TypeOK
<1>4. EndsOwned' /\ ChannelsOwned'
  BY <1>1 DEF EndsOwned, ChannelsOwned, Ends, pool, pairs, request, channels, remote
<1>5. VictimLeft' /\ MarkedForCause' /\ EofPassedOn'
  BY <1>1 DEF VictimLeft, MarkedForCause, EofPassedOn, Ends, pool, pairs, request, channels, remote
<1>6. allocated = Pool!Members /\ victim = NoPair
  BY <1>1 DEF PairsOwned, VictimLeft
<1>7. Used \in Nat /\ (Used = 0 => Pool!Members = {})
  BY DEF PoolInv, Pool!TypeOK, Pool!Members
<1>8. PairsOwned' /\ SnapshotValid'
  BY <1>1, <1>2, <1>7 DEF PairsOwned, SnapshotValid, StartRelay, HandleForwards, Swept, Quit,
     Drained, SessionClose, MainAt, pool, pairs, request
<1>9. DrainAtEnd'
  BY <1>1, <1>6, <1>7 DEF PairsOwned, DrainAtEnd, StartRelay, HandleForwards, Swept, Quit, Drained,
     SessionClose, MainAt, pool, pairs, request
<1> QED
  BY <1>2, <1>3, <1>4, <1>5, <1>8, <1>9

\* Polling the ends of a pair marks it only if one of them is at its end of file.
LEMMA PollIInv == IInv /\ (PollSource \/ PollDestiny) => IInv'
<1> SUFFICES ASSUME IInv, PollSource \/ PollDestiny PROVE IInv'
  OBVIOUS
<1> USE ForwardAssumption DEF IInv
<1>1. /\ UNCHANGED <<Used, Alloc, Items, ForwardMode, ForwardPool, phase, victim, pairs, request,
                     channels, Count>>
      /\ pc \in {"PollSource", "PollDestiny"} /\ pc' \in {"PollSource", "PollDestiny", "Find"}
  BY DEF PollSource, PollDestiny, MarkIfEof, MainAt
<1>2. Used \in Nat /\ index \in Nat /\ Count \in Nat
      /\ Current = Items[index] /\ Current \in Pool!Members
  BY <1>1 DEF SnapshotValid, TypeOK, PoolInv, Pool!TypeOK, Current, Pool!FwPoolGet, Pool!Members
<1>3. Current \in allocated /\ Current \in context
  BY <1>1, <1>2 DEF PairsOwned
<1>4. /\ Closed' \in {Closed, Closed \cup {Current}}
      /\ Closed' # Closed => Ends(Current) \cap (eof \cup gone) # {}
  BY <1>3 DEF PollSource, PollDestiny, MarkIfEof, AtEof, Ends, TypeOK
<1>5. PoolInv' /\ Pool!Members' = Pool!Members
  BY <1>1, <1>3, <1>4, PoolKept DEF PoolInv, Pool!TypeOK, TypeOK
<1>6. TypeOK'
  BY <1>1, <1>2, <1>5 DEF TypeOK, PoolInv, PollSource, PollDestiny, pairs, request, channels, remote
<1>7. EndsOwned' /\ ChannelsOwned' /\ VictimLeft' /\ EofPassedOn'
  BY <1>1 DEF EndsOwned, ChannelsOwned, VictimLeft, EofPassedOn, Ends, pairs, request, channels, remote
<1>8. PairsOwned' /\ DrainAtEnd'
  BY <1>1, <1>5 DEF PairsOwned, DrainAtEnd, pairs, request
<1>9. MarkedForCause'
  BY <1>1, <1>3, <1>4 DEF MarkedForCause, Ends, pairs, channels, remote
<1>10. SnapshotValid'
  BY <1>1, <1>2 DEF SnapshotValid, PollSource, PollDestiny
<1> QED
  BY <1>5, <1>6, <1>7, <1>8, <1>9, <1>10

\* A channel that is being opened is the end of no pair.
LEMMA OpeningFree ==
  ASSUME IInv, NEW p \in allocated, opening # NoChannel
  PROVE  opening \notin Ends(p)
<1>1. callbacks[opening] = NoPair
  BY DEF IInv, ChannelsOwned
<1>2. p # NoPair
  BY ForwardAssumption DEF IInv, TypeOK
<1> QED
  BY <1>1, <1>2 DEF IInv, EndsOwned

\* Whenever a channel is freed once or twice, with n at most 2, its count of
\* frees stays a count, and nothing is known of it any more.
LEMMA FreeTypes ==
  ASSUME TypeOK, ChannelsOwned, NEW S \in SUBSET live, NEW n \in 1..2, Free(S, n)
  PROVE  /\ live' \in SUBSET Channel
         /\ frees' \in [Channel -> 0..2]
         /\ callbacks' \in [Channel -> Pair \cup {NoPair}]
         /\ eof' \in SUBSET live' /\ gone' \in SUBSET live'
         /\ pending' \in SUBSET live' /\ sentEof' \in SUBSET live'
         /\ \A c \in live' : frees'[c] = 0
         /\ \A c \in Channel : callbacks'[c] = IF c \in S THEN NoPair ELSE callbacks[c]
<1>1. live' \in SUBSET Channel
  BY DEF TypeOK, Free
<1>2. \A c \in S : frees[c] = 0
  BY DEF ChannelsOwned
<1>3. frees' \in [Channel -> 0..2] /\ \A c \in live' : frees'[c] = 0
  BY <1>2 DEF TypeOK, Free, ChannelsOwned
<1>4. /\ callbacks' \in [Channel -> Pair \cup {NoPair}]
      /\ \A c \in Channel : callbacks'[c] = IF c \in S THEN NoPair ELSE callbacks[c]
  BY DEF TypeOK, Free
<1>5. /\ eof' \in SUBSET live' /\ gone' \in SUBSET live'
      /\ pending' \in SUBSET live' /\ sentEof' \in SUBSET live'
  BY DEF TypeOK, Free
<1> QED
  BY <1>1, <1>3, <1>4, <1>5

\* Opening a forward and its answers keep the invariant: the new channel is the
\* request's alone, and if it is refused nothing of it remains.
LEMMA OpenIInv ==
  ASSUME IInv,
         \/ \E dst \in Channel : OpenForward(dst)
         \/ Confirm \/ Early \/ ForwardRefused \/ ReplyFails
  PROVE  IInv'
<1> USE ForwardAssumption DEF IInv
<1>1. /\ UNCHANGED <<pool, loop, pairs>>
      /\ pc \notin {"Drain", "Done"}
      /\ pc = "Closing" => opening' = NoChannel
  BY DEF DrainAtEnd, OpenForward, Confirm, Early, ForwardRefused, ReplyFails, Accepting, MayRequest, Opening,
     Dispatching
<1>2. PoolInv' /\ Pool!Members' = Pool!Members
  BY <1>1, PoolKept DEF pool, PoolInv, Pool!TypeOK
<1>3. PairsOwned' /\ VictimLeft' /\ SnapshotValid' /\ DrainAtEnd'
  BY <1>1, <1>2 DEF PairsOwned, VictimLeft, SnapshotValid, DrainAtEnd, pool, loop, pairs
<1>4. ASSUME NEW dst \in Channel, OpenForward(dst) PROVE IInv'
  <2>1. confirmed' \in BOOLEAN
    BY <1>4, Zenon DEF OpenForward
  <2>2. TypeOK'
    BY <1>1, <1>2, <1>4, <2>1 DEF TypeOK, PoolInv, OpenForward, pool, loop, pairs, remote
  <2>3. dst \notin live /\ callbacks[dst] = NoPair
    BY <1>4 DEF OpenForward, ChannelsOwned, TypeOK
  <2>4. EndsOwned' /\ ChannelsOwned'
    BY <1>1, <1>4, <2>3 DEF EndsOwned, ChannelsOwned, Ends, TypeOK, OpenForward, MayRequest, pool, loop, pairs, remote
  <2>5. MarkedForCause' /\ EofPassedOn'
    BY <1>1, <1>4 DEF MarkedForCause, EofPassedOn, Ends, OpenForward, pool, loop, pairs, remote
  <2> QED
    BY <1>2, <1>3, <2>2, <2>4, <2>5
<1>5. CASE Confirm
  <2>1. confirmed' \in BOOLEAN
    BY <1>5, Zenon DEF Confirm
  <2>2. TypeOK'
    BY <1>1, <1>2, <1>5, <2>1 DEF TypeOK, PoolInv, Confirm, pool, loop, pairs, channels, remote
  <2>3. EndsOwned' /\ ChannelsOwned' /\ MarkedForCause' /\ EofPassedOn'
    BY <1>1, <1>5 DEF EndsOwned, ChannelsOwned, MarkedForCause, EofPassedOn, Ends, Confirm, pool, loop, pairs, channels, remote
  <2> QED
    BY <1>2, <1>3, <2>2, <2>3
<1>6. CASE Early
  <2>1. opening \in live /\ callbacks[opening] = NoPair
    BY <1>6 DEF Early, Opening, ChannelsOwned
  <2>2. TypeOK'
    BY <1>1, <1>2, <1>6, <2>1 DEF TypeOK, PoolInv, Early, pool, loop, pairs, request
  <2>3. EndsOwned' /\ ChannelsOwned'
    BY <1>1, <1>6 DEF EndsOwned, ChannelsOwned, Ends, Early, pool, loop, pairs, request
  <2>4. \A p \in context : opening \notin Ends(p)
    BY <1>6, OpeningFree DEF Early, Opening, TypeOK
  <2>5. MarkedForCause' /\ EofPassedOn'
    BY <1>1, <1>6, <2>4 DEF MarkedForCause, EofPassedOn, EndsOwned, Ends, Early, TypeOK, pool, loop, pairs, request
  <2> QED
    BY <1>2, <1>3, <2>2, <2>3, <2>5
<1>7. CASE ForwardRefused \/ ReplyFails
  <2>1. PICK n \in 1..2 : Free(Opened, n)
    BY <1>7 DEF ForwardRefused, ReplyFails, Opening, Opened
  <2>2. Opened \in SUBSET live
    BY DEF Opened, ChannelsOwned
  <2>3. opening' = NoChannel /\ UNCHANGED confirmed
    BY <1>7 DEF ForwardRefused, ReplyFails
  <2>4. TypeOK' /\ (\A c \in Channel : callbacks'[c] = callbacks[c])
    BY <1>1, <1>2, <2>1, <2>2, <2>3, FreeTypes DEF TypeOK, PoolInv, ChannelsOwned, Opened, pool, loop, pairs
  <2>5. callbacks' = callbacks
    BY <2>4 DEF TypeOK
  <2>6. \A p \in allocated : Ends(p) \cap Opened = {}
    BY OpeningFree DEF Opened
  <2>7. EndsOwned'
    BY <1>1, <2>5 DEF EndsOwned, Ends, pool, loop, pairs
  <2>8. ChannelsOwned'
    BY <1>1, <2>1, <2>2, <2>3, <2>5, FreeTypes DEF ChannelsOwned, Free, Opened, TypeOK
  <2>9. MarkedForCause' /\ EofPassedOn'
    BY <1>1, <2>1, <2>6 DEF MarkedForCause, EofPassedOn, EndsOwned, Ends, Free, TypeOK, pool, loop, pairs
  <2> QED
    BY <1>2, <1>3, <2>4, <2>7, <2>8, <2>9
<1> QED
  BY <1>4, <1>5, <1>6, <1>7

\* A request that is accepted and closed at once leaves nothing behind.
LEMMA AcceptAndCloseIInv == ASSUME IInv, NEW src \in Channel, AcceptAndClose(src) PROVE IInv'
<1> USE ForwardAssumption DEF IInv
<1>1. /\ UNCHANGED <<pool, loop, pairs, confirmed, callbacks, sentEof>>
      /\ pc \notin {"Drain", "Done"} /\ opening' = NoChannel /\ src \notin live
  BY DEF AcceptAndClose, Accepting, MayRequest, Opening, Dispatching
<1>2. UNCHANGED pool
  BY <1>1
<1>3. PoolInv' /\ Pool!Members' = Pool!Members
  BY <1>2, PoolKept DEF pool, PoolInv, Pool!TypeOK
<1>4. PairsOwned' /\ VictimLeft' /\ SnapshotValid' /\ DrainAtEnd' /\ EndsOwned'
  BY <1>1, <1>2, <1>3 DEF PairsOwned, VictimLeft, SnapshotValid, DrainAtEnd, EndsOwned, Ends,
     pool, loop, pairs
<1>5. Opened \subseteq live /\ src \notin Opened
  BY <1>1 DEF Opened, ChannelsOwned
<1>6. /\ live' = live \ Opened /\ eof' = eof \ Opened /\ gone' = gone \ Opened
      /\ pending' = pending \ Opened
      /\ frees' \in [Channel -> 0..2] /\ \A c \in live' : frees'[c] = 0
  BY <1>1, <1>5 DEF AcceptAndClose, TypeOK, ChannelsOwned, Opened
<1>7. Opened \cap sentEof = {}
  BY DEF Opened, ChannelsOwned
<1>8. TypeOK'
  BY <1>1, <1>2, <1>3, <1>6, <1>7 DEF TypeOK, PoolInv, loop, pairs
<1>9. ChannelsOwned'
  BY <1>1, <1>6 DEF ChannelsOwned, Opened
<1>10. \A p \in allocated : Ends(p) \cap Opened = {}
  BY OpeningFree DEF Opened
<1>11. MarkedForCause' /\ EofPassedOn'
  BY <1>1, <1>2, <1>6, <1>10 DEF MarkedForCause, EofPassedOn, EndsOwned, Ends, TypeOK, pool, loop, pairs
<1> QED
  BY <1>3, <1>4, <1>8, <1>9, <1>11

\* A forward that is accepted becomes a pair of the pool that owns both channels.
LEMMA AcceptForwardIInv ==
  ASSUME IInv, NEW src \in Channel, NEW p \in Pair, AcceptForward(src, p) PROVE IInv'
<1> USE ForwardAssumption DEF IInv
<1>1. /\ UNCHANGED <<loop, confirmed, remote>>
      /\ pc \notin {"Drain", "Closing", "Done"} /\ opening' = NoChannel
      /\ src \notin live /\ p \notin allocated
      /\ allocated' = allocated \cup {p} /\ context' = context \cup {p}
      /\ ForwardPool = "pool" /\ ForwardPool' = "pool"
  BY DEF AcceptForward, Accepting, MayRequest, Opening, Dispatching, DrainAtEnd, loop
<1>2. p \notin Pool!Members /\ p \notin Closed
  BY <1>1 DEF PairsOwned, MarkedForCause
<1>3. /\ PoolInv' /\ Pool!Members' = Pool!Members \cup {p}
      /\ Used' = Used + 1 /\ UNCHANGED Closed
  BY <1>2, PoolAdd DEF AcceptForward
<1>4. /\ Source' = [Source EXCEPT ![p] = src] /\ Destiny' = [Destiny EXCEPT ![p] = opening]
      /\ live' = live \cup {src} /\ frees' = [frees EXCEPT ![src] = 0]
      /\ callbacks' = [c \in Channel |-> IF c \in {src} \cup Opened THEN p ELSE callbacks[c]]
  BY DEF AcceptForward
<1>5. /\ callbacks[src] = NoPair /\ src # opening
      /\ opening # NoChannel => callbacks[opening] = NoPair /\ opening \in live
      /\ opening # NoChannel <=> ForwardMode = "ALLOW"
  BY <1>1 DEF ChannelsOwned, TypeOK, AcceptForward, Accepting, MayRequest, Opening
<1>6. TypeOK'
  BY <1>1, <1>3, <1>4 DEF TypeOK, PoolInv, loop, remote
<1>7. victim # p /\ UNCHANGED <<victim, pc, index, Count, ForwardMode, phase>>
  BY <1>1 DEF loop, PairsOwned
<1>8. PairsOwned'
  BY <1>1, <1>3, <1>5, <1>7 DEF PairsOwned
<1>9. /\ SnapshotValid' /\ DrainAtEnd' /\ VictimLeft'
  BY <1>1, <1>3, <1>4, <1>7 DEF SnapshotValid, DrainAtEnd, VictimLeft, PoolInv, Pool!TypeOK, TypeOK
<1>10. /\ \A q \in Pair : q # p => Source'[q] = Source[q] /\ Destiny'[q] = Destiny[q]
       /\ Source'[p] = src /\ Destiny'[p] = opening
       /\ \A c \in Channel : c \notin {src} \cup Opened => callbacks'[c] = callbacks[c]
       /\ \A c \in {src} \cup Opened : callbacks'[c] = p
  BY <1>4, <1>5 DEF TypeOK, Opened
<1>11. \A q \in allocated : Ends(q) \cap ({src} \cup Opened) = {}
  <2>1. \A q \in allocated : q # NoPair
    BY DEF TypeOK
  <2> QED
    BY <1>5, <2>1 DEF EndsOwned, Opened
<1>12. (\A q \in allocated : Ends(q)' = Ends(q)) /\ Ends(p)' = {src} \cup Opened
  BY <1>1, <1>5, <1>10 DEF Ends, Opened, TypeOK
<1>13. ChannelsOwned'
  BY <1>1, <1>4, <1>5, <1>10 DEF ChannelsOwned, TypeOK, Opened, remote
<1>14. EndsOwned'
  <2>1. \A q \in Pair : q \notin allocated' => Source'[q] = NoChannel /\ Destiny'[q] = NoChannel
    BY <1>1, <1>10 DEF EndsOwned
  <2>2. \A q \in context' : Source'[q] # NoChannel /\ (Destiny'[q] = NoChannel <=> ForwardMode # "ALLOW")
    BY <1>1, <1>5, <1>10 DEF EndsOwned, TypeOK
  <2>3. \A q \in allocated' : Source'[q] = Destiny'[q] => Source'[q] = NoChannel
    BY <1>1, <1>5, <1>10 DEF EndsOwned, TypeOK
  <2>4. \A q \in allocated' : \A c \in Ends(q)' : callbacks'[c] = q
    <3>1. ASSUME NEW q \in allocated, NEW c \in Ends(q) PROVE callbacks'[c] = q
      <4>1. c \in Channel
        BY DEF Ends, TypeOK
      <4> QED
        BY <1>10, <1>11, <4>1 DEF EndsOwned
    <3> QED
      BY <1>1, <1>10, <1>12, <3>1
  <2>5. ASSUME NEW c \in Channel, callbacks'[c] # NoPair
        PROVE  (callbacks[c] \in allocated /\ c \in Ends(callbacks[c]))'
    <3>1. CASE c \in {src} \cup Opened
      BY <1>1, <1>10, <1>12, <3>1
    <3>2. CASE c \notin {src} \cup Opened
      <4>1. callbacks'[c] = callbacks[c] /\ callbacks[c] \in allocated /\ c \in Ends(callbacks[c])
        BY <1>10, <2>5, <3>2 DEF EndsOwned
      <4> QED
        BY <1>1, <1>12, <4>1
    <3> QED
      BY <3>1, <3>2
  <2> QED
    BY <1>7, <2>1, <2>2, <2>3, <2>4, <2>5 DEF EndsOwned, Ends
<1>15. MarkedForCause'
  BY <1>1, <1>2, <1>3, <1>7, <1>12 DEF MarkedForCause, TypeOK, remote
<1>16. EofPassedOn'
  <2>1. src \notin eof /\ src \notin sentEof /\ opening \notin sentEof
    BY <1>1, <1>5 DEF TypeOK, ChannelsOwned
  <2> QED
    BY <1>1, <1>7, <1>10, <2>1 DEF EofPassedOn, TypeOK, remote
<1> QED
  BY <1>3, <1>6, <1>8, <1>9, <1>13, <1>14, <1>15, <1>16

\* A packet is handled with the pair that owns its channel; it moves nothing
\* between owners.
LEMMA PacketIInv == ASSUME IInv, NEW c \in Channel, Data(c) \/ Eof(c) \/ Close(c) PROVE IInv'
<1> USE ForwardAssumption DEF IInv
<1>1. /\ UNCHANGED <<Used, Alloc, Items, loop, pairs, request, live, frees, callbacks>>
      /\ c \in live /\ callbacks[c] # NoPair
      /\ pc \notin {"Drain", "Done"}
  BY DEF Data, Eof, Close, Heard, Dispatching, pool
<1> DEFINE p == callbacks[c]
<1>2. p \in allocated /\ c \in Ends(p) /\ p \in Pair
  BY <1>1 DEF EndsOwned, TypeOK
<1>3. EndsOwned' /\ PairsOwned' /\ VictimLeft' /\ DrainAtEnd' /\ SnapshotValid'
  BY <1>1 DEF EndsOwned, PairsOwned, VictimLeft, DrainAtEnd, SnapshotValid, Ends,
     Pool!Members, loop, pairs, request
<1>4. \A q \in allocated : q # p => c \notin Ends(q)
  BY DEF EndsOwned
<1>5. CASE Data(c)
  <2>1. UNCHANGED <<Closed, eof, gone, sentEof>> /\ pending' \in SUBSET live
    BY <1>1, <1>5 DEF Data, pool, TypeOK
  <2>2. TypeOK' /\ PoolInv'
    BY <1>1, <2>1, PoolKept DEF TypeOK, PoolInv, Pool!TypeOK, loop, pairs, request
  <2>3. ChannelsOwned' /\ MarkedForCause' /\ EofPassedOn'
    BY <1>1, <2>1 DEF ChannelsOwned, MarkedForCause, EofPassedOn, Ends, loop, pairs, request
  <2> QED
    BY <1>3, <2>2, <2>3
<1>6. CASE Eof(c)
  <2>1. /\ UNCHANGED <<Closed, gone, pending>> /\ eof' = eof \cup {c} /\ c \notin eof
        /\ sentEof' = IF p \in context /\ ForwardMode = "ALLOW"
                      THEN sentEof \cup Peer(c) ELSE sentEof
    BY <1>6 DEF Eof, pool
  <2>2. Peer(c) \subseteq Ends(p)
    BY DEF Peer, Ends
  <2>3. Ends(p) \subseteq {d \in live : callbacks[d] = p}
    BY <1>1, <1>2 DEF EndsOwned, ChannelsOwned, Ends, TypeOK
  <2>4. \A q \in allocated : q # p => Peer(c) \cap Ends(q) = {}
    BY <1>2, <2>2 DEF EndsOwned
  <2>5. sentEof' \in SUBSET live /\ \A d \in sentEof' : callbacks[d] # NoPair
    BY <1>1, <2>1, <2>2, <2>3 DEF ChannelsOwned, TypeOK
  <2>6. TypeOK' /\ PoolInv'
    BY <1>1, <2>1, <2>5, PoolKept DEF TypeOK, PoolInv, Pool!TypeOK, loop, pairs, request
  <2>7. ChannelsOwned' /\ MarkedForCause'
    BY <1>1, <2>1, <2>5 DEF ChannelsOwned, MarkedForCause, Ends, loop, pairs, request
  <2>8. EofPassedOn'
    <3>1. ASSUME ForwardMode = "ALLOW", NEW q \in context
          PROVE  /\ Source[q] \in eof' <=> Destiny[q] \in sentEof'
                 /\ Source[q] \in sentEof' => Destiny[q] \in eof'
      <4>1. /\ q \in allocated /\ {Source[q], Destiny[q]} = Ends(q) /\ Source[q] # Destiny[q]
            /\ Source[q] \in eof <=> Destiny[q] \in sentEof
            /\ Source[q] \in sentEof => Destiny[q] \in eof
        BY <3>1 DEF EndsOwned, Ends, EofPassedOn, TypeOK
      <4>2. CASE q # p
        BY <1>4, <2>1, <2>4, <4>1, <4>2
      <4>3. CASE q = p
        <5>1. NoChannel \notin Ends(q) /\ sentEof' = sentEof \cup Peer(c)
          BY <2>1, <3>1, <4>3 DEF Ends
        <5>2. CASE c = Source[q]
          <6>1. Peer(c) = {Destiny[q]}
            BY <4>1, <4>3, <5>1, <5>2 DEF Peer
          <6> QED
            BY <2>1, <4>1, <5>1, <5>2, <6>1
        <5>3. CASE c = Destiny[q]
          <6>1. Peer(c) = {Source[q]}
            BY <4>1, <4>3, <5>1, <5>3 DEF Peer
          <6> QED
            BY <2>1, <4>1, <5>1, <5>3, <6>1
        <5> QED
          BY <1>2, <4>1, <4>3, <5>2, <5>3
      <4> QED
        BY <4>2, <4>3
    <3> QED
      BY <1>1, <3>1 DEF EofPassedOn, loop, pairs
  <2> QED
    BY <1>3, <2>6, <2>7, <2>8
<1>7. CASE Close(c)
  <2>1. /\ UNCHANGED <<eof, pending, sentEof>> /\ gone' = gone \cup {c}
        /\ Closed' = Closed \cup {p}
    BY <1>7 DEF Close
  <2>2. TypeOK' /\ PoolInv'
    BY <1>1, <1>2, <2>1, PoolKept DEF TypeOK, PoolInv, Pool!TypeOK, loop, pairs, request
  <2>3. ChannelsOwned' /\ EofPassedOn'
    BY <1>1, <2>1 DEF ChannelsOwned, EofPassedOn, Ends, loop, pairs, request
  <2>4. MarkedForCause'
    BY <1>1, <1>2, <2>1 DEF MarkedForCause, Ends, loop, pairs, request
  <2> QED
    BY <1>3, <2>2, <2>3, <2>4
<1> QED
  BY <1>5, <1>6, <1>7

\* Undefined behaviour ends what is said of the process; nothing else changes.
LEMMA CrashIInv == IInv /\ (AcceptCrashes \/ LateRequest \/ UNCHANGED vars) => IInv'
<1> SUFFICES ASSUME IInv, AcceptCrashes \/ LateRequest \/ UNCHANGED vars PROVE IInv'
  OBVIOUS
<1> USE DEF IInv
<1>1. /\ UNCHANGED <<pool, ForwardMode, ForwardPool, phase, index, Count, victim, pairs, request,
                     channels>>
      /\ \/ pc' = "Crashed" /\ pc \notin {"Drain", "Done"}
         \/ UNCHANGED pc
  BY DEF AcceptCrashes, LateRequest, Accepting, MayRequest, Opening, Dispatching, vars, loop
<1>2. PoolInv' /\ Pool!Members' = Pool!Members
  BY <1>1, PoolKept DEF pool, PoolInv, Pool!TypeOK
<1>3. TypeOK'
  BY <1>1, <1>2 DEF TypeOK, PoolInv, pool, pairs, request, channels, remote
<1>4. EndsOwned' /\ ChannelsOwned' /\ EofPassedOn'
  BY <1>1 DEF EndsOwned, ChannelsOwned, EofPassedOn, Ends, pool, pairs, request, channels, remote
<1>5. PairsOwned' /\ VictimLeft' /\ MarkedForCause' /\ DrainAtEnd' /\ SnapshotValid'
  BY <1>1, <1>2 DEF PairsOwned, VictimLeft, MarkedForCause, DrainAtEnd, SnapshotValid, Ends,
     pool, pairs, request, channels, remote
<1> QED
  BY <1>2, <1>3, <1>4, <1>5

\* Freeing channels of one pair, whose context is gone, leaves the channels of
\* every other pair and of the request alone.
LEMMA ReleaseEnds ==
  ASSUME IInv, NEW v \in allocated, NEW S \in SUBSET Ends(v), Free(S, 1),
         UNCHANGED <<ForwardMode, opening, confirmed>>,
         Source' \in [Pair -> Channel \cup {NoChannel}],
         Destiny' \in [Pair -> Channel \cup {NoChannel}],
         \A q \in Pair : q # v => Source'[q] = Source[q] /\ Destiny'[q] = Destiny[q],
         Source'[v] \in {Source[v], NoChannel}, Destiny'[v] \in {Destiny[v], NoChannel},
         Ends(v)' = Ends(v) \ S,
         allocated' \in {allocated, allocated \ {v}},
         v \in allocated' \/ Ends(v)' = {},
         context' = context \ {v},
         Closed' \subseteq Closed, Closed' \subseteq allocated'
  PROVE  /\ EndsOwned' /\ ChannelsOwned' /\ EofPassedOn' /\ MarkedForCause'
         /\ live' \in SUBSET Channel /\ frees' \in [Channel -> 0..2]
         /\ callbacks' \in [Channel -> Pair \cup {NoPair}]
         /\ eof' \in SUBSET live' /\ gone' \in SUBSET live'
         /\ pending' \in SUBSET live' /\ sentEof' \in SUBSET live'
<1> USE ForwardAssumption DEF IInv
<1>1. /\ v \in Pair /\ v # NoPair /\ context \subseteq allocated /\ allocated \subseteq Pair
      /\ allocated' \subseteq allocated /\ context' \subseteq context
      /\ \A q \in allocated : q # v => q \in allocated'
  BY DEF TypeOK
<1>2. \A d \in Ends(v) : d \in live /\ d \in Channel /\ callbacks[d] = v /\ d # opening
  BY <1>1 DEF EndsOwned, ChannelsOwned, Ends, TypeOK
<1>3. /\ S \in SUBSET live
      /\ live' \in SUBSET Channel /\ frees' \in [Channel -> 0..2]
      /\ callbacks' \in [Channel -> Pair \cup {NoPair}]
      /\ eof' \in SUBSET live' /\ gone' \in SUBSET live'
      /\ pending' \in SUBSET live' /\ sentEof' \in SUBSET live'
      /\ \A d \in live' : frees'[d] = 0
      /\ \A d \in Channel : callbacks'[d] = IF d \in S THEN NoPair ELSE callbacks[d]
  BY <1>2, FreeTypes
<1>4. \A q \in Pair : q # v => Ends(q)' = Ends(q)
  BY DEF Ends
<1>5. \A q \in allocated : q # v => Ends(q) \cap S = {}
  BY <1>2 DEF EndsOwned
<1>6. EndsOwned'
  <2>1. \A q \in Pair : q \notin allocated' => Source'[q] = NoChannel /\ Destiny'[q] = NoChannel
    <3>1. v \notin allocated' => Source'[v] = NoChannel /\ Destiny'[v] = NoChannel
      BY DEF Ends
    <3> QED
      BY <1>1, <3>1 DEF EndsOwned
  <2>2. \A q \in context' : Source'[q] # NoChannel /\ (Destiny'[q] = NoChannel <=> ForwardMode # "ALLOW")
    BY <1>1 DEF EndsOwned
  <2>3. \A q \in allocated' : Source'[q] = Destiny'[q] => Source'[q] = NoChannel
    BY <1>1 DEF EndsOwned
  <2>4. ASSUME NEW q \in allocated', NEW d \in Ends(q)' PROVE callbacks'[d] = q
    <3>1. CASE q = v
      BY <1>2, <1>3, <2>4, <3>1
    <3>2. CASE q # v
      <4>1. d \in Ends(q) /\ d \notin S /\ q \in allocated
        BY <1>1, <1>4, <1>5, <2>4, <3>2
      <4>2. d \in Channel
        BY <1>1, <4>1 DEF Ends, TypeOK
      <4> QED
        BY <1>3, <4>1, <4>2 DEF EndsOwned
    <3> QED
      BY <3>1, <3>2
  <2>5. ASSUME NEW d \in Channel, callbacks'[d] # NoPair
        PROVE  (callbacks[d] \in allocated /\ d \in Ends(callbacks[d]))'
    <3>1. /\ d \notin S /\ callbacks'[d] = callbacks[d]
          /\ callbacks[d] \in allocated /\ d \in Ends(callbacks[d])
      BY <1>3, <2>5 DEF EndsOwned
    <3>2. CASE callbacks[d] = v
      <4>1. d \in Ends(v)' /\ Ends(v)' # {}
        BY <3>1, <3>2
      <4> QED
        BY <3>1, <3>2, <4>1
    <3>3. CASE callbacks[d] # v
      BY <1>1, <1>4, <3>1, <3>3
    <3> QED
      BY <3>2, <3>3
  <2> QED
    BY <2>1, <2>2, <2>3, <2>4, <2>5 DEF EndsOwned
<1>7. ChannelsOwned'
  <2>1. live' = live \ S /\ sentEof' = sentEof \ S
    BY DEF Free
  <2> QED
    BY <1>1, <1>2, <1>3, <2>1 DEF ChannelsOwned, TypeOK
<1>8. eof' = eof \ S /\ gone' = gone \ S /\ sentEof' = sentEof \ S
  BY DEF Free
<1>9. EofPassedOn'
  <2>1. ASSUME NEW q \in context'
        PROVE  /\ q \in context /\ Source'[q] = Source[q] /\ Destiny'[q] = Destiny[q]
               /\ Source[q] \notin S /\ Destiny[q] \notin S
    <3>1. q \in context /\ q # v /\ q \in allocated
      BY <1>1, <2>1
    <3>2. Source[q] \notin S /\ Destiny[q] \notin S
      BY <1>5, <3>1 DEF Ends
    <3> QED
      BY <1>1, <3>1, <3>2
  <2> QED
    BY <1>8, <2>1 DEF EofPassedOn
<1>10. MarkedForCause'
  <2>1. \A q \in (Closed \cap context)' : Ends(q)' \cap (eof \cup gone)' # {}
    BY <1>1, <1>4, <1>5, <1>8 DEF MarkedForCause
  <2> QED
    BY <2>1 DEF MarkedForCause
<1> QED
  BY <1>3, <1>6, <1>7, <1>9, <1>10

\* The closed pair that is found, or the first one left when the pool is drained,
\* leaves the pool and is the one being released.
LEMMA TakeIInv == IInv /\ (Sweep \/ Drain) => IInv'
<1> SUFFICES ASSUME IInv, Sweep \/ Drain PROVE IInv'
  OBVIOUS
<1> USE ForwardAssumption DEF IInv
<1>1. /\ pc \in {"Find", "Drain"} /\ pc' = "FreeSource" /\ context' = context \ {victim'}
      /\ UNCHANGED <<ForwardMode, ForwardPool, phase, index, Count, allocated, Source, Destiny,
                     request, channels>>
  BY DEF Sweep, Drain, MainAt
<1>2. /\ PoolInv' /\ victim' \in Pool!Members /\ Pool!Members' = Pool!Members \ {victim'}
      /\ Closed' = Closed \ {victim'} /\ Used' \in Nat /\ Used > 0
  <2>1. CASE Sweep
    BY <2>1, PoolSweep DEF Sweep
  <2>2. CASE Drain
    BY <2>2, PoolFirst DEF Drain
  <2> QED
    BY <2>1, <2>2
<1>3. victim = NoPair /\ allocated = Pool!Members /\ context = allocated
  <2>1. victim = NoPair /\ NoPair \notin allocated
    BY <1>1 DEF VictimLeft, TypeOK
  <2> QED
    BY <1>1, <2>1 DEF PairsOwned
<1>4. victim' \in Pair /\ victim' # NoPair
  BY <1>2, <1>3 DEF TypeOK
<1>5. TypeOK'
  BY <1>1, <1>2, <1>4 DEF TypeOK, PoolInv, request, channels, remote
<1>6. EndsOwned' /\ ChannelsOwned' /\ EofPassedOn'
  BY <1>1 DEF EndsOwned, ChannelsOwned, EofPassedOn, Ends, request, channels, remote
<1>7. PairsOwned' /\ VictimLeft' /\ DrainAtEnd' /\ SnapshotValid'
  BY <1>1, <1>2, <1>3, <1>4 DEF PairsOwned, VictimLeft, DrainAtEnd, SnapshotValid,
     PoolInv, Pool!TypeOK
<1>8. MarkedForCause'
  BY <1>1, <1>2 DEF MarkedForCause, Ends, request, channels, remote
<1> QED
  BY <1>2, <1>5, <1>6, <1>7, <1>8

\* FwPairRelease() frees both channels and then the pair.
LEMMA FreeIInv == IInv /\ (FreeSource \/ FreeDestiny) => IInv'
<1> SUFFICES ASSUME IInv, FreeSource \/ FreeDestiny PROVE IInv'
  OBVIOUS
<1> USE ForwardAssumption DEF IInv
<1>1. /\ UNCHANGED <<Used, Alloc, Items, ForwardMode, ForwardPool, phase, index, Count, context,
                     request>>
      /\ pc \in {"FreeSource", "FreeDestiny"}
  BY DEF FreeSource, FreeDestiny, MainAt, pool
<1>2. /\ victim \in allocated /\ victim \in Pair /\ victim # NoPair
      /\ context = context \ {victim} /\ allocated = Pool!Members \cup {victim}
      /\ victim \notin Pool!Members
  BY <1>1 DEF VictimLeft, PairsOwned, TypeOK
<1>3. Pool!Members' = Pool!Members
  BY <1>1 DEF Pool!Members
<1>4. CASE FreeSource
  <2>1. /\ Free({Source[victim]} \ {NoChannel}, 1)
        /\ Source' = [Source EXCEPT ![victim] = NoChannel]
        /\ pc = "FreeSource" /\ pc' = "FreeDestiny"
        /\ UNCHANGED <<pool, victim, allocated, Destiny>>
    BY <1>4 DEF FreeSource, MainAt
  <2>2. /\ Source' \in [Pair -> Channel \cup {NoChannel}] /\ Source'[victim] = NoChannel
        /\ \A q \in Pair : q # victim => Source'[q] = Source[q]
    BY <1>2, <2>1 DEF TypeOK
  <2>3. /\ {Source[victim]} \ {NoChannel} \in SUBSET Ends(victim)
        /\ Ends(victim)' = Ends(victim) \ ({Source[victim]} \ {NoChannel})
    BY <1>2, <2>1, <2>2 DEF Ends, EndsOwned
  <2>4. /\ EndsOwned' /\ ChannelsOwned' /\ EofPassedOn' /\ MarkedForCause'
        /\ live' \in SUBSET Channel /\ frees' \in [Channel -> 0..2]
        /\ callbacks' \in [Channel -> Pair \cup {NoPair}]
        /\ eof' \in SUBSET live' /\ gone' \in SUBSET live'
        /\ pending' \in SUBSET live' /\ sentEof' \in SUBSET live'
    <3>1. Destiny' \in [Pair -> Channel \cup {NoChannel}]
      BY <2>1 DEF TypeOK
    <3>2. Closed' \subseteq Closed /\ Closed' \subseteq allocated'
      BY <1>1, <2>1 DEF pool, MarkedForCause
    <3> QED
      BY <1>1, <1>2, <2>1, <2>2, <2>3, <3>1, <3>2, ReleaseEnds DEF request
  <2>5. PoolInv' /\ TypeOK'
    BY <1>1, <2>1, <2>2, <2>4, PoolKept DEF TypeOK, PoolInv, Pool!TypeOK, pool, request
  <2>6. PairsOwned' /\ VictimLeft' /\ DrainAtEnd' /\ SnapshotValid'
    BY <1>1, <1>2, <1>3, <2>1, <2>2 DEF PairsOwned, VictimLeft, DrainAtEnd, SnapshotValid
  <2> QED
    BY <2>4, <2>5, <2>6
<1>5. CASE FreeDestiny
  <2>1. PICK v \in allocated : v = victim
    BY <1>2
  <2>2. /\ Free({Destiny[v]} \ {NoChannel}, 1)
        /\ Destiny' = [Destiny EXCEPT ![v] = NoChannel]
        /\ allocated' = allocated \ {v} /\ Closed' = Closed \ {v}
        /\ victim' = NoPair
        /\ pc = "FreeDestiny" /\ pc' = (IF phase = "over" THEN "Drain" ELSE "Find")
        /\ UNCHANGED Source
    BY <1>5, <2>1 DEF FreeDestiny, MainAt
  <2>3. /\ Destiny' \in [Pair -> Channel \cup {NoChannel}] /\ Destiny'[v] = NoChannel
        /\ \A q \in Pair : q # v => Destiny'[q] = Destiny[q]
        /\ Source[v] = NoChannel /\ v \in Pair /\ context' = context \ {v}
    BY <1>1, <1>2, <2>1, <2>2 DEF TypeOK, VictimLeft
  <2>4. /\ {Destiny[v]} \ {NoChannel} \in SUBSET Ends(v)
        /\ Ends(v)' = Ends(v) \ ({Destiny[v]} \ {NoChannel})
        /\ Ends(v)' = {}
    BY <2>2, <2>3 DEF Ends
  <2>5. /\ EndsOwned' /\ ChannelsOwned' /\ EofPassedOn' /\ MarkedForCause'
        /\ live' \in SUBSET Channel /\ frees' \in [Channel -> 0..2]
        /\ callbacks' \in [Channel -> Pair \cup {NoPair}]
        /\ eof' \in SUBSET live' /\ gone' \in SUBSET live'
        /\ pending' \in SUBSET live' /\ sentEof' \in SUBSET live'
    <3>1. Source' \in [Pair -> Channel \cup {NoChannel}]
      BY <2>2 DEF TypeOK
    <3>2. Closed' \subseteq Closed /\ Closed' \subseteq allocated'
      BY <1>1, <2>2 DEF MarkedForCause
    <3> QED
      BY <1>1, <2>2, <2>3, <2>4, <3>1, <3>2, ReleaseEnds DEF request
  <2>6. PoolInv' /\ TypeOK'
    BY <1>1, <1>2, <2>1, <2>2, <2>3, <2>5, PoolKept DEF TypeOK, PoolInv, Pool!TypeOK, request
  <2>7. PairsOwned' /\ VictimLeft' /\ DrainAtEnd' /\ SnapshotValid'
    BY <1>1, <1>2, <1>3, <2>1, <2>2 DEF PairsOwned, VictimLeft, DrainAtEnd, SnapshotValid, TypeOK
  <2> QED
    BY <2>5, <2>6, <2>7
<1> QED
  BY <1>4, <1>5

\* The invariant holds in every reachable state.
THEOREM Invariance == Spec => []IInv
<1>1. IInv /\ [Next]_vars => IInv'
  BY MoveIInv, PollIInv, OpenIInv, AcceptAndCloseIInv, AcceptForwardIInv, PacketIInv, CrashIInv,
     TakeIInv, FreeIInv DEF Next, MainStep, Finished
<1> QED
  BY <1>1, InitIInv, PTL DEF Spec

-----------------------------------------------------------------------------

\* Every variable of the forwards keeps its type; no channel is freed more often
\* than twice between two allocations.
THEOREM TypeCorrect == Spec => []TypeOK
BY Invariance, PTL DEF IInv

\* A callback finds its pair allocated and, while Context is set, both channels,
\* also when libssh calls it from the sweep or while the pool is drained
\* (proxy.c:1094-1228, fw_pair.c:76-86, fw_pool.c:41-49).
THEOREM CallbacksCorrect == Spec => []CallbacksFindPair
<1>1. IInv => CallbacksFindPair
  <2> SUFFICES ASSUME IInv, NEW c \in live, callbacks[c] # NoPair
               PROVE  /\ callbacks[c] \in allocated
                      /\ Ends(callbacks[c]) \subseteq live
    BY DEF CallbacksFindPair
  <2>1. callbacks[c] \in allocated
    BY DEF IInv, TypeOK, EndsOwned
  <2>2. \A d \in Ends(callbacks[c]) : d \in Channel /\ callbacks[d] # NoPair
    BY <2>1 DEF IInv, EndsOwned, Ends, TypeOK
  <2> QED
    BY <2>1, <2>2 DEF IInv, ChannelsOwned
<1> QED
  BY <1>1, Invariance, PTL

\* Every pair and every channel has one owner until it is freed, and when the pool
\* is gone all are (fw_pool.c:36-58, fw_pair.c:76-86).
THEOREM LeakFree == Spec => []NothingLeaks
<1>1. IInv => NothingLeaks
  <2> SUFFICES ASSUME IInv PROVE NothingLeaks
    OBVIOUS
  <2> USE DEF IInv
  <2>1. ASSUME NEW c \in live PROVE c \in ({opening} \ {NoChannel}) \cup UNION {Ends(p) : p \in allocated}
    BY DEF ChannelsOwned, EndsOwned
  <2>2. ASSUME NEW p \in allocated, NEW c \in Ends(p) PROVE c \in live /\ callbacks[c] = p
    BY ForwardAssumption DEF ChannelsOwned, EndsOwned, Ends, TypeOK
  <2>3. opening # NoChannel => opening \in live
    BY DEF ChannelsOwned
  <2>4. live = ({opening} \ {NoChannel}) \cup UNION {Ends(p) : p \in allocated}
    BY <2>1, <2>2, <2>3
  <2>5. \A p, q \in allocated : p # q => Ends(p) \cap Ends(q) = {}
    BY <2>2
  <2>6. pc \in {"Closing", "Done"} => allocated = {} /\ live = {}
    BY <2>4 DEF DrainAtEnd
  <2> QED
    BY <2>4, <2>5, <2>6 DEF NothingLeaks, PairsOwned
<1> QED
  BY <1>1, Invariance, PTL

\* The entries HandleForwards() counted are still there while it polls them.
THEOREM SnapshotCorrect == Spec => []SnapshotValid
BY Invariance, PTL DEF IInv

\* EOF is passed on to the other end and to no one else (proxy.c:1118-1127, 1209).
THEOREM EofCorrect == Spec => []EofPassedOn
BY Invariance, PTL DEF IInv

-----------------------------------------------------------------------------

\* Whatever a session does is one operation on the pool, used as FwPool assumes,
\* or leaves the pool alone.
LEMMA PoolStep == IInv /\ [Next]_vars => [Pool!Next]_Pool!vars
<1> SUFFICES ASSUME IInv, [Next]_vars PROVE [Pool!Next]_Pool!vars
  OBVIOUS
<1> USE DEF Pool!vars, pool, loop
<1>0. Pool!InBounds
  BY DEF IInv, PoolInv
<1>1. ASSUME NEW c \in Channel, AcceptAndClose(c) PROVE UNCHANGED Pool!vars
  BY <1>1 DEF AcceptAndClose
<1>2. ASSUME NEW c \in Channel, NEW p \in Pair, AcceptForward(c, p) PROVE Pool!Join(p)
  <2>1. p \notin allocated
    BY <1>2 DEF AcceptForward
  <2>2. p \notin Pool!Members \cup Closed
    BY <2>1 DEF IInv, PairsOwned, MarkedForCause
  <2> QED
    BY <1>2, <2>2 DEF Pool!Join, AcceptForward
<1>3. ASSUME NEW c \in Channel, Close(c) PROVE \E p \in Pair : Pool!Mark(p)
  <2>1. callbacks[c] \in Pair /\ Closed' = Closed \cup {callbacks[c]}
    BY <1>3 DEF Close, Heard, IInv, TypeOK
  <2> QED
    BY <1>3, <2>1 DEF Close, Pool!Mark
<1>4. CASE PollSource \/ PollDestiny
  <2>1. pc \in {"PollSource", "PollDestiny"} /\ UNCHANGED <<Used, Alloc, Items, phase>>
    BY <1>4 DEF PollSource, PollDestiny, MainAt, MarkIfEof
  <2>2. Current \in Pair
    BY <2>1 DEF IInv, SnapshotValid, TypeOK, Pool!TypeOK, Current, Pool!FwPoolGet
  <2>3. Closed' = Closed \/ Closed' = Closed \cup {Current}
    BY <1>4 DEF PollSource, PollDestiny, MarkIfEof
  <2>4. UNCHANGED Pool!vars \/ Pool!Mark(Current)
    BY <2>1, <2>3 DEF Pool!Mark
  <2> QED
    BY <1>0, <2>2, <2>4 DEF Pool!Next
<1>5. CASE Sweep
  <2>1. phase # "over" /\ phase' = phase
    BY <1>5 DEF Sweep, MainAt, IInv, DrainAtEnd
  <2> QED
    BY <1>0, <1>5, <2>1 DEF Sweep, Pool!Sweep, Pool!Next
<1>6. CASE FreeDestiny
  <2>1. victim \in Pair /\ victim \notin Pool!Members
    BY <1>6 DEF FreeDestiny, MainAt, IInv, TypeOK, VictimLeft, PairsOwned
  <2>2. Pool!Forget(victim)
    BY <1>6, <2>1 DEF FreeDestiny, Pool!Forget
  <2> QED
    BY <1>0, <2>1, <2>2 DEF Pool!Next
<1>7. CASE Drain
  <2>1. phase = "over" /\ phase' = phase
    BY <1>7 DEF Drain, MainAt, IInv, DrainAtEnd
  <2> QED
    BY <1>0, <1>7, <2>1 DEF Drain, Pool!Drain, Pool!Next
<1>8. CASE Quit
  <2>1. phase # "over" /\ phase' = "over"
    BY <1>8 DEF Quit, MainAt, IInv, DrainAtEnd
  <2> QED
    BY <1>0, <1>8, <2>1 DEF Quit, Pool!FwPoolDone, Pool!Next
<1>9. CASE StartRelay
  <2>1. (phase = "over") = (phase = "over")'
    BY <1>9 DEF StartRelay
  <2> QED
    BY <1>9, <2>1 DEF StartRelay
<1>10. CASE HandleForwards \/ Swept \/ FreeSource \/ Drained \/ SessionClose
  BY <1>10 DEF HandleForwards, Swept, FreeSource, Drained, SessionClose
<1>11. CASE (\E c \in Channel : OpenForward(c)) \/ Confirm \/ Early \/ ForwardRefused \/ ReplyFails
            \/ AcceptCrashes \/ LateRequest
  BY <1>11 DEF OpenForward, Confirm, Early, ForwardRefused, ReplyFails, AcceptCrashes, LateRequest
<1>12. CASE (\E c \in Channel : Data(c) \/ Eof(c)) \/ Finished \/ UNCHANGED vars
  BY <1>12 DEF Data, Eof, Finished, vars
<1>13. Pool!Next \/ UNCHANGED Pool!vars
  BY <1>0, <1>1, <1>2, <1>3, <1>4, <1>5, <1>6, <1>7, <1>8, <1>9, <1>10, <1>11, <1>12
     DEF Next, MainStep, Pool!Next
<1> QED
  BY <1>13

\* A session uses the pool as FwPool assumes: it adds no pair that is in the pool
\* already, and clears no flag of a pair in it.
THEOREM PoolUseCorrect == Spec => PoolUsed
<1>1. Init => Pool!Init
  BY DEF Init
<1> QED
  BY <1>1, PoolStep, Invariance, PTL DEF Spec, PoolUsed, Pool!Spec

\* The pool of a session therefore is a set of pairs from which only marked ones
\* are taken, until it is drained.
THEOREM PoolIsSet == Spec => Pool!ImplementsSet
<1>1. PoolProofs!Spec => PoolProofs!ImplementsSet
  BY PoolAssumed, PoolProofs!SetRefinement
<1>2. Pool!Init => PoolProofs!Init
  BY DEF Pool!Init, PoolProofs!Init
<1>3. [Pool!Next]_Pool!vars => [PoolProofs!Next]_PoolProofs!vars
  BY DEF Pool!Next, PoolProofs!Next, Pool!vars, PoolProofs!vars, Pool!Join,
     PoolProofs!Join, Pool!Mark, PoolProofs!Mark, Pool!Forget, PoolProofs!Forget,
     Pool!Sweep, PoolProofs!Sweep, Pool!FwPoolDone, PoolProofs!FwPoolDone,
     Pool!Drain, PoolProofs!Drain, Pool!RemoveClosed, PoolProofs!RemoveClosed,
     Pool!ReleaseFirst, PoolProofs!ReleaseFirst, Pool!InBounds, PoolProofs!InBounds,
     Pool!Undefined, PoolProofs!Undefined,
     Pool!FwPoolAdd, PoolProofs!FwPoolAdd, Pool!HasRoom, PoolProofs!HasRoom, Pool!Grow,
     PoolProofs!Grow, Pool!GrowFails, PoolProofs!GrowFails, Pool!Append,
     PoolProofs!Append, Pool!FwPoolRemove, PoolProofs!FwPoolRemove,
     Pool!FwPoolFindClosed, PoolProofs!FwPoolFindClosed, Pool!ClosedAt,
     PoolProofs!ClosedAt, Pool!Members, PoolProofs!Members
<1>4. PoolProofs!SetInst!Init => Pool!SetInst!Init
  BY DEF Pool!SetInst!Init, PoolProofs!SetInst!Init, Pool!Members, PoolProofs!Members
<1>5. [PoolProofs!SetInst!Next]_PoolProofs!SetInst!vars => [Pool!SetInst!Next]_Pool!SetInst!vars
  BY DEF Pool!SetInst!Next, PoolProofs!SetInst!Next, Pool!SetInst!vars,
     PoolProofs!SetInst!vars, Pool!SetInst!Join, PoolProofs!SetInst!Join,
     Pool!SetInst!Mark, PoolProofs!SetInst!Mark, Pool!SetInst!Forget,
     PoolProofs!SetInst!Forget, Pool!SetInst!Leave, PoolProofs!SetInst!Leave,
     Pool!SetInst!End, PoolProofs!SetInst!End, Pool!Members, PoolProofs!Members
<1> QED
  BY <1>1, <1>2, <1>3, <1>4, <1>5, PoolUseCorrect, PTL
     DEF PoolUsed, Pool!Spec, PoolProofs!Spec, Pool!ImplementsSet, PoolProofs!ImplementsSet,
         Pool!SetInst!Spec, PoolProofs!SetInst!Spec

\* While the session relays, a pair leaves the pool only because of one of its own
\* ends, however the entries are moved.
THEOREM OpenPairsCorrect == Spec => OpenPairKept
<1> DEFINE Kept == \A p \in Pool!Members : (p \notin Pool!Members' /\ phase' = "relay")
                     => Ends(p) \cap (eof \cup gone) # {}
<1>1. IInv /\ Next => Kept
  <2> SUFFICES ASSUME IInv, Next, NEW p \in Pool!Members, p \notin Pool!Members', phase' = "relay"
               PROVE  Ends(p) \cap (eof \cup gone) # {}
    OBVIOUS
  <2>1. CASE Sweep
    <3>1. p \in Closed
      BY <2>1, PoolSweep DEF Sweep, IInv
    <3>2. p \in context
      BY <2>1 DEF Sweep, MainAt, IInv, PairsOwned, VictimLeft
    <3> QED
      BY <3>1, <3>2 DEF IInv, MarkedForCause
  <2>2. CASE Drain
    BY <2>2 DEF Drain, MainAt, IInv, DrainAtEnd
  <2>3. ASSUME NEW c \in Channel, NEW q \in Pair, AcceptForward(c, q) PROVE FALSE
    <3>1. q \notin Pool!Members
      BY <2>3 DEF AcceptForward, IInv, PairsOwned
    <3>2. Pool!Members' = Pool!Members \cup {q}
      BY <2>3, <3>1, PoolAdd DEF AcceptForward, IInv
    <3> QED
      BY <3>2
  <2>4. CASE UNCHANGED <<Used, Items>>
    BY <2>4 DEF Pool!Members
  <2>5. ASSUME NEW c \in Channel, AcceptAndClose(c) PROVE UNCHANGED <<Used, Items>>
    BY <2>5 DEF AcceptAndClose, pool
  <2>6. CASE \/ StartRelay \/ HandleForwards \/ PollSource \/ PollDestiny \/ Swept \/ FreeSource
             \/ FreeDestiny \/ Quit \/ Drained \/ SessionClose \/ Finished
    BY <2>4, <2>6 DEF StartRelay, HandleForwards, PollSource, PollDestiny, MarkIfEof, Swept,
       FreeSource, FreeDestiny, Quit, Drained, SessionClose, Finished, vars, pool
  <2>7. CASE (\E c \in Channel : OpenForward(c)) \/ Confirm \/ Early \/ ForwardRefused \/ ReplyFails
             \/ AcceptCrashes \/ LateRequest
    BY <2>4, <2>7 DEF OpenForward, Confirm, Early, ForwardRefused, ReplyFails, AcceptCrashes,
       LateRequest, pool
  <2>8. CASE \E c \in Channel : Data(c) \/ Eof(c) \/ Close(c)
    BY <2>4, <2>8 DEF Data, Eof, Close, pool
  <2> QED
    BY <2>1, <2>2, <2>3, <2>4, <2>5, <2>6, <2>7, <2>8 DEF Next, MainStep
<1>2. IInv /\ [Next]_vars => [Kept]_vars
  BY <1>1
<1> QED
  BY <1>2, Invariance, PTL DEF Spec, OpenPairKept

\* No channel is freed twice, but for the one whose forward was refused
\* (proxy.c:356 and 425).
THEOREM FreesCorrect == Spec => FreedOnceUnlessRefused
<1> DEFINE Once == \A c \in Channel : (frees'[c] > 1 /\ frees'[c] # frees[c])
                     => c = opening /\ ~confirmed
<1>1. IInv /\ Next => Once
  <2> SUFFICES ASSUME IInv, Next,
                      NEW c \in Channel, frees'[c] > 1, frees'[c] # frees[c]
               PROVE  c = opening /\ ~confirmed
    OBVIOUS
  <2> USE DEF IInv
  <2>1. frees \in [Channel -> 0..2] /\ (c \in live => frees[c] = 0)
    BY DEF TypeOK, ChannelsOwned
  <2>2. ASSUME NEW S \in SUBSET live, Free(S, 1) PROVE FALSE
    BY <2>1, <2>2 DEF Free
  <2>3. Opened \subseteq live
    BY DEF Opened, ChannelsOwned
  <2>4. CASE ForwardRefused
    <3>1. Free({opening}, 2) /\ ~confirmed
      BY <2>4 DEF ForwardRefused
    <3> QED
      BY <2>1, <3>1 DEF Free
  <2>5. CASE ReplyFails
    BY <2>2, <2>3, <2>5 DEF ReplyFails
  <2>6. ASSUME NEW src \in Channel, AcceptAndClose(src) PROVE FALSE
    <3>1. frees'[c] = IF c = src THEN 1 ELSE IF c = opening THEN frees[c] + 1 ELSE frees[c]
      BY <2>6 DEF AcceptAndClose
    <3>2. c = opening => c \in live
      BY ForwardAssumption DEF ChannelsOwned
    <3> QED
      BY <2>1, <3>1, <3>2
  <2>7. ASSUME NEW dst \in Channel,
               OpenForward(dst) \/ \E p \in Pair : AcceptForward(dst, p)
        PROVE  FALSE
    <3>1. frees' = [frees EXCEPT ![dst] = 0]
      BY <2>7 DEF OpenForward, AcceptForward
    <3> QED
      BY <2>1, <3>1
  <2>8. ASSUME NEW p \in allocated, NEW S \in SUBSET Ends(p) PROVE S \in SUBSET live
    <3>1. \A d \in Ends(p) : d \in Channel /\ callbacks[d] # NoPair
      BY ForwardAssumption DEF EndsOwned, Ends, TypeOK
    <3> QED
      BY <3>1 DEF ChannelsOwned
  <2>9. CASE FreeSource \/ FreeDestiny
    <3>1. victim \in allocated
      BY <2>9 DEF FreeSource, FreeDestiny, MainAt, VictimLeft, PairsOwned
    <3>2. \/ Free({Source[victim]} \ {NoChannel}, 1)
          \/ Free({Destiny[victim]} \ {NoChannel}, 1)
      BY <2>9 DEF FreeSource, FreeDestiny
    <3>3. /\ {Source[victim]} \ {NoChannel} \in SUBSET live
          /\ {Destiny[victim]} \ {NoChannel} \in SUBSET live
      BY <2>8, <3>1 DEF Ends
    <3> QED
      BY <2>2, <3>2, <3>3
  <2>11. CASE \/ StartRelay \/ HandleForwards \/ PollSource \/ PollDestiny \/ Sweep \/ Swept
              \/ Quit \/ Drain \/ Drained \/ SessionClose \/ Finished
    BY <2>11 DEF StartRelay, HandleForwards, PollSource, PollDestiny, Sweep, Swept,
       Quit, Drain, Drained, SessionClose, Finished, vars, channels
  <2>12. CASE \/ Confirm \/ Early \/ AcceptCrashes \/ LateRequest
              \/ \E d \in Channel : Data(d) \/ Eof(d) \/ Close(d)
    BY <2>12 DEF Confirm, Early, AcceptCrashes, LateRequest, Data, Eof, Close, channels
  <2> QED
    BY <2>4, <2>5, <2>6, <2>7, <2>9, <2>11, <2>12 DEF Next, MainStep
<1>2. IInv /\ [Next]_vars => [Once]_vars
  BY <1>1
<1> QED
  BY <1>2, Invariance, PTL DEF Spec, FreedOnceUnlessRefused
=============================================================================
