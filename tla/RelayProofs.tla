----------------------------- MODULE RelayProofs -----------------------------
(***************************************************************************)
(* Proofs about Relay for every mode, every window and every amount of     *)
(* data.  IInv says that what came is, in order, what was written and what *)
(* is still to be, for every stream whose other end can be written to, and *)
(* for one whose end has failed that nothing wrong was written; it follows *)
(* what each nested callback has saved and has in hand.                    *)
(***************************************************************************)
EXTENDS Relay, SequenceTheorems, TLAPS

\* What a callback has written it was offered, and no side gets more than MaxSent.
Lengths ==
  /\ \A s \in Side : Sent(s) <= MaxSent
  /\ \A s \in Side, k \in Stream : Len(buffer[s][k]) <= Len(received[s][k])
  /\ \A i \in DOMAIN callbacks : callbacks[i].n <= Len(Offered(callbacks[i]))

\* While a callback runs, nothing has ended the side it writes to but a failure.
Nesting ==
  /\ \A i \in DOMAIN callbacks : Target(callbacks[i].side) \notin sentEof /\ callbacks[i].side \notin eof
  /\ Running => ~closed /\ Mode # "NULL"
  /\ ~closed => \A s \in sentEof : Relaying /\ Other(s) \in eof

\* The sessions that do not block are those a callback writes to; it has saved
\* that they did.
BlockingSaved ==
  /\ \A i \in DOMAIN callbacks : callbacks[i].Blocking /\ ~blocking[Target(callbacks[i].side)]
  /\ \A t \in Side : ~blocking[t] => \E i \in DOMAIN callbacks : Target(callbacks[i].side) = t

\* What was written is the beginning of what came.
Beginning ==
  \A s \in Side, k \in Stream :
    /\ Len(written[Target(s)][k]) <= Len(received[s][k])
    /\ written[Target(s)][k] = SubSeq(received[s][k], 1, Len(written[Target(s)][k]))

\* The rest of it is still there as long as the other end can take it.
RestKept ==
  Mode # "NULL" =>
    \A s \in Side, k \in Stream : Target(s) \notin gone \cup broken =>
      received[s][k] = written[Target(s)][k] \o Drop(buffer[s][k], InHand(s, k))

IInv ==
  /\ TypeOK
  /\ Lengths
  /\ Nesting
  /\ BlockingSaved
  /\ Beginning
  /\ RestKept

-----------------------------------------------------------------------------
(***************************************************************************)
(* Sequences.                                                              *)
(***************************************************************************)

\* What is left of a sequence after its first n elements.
LEMMA DropProperties ==
  ASSUME NEW S, NEW q \in Seq(S), NEW n \in 0..Len(q)
  PROVE  /\ Drop(q, n) \in Seq(S)
         /\ Len(Drop(q, n)) = Len(q) - n
         /\ \A i \in 1..Len(q)-n : Drop(q, n)[i] = q[n + i]
<1>1. Len(q) \in Nat /\ \A i \in n+1..Len(q) : q[i] \in S
  BY LenProperties, ElementOfSeq
<1>2. /\ SubSeq(q, n+1, Len(q)) \in Seq(S)
      /\ Len(SubSeq(q, n+1, Len(q))) = IF n+1 <= Len(q) THEN Len(q)-(n+1)+1 ELSE 0
      /\ \A i \in 1..Len(q)-(n+1)+1 : SubSeq(q, n+1, Len(q))[i] = q[n+1+i-1]
  BY <1>1, SubSeqProperties
<1> QED
  BY <1>1, <1>2 DEF Drop

\* The first n elements.
LEMMA TakeProperties ==
  ASSUME NEW S, NEW q \in Seq(S), NEW n \in 0..Len(q)
  PROVE  /\ SubSeq(q, 1, n) \in Seq(S)
         /\ Len(SubSeq(q, 1, n)) = n
         /\ \A i \in 1..n : SubSeq(q, 1, n)[i] = q[i]
<1>1. Len(q) \in Nat /\ \A i \in 1..n : q[i] \in S
  BY LenProperties, ElementOfSeq
<1>2. /\ SubSeq(q, 1, n) \in Seq(S)
      /\ Len(SubSeq(q, 1, n)) = IF 1 <= n THEN n-1+1 ELSE 0
      /\ \A i \in 1..n-1+1 : SubSeq(q, 1, n)[i] = q[1+i-1]
  BY <1>1, SubSeqProperties
<1> QED
  BY <1>1, <1>2

\* What is left is its first m elements and what is left after those.
LEMMA DropSplit ==
  ASSUME NEW S, NEW q \in Seq(S), NEW n \in 0..Len(q), NEW m \in 1..Len(q)-n
  PROVE  Drop(q, n) = SubSeq(Drop(q, n), 1, m) \o Drop(q, n + m)
<1>1. Len(q) \in Nat /\ n \in Nat /\ m \in Nat /\ 1 <= m /\ n + m <= Len(q)
  BY LenProperties
<1>2. SubSeq(SubSeq(q, n+1, Len(q)), 1, m) = SubSeq(q, n+1+1-1, n+1+m-1)
  <2>1. n+1 \in 1..Len(q) /\ Len(q) \in 1..Len(q) /\ 1 \in 1..Len(q)-(n+1)+1 /\ m \in 1..Len(q)-(n+1)+1
    BY <1>1
  <2> QED
    BY <2>1, SubSeqOfSubSeq
<1>3. n+1+1-1 = n+1 /\ n+1+m-1 = n+m
  BY <1>1
<1>4. SubSeq(q, n+1, n+m) \o SubSeq(q, n+m+1, Len(q)) = SubSeq(q, n+1, Len(q))
  <2>1. n+1 \in 1..Len(q)+1 /\ n+m \in n+1-1..Len(q) /\ Len(q) \in n+m..Len(q)
    BY <1>1
  <2> QED
    BY <2>1, ConcatAdjacentSubSeq
<1> QED
  BY <1>2, <1>3, <1>4 DEF Drop

\* Nothing is left out when nothing is dropped.
LEMMA DropNone ==
  ASSUME NEW S, NEW q \in Seq(S)
  PROVE  Drop(q, 0) = q
BY SubSeqFull, LenProperties DEF Drop

\* A sequence begins with what it was put together from.
LEMMA ConcatBegins ==
  ASSUME NEW S, NEW r \in Seq(S), NEW w \in Seq(S), NEW d \in Seq(S), r = w \o d
  PROVE  Len(w) <= Len(r) /\ w = SubSeq(r, 1, Len(w))
<1>1. /\ Len(w) \in Nat /\ Len(d) \in Nat /\ Len(r) = Len(w) + Len(d)
      /\ \A i \in 1..Len(w) : r[i] = w[i]
  BY LenProperties, ConcatProperties
<1>2. /\ SubSeq(r, 1, Len(w)) \in Seq(S) /\ Len(SubSeq(r, 1, Len(w))) = Len(w)
      /\ \A i \in 1..Len(w) : SubSeq(r, 1, Len(w))[i] = r[i]
  BY <1>1, TakeProperties
<1> QED
  BY <1>1, <1>2, SeqEqual

\* A beginning stays a beginning when more comes.
LEMMA BeginsStill ==
  ASSUME NEW S, NEW r \in Seq(S), NEW e \in Seq(S), NEW n \in 0..Len(r)
  PROVE  SubSeq(r \o e, 1, n) = SubSeq(r, 1, n) /\ n <= Len(r \o e)
<1>1. /\ Len(r) \in Nat /\ Len(e) \in Nat
      /\ r \o e \in Seq(S) /\ Len(r \o e) = Len(r) + Len(e)
      /\ \A i \in 1..Len(r) : (r \o e)[i] = r[i]
  BY LenProperties, ConcatProperties
<1>2. /\ SubSeq(r, 1, n) \in Seq(S) /\ Len(SubSeq(r, 1, n)) = n
      /\ \A i \in 1..n : SubSeq(r, 1, n)[i] = r[i]
  BY TakeProperties
<1>3. /\ SubSeq(r \o e, 1, n) \in Seq(S) /\ Len(SubSeq(r \o e, 1, n)) = n
      /\ \A i \in 1..n : SubSeq(r \o e, 1, n)[i] = (r \o e)[i]
  BY <1>1, TakeProperties
<1> QED
  BY <1>1, <1>2, <1>3, SeqEqual

-----------------------------------------------------------------------------
(***************************************************************************)
(* What the callbacks have in hand.                                        *)
(***************************************************************************)

\* No two of the callbacks C are of the same side.
OnePerSide(C) == \A i, j \in DOMAIN C : C[i].side = C[j].side => i = j

\* A stream a callback works on has in hand what that has written, others nothing.
LEMMA HandIs ==
  ASSUME NEW C, OnePerSide(C), NEW s, NEW k
  PROVE  /\ \A i \in DOMAIN C : C[i].side = s /\ C[i].stream = k => Hand(C, s, k) = C[i].n
         /\ (\A i \in DOMAIN C : ~(C[i].side = s /\ C[i].stream = k)) => Hand(C, s, k) = 0
<1> DEFINE I == {i \in DOMAIN C : C[i].side = s /\ C[i].stream = k}
<1>1. \A i, j \in I : i = j
  BY DEF OnePerSide
<1>2. Hand(C, s, k) = IF I = {} THEN 0 ELSE C[CHOOSE i \in I : TRUE].n
  BY DEF Hand
<1>3. ASSUME NEW i \in I PROVE Hand(C, s, k) = C[i].n
  <2>1. (CHOOSE j \in I : TRUE) \in I
    BY <1>3
  <2>2. (CHOOSE j \in I : TRUE) = i
    BY <1>1, <1>3, <2>1
  <2> QED
    BY <1>2, <1>3, <2>2
<1> QED
  BY <1>2, <1>3

\* A callback that starts has nothing in hand.
LEMMA HandPush ==
  ASSUME NEW C \in Seq(Calls), OnePerSide(C), NEW c \in Calls, c.n = 0,
         \A i \in DOMAIN C : C[i].side # c.side
  PROVE  LET D == Append(C, c)
         IN  /\ D \in Seq(Calls)
             /\ \A i \in DOMAIN D : (i \in DOMAIN C /\ D[i] = C[i]) \/ D[i] = c
             /\ \A i \in DOMAIN C : i \in DOMAIN D /\ D[i] = C[i]
             /\ \E i \in DOMAIN D : D[i] = c
             /\ OnePerSide(D)
             /\ \A s, k : Hand(D, s, k) = Hand(C, s, k)
<1> DEFINE D == Append(C, c)
<1>1. /\ D \in Seq(Calls) /\ DOMAIN C = 1..Len(C) /\ DOMAIN D = 1..Len(C)+1 /\ Len(C) \in Nat
      /\ \A i \in 1..Len(C) : D[i] = C[i]
      /\ D[Len(C)+1] = c
  BY AppendProperties, LenProperties
<1> HIDE DEF D
<1>2. \A i \in DOMAIN D : (i \in DOMAIN C /\ D[i] = C[i]) \/ (i = Len(C)+1 /\ D[i] = c)
  BY <1>1
<1>3. \A i \in DOMAIN C : i \in DOMAIN D /\ D[i] = C[i]
  BY <1>1
<1>4. OnePerSide(D)
  BY <1>2 DEF OnePerSide
<1>5. ASSUME NEW s, NEW k PROVE Hand(D, s, k) = Hand(C, s, k)
  <2>1. CASE \E i \in DOMAIN C : C[i].side = s /\ C[i].stream = k
    <3>1. PICK i \in DOMAIN C : C[i].side = s /\ C[i].stream = k
      BY <2>1
    <3>2. Hand(C, s, k) = C[i].n
      BY <3>1, HandIs
    <3>3. Hand(D, s, k) = D[i].n
      BY <1>3, <1>4, <3>1, HandIs
    <3> QED
      BY <1>3, <3>2, <3>3
  <2>2. CASE \A i \in DOMAIN C : ~(C[i].side = s /\ C[i].stream = k)
    <3>1. Hand(C, s, k) = 0
      BY <2>2, HandIs
    <3>2. CASE c.side = s /\ c.stream = k
      BY <1>1, <1>4, <3>1, <3>2, HandIs
    <3>3. CASE ~(c.side = s /\ c.stream = k)
      <4>1. \A i \in DOMAIN D : ~(D[i].side = s /\ D[i].stream = k)
        BY <1>2, <2>2, <3>3
      <4> QED
        BY <1>4, <3>1, <4>1, HandIs
    <3> QED
      BY <3>2, <3>3
  <2> QED
    BY <2>1, <2>2
<1>6. Len(C)+1 \in DOMAIN D
  BY <1>1
<1> QED
  BY <1>1, <1>2, <1>3, <1>4, <1>5, <1>6 DEF D

\* Only the innermost callback writes.
LEMMA HandWrites ==
  ASSUME NEW C \in Seq(Calls), OnePerSide(C), C # <<>>, NEW m \in Nat
  PROVE  LET top == C[Len(C)]
             D == [C EXCEPT ![Len(C)].n = @ + m]
         IN  /\ DOMAIN D = DOMAIN C
             /\ \A i \in DOMAIN C : /\ D[i].side = C[i].side /\ D[i].stream = C[i].stream
                                    /\ D[i].Blocking = C[i].Blocking
                                    /\ i # Len(C) => D[i].n = C[i].n
             /\ D[Len(C)].n = top.n + m
             /\ top.n + m \in 0..MaxSent => D \in Seq(Calls)
             /\ OnePerSide(D)
             /\ Hand(D, top.side, top.stream) = top.n + m
             /\ \A s, k : s # top.side \/ k # top.stream => Hand(D, s, k) = Hand(C, s, k)
<1> DEFINE top == C[Len(C)]
           D == [C EXCEPT ![Len(C)].n = @ + m]
<1>1. DOMAIN C = 1..Len(C) /\ Len(C) \in DOMAIN C /\ top \in Calls
  BY LenProperties, EmptySeq, ElementOfSeq
<1>2. /\ DOMAIN D = DOMAIN C
      /\ \A i \in DOMAIN C : /\ D[i].side = C[i].side /\ D[i].stream = C[i].stream
                             /\ D[i].Blocking = C[i].Blocking
                             /\ i # Len(C) => D[i].n = C[i].n
      /\ D[Len(C)].n = top.n + m
  <2>1. \A i \in DOMAIN C : D[i] = IF i = Len(C) THEN [top EXCEPT !.n = @ + m] ELSE C[i]
    BY <1>1
  <2>2. \A i \in DOMAIN C : C[i] \in Calls
    BY <1>1, ElementOfSeq
  <2> QED
    BY <1>1, <2>1, <2>2 DEF Calls
<1> HIDE DEF D
<1>3. OnePerSide(D)
  BY <1>2 DEF OnePerSide
<1>4. Hand(D, top.side, top.stream) = top.n + m
  BY <1>1, <1>2, <1>3, HandIs
<1>5. ASSUME NEW s, NEW k, s # top.side \/ k # top.stream
      PROVE  Hand(D, s, k) = Hand(C, s, k)
  <2>1. CASE \E i \in DOMAIN C : C[i].side = s /\ C[i].stream = k
    <3>1. PICK i \in DOMAIN C : C[i].side = s /\ C[i].stream = k
      BY <2>1
    <3>2. Hand(C, s, k) = C[i].n /\ Hand(D, s, k) = D[i].n
      BY <1>2, <1>3, <3>1, HandIs
    <3> QED
      BY <1>2, <1>5, <3>1, <3>2
  <2>2. CASE \A i \in DOMAIN C : ~(C[i].side = s /\ C[i].stream = k)
    BY <1>2, <1>3, <2>2, HandIs
  <2> QED
    BY <2>1, <2>2
<1>6. ASSUME top.n + m \in 0..MaxSent PROVE D \in Seq(Calls)
  <2>1. [top EXCEPT !.n = @ + m] \in Calls
    BY <1>1, <1>6 DEF Calls
  <2> DEFINE f == [top EXCEPT !.n = @ + m]
  <2>2. D = [C EXCEPT ![Len(C)] = f]
    BY DEF D
  <2> HIDE DEF f
  <2> QED
    BY <1>1, <2>1, <2>2, ExceptSeq DEF f
<1> QED
  BY <1>1, <1>2, <1>3, <1>4, <1>5, <1>6 DEF D

\* A callback that returns has nothing in hand any more.
LEMMA HandPop ==
  ASSUME NEW C \in Seq(Calls), OnePerSide(C), C # <<>>
  PROVE  LET top == C[Len(C)]
             D == SubSeq(C, 1, Len(C) - 1)
         IN  /\ D \in Seq(Calls)
             /\ DOMAIN D = DOMAIN C \ {Len(C)}
             /\ \A i \in DOMAIN D : D[i] = C[i] /\ D[i].side # top.side
             /\ OnePerSide(D)
             /\ \A k : Hand(D, top.side, k) = 0
             /\ \A s, k : s # top.side => Hand(D, s, k) = Hand(C, s, k)
<1> DEFINE top == C[Len(C)]
           D == SubSeq(C, 1, Len(C) - 1)
<1>1. DOMAIN C = 1..Len(C) /\ Len(C) \in DOMAIN C /\ Len(C) \in Nat \ {0}
  BY LenProperties, EmptySeq
<1>2. /\ D \in Seq(Calls) /\ Len(D) = Len(C) - 1
      /\ \A i \in 1..Len(C)-1 : D[i] = C[i]
  <2>1. Len(C) - 1 \in 0..Len(C)
    BY <1>1
  <2> QED
    BY <2>1, TakeProperties
<1> HIDE DEF D
<1>3. DOMAIN D = DOMAIN C \ {Len(C)}
  <2>1. DOMAIN D = 1..Len(D)
    BY <1>2, LenProperties
  <2> QED
    BY <1>1, <1>2, <2>1
<1>4. \A i \in DOMAIN D : i \in DOMAIN C /\ i # Len(C) /\ D[i] = C[i]
  <2>1. \A L \in Nat \ {0} : \A i \in (1..L) \ {L} : i \in 1..L-1
    OBVIOUS
  <2> QED
    BY <1>1, <1>2, <1>3, <2>1
<1>5. \A i \in DOMAIN D : D[i].side # top.side
  BY <1>1, <1>4 DEF OnePerSide
<1>6. OnePerSide(D)
  BY <1>4 DEF OnePerSide
<1>7. \A k : Hand(D, top.side, k) = 0
  BY <1>5, <1>6, HandIs
<1>8. ASSUME NEW s, NEW k, s # top.side
      PROVE  Hand(D, s, k) = Hand(C, s, k)
  <2>1. CASE \E i \in DOMAIN C : C[i].side = s /\ C[i].stream = k
    <3>1. PICK i \in DOMAIN C : C[i].side = s /\ C[i].stream = k
      BY <2>1
    <3>2. i \in DOMAIN D /\ D[i] = C[i]
      BY <1>3, <1>4, <1>8, <3>1
    <3>3. Hand(C, s, k) = C[i].n
      BY <3>1, HandIs
    <3>4. Hand(D, s, k) = D[i].n
      BY <1>6, <3>1, <3>2, HandIs
    <3> QED
      BY <3>2, <3>3, <3>4
  <2>2. CASE \A i \in DOMAIN C : ~(C[i].side = s /\ C[i].stream = k)
    <3>1. \A i \in DOMAIN D : ~(D[i].side = s /\ D[i].stream = k)
      BY <1>4, <2>2
    <3> QED
      BY <1>6, <2>2, <3>1, HandIs
  <2> QED
    BY <2>1, <2>2
<1> QED
  BY <1>2, <1>3, <1>4, <1>5, <1>6, <1>7, <1>8 DEF D

-----------------------------------------------------------------------------
(***************************************************************************)
(* The invariant holds in the initial states.                              *)
(***************************************************************************)

\* The two sides never write to the same side.
LEMMA Targets ==
  /\ \A s \in Side : Other(s) \in Side /\ Other(s) # s /\ Other(Other(s)) = s /\ Target(s) \in Side
  /\ \A s, t \in Side : Target(s) = Target(t) => s = t
  /\ \A t \in Side : \E s \in Side : Target(s) = t
  /\ Relaying => \A s \in Side : Target(s) = Other(s)
BY DEF Side, Target, Other, Relaying

\* The types of single streams, and the numbers that count them.
LEMMA Streams ==
  ASSUME TypeOK
  PROVE  /\ received \in [Side -> [Stream -> Units]]
         /\ buffer \in [Side -> [Stream -> Units]]
         /\ written \in [Side -> [Stream -> Units]]
         /\ \A s \in Side, k \in Stream :
              /\ received[s][k] \in Units /\ Len(received[s][k]) \in Nat
              /\ buffer[s][k] \in Units /\ Len(buffer[s][k]) \in Nat
              /\ written[s][k] \in Units /\ Len(written[s][k]) \in Nat
         /\ \A s \in Side : Sent(s) \in Nat
         /\ \A s \in Side, k \in Stream : Len(received[s][k]) <= Sent(s)
         /\ OnePerSide(callbacks)
<1>1. received \in [Side -> [Stream -> Units]]
  BY DEF TypeOK
<1>2. buffer \in [Side -> [Stream -> Units]]
  BY DEF TypeOK
<1>3. written \in [Side -> [Stream -> Units]]
  BY DEF TypeOK
<1>4. \A q \in Units : Len(q) \in Nat
  BY LenProperties DEF Units
<1>5. \A s \in Side, k \in Stream :
        /\ received[s][k] \in Units /\ buffer[s][k] \in Units /\ written[s][k] \in Units
  BY <1>1, <1>2, <1>3
<1>6. ASSUME NEW s \in Side
      PROVE  Sent(s) \in Nat /\ \A k \in Stream : Len(received[s][k]) <= Sent(s)
  <2>1. Len(received[s]["stdout"]) \in Nat /\ Len(received[s]["stderr"]) \in Nat
    BY <1>4, <1>5 DEF Stream
  <2>2. \A a, b \in Nat : a + b \in Nat /\ a <= a + b /\ b <= a + b
    OBVIOUS
  <2>3. /\ Sent(s) \in Nat
        /\ Len(received[s]["stdout"]) <= Sent(s) /\ Len(received[s]["stderr"]) <= Sent(s)
    BY <2>1, <2>2, Zenon DEF Sent
  <2> QED
    BY <2>3 DEF Stream
<1>7. OnePerSide(callbacks)
  BY DEF TypeOK, OnePerSide
<1> QED
  BY <1>1, <1>2, <1>3, <1>4, <1>5, <1>6, <1>7

\* The types of the callbacks that are running.
LEMMA Sides ==
  ASSUME TypeOK
  PROVE  /\ \A i \in DOMAIN callbacks : callbacks[i] \in Calls
         /\ \A i \in DOMAIN callbacks : callbacks[i].side \in Side /\ callbacks[i].stream \in Stream
         /\ Running => Len(callbacks) \in DOMAIN callbacks
<1>1. callbacks \in Seq(Calls)
  BY DEF TypeOK
<1>2. DOMAIN callbacks = 1..Len(callbacks) /\ Len(callbacks) \in Nat
  BY <1>1, LenProperties
<1>3. \A i \in DOMAIN callbacks : callbacks[i] \in Calls
  BY <1>1, <1>2, ElementOfSeq
<1>4. \A c \in Calls : c.side \in Side /\ c.stream \in Stream
  BY DEF Calls
<1>5. Running => Len(callbacks) \in DOMAIN callbacks
  BY <1>1, <1>2, EmptySeq DEF Running
<1> QED
  BY <1>3, <1>4, <1>5

\* Nothing has come, nothing is written, and no callback runs.
LEMMA InitIInv == Init => IInv
<1> SUFFICES ASSUME Init PROVE IInv
  OBVIOUS
<1>1. <<>> \in Units /\ Len(<<>>) = 0
  BY EmptySeq DEF Units
<1>2. Empty \in [Side -> [Stream -> Units]] /\ \A s \in Side, k \in Stream : Empty[s][k] = <<>>
  BY <1>1 DEF Empty
<1>3. callbacks = <<>> /\ callbacks \in Seq(Calls) /\ DOMAIN callbacks = {}
  BY EmptySeq, LenProperties DEF Init
<1>4. TypeOK
  <2>1. received = Empty /\ buffer = Empty /\ written = Empty
    BY DEF Init
  <2>2. window \in [Side -> 0..MaxWindow]
    BY RelayAssumption DEF Init
  <2>3. blocking \in [Side -> BOOLEAN]
    BY DEF Init
  <2>4. /\ Mode \in Modes /\ closed \in BOOLEAN
        /\ eof \subseteq Side /\ sentEof \subseteq Side /\ gone \subseteq Side /\ broken \subseteq Side
    BY DEF Init
  <2> QED
    BY <1>2, <1>3, <2>1, <2>2, <2>3, <2>4 DEF TypeOK
<1>5. \A s \in Side, k \in Stream : received[s][k] = <<>> /\ buffer[s][k] = <<>> /\ written[s][k] = <<>>
  BY <1>2 DEF Init
<1>6. Lengths
  <2>1. \A s \in Side : received[s]["stdout"] = <<>> /\ received[s]["stderr"] = <<>>
    BY <1>5 DEF Stream
  <2>2. \A s \in Side : Sent(s) = Len(<<>>) + Len(<<>>)
    BY <2>1, Zenon DEF Sent
  <2> QED
    BY <1>1, <1>3, <1>5, <2>2, RelayAssumption DEF Lengths
<1>7. Nesting /\ BlockingSaved
  BY <1>3 DEF Nesting, BlockingSaved, Running, Init
<1>8. <<>> = SubSeq(<<>>, 1, Len(<<>>)) /\ Len(<<>>) <= Len(<<>>)
  BY <1>1, SubSeqEmpty
<1>9. Beginning
  BY <1>1, <1>5, <1>8, Targets DEF Beginning
<1>10. RestKept
  <2>1. \A s, k : InHand(s, k) = 0
    BY <1>3 DEF InHand, Hand
  <2>2. Drop(<<>>, 0) = <<>> /\ <<>> \o <<>> = <<>>
    BY <1>1, DropNone, ConcatEmptySeq DEF Units
  <2> QED
    BY <1>5, <2>1, <2>2, Targets DEF RestKept
<1> QED
  BY <1>4, <1>6, <1>7, <1>9, <1>10 DEF IInv

-----------------------------------------------------------------------------
(***************************************************************************)
(* What comes in.                                                          *)
(***************************************************************************)

\* One stream of one side is replaced, the others stay.
LEMMA PutIn ==
  ASSUME NEW b \in [Side -> [Stream -> Units]], NEW s \in Side, NEW k \in Stream, NEW q \in Units
  PROVE  /\ [b EXCEPT ![s][k] = q] \in [Side -> [Stream -> Units]]
         /\ [b EXCEPT ![s][k] = q][s][k] = q
         /\ \A t \in Side, l \in Stream : t # s \/ l # k => [b EXCEPT ![s][k] = q][t][l] = b[t][l]
OBVIOUS

\* The n units that a packet brings for side s.
Incoming(s, n) == [i \in 1..n |-> Sent(s) + i]

\* They are numbered on from those that have come.
LEMMA IncomingUnits ==
  ASSUME TypeOK, NEW s \in Side, NEW n \in 1..MaxSent, Sent(s) + n <= MaxSent
  PROVE  Incoming(s, n) \in Units /\ Len(Incoming(s, n)) = n
<1>1. Sent(s) \in Nat /\ MaxSent \in Nat /\ n \in Nat
  BY Streams, RelayAssumption
<1>2. \A i \in 1..n : Sent(s) + i \in 1..MaxSent
  BY <1>1
<1>3. Incoming(s, n) \in [1..n -> 1..MaxSent]
  BY <1>2 DEF Incoming
<1>4. Incoming(s, n) \in Seq(1..MaxSent)
  BY <1>1, <1>3, SeqDef
<1> QED
  BY <1>1, <1>3, <1>4, LenProperties DEF Units

\* A packet adds to one stream of one side; what was written stays the beginning
\* of what has come, and no side gets more than MaxSent.
LEMMA Arrives ==
  ASSUME IInv, NEW s \in Side, NEW k \in Stream, NEW n \in 1..MaxSent, Sent(s) + n <= MaxSent,
         received' = [received EXCEPT ![s][k] = @ \o Incoming(s, n)],
         UNCHANGED <<Mode, written>>
  PROVE  /\ received' \in [Side -> [Stream -> Units]]
         /\ received'[s][k] = received[s][k] \o Incoming(s, n)
         /\ Len(received'[s][k]) = Len(received[s][k]) + n
         /\ \A t \in Side, l \in Stream : t # s \/ l # k => received'[t][l] = received[t][l]
         /\ \A t \in Side : Sent(t)' <= MaxSent
         /\ Beginning'
<1> DEFINE e == Incoming(s, n)
           q == received[s][k] \o e
<1>1. /\ received \in [Side -> [Stream -> Units]] /\ received[s][k] \in Units
      /\ e \in Units /\ Len(e) = n /\ n \in Nat /\ Len(received[s][k]) \in Nat
  BY Streams, IncomingUnits DEF IInv
<1> HIDE DEF e
<1>2. q \in Units /\ Len(q) = Len(received[s][k]) + n
  BY <1>1, ConcatProperties DEF Units
<1>3. received' = [received EXCEPT ![s][k] = q]
  BY DEF e
<1> HIDE DEF q
<1>4. /\ received' \in [Side -> [Stream -> Units]]
      /\ received'[s][k] = q
      /\ \A t \in Side, l \in Stream : t # s \/ l # k => received'[t][l] = received[t][l]
  <2> DEFINE d == [received EXCEPT ![s][k] = q]
  <2>1. /\ d \in [Side -> [Stream -> Units]]
        /\ d[s][k] = q
        /\ \A t \in Side, l \in Stream : t # s \/ l # k => d[t][l] = received[t][l]
    BY <1>1, <1>2, PutIn
  <2> HIDE DEF d
  <2>2. received' = d
    BY <1>3 DEF d
  <2> QED
    BY <2>1, <2>2
<1>5. ASSUME NEW t \in Side PROVE Sent(t)' <= MaxSent
  <2>1. Sent(t)' = Len(received'[t]["stdout"]) + Len(received'[t]["stderr"])
    BY Zenon DEF Sent
  <2>2. Sent(t) = Len(received[t]["stdout"]) + Len(received[t]["stderr"])
    BY Zenon DEF Sent
  <2>3. Sent(t) <= MaxSent
    BY DEF IInv, Lengths
  <2>4. /\ "stdout" \in Stream /\ "stderr" \in Stream /\ k \in {"stdout", "stderr"}
        /\ "stdout" # "stderr"
    BY DEF Stream
  <2>5. Len(received[t]["stdout"]) \in Nat /\ Len(received[t]["stderr"]) \in Nat
    BY <2>4, Streams DEF IInv
  <2>6. CASE t # s
    <3>1. received'[t]["stdout"] = received[t]["stdout"] /\ received'[t]["stderr"] = received[t]["stderr"]
      BY <1>4, <2>4, <2>6
    <3> QED
      BY <2>1, <2>2, <2>3, <3>1, Zenon
  <2>7. CASE t = s /\ k = "stdout"
    <3>1. /\ Len(received'[t]["stdout"]) = Len(received[t]["stdout"]) + n
          /\ received'[t]["stderr"] = received[t]["stderr"]
      BY <1>2, <1>4, <2>4, <2>7
    <3>2. \A a, b \in Nat : (a + n) + b = (a + b) + n
      BY <1>1
    <3>3. Sent(t)' = Sent(s) + n
      BY <2>1, <2>2, <2>5, <2>7, <3>1, <3>2, Zenon
    <3> QED
      BY <3>3
  <2>8. CASE t = s /\ k = "stderr"
    <3>1. /\ Len(received'[t]["stderr"]) = Len(received[t]["stderr"]) + n
          /\ received'[t]["stdout"] = received[t]["stdout"]
      BY <1>2, <1>4, <2>4, <2>8
    <3>2. \A a, b \in Nat : a + (b + n) = (a + b) + n
      BY <1>1
    <3>3. Sent(t)' = Sent(s) + n
      BY <2>1, <2>2, <2>5, <2>8, <3>1, <3>2, Zenon
    <3> QED
      BY <3>3
  <2> QED
    BY <2>4, <2>6, <2>7, <2>8
<1>6. Beginning'
  <2> SUFFICES ASSUME NEW t \in Side, NEW l \in Stream
               PROVE  /\ Len(written[Target(t)][l]) <= Len(received'[t][l])
                      /\ written[Target(t)][l] = SubSeq(received'[t][l], 1, Len(written[Target(t)][l]))
    BY DEF Beginning, Target
  <2> DEFINE w == written[Target(t)][l]
  <2>1. /\ Len(w) <= Len(received[t][l])
        /\ w = SubSeq(received[t][l], 1, Len(w))
        /\ Len(w) \in Nat
    BY Targets, Streams DEF IInv, Beginning
  <2> HIDE DEF w
  <2>2. CASE t = s /\ l = k
    <3>1. Len(w) \in 0..Len(received[s][k])
      BY <1>1, <2>1, <2>2
    <3>2. SubSeq(q, 1, Len(w)) = SubSeq(received[s][k], 1, Len(w)) /\ Len(w) <= Len(q)
      BY <1>1, <3>1, BeginsStill DEF q, Units
    <3> QED
      BY <1>4, <2>1, <2>2, <3>2 DEF w
  <2>3. CASE t # s \/ l # k
    BY <1>4, <2>1, <2>3 DEF w
  <2> QED
    BY <2>2, <2>3
<1> QED
  BY <1>2, <1>4, <1>5, <1>6 DEF q, e

\* A data callback starts.
LEMMA DataKeeps ==
  ASSUME IInv, NEW s \in Side, NEW k \in Stream, NEW n \in 1..MaxSent, Data(s, k, n)
  PROVE  IInv'
<1> DEFINE c == [side |-> s, stream |-> k, n |-> 0, Blocking |-> blocking[Target(s)]]
           e == Incoming(s, n)
<1>1. /\ ~closed /\ Mode # "NULL" /\ s \notin eof
      /\ \A i \in DOMAIN callbacks : callbacks[i].side # s
      /\ Sent(s) + n <= MaxSent
      /\ received' = [received EXCEPT ![s][k] = @ \o Incoming(s, n)]
      /\ buffer' = [buffer EXCEPT ![s][k] = @ \o Incoming(s, n)]
      /\ callbacks' = Append(callbacks, c)
      /\ blocking' = [blocking EXCEPT ![Target(s)] = FALSE]
      /\ UNCHANGED <<Mode, written, window, eof, sentEof, gone, broken, closed>>
  BY DEF Data, Packet, Handles, Incoming, ends
<1>2. /\ received' \in [Side -> [Stream -> Units]]
      /\ received'[s][k] = received[s][k] \o e
      /\ Len(received'[s][k]) = Len(received[s][k]) + n
      /\ \A t \in Side, l \in Stream : t # s \/ l # k => received'[t][l] = received[t][l]
      /\ \A t \in Side : Sent(t)' <= MaxSent
      /\ Beginning'
  BY <1>1, Arrives
<1>3. e \in Units /\ Len(e) = n /\ n \in Nat
  BY <1>1, IncomingUnits DEF IInv
<1> HIDE DEF e
<1>4. /\ buffer' \in [Side -> [Stream -> Units]]
      /\ buffer'[s][k] = buffer[s][k] \o e
      /\ Len(buffer'[s][k]) = Len(buffer[s][k]) + n
      /\ \A t \in Side, l \in Stream : t # s \/ l # k => buffer'[t][l] = buffer[t][l]
  <2> DEFINE q == buffer[s][k] \o e
  <2>1. buffer \in [Side -> [Stream -> Units]] /\ buffer[s][k] \in Units
    BY Streams DEF IInv
  <2>2. q \in Units /\ Len(q) = Len(buffer[s][k]) + n
    BY <1>3, <2>1, ConcatProperties DEF Units
  <2>3. buffer' = [buffer EXCEPT ![s][k] = q]
    BY <1>1 DEF e
  <2> HIDE DEF q
  <2>4. /\ buffer' \in [Side -> [Stream -> Units]]
        /\ buffer'[s][k] = q
        /\ \A t \in Side, l \in Stream : t # s \/ l # k => buffer'[t][l] = buffer[t][l]
    BY <2>1, <2>2, <2>3
  <2> QED
    BY <2>2, <2>4 DEF q
<1>5. /\ Target(s) \in Side /\ blocking \in [Side -> BOOLEAN] /\ blocking[Target(s)]
      /\ \A t \in Side : Target(t)' = Target(t)
  <2>1. Target(s) \in Side /\ \A t \in Side : Target(t) = Target(s) => t = s
    BY Targets
  <2>2. \A i \in DOMAIN callbacks : callbacks[i].side \in Side
    BY Sides DEF IInv
  <2>3. blocking \in [Side -> BOOLEAN] /\ blocking[Target(s)]
    BY <1>1, <2>1, <2>2 DEF IInv, TypeOK, BlockingSaved
  <2>4. \A t \in Side : Target(t)' = Target(t)
    BY <1>1 DEF Target
  <2> QED
    BY <2>1, <2>3, <2>4
<1>6. c \in Calls /\ c.n = 0 /\ c.side = s /\ c.stream = k /\ c.Blocking
  BY <1>5, RelayAssumption DEF Calls
<1> HIDE DEF c
<1>7. callbacks \in Seq(Calls) /\ OnePerSide(callbacks)
  BY Streams DEF IInv, TypeOK
<1>8. /\ callbacks' \in Seq(Calls)
      /\ \A i \in DOMAIN callbacks' :
           (i \in DOMAIN callbacks /\ callbacks'[i] = callbacks[i]) \/ callbacks'[i] = c
      /\ \A i \in DOMAIN callbacks : i \in DOMAIN callbacks' /\ callbacks'[i] = callbacks[i]
      /\ \E i \in DOMAIN callbacks' : callbacks'[i] = c
      /\ OnePerSide(callbacks')
      /\ \A t, l : Hand(callbacks', t, l) = Hand(callbacks, t, l)
  <2> DEFINE D == Append(callbacks, c)
  <2>1. /\ D \in Seq(Calls)
        /\ \A i \in DOMAIN D : (i \in DOMAIN callbacks /\ D[i] = callbacks[i]) \/ D[i] = c
        /\ \A i \in DOMAIN callbacks : i \in DOMAIN D /\ D[i] = callbacks[i]
        /\ \E i \in DOMAIN D : D[i] = c
        /\ OnePerSide(D)
        /\ \A t, l : Hand(D, t, l) = Hand(callbacks, t, l)
    BY <1>1, <1>6, <1>7, HandPush
  <2> HIDE DEF D
  <2>2. callbacks' = D
    BY <1>1 DEF D
  <2> QED
    BY <2>1, <2>2, Zenon
<1>9. \A i \in DOMAIN callbacks : callbacks[i].side \in Side /\ callbacks[i].stream \in Stream
  BY Sides DEF IInv
<1>10. TypeOK'
  <2>1. blocking' \in [Side -> BOOLEAN]
    BY <1>1, <1>5
  <2>2. written' \in [Side -> [Stream -> Units]]
    BY <1>1, Streams DEF IInv
  <2> QED
    BY <1>1, <1>2, <1>4, <1>8, <2>1, <2>2 DEF IInv, TypeOK, OnePerSide
<1>11. Lengths'
  <2>1. ASSUME NEW t \in Side, NEW l \in Stream PROVE Len(buffer'[t][l]) <= Len(received'[t][l])
    <3>1. /\ Len(buffer[t][l]) <= Len(received[t][l])
          /\ Len(buffer[t][l]) \in Nat /\ Len(received[t][l]) \in Nat
      BY Streams DEF IInv, Lengths
    <3>2. CASE t = s /\ l = k
      <4>1. \A x, y \in Nat : x <= y => x + n <= y + n
        BY <1>3
      <4>2. Len(buffer[s][k]) + n <= Len(received[s][k]) + n
        BY <3>1, <3>2, <4>1
      <4> QED
        BY <1>2, <1>4, <3>2, <4>2, Zenon
    <3>3. CASE t # s \/ l # k
      BY <1>2, <1>4, <3>1, <3>3
    <3> QED
      BY <3>2, <3>3
  <2>2. ASSUME NEW i \in DOMAIN callbacks'
        PROVE  callbacks'[i].n <= Len(buffer'[callbacks'[i].side][callbacks'[i].stream])
    <3>1. CASE callbacks'[i] = c
      <4>1. Len(buffer'[s][k]) \in Nat
        BY <1>3, <1>4, Streams DEF IInv
      <4> QED
        BY <1>6, <3>1, <4>1
    <3>2. CASE i \in DOMAIN callbacks /\ callbacks'[i] = callbacks[i]
      <4>1. callbacks[i].n <= Len(buffer[callbacks[i].side][callbacks[i].stream])
        BY <3>2 DEF IInv, Lengths, Offered
      <4>2. buffer'[callbacks[i].side][callbacks[i].stream] = buffer[callbacks[i].side][callbacks[i].stream]
        BY <1>1, <1>4, <1>9, <3>2
      <4> QED
        BY <3>2, <4>1, <4>2
    <3> QED
      BY <1>8, <3>1, <3>2
  <2> QED
    BY <1>2, <2>1, <2>2 DEF Lengths, Offered
<1>12. Nesting'
  <2>1. Target(s) \notin sentEof
    BY <1>1, <1>5, Targets DEF IInv, Nesting
  <2> QED
    BY <1>1, <1>5, <1>6, <1>8, <1>9, <2>1 DEF IInv, Nesting, Running, Relaying
<1>13. BlockingSaved'
  <2>1. \A t \in Side : blocking'[t] = IF t = Target(s) THEN FALSE ELSE blocking[t]
    BY <1>1, <1>5
  <2>2. ASSUME NEW i \in DOMAIN callbacks'
        PROVE  callbacks'[i].Blocking /\ ~blocking'[Target(callbacks'[i].side)]
    BY <1>5, <1>6, <1>8, <1>9, <2>1, Targets DEF IInv, BlockingSaved
  <2>3. ASSUME NEW t \in Side, ~blocking'[t]
        PROVE  \E i \in DOMAIN callbacks' : Target(callbacks'[i].side) = t
    <3>1. CASE t = Target(s)
      BY <1>6, <1>8, <3>1
    <3>2. CASE t # Target(s)
      <4>1. PICK i \in DOMAIN callbacks : Target(callbacks[i].side) = t
        BY <2>1, <2>3, <3>2 DEF IInv, BlockingSaved
      <4> QED
        BY <1>8, <4>1
    <3> QED
      BY <3>1, <3>2
  <2> QED
    BY <1>5, <1>6, <1>8, <1>9, <2>2, <2>3 DEF BlockingSaved
<1>14. RestKept'
  <2> SUFFICES ASSUME NEW t \in Side, NEW l \in Stream, Target(t) \notin gone \cup broken
               PROVE  received'[t][l] = written[Target(t)][l] \o Drop(buffer'[t][l], Hand(callbacks, t, l))
    <3>1. \A t \in Side, l \in Stream : InHand(t, l)' = Hand(callbacks, t, l)
      BY <1>8 DEF InHand
    <3>2. UNCHANGED <<Mode, written, gone, broken>>
      BY <1>1
    <3> QED
      BY <1>5, <3>1, <3>2 DEF RestKept
  <2>1. received[t][l] = written[Target(t)][l] \o Drop(buffer[t][l], Hand(callbacks, t, l))
    BY <1>1 DEF IInv, RestKept, InHand
  <2>2. CASE t # s \/ l # k
    BY <1>2, <1>4, <2>1, <2>2
  <2>3. CASE t = s /\ l = k
    <3> DEFINE w == written[Target(s)][k]
               b == buffer[s][k]
    <3>1. w \in Units /\ b \in Units
      BY <1>5, Streams DEF IInv
    <3>2. Hand(callbacks, s, k) = 0
      BY <1>1, <1>7, HandIs
    <3>3. received[s][k] = w \o Drop(b, 0)
      BY <2>1, <2>3, <3>2
    <3>4. received'[s][k] = (w \o Drop(b, 0)) \o e /\ buffer'[s][k] = b \o e
      BY <1>2, <1>4, <3>3
    <3> HIDE DEF w, b
    <3>5. b \o e \in Units
      BY <1>3, <3>1, ConcatProperties DEF Units
    <3>6. Drop(b, 0) = b /\ Drop(b \o e, 0) = b \o e
      BY <3>1, <3>5, DropNone DEF Units
    <3>7. (w \o b) \o e = w \o (b \o e)
      BY <1>3, <3>1, ConcatAssociative DEF Units
    <3>8. received'[s][k] = w \o Drop(buffer'[s][k], 0)
      BY <3>4, <3>6, <3>7, Zenon
    <3> QED
      BY <2>3, <3>2, <3>8 DEF w
  <2> QED
    BY <2>2, <2>3
<1> QED
  BY <1>2, <1>10, <1>11, <1>12, <1>13, <1>14 DEF IInv

\* In mode NULL data comes in and nothing else happens.
LEMMA DataNullKeeps ==
  ASSUME IInv, NEW s \in Side, NEW k \in Stream, NEW n \in 1..MaxSent, DataNull(s, k, n)
  PROVE  IInv'
<1>1. /\ Mode = "NULL"
      /\ Sent(s) + n <= MaxSent
      /\ received' = [received EXCEPT ![s][k] = @ \o Incoming(s, n)]
      /\ UNCHANGED <<Mode, buffer, written, window, blocking, eof, sentEof, gone, broken, callbacks, closed>>
  BY DEF DataNull, Incoming, ends
<1>2. /\ received' \in [Side -> [Stream -> Units]]
      /\ Len(received'[s][k]) = Len(received[s][k]) + n
      /\ \A t \in Side, l \in Stream : t # s \/ l # k => received'[t][l] = received[t][l]
      /\ \A t \in Side : Sent(t)' <= MaxSent
      /\ Beginning'
  BY <1>1, Arrives
<1>3. TypeOK'
  BY <1>1, <1>2 DEF IInv, TypeOK
<1>4. Lengths'
  <2>1. ASSUME NEW t \in Side, NEW l \in Stream PROVE Len(buffer[t][l]) <= Len(received'[t][l])
    <3>1. Len(buffer[t][l]) <= Len(received[t][l])
      BY DEF IInv, Lengths
    <3>2. CASE t = s /\ l = k
      <4>1. \A x, y \in Nat : x <= y => x <= y + n
        OBVIOUS
      <4>2. Len(buffer[t][l]) \in Nat /\ Len(received[t][l]) \in Nat
        BY Streams DEF IInv
      <4>3. Len(buffer[t][l]) <= Len(received[t][l]) + n
        BY <3>1, <4>1, <4>2
      <4> QED
        BY <1>2, <3>2, <4>3, Zenon
    <3>3. CASE t # s \/ l # k
      BY <1>2, <3>1, <3>3
    <3> QED
      BY <3>2, <3>3
  <2> QED
    BY <1>1, <1>2, <2>1 DEF IInv, Lengths, Offered
<1>5. Nesting' /\ BlockingSaved' /\ RestKept'
  BY <1>1 DEF IInv, Nesting, BlockingSaved, RestKept, Running, Relaying, Target
<1> QED
  BY <1>2, <1>3, <1>4, <1>5 DEF IInv

-----------------------------------------------------------------------------
(***************************************************************************)
(* What goes out.                                                          *)
(***************************************************************************)

\* The innermost callback writes the next of what it was offered: that is still
\* there, it is what comes next on the other side, and no other stream changes.
LEMMA WriteKeeps ==
  ASSUME IInv, Write
  PROVE  /\ IInv'
         /\ Top.side \in Side /\ Top.stream \in Stream
         /\ Len(written'[Target(Top.side)][Top.stream]) > Len(written[Target(Top.side)][Top.stream])
         /\ \A u \in Side, l \in Stream :
              u # Top.side \/ l # Top.stream => written'[Target(u)][l] = written[Target(u)][l]
<1> DEFINE s == Top.side
           k == Top.stream
           t == Target(s)
           b == buffer[s][k]
           h == Top.n
           rest == Drop(b, h)
           m == IF Len(rest) < window[t] THEN Len(rest) ELSE window[t]
           e == SubSeq(rest, 1, m)
           w == written[t][k]
<1>1. /\ Running /\ Writable(t) /\ m > 0
      /\ written' = [written EXCEPT ![t][k] = @ \o e]
      /\ window' = [window EXCEPT ![t] = @ - m]
      /\ callbacks' = [callbacks EXCEPT ![Len(callbacks)].n = @ + m]
      /\ UNCHANGED <<Mode, received, buffer, blocking, eof, sentEof, gone, broken, closed>>
  BY DEF Write, Offered, ends
<1>2. /\ Top \in Calls /\ s \in Side /\ k \in Stream /\ t \in Side /\ h \in Nat
      /\ Len(callbacks) \in DOMAIN callbacks
      /\ callbacks \in Seq(Calls) /\ callbacks # <<>> /\ OnePerSide(callbacks)
      /\ Mode # "NULL"
  <2>1. Len(callbacks) \in DOMAIN callbacks /\ Top \in Calls /\ s \in Side /\ k \in Stream
    BY <1>1, Sides DEF IInv, Top
  <2>2. h \in Nat
    BY <2>1, RelayAssumption DEF Calls
  <2>3. t \in Side
    BY <2>1, Targets
  <2> QED
    BY <1>1, <2>1, <2>2, <2>3, Streams DEF IInv, TypeOK, Running, Nesting
<1>3. /\ b \in Units /\ w \in Units /\ received[s][k] \in Units
      /\ Len(b) \in Nat /\ h <= Len(b) /\ Len(b) <= Len(received[s][k])
  BY <1>2, Streams DEF IInv, Lengths, Offered, Top
<1>4. rest \in Units /\ Len(rest) = Len(b) - h
  <2>1. h \in 0..Len(b)
    BY <1>2, <1>3
  <2> HIDE DEF b, h
  <2> QED
    BY <1>3, <2>1, DropProperties DEF Units
<1>5. window \in [Side -> 0..MaxWindow] /\ window[t] \in 0..MaxWindow /\ MaxWindow \in Nat
  BY <1>2, RelayAssumption DEF IInv, TypeOK
<1>6. m \in 1..Len(b)-h /\ m <= Len(rest) /\ m <= window[t] /\ m \in Nat
  <2>1. \A x, y \in Nat : LET z == IF x < y THEN x ELSE y IN z \in Nat /\ z <= x /\ z <= y
    OBVIOUS
  <2>2. Len(rest) \in Nat /\ window[t] \in Nat
    BY <1>2, <1>3, <1>4, <1>5
  <2>3. m \in Nat /\ m <= Len(rest) /\ m <= window[t]
    BY <2>1, <2>2
  <2> HIDE DEF m, rest, b, h
  <2> QED
    BY <1>1, <1>2, <1>3, <1>4, <2>3
<1> HIDE DEF m
<1>7. e \in Units /\ Len(e) = m
  <2>1. m \in 0..Len(rest)
    BY <1>4, <1>6
  <2> HIDE DEF rest
  <2> QED
    BY <1>4, <2>1, TakeProperties DEF Units
<1>8. Drop(b, h) = e \o Drop(b, h + m)
  <2>1. h \in 0..Len(b)
    BY <1>2, <1>3
  <2> HIDE DEF b, h
  <2> QED
    BY <1>3, <1>6, <2>1, DropSplit DEF Units, e, rest
<1> HIDE DEF e, rest
<1> DEFINE q == w \o e
<1>9. q \in Units /\ Len(q) = Len(w) + m
  <2> HIDE DEF w
  <2> QED
    BY <1>3, <1>7, ConcatProperties DEF Units
<1>10. /\ written' \in [Side -> [Stream -> Units]]
       /\ written'[t][k] = q
       /\ \A u \in Side, l \in Stream : u # t \/ l # k => written'[u][l] = written[u][l]
  <2> HIDE DEF t, k
  <2>1. written \in [Side -> [Stream -> Units]]
    BY Streams DEF IInv
  <2>2. written' = [written EXCEPT ![t][k] = q]
    BY <1>1
  <2> HIDE DEF q
  <2> DEFINE d == [written EXCEPT ![t][k] = q]
  <2>3. /\ d \in [Side -> [Stream -> Units]]
        /\ d[t][k] = q
        /\ \A u \in Side, l \in Stream : u # t \/ l # k => d[u][l] = written[u][l]
    BY <1>2, <1>9, <2>1, PutIn
  <2>4. written' = d
    BY <2>2
  <2> HIDE DEF d
  <2> QED
    BY <2>3, <2>4
<1>11. /\ DOMAIN callbacks' = DOMAIN callbacks
       /\ \A i \in DOMAIN callbacks :
            /\ callbacks'[i].side = callbacks[i].side /\ callbacks'[i].stream = callbacks[i].stream
            /\ callbacks'[i].Blocking = callbacks[i].Blocking
            /\ i # Len(callbacks) => callbacks'[i].n = callbacks[i].n
       /\ callbacks'[Len(callbacks)].n = h + m
       /\ h + m \in 0..MaxSent => callbacks' \in Seq(Calls)
       /\ OnePerSide(callbacks')
       /\ Hand(callbacks', s, k) = h + m
       /\ \A u, l : u # s \/ l # k => Hand(callbacks', u, l) = Hand(callbacks, u, l)
  <2> DEFINE C == callbacks
             D == [C EXCEPT ![Len(C)].n = @ + m]
  <2>1. /\ DOMAIN D = DOMAIN C
        /\ \A i \in DOMAIN C :
             /\ D[i].side = C[i].side /\ D[i].stream = C[i].stream
             /\ D[i].Blocking = C[i].Blocking
             /\ i # Len(C) => D[i].n = C[i].n
        /\ D[Len(C)].n = C[Len(C)].n + m
        /\ C[Len(C)].n + m \in 0..MaxSent => D \in Seq(Calls)
        /\ OnePerSide(D)
        /\ Hand(D, C[Len(C)].side, C[Len(C)].stream) = C[Len(C)].n + m
        /\ \A u, l : u # C[Len(C)].side \/ l # C[Len(C)].stream => Hand(D, u, l) = Hand(C, u, l)
    <3>1. C \in Seq(Calls) /\ OnePerSide(C) /\ C # <<>> /\ m \in Nat
      BY <1>2, <1>6
    <3> HIDE DEF C
    <3> QED
      BY <3>1, HandWrites
  <2>2. callbacks' = D
    BY <1>1
  <2> HIDE DEF D
  <2> QED
    BY <2>1, <2>2, Zenon DEF Top
<1>12. received[s][k] = w \o Drop(b, h)
  <2>1. Hand(callbacks, s, k) = h
    BY <1>2, HandIs DEF Top
  <2> QED
    BY <1>1, <1>2, <2>1 DEF IInv, RestKept, InHand, Writable
<1>13. received[s][k] = q \o Drop(b, h + m)
  <2>1. Drop(b, h + m) \in Units
    <3>1. h + m \in 0..Len(b)
      BY <1>2, <1>3, <1>6
    <3> HIDE DEF b, h
    <3> QED
      BY <1>3, <3>1, DropProperties DEF Units
  <2> HIDE DEF w, b, h
  <2> DEFINE r == Drop(b, h + m)
  <2>2. (w \o e) \o r = w \o (e \o r)
    BY <1>3, <1>7, <2>1, ConcatAssociative DEF Units
  <2> QED
    BY <1>8, <1>12, <2>2, Zenon
<1>14. \A u \in Side : Target(u)' = Target(u)
  BY <1>1 DEF Target
<1>15. TypeOK'
  <2>1. window' \in [Side -> 0..MaxWindow]
    <3>1. window[t] - m \in 0..MaxWindow
      BY <1>5, <1>6
    <3> HIDE DEF t
    <3> QED
      BY <1>1, <1>2, <1>5, <3>1
  <2>2. h + m \in 0..MaxSent
    <3>1. /\ Len(received[s][k]) <= Sent(s) /\ Sent(s) <= MaxSent
          /\ Sent(s) \in Nat /\ Len(received[s][k]) \in Nat
      BY <1>2, Streams DEF IInv, Lengths
    <3> HIDE DEF s, k, b, h
    <3> QED
      BY <1>2, <1>3, <1>6, <3>1, RelayAssumption
  <2> QED
    BY <1>1, <1>10, <1>11, <2>1, <2>2 DEF IInv, TypeOK, OnePerSide
<1>16. Lengths'
  <2>1. ASSUME NEW i \in DOMAIN callbacks'
        PROVE  callbacks'[i].n <= Len(buffer[callbacks'[i].side][callbacks'[i].stream])
    <3>1. CASE i = Len(callbacks)
      <4>1. callbacks'[i].n = h + m /\ callbacks'[i].side = s /\ callbacks'[i].stream = k
        BY <1>2, <1>11, <3>1 DEF Top
      <4>2. h + m <= Len(b)
        <5> HIDE DEF b, h
        <5> QED
          BY <1>2, <1>3, <1>6
      <4> QED
        BY <4>1, <4>2, Zenon
    <3>2. CASE i # Len(callbacks)
      BY <1>11, <3>2 DEF IInv, Lengths, Offered
    <3> QED
      BY <3>1, <3>2
  <2> QED
    BY <1>1, <2>1 DEF IInv, Lengths, Offered, Sent
<1>17. Nesting' /\ BlockingSaved'
  <2>1. \A i \in DOMAIN callbacks' : /\ i \in DOMAIN callbacks
                                     /\ callbacks'[i].side = callbacks[i].side
                                     /\ callbacks'[i].Blocking = callbacks[i].Blocking
                                     /\ callbacks[i].side \in Side
    BY <1>11, Sides DEF IInv
  <2>2. \A i \in DOMAIN callbacks : i \in DOMAIN callbacks' /\ callbacks'[i].side = callbacks[i].side
    BY <1>11
  <2>3. Nesting'
    BY <1>1, <1>14, <2>1 DEF IInv, Nesting, Running, Relaying
  <2>4. BlockingSaved'
    BY <1>1, <1>14, <2>1, <2>2 DEF IInv, BlockingSaved
  <2> QED
    BY <2>3, <2>4
<1>18. ASSUME NEW u \in Side, NEW l \in Stream, u # s \/ l # k
       PROVE  written'[Target(u)][l] = written[Target(u)][l]
  BY <1>2, <1>10, <1>18, Targets
<1>19. Beginning'
  <2>1. Len(q) <= Len(received[s][k]) /\ q = SubSeq(received[s][k], 1, Len(q))
    <3>1. Drop(b, h + m) \in Units
      <4>1. h + m \in 0..Len(b)
        BY <1>2, <1>3, <1>6
      <4> HIDE DEF b, h
      <4> QED
        BY <1>3, <4>1, DropProperties DEF Units
    <3> DEFINE r == Drop(b, h + m)
               c == received[s][k]
    <3>2. c = q \o r /\ c \in Units /\ r \in Units
      BY <1>3, <1>13, <3>1
    <3> HIDE DEF q, r, c
    <3>3. Len(q) <= Len(c) /\ q = SubSeq(c, 1, Len(q))
      BY <1>9, <3>2, ConcatBegins DEF Units
    <3> QED
      BY <3>3 DEF c
  <2> SUFFICES ASSUME NEW u \in Side, NEW l \in Stream
               PROVE  /\ Len(written'[Target(u)][l]) <= Len(received[u][l])
                      /\ written'[Target(u)][l] = SubSeq(received[u][l], 1, Len(written'[Target(u)][l]))
    BY <1>1, <1>14 DEF Beginning
  <2>2. CASE u = s /\ l = k
    BY <1>10, <2>1, <2>2, Zenon
  <2>3. CASE u # s \/ l # k
    BY <1>18, <2>3 DEF IInv, Beginning
  <2> QED
    BY <2>2, <2>3
<1>20. RestKept'
  <2> SUFFICES ASSUME NEW u \in Side, NEW l \in Stream, Target(u) \notin gone \cup broken
               PROVE  received[u][l] = written'[Target(u)][l] \o Drop(buffer[u][l], Hand(callbacks', u, l))
    BY <1>1, <1>14 DEF RestKept, InHand
  <2>1. CASE u = s /\ l = k
    BY <1>10, <1>11, <1>13, <2>1, Zenon
  <2>2. CASE u # s \/ l # k
    <3>1. received[u][l] = written[Target(u)][l] \o Drop(buffer[u][l], Hand(callbacks, u, l))
      BY <1>2 DEF IInv, RestKept, InHand
    <3>2. written'[Target(u)][l] = written[Target(u)][l] /\ Hand(callbacks', u, l) = Hand(callbacks, u, l)
      BY <1>11, <1>18, <2>2
    <3> QED
      BY <3>1, <3>2, Zenon
  <2> QED
    BY <2>1, <2>2
<1>21. Len(written'[t][k]) > Len(w)
  <2>1. \A x \in Nat : x + m > x
    BY <1>6
  <2>2. Len(w) \in Nat
    BY <1>2, Streams DEF IInv
  <2>3. Len(w) + m > Len(w)
    BY <2>1, <2>2
  <2> QED
    BY <1>9, <1>10, <2>3, Zenon
<1> QED
  BY <1>2, <1>15, <1>16, <1>17, <1>18, <1>19, <1>20, <1>21 DEF IInv

\* The innermost callback returns Back: what it wrote, or nothing if what it
\* writes to has failed.
LEMMA ReturnKeeps ==
  ASSUME IInv, Running, NEW Back, Return(Back),
         \/ Back = Top.n
         \/ Back = 0 /\ ~Writable(Target(Top.side))
  PROVE  IInv'
<1> DEFINE s == Top.side
           k == Top.stream
           t == Target(s)
           b == buffer[s][k]
           q == Drop(b, Back)
<1>1. /\ buffer' = [buffer EXCEPT ![s][k] = q]
      /\ blocking' = [blocking EXCEPT ![t] = Top.Blocking]
      /\ callbacks' = SubSeq(callbacks, 1, Len(callbacks) - 1)
      /\ UNCHANGED <<Mode, received, written, window, eof, sentEof, gone, broken, closed>>
  BY DEF Return, ends
<1>2. /\ Top \in Calls /\ s \in Side /\ k \in Stream /\ t \in Side /\ Top.n \in Nat
      /\ Len(callbacks) \in DOMAIN callbacks
      /\ callbacks \in Seq(Calls) /\ callbacks # <<>> /\ OnePerSide(callbacks)
      /\ Mode # "NULL"
  <2>1. Len(callbacks) \in DOMAIN callbacks /\ Top \in Calls /\ s \in Side /\ k \in Stream
    BY Sides DEF IInv, Top
  <2>2. Top.n \in Nat
    BY <2>1, RelayAssumption DEF Calls
  <2>3. t \in Side
    BY <2>1, Targets
  <2> QED
    BY <2>1, <2>2, <2>3, Streams DEF IInv, TypeOK, Running, Nesting
<1>3. /\ b \in Units /\ Len(b) \in Nat /\ Back \in 0..Len(b)
      /\ Len(b) <= Len(received[s][k]) /\ Len(received[s][k]) \in Nat
      /\ Back = Top.n \/ (Back = 0 /\ t \in gone \cup broken)
  <2>1. Top.n <= Len(b) /\ t \notin sentEof
    BY <1>2 DEF IInv, Lengths, Nesting, Offered, Top
  <2>2. b \in Units /\ Len(b) \in Nat /\ Len(b) <= Len(received[s][k]) /\ Len(received[s][k]) \in Nat
    BY <1>2, Streams DEF IInv, Lengths
  <2> QED
    BY <1>2, <2>1, <2>2 DEF Writable
<1>4. q \in Units /\ Len(q) = Len(b) - Back
  <2> HIDE DEF b
  <2> QED
    BY <1>3, DropProperties DEF Units
<1>5. /\ buffer' \in [Side -> [Stream -> Units]]
      /\ buffer'[s][k] = q
      /\ \A u \in Side, l \in Stream : u # s \/ l # k => buffer'[u][l] = buffer[u][l]
  <2> HIDE DEF s, k, q
  <2>1. buffer \in [Side -> [Stream -> Units]]
    BY Streams DEF IInv
  <2> DEFINE d == [buffer EXCEPT ![s][k] = q]
  <2>2. /\ d \in [Side -> [Stream -> Units]]
        /\ d[s][k] = q
        /\ \A u \in Side, l \in Stream : u # s \/ l # k => d[u][l] = buffer[u][l]
    BY <1>2, <1>4, <2>1, PutIn
  <2>3. buffer' = d
    BY <1>1
  <2> HIDE DEF d
  <2> QED
    BY <2>2, <2>3
<1>6. /\ callbacks' \in Seq(Calls)
      /\ DOMAIN callbacks' = DOMAIN callbacks \ {Len(callbacks)}
      /\ \A i \in DOMAIN callbacks' : callbacks'[i] = callbacks[i] /\ callbacks'[i].side # s
      /\ OnePerSide(callbacks')
      /\ \A l : Hand(callbacks', s, l) = 0
      /\ \A u, l : u # s => Hand(callbacks', u, l) = Hand(callbacks, u, l)
  <2> DEFINE C == callbacks
             D == SubSeq(C, 1, Len(C) - 1)
  <2>1. /\ D \in Seq(Calls)
        /\ DOMAIN D = DOMAIN C \ {Len(C)}
        /\ \A i \in DOMAIN D : D[i] = C[i] /\ D[i].side # C[Len(C)].side
        /\ OnePerSide(D)
        /\ \A l : Hand(D, C[Len(C)].side, l) = 0
        /\ \A u, l : u # C[Len(C)].side => Hand(D, u, l) = Hand(C, u, l)
    <3>1. C \in Seq(Calls) /\ OnePerSide(C) /\ C # <<>>
      BY <1>2
    <3> HIDE DEF C
    <3> QED
      BY <3>1, HandPop
  <2>2. callbacks' = D
    BY <1>1
  <2> HIDE DEF D
  <2> QED
    BY <2>1, <2>2, Zenon DEF Top
<1>7. \A i \in DOMAIN callbacks' :
        /\ i \in DOMAIN callbacks /\ callbacks'[i] = callbacks[i]
        /\ callbacks[i].side \in Side /\ callbacks[i].stream \in Stream /\ callbacks[i].side # s
  BY <1>6, Sides DEF IInv
<1>8. \A u \in Side : Target(u)' = Target(u)
  BY <1>1 DEF Target
<1>9. \A u \in Side : blocking'[u] = IF u = t THEN TRUE ELSE blocking[u]
  <2>1. Top.Blocking
    BY <1>2 DEF IInv, BlockingSaved, Top
  <2>2. blocking \in [Side -> BOOLEAN] /\ Top.Blocking \in BOOLEAN
    BY <1>2 DEF IInv, TypeOK, Calls
  <2> HIDE DEF t
  <2> QED
    BY <1>1, <1>2, <2>1, <2>2
<1>10. TypeOK'
  <2>1. blocking' \in [Side -> BOOLEAN]
    <3>1. blocking \in [Side -> BOOLEAN] /\ Top.Blocking \in BOOLEAN
      BY <1>2 DEF IInv, TypeOK, Calls
    <3> HIDE DEF t
    <3> QED
      BY <1>1, <1>2, <3>1
  <2> QED
    BY <1>1, <1>5, <1>6, <2>1 DEF IInv, TypeOK, OnePerSide
<1>11. Lengths'
  <2>1. ASSUME NEW u \in Side, NEW l \in Stream PROVE Len(buffer'[u][l]) <= Len(received[u][l])
    <3>1. CASE u = s /\ l = k
      <4>1. Len(q) <= Len(received[s][k])
        <5> HIDE DEF q, b, s, k
        <5> QED
          BY <1>3, <1>4
      <4> QED
        BY <1>5, <3>1, <4>1, Zenon
    <3>2. CASE u # s \/ l # k
      BY <1>5, <3>2 DEF IInv, Lengths
    <3> QED
      BY <3>1, <3>2
  <2>2. ASSUME NEW i \in DOMAIN callbacks'
        PROVE  callbacks'[i].n <= Len(buffer'[callbacks'[i].side][callbacks'[i].stream])
    <3>1. callbacks[i].n <= Len(buffer[callbacks[i].side][callbacks[i].stream])
      BY <1>7 DEF IInv, Lengths, Offered
    <3>2. buffer'[callbacks[i].side][callbacks[i].stream] = buffer[callbacks[i].side][callbacks[i].stream]
      BY <1>5, <1>7
    <3> QED
      BY <1>7, <3>1, <3>2
  <2> QED
    BY <1>1, <2>1, <2>2 DEF IInv, Lengths, Offered, Sent
<1>12. Nesting'
  BY <1>1, <1>7, <1>8 DEF IInv, Nesting, Running, Relaying
<1>13. BlockingSaved'
  <2>1. ASSUME NEW i \in DOMAIN callbacks'
        PROVE  callbacks'[i].Blocking /\ ~blocking'[Target(callbacks'[i].side)]
    <3>1. Target(callbacks[i].side) # t /\ Target(callbacks[i].side) \in Side
      BY <1>2, <1>7, Targets
    <3> QED
      BY <1>7, <1>9, <3>1 DEF IInv, BlockingSaved
  <2>2. ASSUME NEW u \in Side, ~blocking'[u]
        PROVE  \E i \in DOMAIN callbacks' : Target(callbacks'[i].side) = u
    <3>1. u # t /\ ~blocking[u]
      BY <1>9, <2>2
    <3>2. PICK i \in DOMAIN callbacks : Target(callbacks[i].side) = u
      BY <3>1 DEF IInv, BlockingSaved
    <3>3. i \in DOMAIN callbacks'
      BY <1>6, <3>1, <3>2 DEF Top
    <3> QED
      BY <1>7, <3>2, <3>3
  <2> QED
    BY <1>7, <1>8, <2>1, <2>2 DEF BlockingSaved
<1>14. Beginning'
  BY <1>1, <1>8 DEF IInv, Beginning
<1>15. RestKept'
  <2> SUFFICES ASSUME NEW u \in Side, NEW l \in Stream, Target(u) \notin gone \cup broken
               PROVE  received[u][l] = written[Target(u)][l] \o Drop(buffer'[u][l], Hand(callbacks', u, l))
    BY <1>1, <1>8 DEF RestKept, InHand
  <2>1. received[u][l] = written[Target(u)][l] \o Drop(buffer[u][l], Hand(callbacks, u, l))
    BY <1>2 DEF IInv, RestKept, InHand
  <2>2. CASE u = s /\ l = k
    <3>1. Hand(callbacks, s, k) = Back
      BY <1>2, <1>3, <2>2, HandIs DEF Top
    <3>2. Hand(callbacks', s, k) = 0 /\ buffer'[s][k] = q
      BY <1>5, <1>6
    <3>3. Drop(q, 0) = q
      <4> HIDE DEF q
      <4> QED
        BY <1>4, DropNone DEF Units
    <3> QED
      BY <2>1, <2>2, <3>1, <3>2, <3>3, Zenon
  <2>3. CASE u # s
    BY <1>5, <1>6, <2>1, <2>3
  <2>4. CASE u = s /\ l # k
    <3>1. \A i \in DOMAIN callbacks : ~(callbacks[i].side = s /\ callbacks[i].stream = l)
      BY <1>2, <2>4 DEF OnePerSide, Top
    <3>2. Hand(callbacks, s, l) = 0
      BY <1>2, <3>1, HandIs
    <3> QED
      BY <1>5, <1>6, <2>1, <2>4, <3>2
  <2> QED
    BY <2>2, <2>3, <2>4
<1> QED
  BY <1>10, <1>11, <1>12, <1>13, <1>14, <1>15 DEF IInv

-----------------------------------------------------------------------------
(***************************************************************************)
(* The invariant.                                                          *)
(***************************************************************************)

\* What touches neither the data nor the callbacks, and only adds failures.
LEMMA QuietKeeps ==
  ASSUME IInv, UNCHANGED <<Mode, received, buffer, written, blocking, callbacks>>,
         window' \in [Side -> 0..MaxWindow],
         eof' \subseteq Side, sentEof' \subseteq Side, gone' \subseteq Side, broken' \subseteq Side,
         closed' \in BOOLEAN,
         gone \subseteq gone', broken \subseteq broken',
         Nesting'
  PROVE  IInv'
<1>1. TypeOK'
  BY DEF IInv, TypeOK
<1>2. Lengths'
  BY DEF IInv, Lengths, Offered, Sent
<1>3. \A s \in Side : Target(s)' = Target(s)
  BY DEF Target
<1>4. \A i \in DOMAIN callbacks : callbacks[i].side \in Side
  BY Sides DEF IInv
<1>5. BlockingSaved'
  BY <1>3, <1>4 DEF IInv, BlockingSaved
<1>6. Beginning'
  BY <1>3 DEF IInv, Beginning
<1>7. RestKept'
  BY <1>3 DEF IInv, RestKept, InHand
<1> QED
  BY <1>1, <1>2, <1>5, <1>6, <1>7 DEF IInv

\* Every step keeps the invariant.
LEMMA NextKeeps == IInv /\ [Next]_vars => IInv'
<1> SUFFICES ASSUME IInv, [Next]_vars PROVE IInv'
  OBVIOUS
<1>1. ASSUME NEW s \in Side, NEW k \in Stream, NEW n \in 1..MaxSent, Data(s, k, n) \/ DataNull(s, k, n)
      PROVE  IInv'
  BY <1>1, DataKeeps, DataNullKeeps
<1>2. CASE Write
  BY <1>2, WriteKeeps
<1>3. CASE DataWritten \/ DataFails
  BY <1>3, ReturnKeeps DEF DataWritten, DataFails
<1>4. /\ window \in [Side -> 0..MaxWindow] /\ closed \in BOOLEAN
      /\ eof \subseteq Side /\ sentEof \subseteq Side /\ gone \subseteq Side /\ broken \subseteq Side
      /\ \A i \in DOMAIN callbacks : callbacks[i].side \in Side
  BY Sides DEF IInv, TypeOK
<1>5. ASSUME NEW s \in Side, Adjust(s) PROVE IInv'
  <2>1. window' \in [Side -> 0..MaxWindow]
    <3>1. PICK w \in window[s]+1..MaxWindow : window' = [window EXCEPT ![s] = w]
      BY <1>5 DEF Adjust
    <3>2. w \in 0..MaxWindow
      BY <1>4, <3>1, RelayAssumption
    <3> QED
      BY <1>4, <3>1, <3>2
  <2>2. UNCHANGED <<Mode, received, buffer, written, blocking, callbacks, eof, sentEof, gone, broken, closed>>
    BY <1>5 DEF Adjust, ends
  <2>3. Nesting'
    BY <2>2 DEF IInv, Nesting, Running, Relaying, Target
  <2> QED
    BY <1>4, <2>1, <2>2, <2>3, QuietKeeps
<1>6. ASSUME NEW s \in Side, Eof(s) PROVE IInv'
  <2>1. /\ UNCHANGED <<Mode, received, buffer, written, window, blocking, callbacks, gone, broken, closed>>
        /\ eof' = eof \cup {s}
        /\ sentEof' = sentEof \cup (IF Relaying /\ Writable(Other(s)) THEN {Other(s)} ELSE {})
        /\ \A i \in DOMAIN callbacks : callbacks[i].side # s
    BY <1>6 DEF Eof, Handles, data
  <2>2. Nesting'
    <3>1. ASSUME NEW i \in DOMAIN callbacks
          PROVE  Target(callbacks[i].side)' \notin sentEof' /\ callbacks[i].side \notin eof'
      <4>1. callbacks[i].side \in Side /\ callbacks[i].side # s
        BY <1>4, <2>1
      <4>2. Target(callbacks[i].side)' = Target(callbacks[i].side)
        BY <2>1 DEF Target
      <4>3. Relaying => Target(callbacks[i].side) # Other(s)
        BY <4>1, Targets
      <4> QED
        BY <2>1, <4>1, <4>2, <4>3 DEF IInv, Nesting
    <3>2. ~closed => \A t \in sentEof' : Relaying /\ Other(t) \in eof'
      BY <2>1, Targets DEF IInv, Nesting
    <3> QED
      BY <2>1, <3>1, <3>2 DEF IInv, Nesting, Running, Relaying, Target
  <2>3. eof' \subseteq Side /\ sentEof' \subseteq Side
    BY <1>4, <2>1, Targets
  <2> QED
    BY <1>4, <2>1, <2>2, <2>3, QuietKeeps
<1>7. ASSUME NEW s \in Side, Close(s) \/ Break(s) PROVE IInv'
  <2>1. /\ UNCHANGED <<Mode, received, buffer, written, window, blocking, callbacks, eof, sentEof, closed>>
        /\ gone \subseteq gone' /\ gone' \subseteq gone \cup {s}
        /\ broken \subseteq broken' /\ broken' \subseteq broken \cup {s}
    BY <1>7 DEF Close, Break, data
  <2>2. Nesting'
    BY <2>1 DEF IInv, Nesting, Running, Relaying, Target
  <2> QED
    BY <1>4, <2>1, <2>2, QuietKeeps
<1>8. CASE Shut
  <2>1. /\ UNCHANGED <<Mode, received, buffer, written, window, blocking, callbacks, eof, gone, broken>>
        /\ ~Running /\ closed' /\ closed' \in BOOLEAN /\ sentEof' = Side
    BY <1>8 DEF Shut, data
  <2>2. callbacks = <<>> /\ DOMAIN callbacks = {}
    BY <2>1, EmptySeq, LenProperties DEF Running
  <2>3. Nesting'
    BY <2>1, <2>2 DEF Nesting, Running
  <2> QED
    BY <1>4, <2>1, <2>3, QuietKeeps
<1>9. CASE UNCHANGED vars
  <2>1. UNCHANGED <<Mode, received, buffer, written, window, blocking, callbacks, eof, sentEof, gone, broken, closed>>
    BY <1>9 DEF vars, data, ends
  <2>2. Nesting'
    BY <2>1 DEF IInv, Nesting, Running, Relaying, Target
  <2> QED
    BY <1>4, <2>1, <2>2, QuietKeeps
<1> QED
  BY <1>1, <1>2, <1>3, <1>5, <1>6, <1>7, <1>8, <1>9
  DEF Next, Callback, Program, Release, Stop, Finished

\* The invariant holds in every behaviour.
THEOREM Invariance == Spec => []IInv
BY InitIInv, NextKeeps, PTL DEF Spec

\* The state has its types, and at most one callback runs inside another.
THEOREM TypeCorrect == Spec => []TypeOK
<1>1. IInv => TypeOK
  BY DEF IInv
<1> QED
  BY <1>1, Invariance, PTL

\* No partial write, and no callback inside another, loses, repeats or swaps what
\* a stream has brought (TrapChannelDataCallback() and its likes return what they
\* wrote, and libssh offers the rest again).
THEOREM InOrderCorrect == Spec => []PassedInOrder
<1>1. IInv => PassedInOrder
  <2> SUFFICES ASSUME IInv, Mode # "NULL", gone = {}, broken = {}, NEW s \in Side, NEW k \in Stream
               PROVE  received[s][k] = written[Target(s)][k] \o Drop(buffer[s][k], InHand(s, k))
    BY DEF PassedInOrder
  <2> QED
    BY DEF IInv, RestKept
<1> QED
  BY <1>1, Invariance, PTL

\* No callback writes in blocking mode, and the mode is back when none runs,
\* although each restores only what it found (proxy.c, ssh_set_blocking()).
THEOREM BlockingCorrect == Spec => []BlockingRestored
<1>1. IInv => BlockingRestored
  <2> SUFFICES ASSUME IInv PROVE BlockingRestored
    OBVIOUS
  <2>1. \A i \in DOMAIN callbacks : ~blocking[Target(callbacks[i].side)]
    BY DEF IInv, BlockingSaved
  <2>2. ~Running => DOMAIN callbacks = {}
    BY EmptySeq, LenProperties DEF Running
  <2>3. ~Running => \A s \in Side : blocking[s]
    BY <2>2 DEF IInv, BlockingSaved
  <2> QED
    BY <2>1, <2>3 DEF BlockingRestored
<1> QED
  BY <1>1, Invariance, PTL

-----------------------------------------------------------------------------
(***************************************************************************)
(* Each stream of each direction implements Pipe: a packet is a Put, a     *)
(* write a Get, and EOF for the other end the End.                         *)
(***************************************************************************)

\* What a step does to the stream k that comes in on side s.
Put(s, k) == /\ Len(received'[s][k]) > Len(received[s][k])
             /\ SubSeq(received'[s][k], 1, Len(received[s][k])) = received[s][k]
             /\ written'[Target(s)][k] = written[Target(s)][k]
             /\ UNCHANGED sentEof

Get(s, k) == /\ Target(s) \notin sentEof
             /\ \E n \in Len(written[Target(s)][k])+1..Len(received[s][k]) :
                  written'[Target(s)][k] = SubSeq(received[s][k], 1, n)
             /\ received'[s][k] = received[s][k]
             /\ UNCHANGED sentEof

EndOrStay(s, k) == /\ received'[s][k] = received[s][k]
                   /\ written'[Target(s)][k] = written[Target(s)][k]
                   /\ sentEof \subseteq sentEof'

Flow(s, k) == Put(s, k) \/ Get(s, k) \/ EndOrStay(s, k)

\* What Arrives says, for a data callback.
LEMMA DataArrives ==
  ASSUME IInv, NEW s \in Side, NEW k \in Stream, NEW n \in 1..MaxSent,
         Data(s, k, n) \/ DataNull(s, k, n)
  PROVE  /\ Sent(s) + n <= MaxSent
         /\ received'[s][k] = received[s][k] \o Incoming(s, n)
         /\ Len(received'[s][k]) = Len(received[s][k]) + n
         /\ \A t \in Side, l \in Stream : t # s \/ l # k => received'[t][l] = received[t][l]
<1>1. /\ Sent(s) + n <= MaxSent
      /\ received' = [received EXCEPT ![s][k] = @ \o Incoming(s, n)]
      /\ UNCHANGED <<Mode, written>>
  BY DEF Data, DataNull, Packet, Incoming
<1> QED
  BY <1>1, Arrives

\* Every step does one of these to every stream.
LEMMA StepFlows ==
  ASSUME IInv, [Next]_vars, NEW s \in Side, NEW k \in Stream
  PROVE  Flow(s, k) /\ UNCHANGED Mode
<1>1. ASSUME NEW t \in Side, NEW l \in Stream, NEW n \in 1..MaxSent, Data(t, l, n) \/ DataNull(t, l, n)
      PROVE  Flow(s, k) /\ UNCHANGED Mode
  <2>1. UNCHANGED <<Mode, written, sentEof>>
    BY <1>1 DEF Data, DataNull, Packet, ends
  <2>2. /\ Sent(t) + n <= MaxSent
        /\ received'[t][l] = received[t][l] \o Incoming(t, n)
        /\ Len(received'[t][l]) = Len(received[t][l]) + n
        /\ \A u \in Side, j \in Stream : u # t \/ j # l => received'[u][j] = received[u][j]
    BY <1>1, DataArrives
  <2>3. CASE s = t /\ k = l
    <3> DEFINE r == received[s][k]
               e == Incoming(t, n)
    <3>1. r \in Units /\ Len(r) \in Nat /\ e \in Units
      BY <2>2, Streams, IncomingUnits DEF IInv
    <3> HIDE DEF r, e
    <3>2. SubSeq(r \o e, 1, Len(r)) = SubSeq(r, 1, Len(r))
      <4>1. Len(r) \in 0..Len(r)
        BY <3>1
      <4> QED
        BY <3>1, <4>1, BeginsStill DEF Units
    <3>3. SubSeq(r, 1, Len(r)) = r
      BY <3>1, SubSeqFull DEF Units
    <3>4. Len(r) + n > Len(r)
      BY <3>1
    <3>5. Len(received'[s][k]) > Len(received[s][k])
      BY <2>2, <2>3, <3>4, Zenon DEF r
    <3>6. SubSeq(received'[s][k], 1, Len(received[s][k])) = received[s][k]
      BY <2>2, <2>3, <3>2, <3>3, Zenon DEF r, e
    <3> QED
      BY <2>1, <3>5, <3>6 DEF Flow, Put
  <2>4. CASE s # t \/ k # l
    BY <2>1, <2>2, <2>4 DEF Flow, EndOrStay
  <2> QED
    BY <2>3, <2>4
<1>2. CASE Write
  <2>1. /\ Writable(Target(Top.side))
        /\ UNCHANGED <<Mode, received, sentEof>>
    BY <1>2 DEF Write, ends
  <2>2. /\ IInv'
        /\ Len(written'[Target(Top.side)][Top.stream]) > Len(written[Target(Top.side)][Top.stream])
        /\ \A u \in Side, l \in Stream :
             u # Top.side \/ l # Top.stream => written'[Target(u)][l] = written[Target(u)][l]
    BY <1>2, WriteKeeps
  <2>3. CASE s = Top.side /\ k = Top.stream
    <3> DEFINE w == written[Target(s)][k]
               v == written'[Target(s)][k]
               r == received[s][k]
    <3>1. Target(s)' = Target(s) /\ Target(s) \in Side
      BY <2>1, Targets DEF Target
    <3>2. Len(v) <= Len(r) /\ v = SubSeq(r, 1, Len(v))
      BY <2>1, <2>2, <3>1 DEF IInv, Beginning
    <3>3. Len(w) \in Nat /\ Len(r) \in Nat
      BY <3>1, Streams DEF IInv
    <3>4. v \in Units
      BY <2>2, <3>1 DEF IInv, TypeOK
    <3>5. Len(v) > Len(w)
      BY <2>2, <2>3
    <3> HIDE DEF w, v, r
    <3>6. Len(v) \in Len(w)+1..Len(r)
      <4>1. Len(v) \in Nat
        BY <3>4, LenProperties DEF Units
      <4> QED
        BY <3>2, <3>3, <3>5, <4>1
    <3>7. \E n \in Len(w)+1..Len(r) : v = SubSeq(r, 1, n)
      BY <3>2, <3>6
    <3> QED
      BY <2>1, <2>3, <3>7 DEF Flow, Get, Writable, w, v, r
  <2>4. CASE s # Top.side \/ k # Top.stream
    BY <2>1, <2>2, <2>4 DEF Flow, EndOrStay
  <2> QED
    BY <2>3, <2>4
<1>3. CASE UNCHANGED <<Mode, received, written>> /\ sentEof \subseteq sentEof'
  BY <1>3 DEF Flow, EndOrStay
<1>4. CASE DataWritten \/ DataFails
  BY <1>3, <1>4 DEF DataWritten, DataFails, Return, ends
<1>5. CASE \E t \in Side : Eof(t) \/ Close(t) \/ Adjust(t) \/ Break(t)
  BY <1>3, <1>5 DEF Eof, Close, Adjust, Break, data, ends
<1>6. CASE Shut
  BY <1>3, <1>6 DEF Shut, data, IInv, TypeOK
<1>7. CASE UNCHANGED vars
  BY <1>3, <1>7 DEF vars, data, ends
<1> QED
  BY <1>1, <1>2, <1>4, <1>5, <1>6, <1>7 DEF Next, Callback, Program, Release, Stop, Finished

\* In the initial states every pipe is empty and open.
LEMMA InitFlows ==
  ASSUME Init, NEW s \in Side, NEW k \in Stream
  PROVE  received[s][k] = <<>> /\ written[Target(s)][k] = <<>> /\ (Target(s) \in sentEof) = FALSE
BY Targets DEF Init, Empty

\* Whatever fails, whenever a channel is closed and however the callbacks nest,
\* each stream is a pipe: what comes out is the beginning of what went in, and
\* nothing follows an EOF.
THEOREM PipeCorrect == Spec => ImplementsPipe
<1>1. "trap" \in Side /\ "haas" \in Side /\ "stdout" \in Stream /\ "stderr" \in Stream
  BY DEF Side, Stream
<1>2. Init => TrapOut!Init /\ TrapErr!Init /\ HaasOut!Init /\ HaasErr!Init
  BY <1>1, InitFlows DEF TrapOut!Init, TrapErr!Init, HaasOut!Init, HaasErr!Init
<1>3. IInv /\ [Next]_vars => [TrapOut!Next]_TrapOut!vars
  <2> SUFFICES ASSUME IInv, [Next]_vars PROVE [TrapOut!Next]_TrapOut!vars
    OBVIOUS
  <2>1. Flow("trap", "stdout") /\ Target("trap")' = Target("trap")
    BY <1>1, StepFlows DEF Target
  <2> QED
    BY <2>1 DEF Flow, Put, Get, EndOrStay, TrapOut!Next, TrapOut!Put, TrapOut!Get, TrapOut!End, TrapOut!vars
<1>4. IInv /\ [Next]_vars => [TrapErr!Next]_TrapErr!vars
  <2> SUFFICES ASSUME IInv, [Next]_vars PROVE [TrapErr!Next]_TrapErr!vars
    OBVIOUS
  <2>1. Flow("trap", "stderr") /\ Target("trap")' = Target("trap")
    BY <1>1, StepFlows DEF Target
  <2> QED
    BY <2>1 DEF Flow, Put, Get, EndOrStay, TrapErr!Next, TrapErr!Put, TrapErr!Get, TrapErr!End, TrapErr!vars
<1>5. IInv /\ [Next]_vars => [HaasOut!Next]_HaasOut!vars
  <2> SUFFICES ASSUME IInv, [Next]_vars PROVE [HaasOut!Next]_HaasOut!vars
    OBVIOUS
  <2>1. Flow("haas", "stdout") /\ Target("haas")' = Target("haas")
    BY <1>1, StepFlows DEF Target
  <2> QED
    BY <2>1 DEF Flow, Put, Get, EndOrStay, HaasOut!Next, HaasOut!Put, HaasOut!Get, HaasOut!End, HaasOut!vars
<1>6. IInv /\ [Next]_vars => [HaasErr!Next]_HaasErr!vars
  <2> SUFFICES ASSUME IInv, [Next]_vars PROVE [HaasErr!Next]_HaasErr!vars
    OBVIOUS
  <2>1. Flow("haas", "stderr") /\ Target("haas")' = Target("haas")
    BY <1>1, StepFlows DEF Target
  <2> QED
    BY <2>1 DEF Flow, Put, Get, EndOrStay, HaasErr!Next, HaasErr!Put, HaasErr!Get, HaasErr!End, HaasErr!vars
<1> QED
  BY <1>2, <1>3, <1>4, <1>5, <1>6, Invariance, PTL
  DEF Spec, ImplementsPipe, TrapOut!Spec, TrapErr!Spec, HaasOut!Spec, HaasErr!Spec
=============================================================================
