---------------------------- MODULE FwPoolProofs ----------------------------
(***************************************************************************)
(* Proofs about FwPool for every set of pairs and every chunk size.        *)
(***************************************************************************)
EXTENDS FwPool, WellFoundedInduction, TLAPS

IInv ==
  /\ TypeOK
  /\ NoPairTwice

-----------------------------------------------------------------------------

\* FwPoolFindClosed() returns the index of a closed pair when there is one.
LEMMA FoundClosed ==
  ASSUME TypeOK, ClosedAt # {}
  PROVE  FwPoolFindClosed \in ClosedAt
<1>1. ClosedAt \in SUBSET Nat
  BY DEF ClosedAt, TypeOK
<1>2. PICK i \in ClosedAt : \A j \in ClosedAt : i <= j
  <2> DEFINE R == OpToRel(<, Nat)
  <2>1. \A x, y \in Nat : <<x, y>> \in R <=> x < y
    BY DEF OpToRel
  <2>2. IsWellFoundedOn(R, Nat)
    BY NatLessThanWellFounded
  <2> HIDE DEF R
  <2>3. PICK m \in ClosedAt : \A j \in ClosedAt : ~ (<<j, m>> \in R)
    BY <1>1, <2>2, WFMin
  <2>4. ASSUME NEW j \in ClosedAt PROVE m <= j
    <3>1. m \in Nat /\ j \in Nat
      BY <1>1
    <3>2. ~ (j < m)
      BY <2>1, <2>3, <3>1
    <3> QED
      BY <3>1, <3>2
  <2> QED
    BY <2>4
<1> QED
  BY <1>2 DEF FwPoolFindClosed

\* Adding a pair that is not in the pool adds just that pair to its members.
LEMMA AddIsJoin ==
  ASSUME IInv, NEW p \in Pair, p \notin Members, FwPoolAdd(p)
  PROVE  /\ Used' \in Nat /\ Alloc' \in Nat /\ Items' \in [0..Used'-1 -> Pair]
         /\ NoPairTwice'
         /\ Members' = Members \cup {p}
<1> USE FwPoolAssumption DEF IInv, TypeOK, NoPairTwice, Members
<1>1. Alloc' \in Nat
  BY DEF FwPoolAdd, HasRoom, Grow, GrowFails
<1>2. Used' = Used + 1 /\ Used' \in Nat /\ Items' = Append(p)
  BY DEF FwPoolAdd
<1>3. /\ Items' \in [0..Used'-1 -> Pair]
      /\ Items'[Used] = p
      /\ \A i \in 0..Used-1 : Items'[i] = Items[i]
  BY <1>2 DEF Append
<1>4. 0..Used'-1 = (0..Used-1) \cup {Used}
  BY <1>2
<1> QED
  BY <1>1, <1>2, <1>3, <1>4

\* Removing an entry takes just the pair at that index out of the members,
\* although the last entry is moved.
LEMMA RemoveIsLeave ==
  ASSUME IInv, NEW Index \in 0..Used-1, FwPoolRemove(Index)
  PROVE  /\ Used' \in Nat /\ Alloc' \in Nat /\ Items' \in [0..Used'-1 -> Pair]
         /\ NoPairTwice'
         /\ Members' = Members \ {Items[Index]}
<1> USE DEF IInv, TypeOK, NoPairTwice, Members, FwPoolRemove
<1>1. Used' = Used - 1 /\ Used' \in Nat /\ Alloc' = Alloc
  OBVIOUS
<1>2. /\ Items' \in [0..Used'-1 -> Pair]
      /\ \A i \in 0..Used'-1 :
           Items'[i] = IF i = Index THEN Items[Used-1] ELSE Items[i]
  BY <1>1
<1>3. NoPairTwice'
  BY <1>1, <1>2
<1>4. Members' \subseteq Members \ {Items[Index]}
  BY <1>1, <1>2
<1>5. ASSUME NEW i \in 0..Used-1, Items[i] # Items[Index]
      PROVE  Items[i] \in Members'
  <2>1. CASE i = Used - 1
    <3>1. Index \in 0..Used'-1 /\ Items'[Index] = Items[i]
      BY <1>1, <1>2, <1>5, <2>1
    <3> QED
      BY <3>1
  <2>2. CASE i # Used - 1
    <3>1. i \in 0..Used'-1 /\ Items'[i] = Items[i]
      BY <1>1, <1>2, <1>5, <2>2
    <3> QED
      BY <3>1
  <2> QED
    BY <2>1, <2>2
<1>6. Members \ {Items[Index]} \subseteq Members'
  BY <1>5
<1> QED
  BY <1>1, <1>2, <1>3, <1>4, <1>6

\* Giving up the first entry takes just its pair out of the members.
LEMMA FirstIsLeave ==
  ASSUME IInv, InBounds, ReleaseFirst
  PROVE  /\ Used' \in Nat /\ Alloc' \in Nat /\ Items' \in [0..Used'-1 -> Pair]
         /\ NoPairTwice' /\ InBounds'
         /\ Items[0] \in Members /\ Items[0] \in Pair
         /\ Members' = Members \ {Items[0]}
<1> USE DEF IInv, TypeOK, NoPairTwice, Members, InBounds, ReleaseFirst
<1>1. /\ Used' = Used - 1 /\ Used' \in Nat
      /\ Alloc' = Alloc - 1 /\ Alloc' \in Nat /\ Used' <= Alloc'
      /\ 0 \in 0..Used-1
  OBVIOUS
<1>2. /\ Items' \in [0..Used'-1 -> Pair]
      /\ \A i \in 0..Used'-1 : i+1 \in 0..Used-1 /\ Items'[i] = Items[i+1]
  BY <1>1
<1>3. NoPairTwice'
  BY <1>1, <1>2
<1>4. ASSUME NEW i \in 0..Used'-1
      PROVE  Items'[i] \in Members /\ Items'[i] # Items[0]
  <2>1. i+1 \in 0..Used-1 /\ Items'[i] = Items[i+1] /\ i+1 # 0
    BY <1>1, <1>2
  <2> QED
    BY <1>1, <2>1
<1>5. ASSUME NEW i \in 0..Used-1, Items[i] # Items[0]
      PROVE  Items[i] \in Members'
  <2>1. i-1 \in 0..Used'-1 /\ Items'[i-1] = Items[i]
    BY <1>1, <1>2, <1>5
  <2> QED
    BY <2>1
<1>6. Members' \subseteq Members \ {Items[0]}
  BY <1>4
<1>7. Members \ {Items[0]} \subseteq Members'
  BY <1>5
<1>8. Items[0] \in Members /\ Items[0] \in Pair
  BY <1>1
<1> QED
  BY <1>1, <1>2, <1>3, <1>6, <1>7, <1>8

-----------------------------------------------------------------------------

\* Every step keeps the invariant and is a step of ForwardSet.
LEMMA StepCorrect ==
  ASSUME IInv, [Next]_vars
  PROVE  IInv' /\ [SetInst!Next]_SetInst!vars
<1> USE DEF SetInst!vars
<1>0. Done \in BOOLEAN
  BY DEF IInv, TypeOK
<1>1. ASSUME NEW p \in Pair, Join(p)
      PROVE  IInv' /\ [SetInst!Next]_SetInst!vars
  <2>1. /\ p \notin Members /\ p \notin Closed /\ FwPoolAdd(p)
        /\ Closed' = Closed /\ Done' = Done
    BY <1>1 DEF Join, FwPoolAdd
  <2>2. /\ Used' \in Nat /\ Alloc' \in Nat /\ Items' \in [0..Used'-1 -> Pair]
        /\ NoPairTwice'
        /\ Members' = Members \cup {p}
    BY <2>1, AddIsJoin
  <2>3. IInv'
    BY <1>0, <2>1, <2>2 DEF IInv, TypeOK
  <2>4. SetInst!Join(p)
    BY <2>1, <2>2 DEF SetInst!Join
  <2> QED
    BY <2>3, <2>4 DEF SetInst!Next
<1>2. ASSUME NEW p \in Pair, Mark(p)
      PROVE  IInv' /\ [SetInst!Next]_SetInst!vars
  <2>1. IInv'
    BY <1>0, <1>2 DEF Mark, IInv, TypeOK, NoPairTwice
  <2>2. SetInst!Mark(p)
    BY <1>2 DEF Mark, SetInst!Mark, Members
  <2> QED
    BY <2>1, <2>2 DEF SetInst!Next
<1>3. ASSUME NEW p \in Pair, Forget(p)
      PROVE  IInv' /\ [SetInst!Next]_SetInst!vars
  <2>1. IInv'
    BY <1>0, <1>3 DEF Forget, IInv, TypeOK, NoPairTwice
  <2>2. SetInst!Forget(p)
    BY <1>3 DEF Forget, SetInst!Forget, Members
  <2> QED
    BY <2>1, <2>2 DEF SetInst!Next
<1>4. CASE Sweep
  <2> DEFINE k == FwPoolFindClosed
  <2>1. k \in 0..Used-1 /\ Items[k] \in Closed /\ Items[k] \in Members
    BY <1>4, FoundClosed DEF Sweep, RemoveClosed, IInv, ClosedAt, Members
  <2>2. FwPoolRemove(k) /\ Closed' = Closed \ {Items[k]} /\ Done' = Done
    BY <1>4 DEF Sweep, RemoveClosed
  <2> HIDE DEF k
  <2>3. /\ Used' \in Nat /\ Alloc' \in Nat /\ Items' \in [0..Used'-1 -> Pair]
        /\ NoPairTwice'
        /\ Members' = Members \ {Items[k]}
    BY <2>1, <2>2, RemoveIsLeave
  <2>4. IInv'
    BY <1>0, <2>2, <2>3 DEF IInv, TypeOK
  <2>5. Items[k] \in Pair
    BY <2>1 DEF IInv, TypeOK
  <2>6. SetInst!Leave(Items[k])
    BY <2>1, <2>2, <2>3 DEF SetInst!Leave
  <2> QED
    BY <2>4, <2>5, <2>6 DEF SetInst!Next
<1>5. CASE FwPoolDone
  <2>1. Done' \in BOOLEAN
    BY <1>5, Zenon DEF FwPoolDone
  <2>2. IInv'
    BY <1>5, <2>1 DEF FwPoolDone, IInv, TypeOK, NoPairTwice
  <2>3. SetInst!End
    BY <1>5 DEF FwPoolDone, SetInst!End, Members
  <2> QED
    BY <2>2, <2>3 DEF SetInst!Next
<1>6. CASE InBounds /\ Drain
  <2>1. ReleaseFirst /\ Done /\ Done' = Done /\ Closed' = Closed \ {Items[0]}
    BY <1>6 DEF Drain, ReleaseFirst
  <2>2. /\ Used' \in Nat /\ Alloc' \in Nat /\ Items' \in [0..Used'-1 -> Pair]
        /\ NoPairTwice'
        /\ Items[0] \in Members /\ Items[0] \in Pair
        /\ Members' = Members \ {Items[0]}
    BY <1>6, <2>1, FirstIsLeave
  <2>3. IInv'
    BY <1>0, <2>1, <2>2 DEF IInv, TypeOK
  <2>4. SetInst!Leave(Items[0])
    BY <2>1, <2>2 DEF SetInst!Leave
  <2> QED
    BY <2>2, <2>3, <2>4 DEF SetInst!Next
<1>7. CASE UNCHANGED vars
  BY <1>7 DEF vars, IInv, TypeOK, NoPairTwice, Members
<1> QED
  BY <1>1, <1>2, <1>3, <1>4, <1>5, <1>6, <1>7 DEF Next, Undefined

\* An empty pool satisfies the invariant and is an empty set.
LEMMA InitCorrect == Init => IInv /\ SetInst!Init
<1> SUFFICES ASSUME Init PROVE IInv /\ SetInst!Init
  OBVIOUS
<1>1. Done \in BOOLEAN
  BY Zenon DEF Init
<1> QED
  BY <1>1 DEF Init, IInv, TypeOK, NoPairTwice, SetInst!Init, Members

\* The invariant holds in every reachable state.
THEOREM PoolInvariance == Spec => []IInv
BY InitCorrect, StepCorrect, PTL DEF Spec

\* No pair is in the pool twice (fw_pool.c:113-128).
THEOREM NoPairTwiceCorrect == Spec => []NoPairTwice
BY PoolInvariance, PTL DEF IInv

\* As long as realloc() does not fail, every entry lies inside the array.
THEOREM InBoundsCorrect ==
  ASSUME ~MemoryFails
  PROVE  Spec => []InBounds
<1>1. Init => InBounds
  BY DEF Init, InBounds
<1>2. IInv /\ InBounds /\ [Next]_vars => InBounds'
  <2> SUFFICES ASSUME IInv, InBounds, [Next]_vars
               PROVE  InBounds'
    OBVIOUS
  <2> USE FwPoolAssumption DEF IInv, TypeOK, InBounds
  <2>1. ASSUME NEW p \in Pair, Join(p) PROVE InBounds'
    BY <2>1 DEF Join, FwPoolAdd, HasRoom, Grow, GrowFails
  <2>2. CASE Sweep
    BY <2>2 DEF Sweep, RemoveClosed, FwPoolRemove
  <2>3. CASE FwPoolDone \/ UNCHANGED vars
    BY <2>3 DEF FwPoolDone, vars
  <2>4. CASE Drain
    BY <2>4, FirstIsLeave DEF Drain
  <2> QED
    BY <2>1, <2>2, <2>3, <2>4 DEF Next, Mark, Forget, Undefined
<1> QED
  BY <1>1, <1>2, PoolInvariance, PTL DEF Spec

\* Growing by chunks and moving the last entry implements a set of pairs from
\* which only closed ones are removed.
THEOREM SetRefinement == Spec => ImplementsSet
BY InitCorrect, StepCorrect, PoolInvariance, PTL
   DEF Spec, ImplementsSet, SetInst!Spec
=============================================================================
