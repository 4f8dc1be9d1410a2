------------------------------- MODULE FwPool -------------------------------
(***************************************************************************)
(* The pool of forwarded connections (fw_pool.c): an array of pointers     *)
(* that grows by ChunkSize entries, and from which an entry is removed by  *)
(* moving the last one into its place.  Only the Used entries are kept     *)
(* here: what the array holds beyond them is never read.                   *)
(*                                                                         *)
(* A store beyond the array is undefined behaviour: once an entry lies out *)
(* of bounds, nothing more is said of the pool.                            *)
(*                                                                         *)
(* Each operation is an action for Forward to build on; Spec is the way a  *)
(* session may use them.                                                   *)
(***************************************************************************)
EXTENDS Integers

CONSTANTS Pair,        \* addresses FwPairAlloc() can return
          ChunkSize,   \* POOL_ALLOC_SIZE
          MemoryFails  \* realloc() may fail

ASSUME FwPoolAssumption ==
  /\ ChunkSize \in Nat \ {0}
  /\ MemoryFails \in BOOLEAN

VARIABLES Used,    \* entries in use
          Alloc,   \* entries there is room for
          Items,   \* the entries in use
          Closed,  \* the pairs whose Closed flag is set
          Done     \* FwPoolDone() has been called

vars == <<Used, Alloc, Items, Closed, Done>>

Members == {Items[i] : i \in 0..Used-1}

\* FwPoolInit()
Init ==
  /\ Used = 0
  /\ Alloc = 0
  /\ Items = [i \in {} |-> {}]
  /\ Closed = {}
  /\ Done = FALSE

HasRoom == Used < Alloc /\ Alloc' = Alloc

Grow == Used >= Alloc /\ Alloc' = Alloc + ChunkSize

\* realloc() returned NULL: the pool stays as it is.
GrowFails == MemoryFails /\ Used >= Alloc /\ Alloc' = Alloc

Append(Item) == [i \in 0..Used |-> IF i = Used THEN Item ELSE Items[i]]

\* The store is made if Used <= Alloc, which is always so as long as no entry
\* was stored out of bounds: the result is Used, never -1.
FwPoolAdd(Item) ==
  /\ HasRoom \/ Grow \/ GrowFails
  /\ Items' = Append(Item)
  /\ Used' = Used + 1
  /\ UNCHANGED Closed

MutRemoveInPlace(Index) ==
  /\ Index \in 0..Used-1
  /\ Used' = Used - 1
  /\ Items' = [i \in 0..Used-2 |-> Items[i]]
  /\ UNCHANGED Alloc

MutRemoveKeepsUsed(Index) ==
  /\ Index \in 0..Used-1
  /\ Items' = [Items EXCEPT ![Index] = Items[Used-1]]
  /\ UNCHANGED <<Used, Alloc>>

FwPoolRemove(Index) ==
  /\ Index \in 0..Used-1
  /\ Used' = Used - 1
  /\ Items' = [i \in 0..Used-2 |-> IF i = Index THEN Items[Used-1] ELSE Items[i]]
  /\ UNCHANGED Alloc

FwPoolGet(Index, Null) == IF Index \in 0..Used-1 THEN Items[Index] ELSE Null

ClosedAt == {i \in 0..Used-1 : Items[i] \in Closed}

FwPoolFindClosed ==
  IF ClosedAt = {} THEN -1
                   ELSE CHOOSE i \in ClosedAt : \A j \in ClosedAt : i <= j

\* FwPairRelease() clears the flag of the closed pair that was found first and
\* removed.
RemoveClosed ==
  /\ ClosedAt # {}
  /\ FwPoolRemove(FwPoolFindClosed)
  /\ Closed' = Closed \ {Items[FwPoolFindClosed]}

\* One turn of the loop of FwPoolDone(): the first entry left is given up.  The
\* entries that are NULL by now are not kept: Items is numbered from the next
\* one on, and Used and Alloc count from there.
ReleaseFirst ==
  /\ Used > 0
  /\ Used' = Used - 1
  /\ Alloc' = Alloc - 1
  /\ Items' = [i \in 0..Used-2 |-> Items[i+1]]
  /\ Closed' = Closed \ {Items[0]}

-----------------------------------------------------------------------------
(***************************************************************************)
(* How a session uses the pool.                                            *)
(***************************************************************************)

\* FwPairAlloc() and FwPoolAdd(): the address is of no pair in the pool.
Join(p) == /\ p \notin Members \cup Closed
           /\ FwPoolAdd(p)
           /\ UNCHANGED Done

Mark(p) == Closed' = Closed \cup {p} /\ UNCHANGED <<Used, Alloc, Items, Done>>

Forget(p) == /\ p \notin Members
             /\ Closed' = Closed \ {p}
             /\ UNCHANGED <<Used, Alloc, Items, Done>>

Sweep == ~Done /\ RemoveClosed /\ UNCHANGED Done

\* FwPoolDone() is called.
FwPoolDone == ~Done /\ Done' = TRUE /\ UNCHANGED <<Used, Alloc, Items, Closed>>

Drain == Done /\ ReleaseFirst /\ UNCHANGED Done

\* Every entry lies inside the array: "Index, -1 if error" (fw_pool.c:86), an
\* entry for which the array could not be made large enough is refused.
InBounds == Used <= Alloc

Undefined == ~InBounds /\ UNCHANGED vars

Next == \/ /\ InBounds
           /\ \/ \E p \in Pair : Join(p) \/ Mark(p) \/ Forget(p)
              \/ Sweep
              \/ FwPoolDone
              \/ Drain
        \/ Undefined

Spec == Init /\ [][Next]_vars

-----------------------------------------------------------------------------

TypeOK ==
  /\ Used \in Nat
  /\ Alloc \in Nat
  /\ Items \in [0..Used-1 -> Pair]
  /\ Closed \in SUBSET Pair
  /\ Done \in BOOLEAN

\* No pair is in the pool twice, whatever was removed by moving the last entry
\* (fw_pool.c:113-128): each is released once.
NoPairTwice ==
  \A i, j \in 0..Used-1 : Items[i] = Items[j] => i = j

\* The pool implements a set of pairs from which only closed ones are removed
\* until it is drained (fw_pool.c:36-153).
SetInst == INSTANCE ForwardSet
  WITH members <- Members, marked <- Closed, over <- Done

ImplementsSet == SetInst!Spec
=============================================================================
