----------------------------- MODULE ForwardSet -----------------------------
(***************************************************************************)
(* What the pool of forwarded connections promises: a set that pairs join  *)
(* when a forward is opened and leave, one at a time, only after they were *)
(* marked closed, until the set is over: then all leave, one at a time,    *)
(* and some may still join.                                                *)
(***************************************************************************)
CONSTANT Pair      \* forwarded connections

VARIABLES members, \* the pairs of the pool
          marked,  \* the pairs that are marked closed
          over     \* all pairs leave

vars == <<members, marked, over>>

Init == members = {} /\ marked = {} /\ over = FALSE

Join(p) == /\ p \notin members
           /\ members' = members \cup {p}
           /\ marked' = marked \ {p}
           /\ UNCHANGED over

Mark(p) == /\ marked' = marked \cup {p}
           /\ UNCHANGED <<members, over>>

\* The struct of a pair outside of the pool is initialised or released.
Forget(p) == /\ p \notin members
             /\ marked' = marked \ {p}
             /\ UNCHANGED <<members, over>>

Leave(p) == /\ p \in members
            /\ p \in marked \/ over
            /\ members' = members \ {p}
            /\ marked' = marked \ {p}
            /\ UNCHANGED over

End == over' = TRUE /\ UNCHANGED <<members, marked>>

Next == \/ \E p \in Pair : Join(p) \/ Mark(p) \/ Forget(p) \/ Leave(p)
        \/ End

Spec == Init /\ [][Next]_vars
=============================================================================
