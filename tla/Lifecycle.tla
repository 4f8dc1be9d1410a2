----------------------------- MODULE Lifecycle -----------------------------
(***************************************************************************)
(* What the process of a client promises about its resources: it gathers   *)
(* them while the client logs in, relays with all that relaying needs and  *)
(* neither takes nor gives anything meanwhile.  It may take some more      *)
(* while its forwarded connections are drained, but nothing once it closes *)
(* its sessions, and it ends with none, or by using what it has given up.  *)
(***************************************************************************)
CONSTANT Needed  \* what relaying needs

VARIABLES stage, held

vars == <<stage, held>>

Init == stage = "login"

Take == stage \in {"login", "drain"} /\ held \subseteq held' /\ UNCHANGED stage

Begin == stage = "login" /\ Needed \subseteq held /\ stage' = "relay" /\ UNCHANGED held

End == stage \in {"login", "relay"} /\ stage' = "drain" /\ UNCHANGED held

Give ==
  /\ stage \in {"drain", "closing"}
  /\ \E some \in (SUBSET held) \ {{}} : held' = held \ some
  /\ UNCHANGED stage

Close == stage = "drain" /\ stage' = "closing" /\ held' \subseteq held

Done == stage = "closing" /\ stage' = "done" /\ held' = {}

Crash == stage = "closing" /\ stage' = "crashed" /\ UNCHANGED held

Next == Take \/ Begin \/ End \/ Give \/ Close \/ Done \/ Crash

Safety == Init /\ [][Next]_vars

\* Once begun, giving back comes to its end.
Spec == Safety /\ WF_vars(Give \/ Close \/ Done)
=============================================================================
