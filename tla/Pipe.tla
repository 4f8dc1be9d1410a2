-------------------------------- MODULE Pipe --------------------------------
(***************************************************************************)
(* What relaying promises for one direction of one stream: what comes out  *)
(* is what went in, in order, with nothing missing in between; at some     *)
(* point the output is ended, after which nothing more comes out, even if  *)
(* some of the input is still on its way.                                  *)
(***************************************************************************)
EXTENDS Integers, Sequences

VARIABLES sent,   \* what went in
          got,    \* what came out
          ended   \* the output is ended

vars == <<sent, got, ended>>

Init == sent = <<>> /\ got = <<>> /\ ended = FALSE

\* Something goes in at the end.
Put == /\ Len(sent') > Len(sent)
       /\ SubSeq(sent', 1, Len(sent)) = sent
       /\ UNCHANGED <<got, ended>>

\* The next things that went in come out.
Get == /\ ~ended
       /\ \E n \in Len(got)+1..Len(sent) : got' = SubSeq(sent, 1, n)
       /\ UNCHANGED <<sent, ended>>

End == ended' = TRUE /\ UNCHANGED <<sent, got>>

Next == Put \/ Get \/ End

Spec == Init /\ [][Next]_vars
=============================================================================
