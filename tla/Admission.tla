----------------------------- MODULE Admission -----------------------------
(***************************************************************************)
(* What the connection limit of the HaaS trap promises, with no signals,   *)
(* tombs or select() in sight: every client process holds one of Limit     *)
(* slots from the moment it is admitted; it may leave at any time; its     *)
(* slot is given back later, alone or together with others, and never      *)
(* before it has left.                                                     *)
(***************************************************************************)
EXTENDS Integers

CONSTANTS Child,   \* process identifiers a client process may get
          Limit    \* number of slots

VARIABLES open,    \* the trap still admits clients
          living,  \* the client processes that have not ended
          held,    \* slots not yet given back
          owed     \* slots among these whose client process has ended

vars == <<open, living, held, owed>>

Init == /\ open = TRUE
        /\ living = {}
        /\ held = 0
        /\ owed = 0

Admit(c) == /\ open
            /\ held < Limit
            /\ c \notin living
            /\ living' = living \cup {c}
            /\ held' = held + 1
            /\ UNCHANGED <<open, owed>>

Leave(c) == /\ c \in living
            /\ living' = living \ {c}
            /\ owed' = owed + 1
            /\ UNCHANGED <<open, held>>

GiveBack(n) == /\ n \in 1..owed
               /\ held' = held - n
               /\ owed' = owed - n
               /\ UNCHANGED <<open, living>>

Close == /\ open
         /\ open' = FALSE
         /\ UNCHANGED <<living, held, owed>>

Next == \/ \E c \in Child : Admit(c) \/ Leave(c)
        \/ \E n \in 1..owed : GiveBack(n)
        \/ Close

Spec == Init /\ [][Next]_vars
=============================================================================
