---------------------------- MODULE MasterProofs ----------------------------
(***************************************************************************)
(* Proofs about Master for every set of process identifiers and every      *)
(* limit.  IInv strengthens the accounting of deaths until it is inductive:*)
(* it adds that a process is not both running and a zombie, that accept()  *)
(* finds the connection select() saw, and that there is room for a child   *)
(* wherever the program is about to fork or to count.                      *)
(***************************************************************************)
EXTENDS Master, FiniteSetTheorems, TLAPS

NotBoth == alive \cap zombie = {}

ClientWaits == pc = "Accept" => backlog > 0

RoomForOne == pc \in {"Fork", "Born"} => ChildCount < ConnLimit

IInv ==
  /\ TypeOK
  /\ NotBoth
  /\ ClientWaits
  /\ RoomForOne
  /\ DeathsCountedOnce
  /\ TwoTombsEnough

-----------------------------------------------------------------------------

\* Every set of children is finite and has a size.
LEMMA ChildSets ==
  ASSUME NEW S \in SUBSET Child
  PROVE  IsFiniteSet(S) /\ Cardinality(S) \in Nat
BY MasterAssumption, FS_Subset, FS_CardinalityType

\* Adding a child to a set it is not in makes the set larger by one.
LEMMA AddChild ==
  ASSUME NEW S \in SUBSET Child, NEW c \in Child, c \notin S
  PROVE  Cardinality(S \cup {c}) = Cardinality(S) + 1
BY ChildSets, FS_AddElement

\* Taking a child out of a set it is in makes the set smaller by one.
LEMMA RemoveChild ==
  ASSUME NEW S \in SUBSET Child, NEW c \in Child, c \in S
  PROVE  Cardinality(S \ {c}) = Cardinality(S) - 1
BY ChildSets, FS_RemoveElement

\* Running children and zombies are counted apart.
LEMMA BothSets ==
  ASSUME NEW S \in SUBSET Child, NEW T \in SUBSET Child, S \cap T = {}
  PROVE  Cardinality(S \cup T) = Cardinality(S) + Cardinality(T)
<1>1. IsFiniteSet(S) /\ IsFiniteSet(T)
  BY ChildSets
<1>2. Cardinality(S \cup T) = Cardinality(S) + Cardinality(T) - Cardinality({})
  BY <1>1, FS_Union
<1>3. Cardinality({}) = 0
  BY FS_EmptySet
<1>4. Cardinality(S) \in Nat /\ Cardinality(T) \in Nat
  BY ChildSets
<1> QED
  BY <1>2, <1>3, <1>4

-----------------------------------------------------------------------------

\* Initially no child exists and nothing is buried.
LEMMA InitIInv == Init => IInv
<1> SUFFICES ASSUME Init PROVE IInv
  OBVIOUS
<1>1. Cardinality({}) = 0
  BY FS_EmptySet
<1>2. TypeOK
  <2>1. /\ ShouldStop \in BOOLEAN
        /\ sigchld \in BOOLEAN
        /\ handling \in BOOLEAN
    BY Zenon DEF Init
  <2>2. GraveYard \in [Tomb -> Nat]
    BY DEF Init
  <2> QED
    BY <2>1, <2>2, MasterAssumption DEF Init, TypeOK, Tomb, Label
<1> QED
  BY <1>1, <1>2 DEF Init, IInv, NotBoth, ClientWaits, RoomForOne, DeathsCountedOnce,
     TwoTombsEnough, Held, Ended, Buried, Owed, Tomb, Other

\* A step of the main program, a failing select() included, keeps the invariant.
LEMMA MainStepIInv ==
  ASSUME IInv, MainStep \/ SelectFails
  PROVE  IInv'
<1> USE MasterAssumption
    DEF IInv, TypeOK, NotBoth, ClientWaits, RoomForOne, DeathsCountedOnce, TwoTombsEnough,
        Held, Ended, Buried, Owed, Tomb, Other, Label, At, Goto
<1>0. Cardinality(alive) \in Nat /\ Cardinality(zombie) \in Nat
  BY ChildSets
<1>1. CASE Check
  BY <1>0, <1>1 DEF Check, environment
<1>2. CASE Block \/ SelectTimeout
  BY <1>0, <1>2 DEF Block, SelectTimeout, environment
<1>3. CASE SelectReady
  BY <1>0, <1>3 DEF SelectReady, Ready, environment
<1>4. CASE SelectFails
  BY <1>0, <1>4 DEF SelectFails, environment
<1>5. CASE SelectInterrupted
  BY <1>0, <1>5 DEF SelectInterrupted, environment
<1>6. CASE TestErrno
  BY <1>0, <1>6 DEF TestErrno, environment
<1>7. CASE Bury
  BY <1>0, <1>7 DEF Bury, environment
<1>8. CASE Switch
  BY <1>0, <1>8 DEF Switch, environment
<1>9. CASE Count
  BY <1>0, <1>9 DEF Count, environment
<1>10. CASE Burn
  BY <1>0, <1>10 DEF Burn, environment
<1>11. CASE Settle
  BY <1>0, <1>11 DEF Settle, environment
<1>12. CASE Accept
  BY <1>0, <1>12 DEF Accept
<1>13. CASE Refuse
  BY <1>0, <1>13 DEF Refuse
<1>14. CASE AcceptFails
  BY <1>0, <1>14 DEF AcceptFails
<1>15. ASSUME NEW c \in Child, Fork(c) PROVE IInv'
  <2>1. Cardinality(alive') = Cardinality(alive) + 1
    BY <1>15, AddChild DEF Fork
  <2> QED
    BY <1>0, <1>15, <2>1 DEF Fork
<1>16. CASE ForkFails
  BY <1>0, <1>16 DEF ForkFails, environment
<1>17. CASE Born
  BY <1>0, <1>17 DEF Born, environment
<1>18. CASE Console
  BY <1>0, <1>18 DEF Console
<1>19. CASE Exit
  BY <1>0, <1>19 DEF Exit, environment
<1> QED
  BY <1>1, <1>2, <1>3, <1>4, <1>5, <1>6, <1>7, <1>8, <1>9, <1>10, <1>11, <1>12,
     <1>13, <1>14, <1>15, <1>16, <1>17, <1>18, <1>19 DEF MainStep

\* A step of the handler, of a child or of the environment keeps it.
LEMMA OtherStepIInv ==
  ASSUME IInv,
         \/ HandlerStep \/ StopSignal \/ (\E c \in Child : Die(c))
         \/ Connect \/ Type \/ UNCHANGED vars
  PROVE  IInv'
<1> USE MasterAssumption
    DEF IInv, TypeOK, NotBoth, ClientWaits, RoomForOne, DeathsCountedOnce, TwoTombsEnough,
        Held, Ended, Buried, Owed, Tomb, Other, Label, InterruptSelect
<1>0. Cardinality(alive) \in Nat /\ Cardinality(zombie) \in Nat
  BY ChildSets
<1>1. CASE Deliver
  <2>1. sigchld' \in BOOLEAN /\ handling' \in BOOLEAN
    BY <1>1, Zenon DEF Deliver
  <2> QED
    BY <1>0, <1>1, <2>1 DEF Deliver
<1>2. ASSUME NEW c \in Child, Reap(c) PROVE IInv'
  <2>1. Cardinality(zombie') = Cardinality(zombie) - 1
    BY <1>2, RemoveChild DEF Reap
  <2> QED
    BY <1>0, <1>2, <2>1 DEF Reap
<1>3. CASE HandlerReturns
  <2>1. handling' \in BOOLEAN
    BY <1>3, Zenon DEF HandlerReturns
  <2> QED
    BY <1>0, <1>3, <2>1 DEF HandlerReturns
<1>4. CASE StopSignal
  BY <1>0, <1>4 DEF StopSignal, environment
<1>5. ASSUME NEW c \in Child, Die(c) PROVE IInv'
  <2>1. Cardinality(alive') = Cardinality(alive) - 1
    BY <1>5, RemoveChild DEF Die
  <2>2. Cardinality(zombie') = Cardinality(zombie) + 1
    BY <1>5, AddChild DEF Die
  <2>3. DeathsCountedOnce'
    BY <1>0, <1>5, <2>1, <2>2 DEF Die, program
  <2>4. sigchld' \in BOOLEAN
    BY <1>5, Zenon DEF Die
  <2> QED
    BY <1>5, <2>3, <2>4 DEF Die, program
<1>6. CASE Connect
  BY <1>0, <1>6 DEF Connect, program
<1>7. CASE Type
  BY <1>0, <1>7 DEF Type, program
<1>8. CASE UNCHANGED vars
  BY <1>0, <1>8 DEF vars, program, environment
<1> QED
  BY <1>1, <1>2, <1>3, <1>4, <1>5, <1>6, <1>7, <1>8 DEF HandlerStep

\* The invariant holds in every reachable state.
THEOREM Invariance == Spec => []IInv
<1>1. IInv /\ [Next]_vars => IInv'
  BY MainStepIInv, OtherStepIInv DEF Next, Finished
<1> QED
  BY <1>1, InitIInv, PTL DEF Spec

-----------------------------------------------------------------------------

\* Every variable of the master keeps its type; ChildCount stays within
\* 0..ConnLimit.
THEOREM TypeCorrect == Spec => []TypeOK
BY Invariance, PTL DEF IInv

\* No death of a child is lost and none is counted twice (main.c:28).
THEOREM CountingCorrect == Spec => []DeathsCountedOnce
BY Invariance, PTL DEF IInv

\* Two tombs are enough (main.c:40).
THEOREM TombsCorrect == Spec => []TwoTombsEnough
BY Invariance, PTL DEF IInv

\* The number of client processes never exceeds the connection limit.
THEOREM LimitCorrect == Spec => []LimitRespected
<1>1. IInv => LimitRespected
  <2> SUFFICES ASSUME IInv PROVE LimitRespected
    OBVIOUS
  <2>1. Cardinality(alive \cup zombie) = Cardinality(alive) + Cardinality(zombie)
    BY BothSets DEF IInv, TypeOK, NotBoth
  <2>2. Cardinality(alive) \in Nat /\ Cardinality(zombie) \in Nat
    BY ChildSets DEF IInv, TypeOK
  <2> QED
    BY <2>1, <2>2, MasterAssumption DEF IInv, TypeOK, Tomb, RoomForOne,
       DeathsCountedOnce, LimitRespected, Held, Ended, Buried, Owed
<1> QED
  BY <1>1, Invariance, PTL

-----------------------------------------------------------------------------

\* A step of the main program is a step of Admission or changes none of its
\* variables: fork() admits, the harvest gives back, leaving the loop closes.
LEMMA MainStepRefines ==
  ASSUME IInv, IInv', MainStep \/ SelectFails
  PROVE  [AdmissionInst!Next]_AdmissionInst!vars
<1> USE DEF AdmissionInst!vars, Held, Ended, Buried, Owed, At, Goto
<1>0. /\ Cardinality(alive) \in Nat /\ Cardinality(zombie) \in Nat
      /\ GraveYard \in [Tomb -> Nat] /\ ChildCount \in Int /\ DeadCount \in Nat
  BY ChildSets, MasterAssumption DEF IInv, TypeOK
<1>1. ASSUME NEW c \in Child, Fork(c) PROVE AdmissionInst!Admit(c)
  BY <1>1 DEF Fork, AdmissionInst!Admit, IInv, RoomForOne
<1>2. CASE Burn
  <2>1. DeadCount = GraveYard[PrevTomb] /\ PrevTomb \in Tomb
    BY <1>2 DEF Burn, IInv, TypeOK, TwoTombsEnough
  <2> QED
    BY <1>0, <1>2, <2>1 DEF Burn, Tomb, environment
<1>3. CASE Settle
  <2>1. CASE DeadCount = 0
    BY <1>0, <1>3, <2>1 DEF Settle, environment, Tomb
  <2>2. CASE DeadCount > 0
    <3>1. DeadCount \in 1..Ended
      BY <1>0, <1>3, <2>2 DEF Settle, Tomb
    <3>2. AdmissionInst!GiveBack(DeadCount)
      BY <1>0, <1>3, <3>1 DEF Settle, AdmissionInst!GiveBack, environment, Tomb
    <3> QED
      BY <3>1, <3>2 DEF AdmissionInst!Next
  <2> QED
    BY <1>0, <2>1, <2>2
<1>4. CASE Exit
  <2>1. AdmissionInst!Close
    BY <1>4 DEF Exit, AdmissionInst!Close, environment
  <2> QED
    BY <2>1 DEF AdmissionInst!Next
<1>5. CASE Born
  BY <1>5 DEF Born, environment
<1>6. CASE \/ Check \/ Block \/ SelectTimeout \/ SelectReady \/ SelectFails
           \/ SelectInterrupted \/ TestErrno
  BY <1>6 DEF Check, Block, SelectTimeout, SelectReady, SelectFails,
     SelectInterrupted, TestErrno, environment
<1>7. CASE Bury \/ Switch \/ Count
  BY <1>7 DEF Bury, Switch, Count, environment
<1>8. CASE Accept \/ Refuse \/ AcceptFails \/ ForkFails \/ Console
  BY <1>8 DEF Accept, Refuse, AcceptFails, ForkFails, Console, environment
<1> QED
  BY <1>1, <1>2, <1>3, <1>4, <1>5, <1>6, <1>7, <1>8
     DEF MainStep, AdmissionInst!Next

\* Of the other steps only the death of a child is one of Admission: waiting
\* for a zombie moves it to a tomb, and the slot stays owed.
LEMMA OtherStepRefines ==
  ASSUME IInv,
         \/ HandlerStep \/ StopSignal \/ (\E c \in Child : Die(c))
         \/ Connect \/ Type \/ UNCHANGED vars
  PROVE  [AdmissionInst!Next]_AdmissionInst!vars
<1> USE DEF AdmissionInst!vars, Held, Ended, Buried, Owed, program, environment
<1>0. /\ Cardinality(zombie) \in Nat /\ zombie \in SUBSET Child
      /\ GraveYard \in [Tomb -> Nat] /\ CurrTomb \in Tomb /\ DeadCount \in Nat
  BY ChildSets, MasterAssumption DEF IInv, TypeOK
<1>1. ASSUME NEW c \in Child, Die(c) PROVE AdmissionInst!Leave(c)
  <2>1. Cardinality(zombie') = Cardinality(zombie) + 1
    BY <1>0, <1>1, AddChild DEF Die, IInv, NotBoth
  <2> QED
    BY <1>0, <1>1, <2>1 DEF Die, AdmissionInst!Leave, Tomb
<1>2. ASSUME NEW c \in Child, Reap(c) PROVE UNCHANGED AdmissionInst!vars
  <2>1. Cardinality(zombie') = Cardinality(zombie) - 1
    BY <1>0, <1>2, RemoveChild DEF Reap
  <2>2. GraveYard'[0] + GraveYard'[1] = GraveYard[0] + GraveYard[1] + 1
    BY <1>0, <1>2 DEF Reap, Tomb
  <2> QED
    BY <1>0, <1>2, <2>1, <2>2 DEF Reap, Tomb
<1>3. CASE Deliver \/ HandlerReturns \/ StopSignal
  BY <1>3 DEF Deliver, HandlerReturns, StopSignal, InterruptSelect
<1>4. CASE Connect \/ Type \/ UNCHANGED vars
  BY <1>4 DEF Connect, Type, vars
<1> QED
  BY <1>1, <1>2, <1>3, <1>4 DEF HandlerStep, AdmissionInst!Next

\* The accept loop, its handler and the tombs together implement the slot
\* discipline of Admission (main.c:44-65, 293-391).
THEOREM Refinement == Spec => ImplementsAdmission
<1>1. Init => AdmissionInst!Init
  <2>1. Cardinality({}) = 0
    BY FS_EmptySet
  <2> QED
    BY <2>1 DEF Init, AdmissionInst!Init, Held, Ended, Buried, Owed, Tomb
<1>2. IInv /\ IInv' /\ [Next]_vars => [AdmissionInst!Next]_AdmissionInst!vars
  BY MainStepRefines, OtherStepRefines DEF Next, Finished
<1> QED
  BY <1>1, <1>2, Invariance, PTL DEF Spec, ImplementsAdmission, AdmissionInst!Spec
=============================================================================
