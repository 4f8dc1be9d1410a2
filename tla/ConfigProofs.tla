---------------------------- MODULE ConfigProofs ----------------------------
(***************************************************************************)
(* Proofs about Config for command lines of any length, any numbers and    *)
(* strings and every width of an int.  As long as nothing was refused, the *)
(* configuration is what the options on the command line say: from that    *)
(* follows what it is once the defaults are filled in.                     *)
(***************************************************************************)
EXTENDS Config, TLAPS

Arguments == Numbers \cup {Junk} \cup Strings \cup BOOLEAN

\* getopt() returned options and their arguments.
GivenType == given \in Seq([option : Options \cup {"?"}, arg : Arguments])

\* A number that was not given is -1; one that was is what was given, once, and
\* it is in its range.
NumberStored(o) ==
  \/ Occurs(o) = {} /\ Config[o] = -1
  \/ \E i \in Occurs(o) :
       /\ Occurs(o) = {i}
       /\ given[i].arg \in Numbers
       /\ Config[o] = ToInt(given[i].arg)
       /\ InRange(o, Config[o])

\* A text that was not given is a null pointer; one that was is what was given, once.
TextStored(o) ==
  \/ Occurs(o) = {} /\ Config[o] = None
  \/ \E i \in Occurs(o) :
       /\ Occurs(o) = {i}
       /\ given[i].arg \in Strings
       /\ Config[o] = given[i].arg

\* While nothing was refused the configuration is what the options say.
Stored ==
  pc # "done" /\ Back = 1 =>
    /\ \A o \in Numeric : NumberStored(o)
    /\ \A o \in Texts : TextStored(o)

\* The defaults are filled in at the end only.
NotDefaulted == pc # "done" => \A o \in Texts : Config[o] \in Strings \cup {None}

IInv ==
  /\ GivenType
  /\ TypeOK
  /\ NotDefaulted
  /\ Stored
  /\ AcceptedUsable
  /\ MeansWhatWasGiven

-----------------------------------------------------------------------------
(***************************************************************************)
(* Numbers and options.                                                    *)
(***************************************************************************)

\* What an int was assigned fits in it.
LEMMA ToIntFits ==
  ASSUME NEW i \in Int
  PROVE  ToInt(i) \in Int /\ ToInt(i) <= MaxInt
<1> DEFINE n == 2 * (MaxInt + 1)
           x == i + MaxInt + 1
<1>1. MaxInt \in Nat /\ n \in Nat \ {0} /\ x \in Int
  BY ConfigAssumption
<1>2. \A y \in Int, m \in Nat \ {0} : y % m \in 0..m-1
  OBVIOUS
<1>3. x % n \in 0..n-1
  BY <1>1, <1>2
<1> QED
  BY <1>1, <1>3 DEF ToInt

\* What each range lets pass.
LEMMA InRangeMeans ==
  ASSUME NEW o \in Numeric, NEW v \in Int, InRange(o, v)
  PROVE  /\ v >= 0
         /\ o \in Ports => v \in 1..PortLimit-1
         /\ o \in Counts => v >= 1
         /\ o = "ForwardMode" => v \in 0..FORWARD_MODE_MAX-1
<1>1. o \in Ports \/ o \in Counts \/ o = "ForwardMode"
  BY DEF Numeric
<1> QED
  BY <1>1 DEF InRange, PortLimit, FORWARD_MODE_MAX

\* An option that is given adds its place to those of that option only.
LEMMA OneMore ==
  ASSUME GivenType, NEW o \in Options \cup {"?"}, NEW arg \in Arguments, Given(o, arg)
  PROVE  /\ GivenType'
         /\ given'[Len(given) + 1].arg = arg
         /\ \A i \in DOMAIN given : given'[i] = given[i]
         /\ Occurs(o)' = Occurs(o) \cup {Len(given) + 1}
         /\ \A q \in Options : q # o => Occurs(q)' = Occurs(q)
         /\ \A q \in Options : Occurs(q) \subseteq DOMAIN given
<1> DEFINE e == [option |-> o, arg |-> arg]
           S == [option : Options \cup {"?"}, arg : Arguments]
<1>1. given \in Seq(S) /\ e \in S /\ given' = Append(given, e)
  BY DEF GivenType, Given
<1>2. e.option = o /\ e.arg = arg
  OBVIOUS
<1> HIDE DEF e, S
<1>3. /\ given' \in Seq(S) /\ Len(given) \in Nat
      /\ DOMAIN given = 1..Len(given) /\ DOMAIN given' = 1..Len(given) + 1
      /\ given'[Len(given) + 1] = e
      /\ \A i \in DOMAIN given : given'[i] = given[i]
  BY <1>1
<1>4. \A i \in DOMAIN given' : i = Len(given) + 1 \/ i \in DOMAIN given
  BY <1>3
<1>5. Len(given) + 1 \notin DOMAIN given /\ DOMAIN given \subseteq DOMAIN given'
      /\ Len(given) + 1 \in DOMAIN given'
  BY <1>3
<1>6. Occurs(o)' = Occurs(o) \cup {Len(given) + 1}
  BY <1>2, <1>3, <1>4, <1>5 DEF Occurs
<1>7. \A q \in Options : q # o => Occurs(q)' = Occurs(q)
  BY <1>2, <1>3, <1>4, <1>5 DEF Occurs
<1> QED
  BY <1>2, <1>3, <1>6, <1>7 DEF GivenType, S, Occurs

\* The kinds of options are different.
LEMMA Kinds ==
  /\ Numeric \subseteq Options /\ Texts \subseteq Options /\ Switches \subseteq Options
  /\ \A o \in Numeric : o \notin Texts /\ o \notin Switches
  /\ \A o \in Texts : o \notin Numeric /\ o \notin Switches
  /\ \A o \in Switches : o \notin Numeric /\ o \notin Texts
  /\ "?" \notin Options /\ "HaasToken" \in Texts /\ "WantHelp" \in Switches
<1>1. \A o \in Numeric : o \notin Texts /\ o \notin Switches
  BY DEF Numeric, Ports, Counts, Texts, Switches
<1>2. "?" \notin Numeric /\ "?" \notin Texts /\ "?" \notin Switches
  BY DEF Numeric, Ports, Counts, Texts, Switches
<1>3. \A o \in Texts : o \notin Switches
  BY DEF Texts, Switches
<1>4. "HaasToken" \in Texts /\ "WantHelp" \in Switches
  BY DEF Texts, Switches
<1> QED
  BY <1>1, <1>2, <1>3, <1>4, Zenon DEF Options

\* An option leaves what is stored of the others.
LEMMA OthersKept ==
  ASSUME GivenType, NEW o \in Options \cup {"?"}, NEW arg \in Arguments, Given(o, arg),
         NEW q \in Options, q # o, Config'[q] = Config[q]
  PROVE  /\ NumberStored(q) => NumberStored(q)'
         /\ TextStored(q) => TextStored(q)'
<1>1. /\ Occurs(q)' = Occurs(q)
      /\ \A i \in Occurs(q) : given'[i] = given[i]
  BY OneMore
<1>2. ASSUME NumberStored(q) PROVE NumberStored(q)'
  <2>1. CASE Occurs(q) = {} /\ Config[q] = -1
    BY <1>1, <2>1 DEF NumberStored
  <2>2. ASSUME NEW i \in Occurs(q), Occurs(q) = {i}, given[i].arg \in Numbers,
               Config[q] = ToInt(given[i].arg), InRange(q, Config[q])
        PROVE  NumberStored(q)'
    <3>1. i \in Occurs(q)' /\ Occurs(q)' = {i} /\ given'[i] = given[i]
      BY <1>1, <2>2
    <3>2. given'[i].arg \in Numbers /\ Config'[q] = ToInt(given'[i].arg)
      BY <2>2, <3>1
    <3>3. InRange(q, Config'[q])
      BY <2>2
    <3> QED
      BY <3>1, <3>2, <3>3 DEF NumberStored, InRange, ToInt
  <2> QED
    BY <1>2, <2>1, <2>2 DEF NumberStored
<1>3. ASSUME TextStored(q) PROVE TextStored(q)'
  BY <1>1, <1>3 DEF TextStored
<1> QED
  BY <1>2, <1>3

-----------------------------------------------------------------------------
(***************************************************************************)
(* The invariant.                                                          *)
(***************************************************************************)

\* Nothing is given and nothing is stored.
LEMMA InitIInv == Init => IInv
<1> SUFFICES ASSUME Init PROVE IInv
  OBVIOUS
<1>1. /\ pc = "getopt" /\ Back = 1 /\ given = <<>>
      /\ DOMAIN Config = Options
      /\ \A o \in Numeric : Config[o] = -1
      /\ \A o \in Texts : Config[o] = None
      /\ \A o \in Switches : Config[o] = FALSE
  BY Kinds DEF Init
<1>2. GivenType
  BY <1>1 DEF GivenType
<1>3. TypeOK
  <2>1. \A o \in Switches : Config[o] \in BOOLEAN
    BY <1>1, Zenon
  <2> QED
    BY <1>1, <2>1 DEF TypeOK
<1>4. \A o \in Options : Occurs(o) = {}
  BY <1>1 DEF Occurs
<1>5. NotDefaulted
  BY <1>1 DEF NotDefaulted
<1>6. Stored
  BY <1>1, <1>4, Kinds DEF Stored, NumberStored, TextStored
<1> QED
  BY <1>1, <1>2, <1>3, <1>5, <1>6 DEF IInv, AcceptedUsable, MeansWhatWasGiven, Accepted

\* What is refused ends the parsing with the configuration as it was.
LEMMA RefuseKeeps ==
  ASSUME IInv, NEW o \in Options \cup {"?"}, NEW arg \in Arguments, Given(o, arg), Refuse
  PROVE  IInv'
<1>1. GivenType'
  BY OneMore DEF IInv
<1>2. pc # "done" /\ pc' = "check" /\ Back' = 0 /\ Config' = Config
  BY DEF Given, Refuse
<1> QED
  BY <1>1, <1>2 DEF IInv, TypeOK, NotDefaulted, Stored, AcceptedUsable, MeansWhatWasGiven,
     Accepted

\* A number is stored the first time it is given, and only in its range.
LEMMA ParseIntKeeps ==
  ASSUME IInv, NEW o \in Numeric, NEW arg \in Numbers \cup {Junk}, ParseInt(o, arg)
  PROVE  IInv'
<1>1. o \in Options \cup {"?"} /\ arg \in Arguments /\ Given(o, arg)
  BY Kinds DEF Arguments, ParseInt
<1> DEFINE v == ToInt(arg)
<1>2. CASE Config[o] = -1 /\ arg \in Numbers /\ InRange(o, v)
  <2>1. Store(o, v) /\ pc = "getopt" /\ Back = 1
    BY <1>2 DEF ParseInt, Given
  <2>2. v \in Int /\ v <= MaxInt /\ v >= 0 /\ MaxInt \in Nat
    BY <1>2, ToIntFits, InRangeMeans, ConfigAssumption
  <2> HIDE DEF v
  <2>3. DOMAIN Config = Options
    BY DEF IInv, TypeOK
  <2>4. /\ pc' = "getopt" /\ Back' = 1 /\ DOMAIN Config' = Options
        /\ Config'[o] = v
        /\ \A q \in Options : q # o => Config'[q] = Config[q]
    BY <2>1, <2>3, Kinds DEF Store
  <2>5. TypeOK'
    <3>1. \A q \in Numeric : Config'[q] = -1 \/ Config'[q] \in 0..MaxInt
      BY <2>2, <2>4, Kinds DEF IInv, TypeOK
    <3>2. \A q \in Texts \cup Switches : Config'[q] = Config[q]
      BY <2>4, Kinds
    <3> QED
      BY <2>4, <3>1, <3>2 DEF IInv, TypeOK
  <2>6. GivenType'
    BY <1>1, OneMore DEF IInv
  <2>7. NotDefaulted'
    BY <2>1, <2>4, Kinds DEF IInv, NotDefaulted
  <2>8. Occurs(o) = {}
    <3>1. NumberStored(o)
      BY <2>1 DEF IInv, Stored
    <3>2. ~InRange(o, -1)
      BY InRangeMeans
    <3> QED
      BY <1>2, <3>1, <3>2 DEF NumberStored
  <2>9. NumberStored(o)'
    <3>1. given'[Len(given) + 1].arg = arg /\ Occurs(o)' = {Len(given) + 1}
      BY <1>1, <2>8, OneMore DEF IInv
    <3>2. InRange(o, Config'[o]) /\ Config'[o] = ToInt(arg)
      BY <1>2, <2>4 DEF v
    <3> QED
      BY <1>2, <3>1, <3>2 DEF NumberStored, InRange, ToInt
  <2>10. Stored'
    <3>1. \A q \in Numeric : NumberStored(q)'
      <4> TAKE q \in Numeric
      <4>1. CASE q = o
        BY <2>9, <4>1
      <4>2. CASE q # o
        <5>1. NumberStored(q) /\ q \in Options /\ Config'[q] = Config[q]
          BY <2>1, <2>4, <4>2, Kinds DEF IInv, Stored
        <5> QED
          BY <1>1, <4>2, <5>1, OthersKept DEF IInv
      <4> QED
        BY <4>1, <4>2
    <3>2. \A q \in Texts : TextStored(q)'
      <4> TAKE q \in Texts
      <4>1. q # o /\ TextStored(q) /\ q \in Options /\ Config'[q] = Config[q]
        BY <2>1, <2>4, Kinds DEF IInv, Stored
      <4> QED
        BY <1>1, <4>1, OthersKept DEF IInv
    <3> QED
      BY <3>1, <3>2 DEF Stored
  <2> QED
    BY <2>4, <2>5, <2>6, <2>7, <2>10 DEF IInv, AcceptedUsable, MeansWhatWasGiven, Accepted
<1>3. CASE ~(Config[o] = -1 /\ arg \in Numbers /\ InRange(o, v))
  BY <1>1, <1>3, RefuseKeeps DEF ParseInt
<1> QED
  BY <1>2, <1>3

\* A text is stored the first time it is given.
LEMMA TextKeeps ==
  ASSUME IInv, NEW o \in Texts, NEW arg \in Strings, Text(o, arg)
  PROVE  IInv'
<1>1. o \in Options \cup {"?"} /\ arg \in Arguments /\ Given(o, arg)
  BY Kinds DEF Arguments, Text
<1>2. CASE Config[o] = None
  <2>1. Store(o, arg) /\ pc = "getopt" /\ Back = 1
    BY <1>2 DEF Text, Given
  <2>2. DOMAIN Config = Options
    BY DEF IInv, TypeOK
  <2>3. /\ pc' = "getopt" /\ Back' = 1 /\ DOMAIN Config' = Options
        /\ Config'[o] = arg
        /\ \A q \in Options : q # o => Config'[q] = Config[q]
    BY <2>1, <2>2, Kinds DEF Store
  <2>4. \A q \in Numeric \cup Switches : Config'[q] = Config[q]
    BY <2>3, Kinds
  <2>5. \A q \in Texts : Config'[q] \in Strings \cup {None}
    BY <2>1, <2>3, Kinds DEF IInv, NotDefaulted
  <2>6. TypeOK' /\ NotDefaulted'
    BY <2>3, <2>4, <2>5 DEF IInv, TypeOK, NotDefaulted
  <2>7. GivenType'
    BY <1>1, OneMore DEF IInv
  <2>8. Occurs(o) = {}
    <3>1. TextStored(o)
      BY <2>1 DEF IInv, Stored
    <3> QED
      BY <1>2, <3>1, ConfigAssumption DEF TextStored
  <2>9. TextStored(o)'
    <3>1. given'[Len(given) + 1].arg = arg /\ Occurs(o)' = {Len(given) + 1}
      BY <1>1, <2>8, OneMore DEF IInv
    <3> QED
      BY <2>3, <3>1 DEF TextStored
  <2>10. Stored'
    <3>1. \A q \in Texts : TextStored(q)'
      <4> TAKE q \in Texts
      <4>1. CASE q = o
        BY <2>9, <4>1
      <4>2. CASE q # o
        <5>1. TextStored(q) /\ q \in Options /\ Config'[q] = Config[q]
          BY <2>1, <2>3, <4>2, Kinds DEF IInv, Stored
        <5> QED
          BY <1>1, <4>2, <5>1, OthersKept DEF IInv
      <4> QED
        BY <4>1, <4>2
    <3>2. \A q \in Numeric : NumberStored(q)'
      <4> TAKE q \in Numeric
      <4>1. q # o /\ NumberStored(q) /\ q \in Options /\ Config'[q] = Config[q]
        BY <2>1, <2>3, Kinds DEF IInv, Stored
      <4> QED
        BY <1>1, <4>1, OthersKept DEF IInv
    <3> QED
      BY <3>1, <3>2 DEF Stored
  <2> QED
    BY <2>3, <2>6, <2>7, <2>10 DEF IInv, AcceptedUsable, MeansWhatWasGiven, Accepted
<1>3. CASE Config[o] # None
  BY <1>1, <1>3, RefuseKeeps DEF Text
<1> QED
  BY <1>2, <1>3

\* A switch is not a number and not a text.
LEMMA SwitchKeeps ==
  ASSUME IInv, NEW o \in Switches, Switch(o)
  PROVE  IInv'
<1>1. o \in Options \cup {"?"} /\ TRUE \in Arguments /\ Given(o, TRUE)
  BY Kinds, Zenon DEF Arguments, Switch
<1>2. Store(o, TRUE) /\ pc = "getopt" /\ Back = 1
  BY DEF Switch, Given
<1>3. DOMAIN Config = Options
  BY DEF IInv, TypeOK
<1>4. /\ pc' = "getopt" /\ Back' = 1 /\ DOMAIN Config' = Options
      /\ Config'[o] = TRUE
      /\ \A q \in Options : q # o => Config'[q] = Config[q]
  BY <1>2, <1>3, Kinds DEF Store
<1>5. \A q \in Numeric \cup Texts : Config'[q] = Config[q]
  BY <1>4, Kinds
<1>6. \A q \in Switches : Config'[q] \in BOOLEAN
  BY <1>4, Kinds, Zenon DEF IInv, TypeOK
<1>7. TypeOK' /\ NotDefaulted'
  BY <1>2, <1>4, <1>5, <1>6 DEF IInv, TypeOK, NotDefaulted
<1>8. GivenType'
  BY <1>1, OneMore DEF IInv
<1>9. Stored'
  <2>1. \A q \in Numeric \cup Texts : q # o /\ q \in Options
    BY Kinds
  <2>2. \A q \in Numeric : NumberStored(q)'
    BY <1>1, <1>2, <1>5, <2>1, OthersKept DEF IInv, Stored
  <2>3. \A q \in Texts : TextStored(q)'
    BY <1>1, <1>2, <1>5, <2>1, OthersKept DEF IInv, Stored
  <2> QED
    BY <2>2, <2>3 DEF Stored
<1> QED
  BY <1>4, <1>7, <1>8, <1>9 DEF IInv, AcceptedUsable, MeansWhatWasGiven, Accepted

\* Further arguments refuse the command line and change nothing else.
LEMMA NoMoreKeeps ==
  ASSUME IInv, NoMore
  PROVE  IInv'
<1>1. /\ pc = "getopt" /\ pc' = "check" /\ Config' = Config /\ given' = given
      /\ Back' \in {0, Back}
  BY DEF NoMore
<1>2. GivenType' /\ NotDefaulted' /\ TypeOK'
  BY <1>1 DEF IInv, GivenType, NotDefaulted, TypeOK
<1>3. Stored'
  <2> SUFFICES ASSUME Back' = 1 PROVE Stored'
    BY DEF Stored
  <2>1. Back = 1
    BY <1>1
  <2> QED
    BY <1>1, <2>1 DEF IInv, Stored, NumberStored, TextStored, Occurs, InRange, ToInt
<1> QED
  BY <1>1, <1>2, <1>3 DEF IInv, AcceptedUsable, MeansWhatWasGiven, Accepted

\* The defaults are in their ranges.
LEMMA Defaults ==
  /\ DOMAIN Defaulted = Ports \cup {"IdleTimeout", "ConnLimit", "ForwardMode"}
                           \cup (Texts \ {"HaasToken"})
  /\ \A o \in DOMAIN Defaulted \cap Numeric :
       Defaulted[o] \in Int /\ Defaulted[o] <= 32767 /\ InRange(o, Defaulted[o])
  /\ \A o \in DOMAIN Defaulted \cap Texts : Defaulted[o] # None
<1>1. DOMAIN Defaulted = {"TrapPort", "HaasPort", "IdleTimeout", "ConnLimit", "ForwardMode",
                          "HaasAddr", "KeysDir", "Banner"}
  BY DEF Defaulted
<1>2. /\ Defaulted["TrapPort"] = 2222 /\ Defaulted["HaasPort"] = 10000
      /\ Defaulted["IdleTimeout"] = 30 /\ Defaulted["ConnLimit"] = 30
      /\ Defaulted["ForwardMode"] = 2
      /\ Defaulted["HaasAddr"] # None /\ Defaulted["KeysDir"] # None
      /\ Defaulted["Banner"] # None
  BY DEF Defaulted, None
<1>3. DOMAIN Defaulted = Ports \cup {"IdleTimeout", "ConnLimit", "ForwardMode"}
                           \cup (Texts \ {"HaasToken"})
  BY <1>1 DEF Ports, Texts
<1>4. \A o \in DOMAIN Defaulted \cap Numeric :
        Defaulted[o] \in Int /\ Defaulted[o] <= 32767 /\ InRange(o, Defaulted[o])
  <2> TAKE o \in DOMAIN Defaulted \cap Numeric
  <2>1. o \in {"TrapPort", "HaasPort", "IdleTimeout", "ConnLimit", "ForwardMode"}
    BY <1>1 DEF Numeric, Ports, Counts
  <2>2. CASE o \in {"TrapPort", "HaasPort"}
    BY <1>2, <2>2 DEF InRange, Counts, PortLimit
  <2>3. CASE o \in {"IdleTimeout", "ConnLimit"}
    BY <1>2, <2>3 DEF InRange, Ports
  <2>4. CASE o = "ForwardMode"
    BY <1>2, <2>4 DEF InRange, Ports, Counts, FORWARD_MODE_MAX
  <2> QED
    BY <2>1, <2>2, <2>3, <2>4
<1>5. \A o \in DOMAIN Defaulted \cap Texts : Defaulted[o] # None
  BY <1>1, <1>2 DEF Texts
<1> QED
  BY <1>3, <1>4, <1>5

\* What was not given gets its default, and what has none keeps its mark.
LEMMA CheckKeeps ==
  ASSUME IInv, Check
  PROVE  IInv'
<1>1. /\ pc = "check" /\ pc' = "done" /\ given' = given /\ Back \in {0, 1}
      /\ Back' = (IF ~Config.WantHelp /\ Config.HaasToken = None THEN 0 ELSE Back)
  BY DEF Check, IInv, TypeOK
<1>2. GivenType' /\ NotDefaulted' /\ Stored'
  BY <1>1 DEF IInv, GivenType, NotDefaulted, Stored
<1>3. CASE Config.WantHelp \/ Back' = 0
  <2>1. Config' = Config
    BY <1>3, Zenon DEF Check
  <2>2. TypeOK'
    <3>1. Back' \in {0, 1}
      BY <1>1
    <3> QED
      BY <1>1, <2>1, <3>1, Zenon DEF IInv, TypeOK
  <2>3. ~Accepted'
    BY <1>3, <2>1 DEF Accepted
  <2> QED
    BY <1>2, <2>2, <2>3 DEF IInv, AcceptedUsable, MeansWhatWasGiven
<1>4. CASE ~(Config.WantHelp \/ Back' = 0)
  <2>1. Back = 1 /\ Back' = 1 /\ Config["HaasToken"] # None
    BY <1>1, <1>4
  <2>2. /\ DOMAIN Config = Options
        /\ Config' = [o \in DOMAIN Config |->
                        IF /\ o \in DOMAIN Defaulted
                           /\ Config[o] = (IF o \in Numeric THEN -1 ELSE None)
                        THEN Defaulted[o] ELSE Config[o]]
    BY <1>4 DEF Check, IInv, TypeOK
  <2>3. DOMAIN Config' = Options
    BY <2>2
  <2>4. \A o \in Numeric : Config'[o] = IF o \in DOMAIN Defaulted /\ Config[o] = -1
                                       THEN Defaulted[o] ELSE Config[o]
    BY <2>2, Kinds
  <2>5. \A o \in Texts : Config'[o] = IF o \in DOMAIN Defaulted /\ Config[o] = None
                                     THEN Defaulted[o] ELSE Config[o]
    BY <2>2, Kinds
  <2>6. \A o \in Switches : Config'[o] = Config[o]
    <3>1. \A o \in Switches : o \notin DOMAIN Defaulted
      BY Defaults DEF Switches, Ports, Texts
    <3> QED
      BY <2>2, <3>1, Kinds
  <2>7. /\ \A o \in Numeric : NumberStored(o)
        /\ \A o \in Texts : TextStored(o)
        /\ \A o \in Options : Occurs(o)' = Occurs(o)
    BY <1>1, <2>1 DEF IInv, Stored, Occurs
  <2>8. ASSUME NEW o \in Numeric
        PROVE  /\ \/ Occurs(o) = {} /\ Config[o] = -1
                  \/ \E i \in Occurs(o) : Occurs(o) = {i} /\ Config[o] = ToInt(given[i].arg)
               /\ \/ Config[o] = -1
                  \/ Config[o] \in 0..MaxInt /\ InRange(o, Config[o])
    BY <2>7, InRangeMeans DEF NumberStored, IInv, TypeOK
  <2>9. ASSUME NEW o \in Numeric
        PROVE  \/ /\ o \in DOMAIN Defaulted /\ Occurs(o) = {}
                  /\ Config'[o] = Defaulted[o] /\ InRange(o, Config'[o])
                  /\ Config'[o] \in 0..MaxInt
               \/ /\ o \notin DOMAIN Defaulted /\ Occurs(o) = {} /\ Config'[o] = -1
               \/ /\ \E i \in Occurs(o) :
                       Occurs(o) = {i} /\ Config'[o] = ToInt(given[i].arg)
                  /\ Config'[o] \in 0..MaxInt /\ InRange(o, Config'[o])
    <3>1. o \in DOMAIN Defaulted =>
            Defaulted[o] \in 0..MaxInt /\ InRange(o, Defaulted[o])
      BY Defaults, InRangeMeans, ConfigAssumption
    <3>2. Occurs(o) = {} => Config[o] = -1
      BY <2>8
    <3>3. CASE Occurs(o) = {}
      BY <2>4, <3>1, <3>2, <3>3
    <3>4. CASE Occurs(o) # {}
      <4>1. NumberStored(o)
        BY <2>7
      <4>2. PICK i \in Occurs(o) : /\ Occurs(o) = {i} /\ Config[o] = ToInt(given[i].arg)
                                   /\ InRange(o, Config[o])
        BY <3>4, <4>1 DEF NumberStored
      <4>3. ~InRange(o, -1)
        BY InRangeMeans
      <4>4. Config[o] # -1 /\ Config[o] \in 0..MaxInt
        BY <2>8, <4>2, <4>3
      <4>5. Config'[o] = Config[o]
        BY <2>4, <4>4
      <4> QED
        BY <4>2, <4>4, <4>5
    <3> QED
      BY <3>3, <3>4
  <2>10. ASSUME NEW o \in Texts
         PROVE  /\ Config'[o] # None
                /\ \/ /\ o \in DOMAIN Defaulted /\ Occurs(o) = {}
                      /\ Config'[o] = Defaulted[o]
                   \/ /\ \E i \in Occurs(o) :
                           Occurs(o) = {i} /\ Config'[o] = given[i].arg
                      /\ Config'[o] \in Strings
    <3>1. TextStored(o)
      BY <2>7
    <3>2. CASE Config[o] = None
      <4>1. o # "HaasToken" /\ o \in DOMAIN Defaulted /\ Defaulted[o] # None
        BY <2>1, <3>2, Defaults
      <4>2. Occurs(o) = {}
        BY <3>1, <3>2, ConfigAssumption DEF TextStored
      <4> QED
        BY <2>5, <3>2, <4>1, <4>2
    <3>3. CASE Config[o] # None
      <4>1. Config'[o] = Config[o]
        BY <2>5, <3>3
      <4> QED
        BY <3>1, <3>3, <4>1 DEF TextStored
    <3> QED
      BY <3>2, <3>3
  <2>11. TypeOK'
    <3>1. \A o \in Numeric : Config'[o] = -1 \/ Config'[o] \in 0..MaxInt
      BY <2>9
    <3>2. \A o \in Texts : \/ Config'[o] \in Strings \cup {None}
                           \/ o # "HaasToken" /\ Config'[o] = Defaulted[o]
      BY <2>10, Defaults DEF Numeric, Ports, Counts, Texts
    <3>3. \A o \in Switches : Config'[o] \in BOOLEAN
      BY <2>6, Zenon DEF IInv, TypeOK
    <3> QED
      BY <1>1, <2>1, <2>3, <3>1, <3>2, <3>3 DEF TypeOK
  <2>12. AcceptedUsable'
    <3>1. \A o \in Ports : Config'[o] \in 1..PortLimit-1
      <4> TAKE o \in Ports
      <4>1. o \in Numeric /\ o \in DOMAIN Defaulted
        BY Defaults DEF Numeric
      <4>2. InRange(o, Config'[o]) /\ Config'[o] \in 0..MaxInt
        BY <2>9, <4>1
      <4> QED
        BY <4>1, <4>2, InRangeMeans, ConfigAssumption
    <3>2. \A o \in Counts : \/ o \notin DOMAIN Defaulted /\ Config'[o] = -1
                            \/ Config'[o] \in Int /\ Config'[o] >= 1
      <4> TAKE o \in Counts
      <4>1. o \in Numeric
        BY DEF Numeric
      <4>2. \/ o \notin DOMAIN Defaulted /\ Config'[o] = -1
            \/ InRange(o, Config'[o]) /\ Config'[o] \in 0..MaxInt
        BY <2>9, <4>1
      <4> QED
        BY <4>1, <4>2, InRangeMeans, ConfigAssumption
    <3>3. Config'["ForwardMode"] \in 0..FORWARD_MODE_MAX-1
      <4>1. "ForwardMode" \in Numeric /\ "ForwardMode" \in DOMAIN Defaulted
        BY Defaults DEF Numeric
      <4>2. InRange("ForwardMode", Config'["ForwardMode"]) /\ Config'["ForwardMode"] \in 0..MaxInt
        BY <2>9, <4>1
      <4> QED
        BY <4>1, <4>2, InRangeMeans, ConfigAssumption
    <3>4. Config'["ConnLimit"] >= 1 /\ Config'["IdleTimeout"] >= 1
      <4>1. {"ConnLimit", "IdleTimeout"} \subseteq Counts \cap DOMAIN Defaulted
        BY Defaults DEF Counts
      <4> QED
        BY <3>2, <4>1
    <3> QED
      BY <2>10, <3>1, <3>2, <3>3, <3>4 DEF AcceptedUsable
  <2>13. MeansWhatWasGiven'
    <3>1. ASSUME NEW o \in Numeric
          PROVE  \/ Occurs(o) = {} /\ Config'[o] = IF o \in DOMAIN Defaulted
                                                  THEN Defaulted[o] ELSE -1
                 \/ \E i \in Occurs(o) :
                      Occurs(o) = {i} /\ Config'[o] = ToInt(given[i].arg)
      BY <2>9, Zenon
    <3>2. ASSUME NEW o \in Texts
          PROVE  \/ Occurs(o) = {} /\ Config'[o] = IF o \in DOMAIN Defaulted
                                                  THEN Defaulted[o] ELSE -1
                 \/ \E i \in Occurs(o) : Occurs(o) = {i} /\ Config'[o] = given[i].arg
      BY <2>10, Zenon
    <3>3. \A o \in Numeric \cup Texts : Occurs(o)' = Occurs(o)
      BY <2>7, Kinds
    <3> QED
      BY <1>1, <3>1, <3>2, <3>3, Kinds DEF MeansWhatWasGiven, ToInt
  <2> QED
    BY <1>2, <2>11, <2>12, <2>13 DEF IInv
<1> QED
  BY <1>3, <1>4

\* Nothing changes in a stuttering step.
LEMMA StutterKeeps == ASSUME IInv, UNCHANGED vars PROVE IInv'
<1>1. pc' = pc /\ Config' = Config /\ Back' = Back /\ given' = given
  BY DEF vars
<1>2. GivenType' /\ TypeOK' /\ NotDefaulted'
  BY <1>1 DEF IInv, GivenType, TypeOK, NotDefaulted
<1>3. Stored'
  BY <1>1 DEF IInv, Stored, NumberStored, TextStored, Occurs, InRange, ToInt
<1>4. AcceptedUsable'
  BY <1>1 DEF IInv, AcceptedUsable, Accepted
<1>5. MeansWhatWasGiven'
  BY <1>1 DEF IInv, MeansWhatWasGiven, Accepted, Occurs, ToInt
<1> QED
  BY <1>2, <1>3, <1>4, <1>5 DEF IInv

\* At every step of the parsing, the configuration is what was given until then.
THEOREM Invariance == Spec => []IInv
<1>1. IInv /\ [Next]_vars => IInv'
  <2> SUFFICES ASSUME IInv, [Next]_vars PROVE IInv'
    OBVIOUS
  <2>1. CASE \E o \in Numeric, arg \in Numbers \cup {Junk} : ParseInt(o, arg)
    BY <2>1, ParseIntKeeps
  <2>2. CASE \E o \in Texts, arg \in Strings : Text(o, arg)
    BY <2>2, TextKeeps
  <2>3. CASE \E o \in Switches : Switch(o)
    BY <2>3, SwitchKeeps
  <2>4. CASE Wrong
    <3>1. Given("?", FALSE) /\ Refuse /\ "?" \in Options \cup {"?"}
      BY <2>4 DEF Wrong
    <3>2. FALSE \in Arguments
      BY Zenon DEF Arguments
    <3> QED
      BY <3>1, <3>2, RefuseKeeps
  <2>5. CASE NoMore
    BY <2>5, NoMoreKeeps
  <2>6. CASE Check
    BY <2>6, CheckKeeps
  <2>7. CASE UNCHANGED vars
    BY <2>7, StutterKeeps
  <2> QED
    BY <2>1, <2>2, <2>3, <2>4, <2>5, <2>6, <2>7 DEF Next, Finished
<1> QED
  BY <1>1, InitIInv, PTL DEF Spec

-----------------------------------------------------------------------------
(***************************************************************************)
(* What the runs check.                                                    *)
(***************************************************************************)

\* The state has its types, and every number fits in an int.
THEOREM TypeCorrect == Spec => []TypeOK
<1>1. IInv => TypeOK
  BY DEF IInv
<1> QED
  BY <1>1, Invariance, PTL

\* An accepted configuration is one the rest of the program can work with.
THEOREM UsableCorrect == Spec => []AcceptedUsable
<1>1. IInv => AcceptedUsable
  BY DEF IInv
<1> QED
  BY <1>1, Invariance, PTL

\* An accepted configuration is what was given, and the defaults of the rest.
THEOREM MeaningCorrect == Spec => []MeansWhatWasGiven
<1>1. IInv => MeansWhatWasGiven
  BY DEF IInv
<1> QED
  BY <1>1, Invariance, PTL
=============================================================================
