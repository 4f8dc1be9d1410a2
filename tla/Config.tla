------------------------------- MODULE Config -------------------------------
(***************************************************************************)
(* The command line (config.c): getopt() hands over one option after the   *)
(* other, each is checked and stored, the first mistake ends the parsing,  *)
(* and what was not given gets its default.  A number is what strtol()     *)
(* reads, cut to an int.                                                   *)
(***************************************************************************)
EXTENDS Integers, Sequences

CONSTANTS
  MaxInt,      \* the largest int
  Numbers,     \* what may be given as a number
  Junk,        \* what strtol() does not read to its end
  Strings,     \* what may be given as a string
  MaxOptions   \* the longest command line considered

\* A null pointer, which is no string.
None == "NULL"

\* An int has 16 bits or more.
ASSUME ConfigAssumption ==
  /\ MaxInt \in Nat /\ MaxInt >= 32767
  /\ Numbers \subseteq Int /\ Junk \notin Numbers
  /\ None \notin Strings
  /\ MaxOptions \in Nat

Ports == {"TrapPort", "HaasPort"}
Counts == {"IdleTimeout", "SessionTimeout", "CpuUsage", "ProcessNice", "ConnLimit"}
Texts == {"HaasAddr", "Banner", "HaasToken", "KeysDir"}
Switches == {"Foreground", "WantHelp"}
Numeric == Ports \cup Counts \cup {"ForwardMode"}
Options == Numeric \cup Texts \cup Switches

PortLimit == 65535

\* DENY, ALLOW, FAKE, NULL, ECHO
FORWARD_MODE_MAX == 5

Defaulted == [TrapPort |-> 2222, HaasPort |-> 10000, IdleTimeout |-> 30, ConnLimit |-> 30,
              ForwardMode |-> 2, HaasAddr |-> "haas-app.nic.cz", KeysDir |-> "/etc/HaaS/keys/",
              Banner |-> "OpenSSH_7.2p2 Ubuntu-4ubuntu2.2"]

VARIABLES
  pc,      \* "getopt", "check" or "done"
  Config,
  Back,    \* the result of ConfigParse()
  given    \* the options that getopt() has returned

vars == <<pc, Config, Back, given>>

\* The value of an int that was assigned i.
ToInt(i) == ((i + MaxInt + 1) % (2 * (MaxInt + 1))) - (MaxInt + 1)

\* ConfigInit()
Init ==
  /\ pc = "getopt"
  /\ Config = [o \in Options |->
                 IF o \in Numeric THEN -1 ELSE IF o \in Texts THEN None ELSE FALSE]
  /\ Back = 1
  /\ given = <<>>

\* getopt() returns an option.
Given(o, arg) ==
  /\ pc = "getopt" /\ Back = 1
  /\ Len(given) < MaxOptions
  /\ given' = Append(given, [option |-> o, arg |-> arg])

Store(o, value) == Config' = [Config EXCEPT ![o] = value] /\ UNCHANGED <<Back, pc>>
Refuse == Back' = 0 /\ pc' = "check" /\ UNCHANGED Config

MutInRange(o, i) ==
  /\ o \in Ports => i > 0 /\ i <= PortLimit + 1
  /\ o \in Counts => i > 0
  /\ o = "ForwardMode" => i >= 0 /\ i < FORWARD_MODE_MAX

\* What ParseInt() and ParsePort() and the case of -m let pass.
InRange(o, i) ==
  /\ o \in Ports => i > 0 /\ i < PortLimit
  /\ o \in Counts => i > 0
  /\ o = "ForwardMode" => i >= 0 /\ i < FORWARD_MODE_MAX

MutParseAgain(o, arg) ==
  /\ Given(o, arg)
  /\ IF arg \in Numbers /\ InRange(o, ToInt(arg))
     THEN Store(o, ToInt(arg))
     ELSE Refuse

ParseInt(o, arg) ==
  /\ Given(o, arg)
  /\ IF Config[o] = -1 /\ arg \in Numbers /\ InRange(o, ToInt(arg))
     THEN Store(o, ToInt(arg))
     ELSE Refuse

Text(o, arg) ==
  /\ Given(o, arg)
  /\ IF Config[o] = None THEN Store(o, arg) ELSE Refuse

\* -f, -h and -?
Switch(o) == Given(o, TRUE) /\ Store(o, TRUE)

\* An option without its argument, or an unknown one.
Wrong == Given("?", FALSE) /\ Refuse

\* There are no more options; perhaps there are further arguments.
NoMore ==
  /\ pc = "getopt"
  /\ pc' = "check"
  /\ \/ UNCHANGED Back
     \/ Back' = IF Config.WantHelp THEN Back ELSE 0
  /\ UNCHANGED <<Config, given>>

\* The token has no default; CpuUsage, SessionTimeout and ProcessNice stay -1.
Check ==
  /\ pc = "check"
  /\ pc' = "done"
  /\ Back' = IF ~Config.WantHelp /\ Config.HaasToken = None THEN 0 ELSE Back
  /\ Config' = IF Config.WantHelp \/ Back' = 0 THEN Config
               ELSE [o \in DOMAIN Config |->
                       IF /\ o \in DOMAIN Defaulted
                          /\ Config[o] = (IF o \in Numeric THEN -1 ELSE None)
                       THEN Defaulted[o] ELSE Config[o]]
  /\ UNCHANGED given

Finished == pc = "done" /\ UNCHANGED vars

Next ==
  \/ \E o \in Numeric, arg \in Numbers \cup {Junk} : ParseInt(o, arg)
  \/ \E o \in Texts, arg \in Strings : Text(o, arg)
  \/ \E o \in Switches : Switch(o)
  \/ Wrong
  \/ NoMore \/ Check
  \/ Finished

Spec == Init /\ [][Next]_vars

-----------------------------------------------------------------------------
(***************************************************************************)
(* Properties.                                                             *)
(***************************************************************************)

\* The program goes on with this configuration.
Accepted == pc = "done" /\ Back = 1 /\ ~Config.WantHelp

\* The state has its types; a number fits in an int.
TypeOK ==
  /\ pc \in {"getopt", "check", "done"}
  /\ Back \in {0, 1}
  /\ DOMAIN Config = Options
  /\ \A o \in Numeric : Config[o] = -1 \/ Config[o] \in 0..MaxInt
  /\ \A o \in Texts : \/ Config[o] \in Strings \cup {None}
                      \/ o # "HaasToken" /\ Config[o] = Defaulted[o]
  /\ \A o \in Switches : Config[o] \in BOOLEAN

\* Whatever is on the command line, an accepted configuration meets what the
\* other modules assume of theirs: ports that can be bound and reached, room for
\* a client, a positive idle timeout, a session timeout that is off or positive,
\* one of the five forward modes, and a token.
AcceptedUsable ==
  Accepted =>
    /\ \A o \in Ports : Config[o] \in 1..PortLimit-1
    /\ Config.ConnLimit >= 1 /\ Config.IdleTimeout >= 1
    /\ \A o \in Counts : Config[o] = -1 \/ Config[o] >= 1
    /\ Config.ForwardMode \in 0..FORWARD_MODE_MAX-1
    /\ \A o \in Texts : Config[o] # None

Occurs(o) == {i \in DOMAIN given : given[i].option = o}

\* What is accepted is what was given: no option that sets a value stands twice
\* on the command line, each has the value it was given with, as far as an int
\* holds it, and only the others have their default.
MeansWhatWasGiven ==
  Accepted =>
    \A o \in Numeric \cup Texts :
      \/ Occurs(o) = {} /\ Config[o] = IF o \in DOMAIN Defaulted THEN Defaulted[o] ELSE -1
      \/ \E i \in Occurs(o) :
           /\ Occurs(o) = {i}
           /\ Config[o] = IF o \in Numeric THEN ToInt(given[i].arg) ELSE given[i].arg

\* "Error, %s %d out of range !!!": no number outside its range is accepted.
OutOfRangeRefused ==
  Accepted => \A i \in DOMAIN given :
                given[i].option \in Numeric => InRange(given[i].option, given[i].arg)

\* The defaults the usage names: "nice of the process (default is 0)".
Documented == [TrapPort |-> 2222, HaasPort |-> 10000, IdleTimeout |-> 30, ConnLimit |-> 30,
               ProcessNice |-> 0, ForwardMode |-> 2]

\* A documented default may as well be given: a command line of one token and
\* documented defaults, none of them twice, is accepted.
DefaultsGivable ==
  pc = "done" /\ Occurs("HaasToken") # {} /\ Occurs("?") = {} =>
    \/ \E i \in DOMAIN given :
         /\ given[i].option \in Numeric
         /\ \/ given[i].option \notin DOMAIN Documented
            \/ given[i].arg = Junk \/ given[i].arg # Documented[given[i].option]
    \/ \E i, j \in DOMAIN given : i # j /\ given[i].option = given[j].option
    \/ Back = 1
=============================================================================
