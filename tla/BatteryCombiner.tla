-------------------------- MODULE BatteryCombiner --------------------------
(***************************************************************************)
(* SSDT-BATC: the device BATC answers _BIF, _BIX and _BST for two          *)
(* batteries.  Each method asks BAT0 for its package and then its status,  *)
(* then BAT1, and combines the packages if both are present and valid.     *)
(* A battery may come, go, or charge between two of these calls.           *)
(*                                                                         *)
(* A package is a function from its indices to numbers; the names at its   *)
(* end, which are concatenated, are left out.  Unknown is the 32-bit       *)
(* 0xFFFFFFFF of a battery that does not know a value, Ones the ASL        *)
(* constant, 64 bits wide in a table of revision 2.                        *)
(***************************************************************************)
EXTENDS Integers

CONSTANTS
  Reports,   \* what a battery may report
  Unknown, Ones

ASSUME WidthAssumption == Unknown \in Nat \ {0} /\ Ones \in Nat /\ Ones > 2 * Unknown
ASSUME ReportsAssumption == \A r \in Reports :
  /\ r.present \in BOOLEAN
  /\ \A f \in {"design", "full", "voltage", "remaining", "rate", "other"} : r[f] \in 0 .. Unknown
  /\ r.state \in 0 .. 7

Batteries == {0, 1}
Methods == {"_BIF", "_BIX", "_BST"}

\* What stands at each index of a package, and how two of them are combined:
\* "add" and "mean" leave the value of the first if one is unknown.
Field(m) ==
  CASE m = "_BIF" -> <<"design", "full", "other", "voltage", "other", "other", "other", "other">>
    [] m = "_BIX" -> <<"other", "design", "full", "other", "voltage", "other", "other", "other",
                       "other", "other", "other", "other", "other", "other", "other">>
    [] m = "_BST" -> <<"rate", "remaining", "voltage">>

How(m) ==
  CASE m = "_BIF" -> <<"add", "add", "keep", "mean", "addAny", "addAny", "add", "add">>
    [] m = "_BIX" -> <<"keep", "add", "add", "keep", "mean", "addAny", "addAny", "mean",
                       "meanAny", "mean", "mean", "meanAny", "meanAny", "add", "add">>
    [] m = "_BST" -> <<"addAny", "addAny", "meanAny">>

Checked(m) ==
  CASE m = "_BIF" -> {1, 2, 4} [] m = "_BIX" -> {2, 3, 5} [] m = "_BST" -> {2}

VARIABLES
  battery,   \* what each battery reports now
  pc,        \* "idle", or the call the method makes next
  method,
  package,   \* Local0, Local1
  state,     \* index 0 of the packages of _BST
  status,    \* Local2, Local3 = 0x1F
  answer,    \* the package returned, and its state
  steady     \* history: no battery has changed since the method was called

vars == <<battery, pc, method, package, state, status, answer, steady>>

Package(m, r) == [i \in DOMAIN Field(m) |-> r[Field(m)[i]]]

Init ==
  /\ battery \in [Batteries -> Reports]
  /\ pc = "idle" /\ method \in Methods
  /\ package = [b \in Batteries |-> <<>>] /\ state = [b \in Batteries |-> 0]
  /\ status = [b \in Batteries |-> FALSE]
  /\ answer = [package |-> <<>>, state |-> 0] /\ steady = TRUE

-----------------------------------------------------------------------------
\* The battery's charge, presence or knowledge changes.
Change(b) ==
  /\ \E r \in Reports : battery' = [battery EXCEPT ![b] = r]
  /\ steady' = FALSE
  /\ UNCHANGED <<pc, method, package, state, status, answer>>

Call(m) ==
  /\ pc \in {"idle", "done"}
  /\ pc' = "data0" /\ method' = m /\ steady' = TRUE
  /\ answer' = [package |-> <<>>, state |-> 0]
  /\ UNCHANGED <<battery, package, state, status>>

Data(b) ==
  /\ pc = IF b = 0 THEN "data0" ELSE "data1"
  /\ package' = [package EXCEPT ![b] = Package(method, battery[b])]
  /\ state' = [state EXCEPT ![b] = battery[b].state]
  /\ pc' = IF b = 0 THEN "sta0" ELSE "sta1"
  /\ UNCHANGED <<battery, method, status, answer, steady>>

Valid(m, p) == \A i \in Checked(m) : p[i] # 0 /\ p[i] # Ones

Sta(b) ==
  /\ pc = IF b = 0 THEN "sta0" ELSE "sta1"
  /\ status' = [status EXCEPT ![b] = battery[b].present /\ Valid(method, package[b])]
  /\ pc' = IF b = 0 THEN "data1" ELSE "combine"
  /\ UNCHANGED <<battery, method, package, state, answer, steady>>

\* Wrong variant: the mean of an unknown value is taken like that of others.
CombinedAny(how, x, y) ==
  CASE how = "keep" -> x
    [] how \in {"add", "addAny"} -> x + y
    [] how \in {"mean", "meanAny"} -> (x + y) \div 2

Combined(how, x, y) ==
  IF how = "keep" \/ (how \in {"add", "mean"} /\ Unknown \in {x, y}) THEN x
  ELSE IF how \in {"add", "addAny"} THEN x + y
  ELSE (x + y) \div 2

\* _BST 0: the first of 2, 1, 3, 4, 5 that one of the batteries reports.
CombinedState(s, t) ==
  LET reported == {s, t} \cap 1 .. 5
  IN  IF reported = {} THEN s
      ELSE IF 2 \in reported THEN 2
      ELSE CHOOSE n \in reported : \A k \in reported : n <= k

\* The locals end with the method.
Forget ==
  /\ package' = [b \in Batteries |-> <<>>] /\ state' = [b \in Batteries |-> 0]
  /\ status' = [b \in Batteries |-> FALSE]

Combine ==
  /\ pc = "combine"
  /\ answer' =
       IF status[0] /\ status[1]
         THEN [package |-> [i \in DOMAIN package[0] |->
                              Combined(How(method)[i], package[0][i], package[1][i])],
               state |-> CombinedState(state[0], state[1])]
         ELSE LET b == IF status[1] THEN 1 ELSE 0
              IN  [package |-> package[b], state |-> state[b]]
  /\ pc' = "done" /\ Forget
  /\ UNCHANGED <<battery, method, steady>>

Next ==
  \/ \E b \in Batteries : Change(b) \/ Data(b) \/ Sta(b)
  \/ \E m \in Methods : Call(m)
  \/ Combine

Spec == Init /\ [][Next]_vars

-----------------------------------------------------------------------------
(* Properties.  They are about a call during which nothing changes.        *)

Answered == pc = "done" /\ steady
Both == \A b \in Batteries : battery[b].present
BothValid == Both /\ \A b \in Batteries : Valid(method, Package(method, battery[b]))
OnlyOne(b) == battery[b].present /\ ~battery[1 - b].present

(* With one battery in the machine, BATC reports that one, whichever bay   *)
(* it is in and whatever the other bay says; unless its own values are     *)
(* invalid.                                                                *)
ReportsTheOne == \A b \in Batteries :
  Answered /\ OnlyOne(b) /\ Valid(method, Package(method, battery[b])) =>
    /\ answer.package = Package(method, battery[b])
    /\ method = "_BST" => answer.state = battery[b].state

(* With two, no capacity, rate or voltage of the answer is larger than the *)
(* sum of what is known, and a value one of them does not know is never    *)
(* mixed into the other's where the package is guarded against it.         *)
Known(m, i) == \A b \in Batteries : Package(m, battery[b])[i] # Unknown
KnownOrFirst == Answered /\ Both /\ method # "_BST" =>
  \A i \in DOMAIN answer.package :
    (How(method)[i] \in {"add", "mean"} /\ ~Known(method, i)) =>
      answer.package[i] \in {Package(method, battery[b])[i] : b \in Batteries}

(* The charge _BST reports is never more than the capacity of the          *)
(* batteries in the machine together, if each battery's own is not and all *)
(* is known.  One battery at least must not be empty: with an empty BAT1   *)
(* alone, _BST passes on what the empty bay 0 says.                        *)
Sound(r) == /\ r.design \in 1 .. Unknown - 1 /\ r.full \in 1 .. Unknown - 1
            /\ r.remaining \in 0 .. r.full /\ r.voltage \in 1 .. Unknown - 1
Capacity ==
  LET have == {b \in Batteries : battery[b].present /\ Sound(battery[b])}
  IN  IF have = Batteries THEN battery[0].full + battery[1].full
      ELSE IF have = {1} THEN battery[1].full ELSE battery[0].full
ChargeFits ==
  (/\ Answered /\ method = "_BST"
   /\ \E b \in Batteries : battery[b].present /\ battery[b].remaining > 0
   /\ \A b \in Batteries : battery[b].present => Sound(battery[b]))
  =>
    answer.package[2] <= Capacity

(* "if one battery is charging, then charging, else discharging", for      *)
(* batteries that only charge, discharge or rest.                          *)
Plain(s) == s \in {0, 1, 2}
Charging(s) == (s \div 2) % 2 = 1
ChargingIfOne ==
  Answered /\ method = "_BST" /\ BothValid
    /\ (\A b \in Batteries : Plain(battery[b].state)) =>
    (Charging(answer.state) <=> \E b \in Batteries : Charging(battery[b].state))

(* What BATC reports is sound: it is that of the battery that is there, of *)
(* both without mixing in what is not known, with no more charge than      *)
(* there is room for, and charging if one of them is.                      *)
ReportSound == ReportsTheOne /\ KnownOrFirst /\ ChargeFits /\ ChargingIfOne

-----------------------------------------------------------------------------
(* The inductive invariant.                                                *)

Packages == {<<>>} \cup {Package(m, r) : m \in Methods, r \in Reports}
States == {0} \cup {r.state : r \in Reports}

(* The types of the variables; of the answer, AnswerRight says more. *)
TypeOK ==
  /\ battery \in [Batteries -> Reports]
  /\ pc \in {"idle", "data0", "sta0", "data1", "sta1", "combine", "done"}
  /\ method \in Methods
  /\ package \in [Batteries -> Packages]
  /\ state \in [Batteries -> States]
  /\ status \in [Batteries -> BOOLEAN]
  /\ steady \in BOOLEAN

\* where the package of a battery has been read, and where its status has
Read(b)  == IF b = 0 THEN {"sta0", "data1", "sta1", "combine"} ELSE {"sta1", "combine"}
Asked(b) == IF b = 0 THEN {"data1", "sta1", "combine"} ELSE {"combine"}

ValidNow(b) == battery[b].present /\ Valid(method, Package(method, battery[b]))

\* While nothing changes, the locals hold what the batteries report.
Gathered == steady => \A b \in Batteries :
  /\ pc \in Read(b) => /\ package[b] = Package(method, battery[b])
                       /\ state[b] = battery[b].state
  /\ pc \in Asked(b) => status[b] = ValidNow(b)

\* ... and the answer is made of that.
AnswerRight == Answered =>
  /\ BothValid =>
       /\ answer.package = [i \in DOMAIN Field(method) |->
                              Combined(How(method)[i], Package(method, battery[0])[i],
                                                       Package(method, battery[1])[i])]
       /\ answer.state = CombinedState(battery[0].state, battery[1].state)
  /\ ~BothValid =>
       LET b == IF ValidNow(1) THEN 1 ELSE 0
       IN  answer.package = Package(method, battery[b]) /\ answer.state = battery[b].state

BatteryInv == TypeOK /\ Gathered /\ AnswerRight
=============================================================================
