------------------------------- MODULE EcBanks -------------------------------
(***************************************************************************)
(* The banked registers of the embedded controller.  Register 0x03 selects *)
(* the battery that 0x10 to 0x29 describe, 0x04 the text that 0x2A gives   *)
(* out byte by byte, 0x33 the sensor that 0x34 to 0x37 belong to.  Each    *)
(* access of ECR1 and ECW1 is made under ECMX, and so is one step here;    *)
(* what keeps a selection and the accesses that rely on it together is     *)
(* ECM1 for the batteries, and PATM for the sensors' thresholds.           *)
(*                                                                         *)
(* A method is given by the accesses it makes, in their order.  PATM is    *)
(* acquired for 100 ms only: PAT0 and PAT1 give up then, _Q66 does not     *)
(* look at the result.  A Release by a thread that does not own the mutex  *)
(* is an error of the interpreter, which ends the method.                  *)
(***************************************************************************)
EXTENDS Integers, Sequences

CONSTANTS
  Threads,
  Batteries, Sensors,
  Jobs,       \* the methods that are called
  TextLen,    \* bound: bytes of a text, its end included; at most 0x21 in the code
  Free

VARIABLES
  job,      \* the method each thread runs, and its argument, or "none"
  arg,
  at,       \* the next of its accesses
  owner,    \* of ECM1 and PATM
  bank,     \* registers 0x03, 0x04 and 0x33
  byte,     \* the next byte 0x2A gives out
  seen,     \* the batteries a call has read from
  text,     \* the bytes of the text it is reading, <<battery, text, number>>
  placed    \* the sensors whose thresholds it has set

vars == <<job, arg, at, owner, bank, byte, seen, text, placed>>

Mutexes == {"ECM1", "PATM"}
Selectors == {3, 4, 51}

-----------------------------------------------------------------------------
(* The methods.                                                            *)

Step(op, x, y) == [op |-> op, x |-> x, y |-> y]
Acq(m)      == Step("acquire", m, 0)
AcqOrEnd(m) == Step("timed", m, 0)
AcqOrNot(m) == Step("ignored", m, 0)
Rel(m)      == Step("release", m, 0)
ECR1(r)     == Step("read", r, 0)
ECW1(r, v)  == Step("write", r, v)
ECR2(r)     == <<ECR1(r), ECR1(r + 1)>>

ECM8(n) == <<ECW1(4, n)>> \o [i \in 1 .. TextLen |-> ECR1(42)]

ECG6(b) ==
  <<Acq("ECM1"), ECR1(0), ECW1(3, b), ECR1(16)>>
    \o ECR2(18) \o ECR2(22) \o ECR2(20) \o <<Rel("ECM1")>>

\* Wrong variant: ECM1 is given back before the texts.
ECG9Early(b) ==
  <<Acq("ECM1"), ECW1(3, b)>> \o ECR2(32) \o ECR2(30) \o ECR2(34) \o <<Rel("ECM1")>>
    \o ECM8(1)

\* The chemistry and the maker are read as texts if their codes are unknown.
ECG9(b) ==
  <<Acq("ECM1"), ECW1(3, b)>> \o ECR2(32) \o ECR2(30) \o ECR2(34)
    \o ECM8(1) \o ECR2(38) \o <<ECR1(41)>> \o ECM8(2) \o <<ECR1(40)>> \o ECM8(3)
    \o <<Rel("ECM1")>>

\* Wrong variant: the result of Acquire is not looked at, as in _Q66.
PATIgnoring(s, r) ==
  <<AcqOrNot("PATM"), ECW1(51, s), ECW1(55, 2), ECW1(51, s), ECW1(r, 1), Rel("PATM")>>

\* PAT0 (r = 0x35) and PAT1 (r = 0x36): DSHY, then DSTL or DSTH.
PAT(s, r) ==
  <<AcqOrEnd("PATM"), ECW1(51, s), ECW1(55, 2), ECW1(51, s), ECW1(r, 1), Rel("PATM")>>

KDRT(s) == <<ECW1(51, s), ECR1(52)>>

\* _Q66: NEVT with ECG1, ECGD and DPNT, whose loop finds alarms once.
Q66 == <<AcqOrNot("PATM")>> \o ECR2(7) \o ECR2(11)
         \o <<ECR1(50), ECR1(56), ECW1(56, 255), ECR1(56), Rel("PATM")>>

Method(j, a) ==
  CASE j = "_BST" -> ECG6(a) [] j = "_BIF" -> ECG9(a)
    [] j = "PAT0" -> PAT(a, 53) [] j = "PAT1" -> PAT(a, 54)
    [] j = "_TMP" -> KDRT(a) [] j = "_Q66" -> Q66

Arguments(j) == CASE j \in {"_BST", "_BIF"} -> Batteries
                  [] j = "_Q66" -> {0} [] OTHER -> Sensors

-----------------------------------------------------------------------------
Init ==
  /\ job = [t \in Threads |-> "none"] /\ arg = [t \in Threads |-> 0]
  /\ at = [t \in Threads |-> 1]
  /\ owner = [m \in Mutexes |-> Free]
  /\ bank \in [Selectors -> {0}] /\ byte = 1
  /\ seen = [t \in Threads |-> {}] /\ text = [t \in Threads |-> <<>>]
  /\ placed = [t \in Threads |-> {}]

Call(t) ==
  /\ job[t] = "none"
  /\ \E j \in Jobs : \E a \in Arguments(j) :
       job' = [job EXCEPT ![t] = j] /\ arg' = [arg EXCEPT ![t] = a]
  /\ at' = [at EXCEPT ![t] = 1]
  /\ seen' = [seen EXCEPT ![t] = {}] /\ text' = [text EXCEPT ![t] = <<>>]
  /\ placed' = [placed EXCEPT ![t] = {}]
  /\ UNCHANGED <<owner, bank, byte>>

Code(t) == Method(job[t], arg[t])
Now(t) == Code(t)[at[t]]
Does(t, op) == job[t] # "none" /\ Now(t).op = op

\* Goes on, or returns after the last step.
Proceed(t) ==
  IF at[t] = Len(Code(t)) THEN job' = [job EXCEPT ![t] = "none"] /\ UNCHANGED at
                          ELSE at' = [at EXCEPT ![t] = @ + 1] /\ UNCHANGED job
End(t) == job' = [job EXCEPT ![t] = "none"] /\ UNCHANGED at

Acquire(t) ==
  /\ Does(t, "acquire") \/ Does(t, "timed") \/ Does(t, "ignored")
  /\ owner[Now(t).x] = Free /\ owner' = [owner EXCEPT ![Now(t).x] = t]
  /\ Proceed(t)
  /\ UNCHANGED <<arg, bank, byte, seen, text, placed>>

\* 100 ms are over.
Timeout(t) ==
  /\ Does(t, "timed") \/ Does(t, "ignored")
  /\ owner[Now(t).x] # Free
  /\ IF Does(t, "timed") THEN End(t) ELSE Proceed(t)
  /\ UNCHANGED <<arg, owner, bank, byte, seen, text, placed>>

Release(t) ==
  /\ Does(t, "release")
  /\ IF owner[Now(t).x] = t
       THEN owner' = [owner EXCEPT ![Now(t).x] = Free] /\ Proceed(t)
       ELSE UNCHANGED owner /\ End(t)
  /\ UNCHANGED <<arg, bank, byte, seen, text, placed>>

Read(t) ==
  /\ Does(t, "read")
  /\ seen' = IF Now(t).x \in 16 .. 41 THEN [seen EXCEPT ![t] = @ \cup {bank[3]}] ELSE seen
  /\ IF Now(t).x = 42
       THEN /\ text' = [text EXCEPT ![t] = Append(@, <<bank[3], bank[4], byte>>)]
            /\ byte' = (byte % TextLen) + 1
       ELSE UNCHANGED <<text, byte>>
  /\ Proceed(t)
  /\ UNCHANGED <<arg, owner, bank, placed>>

Write(t) ==
  /\ Does(t, "write")
  /\ bank' = IF Now(t).x \in Selectors THEN [bank EXCEPT ![Now(t).x] = Now(t).y] ELSE bank
  /\ IF Now(t).x = 4
       THEN byte' = 1 /\ text' = [text EXCEPT ![t] = <<>>]
       ELSE UNCHANGED <<byte, text>>
  /\ placed' = IF Now(t).x \in 53 .. 55 THEN [placed EXCEPT ![t] = @ \cup {bank[51]}] ELSE placed
  /\ Proceed(t)
  /\ UNCHANGED <<arg, owner, seen>>

Run(t) == Acquire(t) \/ Timeout(t) \/ Release(t) \/ Read(t) \/ Write(t)
Next == \E t \in Threads : Call(t) \/ Run(t)
Spec == Init /\ [][Next]_vars

-----------------------------------------------------------------------------
(* Properties.                                                             *)

(* What _BST and _BIF read is about the battery they were asked for,       *)
(* although both batteries share the registers.                            *)
OwnBattery == \A t \in Threads :
  job[t] \in {"_BST", "_BIF"} => seen[t] \subseteq {arg[t]}

(* A text is the one that was selected, of that battery, whole and in      *)
(* order.                                                                  *)
WholeText == \A t \in Threads : job[t] = "_BIF" =>
  \A i \in 1 .. Len(text[t]) :
    text[t][i] = <<arg[t], text[t][1][2], i>>

(* All that a method reads is of its battery, and each text of one piece.   *)
OwnReads == OwnBattery /\ WholeText

(* A threshold goes to the sensor it is meant for, although _Q66 goes on   *)
(* without PATM after 100 ms and releases it all the same.  It holds as    *)
(* long as no temperature is read: KDRT selects its sensor without PATM.   *)
OwnThreshold == \A t \in Threads :
  job[t] \in {"PAT0", "PAT1"} => placed[t] \subseteq {arg[t]}

-----------------------------------------------------------------------------
(* The inductive invariant.                                                *)

(* The types of the variables; a running method has an access left. *)
TypeOK ==
  /\ job \in [Threads -> Jobs \cup {"none"}]
  /\ arg \in [Threads -> Nat]
  /\ at \in [Threads -> Nat \ {0}]
  /\ owner \in [Mutexes -> Threads \cup {Free}]
  /\ bank \in [Selectors -> Nat]
  /\ byte \in 1 .. TextLen
  /\ seen \in [Threads -> SUBSET Nat]
  /\ text \in [Threads -> Seq(Nat \X Nat \X Nat)]
  /\ placed \in [Threads -> SUBSET Nat]
  /\ \A t \in Threads : job[t] # "none" =>
       arg[t] \in Arguments(job[t]) /\ at[t] <= Len(Code(t))

\* A method owns its mutex from its first access on.
HoldsECM1 == \A t \in Threads :
  job[t] \in {"_BST", "_BIF"} /\ at[t] > 1 => owner["ECM1"] = t
HoldsPATM == \A t \in Threads :
  job[t] \in {"PAT0", "PAT1"} /\ at[t] > 1 => owner["PATM"] = t

\* From its write to the selector on, that is as the method has set it.
BatterySelected == \A t \in Threads :
  (job[t] = "_BST" /\ at[t] > 3) \/ (job[t] = "_BIF" /\ at[t] > 2) => bank[3] = arg[t]
SensorSelected == \A t \in Threads :
  job[t] \in {"PAT0", "PAT1"} /\ at[t] > 2 => bank[51] = arg[t]

\* What ECG9 has of a text, after the write to 4 at q and up to its end.
TextStarts == {9, 13 + TextLen, 15 + 2 * TextLen}
TextSoFar == \A t \in Threads : job[t] = "_BIF" =>
  /\ at[t] <= 9 => text[t] = <<>>
  /\ \A q \in TextStarts : at[t] \in q + 1 .. q + TextLen + 1 =>
       /\ Len(text[t]) = at[t] - q - 1
       /\ byte = IF at[t] = q + TextLen + 1 THEN 1 ELSE at[t] - q
       /\ text[t] # <<>> => text[t][1][2] = bank[4]

ReadsInv == TypeOK /\ HoldsECM1 /\ BatterySelected /\ TextSoFar /\ OwnReads
\* ... and, where no temperature is read:
ThresholdInv == TypeOK /\ HoldsPATM /\ SensorSelected /\ OwnThreshold
=============================================================================
