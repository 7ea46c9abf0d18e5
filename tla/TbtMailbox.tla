------------------------------ MODULE TbtMailbox ------------------------------
(***************************************************************************)
(* The command register pair of the Thunderbolt controller, P2TR for the   *)
(* commands of the platform and T2PR for the controller's answers and its  *)
(* own requests.  TBTC of SSDT-TB3 and OSUP, DMSI and SXTB of the DSDT,    *)
(* where the registers are called P2TB and TB2P, all use it, and nothing   *)
(* keeps them apart: TBTC and OSUP are Serialized, each by itself.         *)
(*                                                                         *)
(* An action is one register access or one Sleep.  This is finer than the  *)
(* switches of the interpreter, so every interleaving it makes is here.    *)
(* Bit 0 of a command is its valid bit, bit 0 of an answer is set when the *)
(* controller has taken the command.                                       *)
(***************************************************************************)
EXTENDS Integers

CONSTANTS
  Threads,    \* the threads of the OS that evaluate these methods
  PollMax,    \* the 0x64 polls
  Requests,   \* TRUE: the controller makes requests of its own
  Keeps       \* TRUE: a controller that was off the bus may have kept its
              \* registers; FALSE: it comes back with zeros

GoToSx   == 5        \* the argument of TBTC
OsUp     == 13       \* 0x0D
DmsiCmd  == 37       \* 0x25, the request of the controller and its answer
DmsiDone == 36       \* 0x24
SxtbCmd  == 4
Ones     == 255      \* 0xFFFFFFFF

Valid(x) == x % 2 = 1

VARIABLES
  meth,      \* the method each thread is in
  pc,        \* and where
  left,      \* its polls left
  seen,      \* the answer it read last
  present,   \* the controller is on the bus
  p2tr,
  t2pr,
  gone       \* history: P2TR has not been written since the call that wrote
             \* it, or a later one, ended with the controller off the bus

local == <<meth, pc, left, seen>>
vars  == <<local, present, p2tr, t2pr, gone>>

Methods  == {"TBTC", "OSUP", "DMSI"}
Own      == [TBTC |-> GoToSx, OSUP |-> OsUp, DMSI |-> DmsiDone]
Commands == {0, GoToSx, OsUp, DmsiCmd, SxtbCmd}
Answers  == {0, GoToSx, OsUp, DmsiCmd, DmsiDone}

TypeOK ==
  /\ meth \in [Threads -> Methods]
  /\ pc \in [Threads -> {"idle", "look", "write", "read", "nap", "test", "clear"}]
  /\ left \in [Threads -> 0 .. PollMax]
  /\ seen \in [Threads -> Answers \cup {Ones}]
  /\ present \in BOOLEAN
  /\ p2tr \in Commands
  /\ t2pr \in Answers
  /\ gone \in BOOLEAN

Init ==
  /\ meth = [t \in Threads |-> "OSUP"]
  /\ pc = [t \in Threads |-> "idle"]
  /\ left = [t \in Threads |-> 0]
  /\ seen = [t \in Threads |-> 0]
  /\ present \in BOOLEAN
  /\ p2tr = 0 /\ t2pr = 0
  /\ gone = FALSE

-----------------------------------------------------------------------------
(* Register access.  A write to a controller that is gone is lost; with a  *)
(* command cleared, the controller withdraws its answer to it.             *)

T2PR == IF present THEN t2pr ELSE Ones

WriteP2TR(v) ==
  IF present
    THEN /\ p2tr' = v
         /\ t2pr' = IF v = 0 /\ t2pr # DmsiCmd THEN 0 ELSE t2pr
    ELSE UNCHANGED <<p2tr, t2pr>>

Goto(t, place) == pc' = [pc EXCEPT ![t] = place]

-----------------------------------------------------------------------------
(* The methods.                                                            *)

\* TBTC and OSUP are Serialized, DMSI is not
Call(t, mm) ==
  /\ pc[t] = "idle"
  /\ mm # "DMSI" => \A u \in Threads : pc[u] # "idle" => meth[u] # mm
  /\ meth' = [meth EXCEPT ![t] = mm]
  /\ Goto(t, IF mm = "DMSI" THEN "look" ELSE "write")
  /\ UNCHANGED <<left, seen, present, p2tr, t2pr, gone>>

\* DMSI writes only when the controller has a request.
Look(t) ==
  /\ pc[t] = "look"
  /\ seen' = [seen EXCEPT ![t] = T2PR]
  /\ Goto(t, IF T2PR = DmsiCmd THEN "write" ELSE "idle")
  /\ UNCHANGED <<meth, left, present, p2tr, t2pr, gone>>

Write(t) ==
  /\ pc[t] = "write"
  /\ WriteP2TR(IF meth[t] = "DMSI" THEN DmsiCmd ELSE Own[meth[t]])
  /\ gone' = (gone /\ ~present)
  /\ left' = [left EXCEPT ![t] = PollMax]
  /\ Goto(t, "read")
  /\ UNCHANGED <<meth, seen, present>>

\* After its first read TBTC tests what it has read at once, and sleeps
\* after every later one; the others sleep after the test.
Read(t) ==
  /\ pc[t] = "read"
  /\ seen' = [seen EXCEPT ![t] = T2PR]
  /\ Goto(t, IF meth[t] = "TBTC" /\ left[t] < PollMax THEN "nap" ELSE "test")
  /\ UNCHANGED <<meth, left, present, p2tr, t2pr, gone>>

Sleep(t) ==
  /\ pc[t] = "nap"
  /\ Goto(t, IF meth[t] = "TBTC" THEN "test"
             ELSE IF left[t] = 0 THEN "clear" ELSE "read")
  /\ UNCHANGED <<meth, left, seen, present, p2tr, t2pr, gone>>

\* What each method takes for its answer.  The answer of an absent
\* controller has bit 0 set: TBTC's own test for it, inside the loop, is
\* never reached, while the others make theirs first.
Answered(t) ==
  CASE meth[t] = "TBTC" -> Valid(seen[t])
    [] meth[t] = "OSUP" -> seen[t] # Ones /\ Valid(seen[t])
    [] meth[t] = "DMSI" -> seen[t] = DmsiDone

GaveUp(t) == meth[t] # "TBTC" /\ seen[t] = Ones

\* Wrong variant: a method that runs out of polls leaves its command.
TestNoClear(t) ==
  /\ pc[t] = "test"
  /\ left' = [left EXCEPT ![t] = IF @ > 0 THEN @ - 1 ELSE @]
  /\ gone' = (gone \/ GaveUp(t))
  /\ Goto(t, IF GaveUp(t) THEN "idle"
             ELSE IF Answered(t) THEN "clear"
             ELSE IF meth[t] # "TBTC" THEN "nap"
             ELSE IF left[t] <= 1 THEN "idle" ELSE "read")
  /\ UNCHANGED <<meth, seen, present, p2tr, t2pr>>

\* Wrong variant: the polls are not counted.
TestForever(t) ==
  /\ pc[t] = "test"
  /\ gone' = (gone \/ GaveUp(t))
  /\ Goto(t, IF GaveUp(t) THEN "idle"
             ELSE IF Answered(t) THEN "clear"
             ELSE IF meth[t] = "TBTC" THEN "read" ELSE "nap")
  /\ UNCHANGED <<meth, left, seen, present, p2tr, t2pr>>

\* The loop's decisions.
Test(t) ==
  /\ pc[t] = "test"
  /\ left' = [left EXCEPT ![t] = IF @ > 0 THEN @ - 1 ELSE @]
  /\ gone' = (gone \/ GaveUp(t))
  /\ Goto(t, IF GaveUp(t) THEN "idle"
             ELSE IF Answered(t) THEN "clear"
             ELSE IF meth[t] # "TBTC" THEN "nap"
             ELSE IF left[t] <= 1 THEN "clear" ELSE "read")
  /\ UNCHANGED <<meth, seen, present, p2tr, t2pr>>

\* The trailing `P2TR = Zero' of all three.
Clear(t) ==
  /\ pc[t] = "clear"
  /\ WriteP2TR(0)
  /\ gone' = ~present
  /\ Goto(t, "idle")
  /\ UNCHANGED <<meth, left, seen, present>>

\* RPTS calls it, when FFTB has read all ones; it computes the command with
\* its valid bit into Local3 and writes Local2.
SXTB(t) ==
  /\ pc[t] = "idle"
  /\ WriteP2TR(SxtbCmd)
  /\ gone' = (gone /\ ~present)
  /\ UNCHANGED <<local, present>>

-----------------------------------------------------------------------------
(* The controller.                                                         *)

Take ==
  /\ present /\ Valid(p2tr)
  /\ \/ p2tr # DmsiCmd /\ t2pr = 0 /\ t2pr' = p2tr
     \/ p2tr = DmsiCmd /\ t2pr = DmsiCmd /\ t2pr' = DmsiDone
  /\ UNCHANGED <<local, present, p2tr, gone>>

Request ==
  /\ Requests /\ present /\ t2pr = 0
  /\ t2pr' = DmsiCmd
  /\ UNCHANGED <<local, present, p2tr, gone>>

Leave ==
  /\ present /\ present' = FALSE
  /\ UNCHANGED <<local, p2tr, t2pr, gone>>

Return ==
  /\ ~present /\ present' = TRUE
  /\ \/ Keeps /\ UNCHANGED <<p2tr, t2pr>>
     \/ p2tr' = 0 /\ t2pr' = 0
  /\ UNCHANGED <<local, gone>>

-----------------------------------------------------------------------------
Step(t) == Look(t) \/ Write(t) \/ Read(t) \/ Sleep(t) \/ Test(t) \/ Clear(t)

Next ==
  \/ \E t \in Threads : Step(t) \/ SXTB(t) \/ (\E mm \in Methods : Call(t, mm))
  \/ Take \/ Request \/ Leave \/ Return

Spec == Init /\ [][Next]_vars

-----------------------------------------------------------------------------
(* Properties.                                                             *)

(* No command stays behind.  With no method running, P2TR can hold a valid *)
(* command, which the controller would carry out whenever it finds it,     *)
(* only if the controller was off the bus when the call ended: whichever   *)
(* methods ran at once, however many polls they had, and whatever SXTB     *)
(* wrote before the sleep.                                                 *)
NothingLeftValid == (\A t \in Threads : pc[t] \in {"idle", "look", "write"}) /\ Valid(p2tr) => gone

(* Every call returns, whatever the controller does: TBTC is part of the   *)
(* power-off of the bridge, OSUP of the wake-up.                           *)
CallsReturn == \A t \in Threads : pc[t] # "idle" ~> pc[t] = "idle"
=============================================================================
