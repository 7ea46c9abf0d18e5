----------------------------- MODULE IcmDisable -----------------------------
(***************************************************************************)
(* RP01._INI of patches/thunderbolt/SSDT-TB3.dsl: it records the bridge    *)
(* configuration the firmware left (R020 ... RH14), then ICMD takes the    *)
(* Thunderbolt controller away from its connection manager firmware (ICM): *)
(* CNHI writes the recorded configuration back stage by stage, waiting for *)
(* the links in between, and if that worked the ICM status register ICME   *)
(* is looked at and the controller reset.                                  *)
(*                                                                         *)
(* _INI runs once and alone; what interleaves with it is the controller,   *)
(* which may drop off the bus and come back unconfigured whenever a method *)
(* sleeps.  Everything below the upstream bridge UPSB is reached through   *)
(* bridges the same code is configuring, and an unreachable register reads *)
(* as all ones.                                                            *)
(***************************************************************************)
EXTENDS Integers

CONSTANTS
  CfgTries,    \* Local0 = 10 of the RP, UPSB and DSB loops
  LinkTries,   \* Local0 = 2000 of WTLT and WTDL
  NhiTries,    \* Local0 = 100 of the NHI loop
  AuthTries,   \* Local0 = 1000 of the wait for the reset of the ICM
  Settle       \* the final Sleep (1000)

ASSUME LimitsAssumption ==
  /\ CfgTries \in Nat \ {0} /\ LinkTries \in Nat \ {0} /\ NhiTries \in Nat \ {0}
  /\ AuthTries \in Nat \ {0} /\ Settle \in Nat

VARIABLES
  \* the driver
  pc,        \* where _INI is
  at,        \* the stage of CNHI, or "LT2" for the WTLT call of ICMD
  left,      \* Local0 of the loop it is in
  saved,     \* R020 ... RH14
  poc0,      \* POC0
  cnhi,      \* what CNHI returned, "none" before
  slept,     \* milliseconds slept so far
  \* the controller
  present,   \* UPSB answers
  mapped,    \* UP19 was valid when the table was loaded, and with it the
             \* addresses of the regions below UPSB
  cfg,       \* the configuration registers
  upTrain,   \* RPLT or UPLT: the link to UPSB is training
  downTrain, \* DPLT: the link below DSB0 is training
  icm        \* ICME: "a3" is 0x800001A3; "authed" has bit 31 too, "stopped"
             \* and "kicked" (enable and invert written) do not

driver     == <<pc, at, left, saved, poc0, cnhi, slept>>
controller == <<present, mapped, cfg, upTrain, downTrain, icm>>
vars       == <<driver, controller>>

-----------------------------------------------------------------------------
(* Registers.  Each loop of CNHI writes a group and reads one of it back;  *)
(* the rest of a bridge (windows, buses, command) is one member each.      *)

Group == [RP  |-> {"R_20", "RPrest"},
          UP  |-> {"UP19", "UPrest"},
          DS  |-> {"DP19", "DPrest", "DP2C", "DSB1", "DSB2"},
          NHI |-> {"NH10", "NHrest"}]
Checked == [RP |-> "R_20", UP |-> "UP19", DS |-> "DP19", NHI |-> "NH10"]

Regs == UNION {Group[g] : g \in DOMAIN Group}
Windows == Regs \ {"DP2C"}

\* as the firmware set it, as after a controller reset, 0, 0xFF...FF
Values == {"boot", "reset", "zero", "ones"}

(* Is register r reached, with the configuration c in place, and what does *)
(* it read as?                                                             *)
Reach(c, r) ==
  /\ r \notin Group.RP => present
  /\ r \in Group.DS \cup Group.NHI => mapped /\ c["UP19"] = "boot"
  /\ r \in Group.NHI => c["DP19"] = "boot"

Read(c, r) == IF Reach(c, r) THEN c[r] ELSE "ones"

(* The firmware's configuration is in place, on a controller that answers. *)
Restored == present /\ \A r \in Windows : cfg[r] = "boot"

(* ICME lives in NHI memory, behind every bridge window.                   *)
ReadICME == IF mapped /\ Restored THEN icm ELSE "ones"

(* ULTC and UPCK; DLTC and UPCK.                                           *)
UpTrained   == present /\ ~upTrain
DownTrained == UpTrained /\ Reach(cfg, "DP19") /\ ~downTrain

Stage  == {"RP", "UP", "LT", "DS", "DL", "NHI", "LT2"}
Limit == [RP |-> CfgTries, UP |-> CfgTries, LT |-> LinkTries, DS |-> CfgTries,
          DL |-> LinkTries, NHI |-> NhiTries, LT2 |-> LinkTries]
Following == [RP |-> "UP", UP |-> "LT", LT |-> "DS", DS |-> "DL", DL |-> "NHI"]

-----------------------------------------------------------------------------
TypeOK ==
  /\ pc \in {"ini", "icmd", "try", "check", "icme", "auth", "wait",
             "settle", "done"}
  /\ at \in Stage
  /\ left \in Nat /\ slept \in Nat
  /\ saved \in [Regs -> Values]
  /\ poc0 \in {0, 1}
  /\ cnhi \in {"none", "zero", "one"}
  /\ present \in BOOLEAN /\ mapped \in BOOLEAN
  /\ upTrain \in BOOLEAN /\ downTrain \in BOOLEAN
  /\ cfg \in [Regs -> Values]
  /\ icm \in {"a3", "authed", "stopped", "kicked"}

(* The table is loaded with the firmware's configuration in place, or with *)
(* no controller there.  DP2C is zero unless the firmware placed a         *)
(* prefetchable window above 4 GB.                                         *)
Init ==
  /\ pc = "ini" /\ at = "RP" /\ left = 0 /\ slept = 0
  /\ saved = [r \in Regs |-> "zero"]
  /\ poc0 = 0 /\ cnhi = "none"
  /\ present \in BOOLEAN
  /\ mapped = present
  /\ upTrain \in BOOLEAN /\ downTrain \in BOOLEAN
  /\ \E d \in {"boot", "zero"} :
       cfg = [r \in Regs |-> IF r = "DP2C" THEN d ELSE "boot"]
  /\ icm \in {"a3", "authed", "stopped"}

-----------------------------------------------------------------------------
(* _INI: R020 = R_20 and so on.  Every register CNHI restores is recorded  *)
(* but DP2C, whose R22C keeps the Zero it was declared with.               *)
_INI ==
  /\ pc = "ini"
  /\ saved' = [r \in Regs |-> IF r \in Windows THEN Read(cfg, r) ELSE "zero"]
  /\ slept' = slept + 1
  /\ pc' = "icmd"
  /\ UNCHANGED <<at, left, poc0, cnhi, controller>>

(* The end of ICMD.                                                        *)
Finish == pc' = "done" /\ poc0' = 0

(* ICMD up to CNHI, which an ICM in state 0x800001A3 does not need.        *)
ICMD ==
  /\ pc = "icmd"
  /\ \/ ReadICME = "a3" /\ Finish /\ UNCHANGED <<at, left>>
     \/ /\ ReadICME # "a3"
        /\ poc0' = 1
        /\ pc' = "try" /\ at' = "RP" /\ left' = Limit["RP"]
  /\ UNCHANGED <<saved, cnhi, slept, controller>>

Enter(s) == pc' = "try" /\ at' = s /\ left' = Limit[s]

(* Wrong variant: Local0 is not counted down.                              *)
AgainUncounted ==
  /\ slept' = slept + 1
  /\ UNCHANGED <<pc, at, left>>

(* A failed attempt: Sleep (One), Local0--.                                *)
Again ==
  /\ left' = left - 1
  /\ slept' = slept + 1
  /\ UNCHANGED <<pc, at>>

(* One attempt of a configuration loop: write the group, read one back.    *)
(* The last failure ends the loop as well as a match does; Check decides.  *)
Configure ==
  /\ pc = "try" /\ at \in DOMAIN Group /\ left > 0
  /\ cfg' = [r \in Regs |-> IF r \in Group[at] /\ Reach(cfg, r)
                            THEN saved[r] ELSE cfg[r]]
  /\ IF saved[Checked[at]] = Read(cfg', Checked[at])
     THEN pc' = "check" /\ UNCHANGED <<at, left, slept>>
     ELSE Again
  /\ UNCHANGED <<saved, poc0, cnhi, present, mapped, upTrain, downTrain, icm>>

ConfigureGaveUp ==
  /\ pc = "try" /\ at \in DOMAIN Group /\ left = 0
  /\ pc' = "check"
  /\ UNCHANGED <<at, left, saved, poc0, cnhi, slept, controller>>

(* After a loop the same register is read once more, without a write.      *)
Check ==
  /\ pc = "check"
  /\ \/ /\ saved[Checked[at]] # Read(cfg, Checked[at])
        /\ cnhi' = "zero" /\ Finish /\ UNCHANGED <<at, left>>
     \/ /\ saved[Checked[at]] = Read(cfg, Checked[at]) /\ at # "NHI"
        /\ Enter(Following[at]) /\ UNCHANGED <<cnhi, poc0>>
     \/ /\ saved[Checked[at]] = Read(cfg, Checked[at]) /\ at = "NHI"
        /\ pc' = "icme" /\ cnhi' = "one" /\ UNCHANGED <<at, left, poc0>>
  /\ UNCHANGED <<saved, slept, controller>>

(* Wrong variant: WTDL looks at the upstream link only.                    *)
TrainUpOnly ==
  /\ pc = "try" /\ at \in {"LT", "DL", "LT2"} /\ left > 0
  /\ IF ~UpTrained THEN Again
     ELSE /\ slept' = slept
          /\ IF at = "LT2" THEN pc' = "auth" /\ UNCHANGED <<at, left>>
                           ELSE Enter(Following[at])
  /\ UNCHANGED <<saved, poc0, cnhi, controller>>

(* One look at the links in WTLT and WTDL (RPR4 is 7 since stage RP).      *)
Train ==
  /\ pc = "try" /\ at \in {"LT", "DL", "LT2"} /\ left > 0
  /\ IF ~(IF at = "DL" THEN DownTrained ELSE UpTrained) THEN Again
     ELSE /\ slept' = slept
          /\ IF at = "LT2" THEN pc' = "auth" /\ UNCHANGED <<at, left>>
                           ELSE Enter(Following[at])
  /\ UNCHANGED <<saved, poc0, cnhi, controller>>

(* The link did not train: CNHI fails, but ICMD ignores its own WTLT.      *)
TrainGaveUp ==
  /\ pc = "try" /\ at \in {"LT", "DL", "LT2"} /\ left = 0
  /\ IF at = "LT2" THEN pc' = "auth" /\ UNCHANGED <<poc0, cnhi>>
                   ELSE cnhi' = "zero" /\ Finish
  /\ UNCHANGED <<at, left, saved, slept, controller>>

(* ICMD after CNHI: is the ICM register there?                             *)
LookICME ==
  /\ pc = "icme"
  /\ IF ReadICME = "ones" THEN Finish /\ UNCHANGED <<at, left>>
                          ELSE Enter("LT2") /\ UNCHANGED poc0
  /\ UNCHANGED <<saved, cnhi, slept, controller>>

AuthDone == ReadICME \in {"a3", "authed", "ones"}     \* ICME & 0x80000000

(* The reset: ICME |= 0x06, done when bit 31 is clear.                     *)
ResetICM ==
  /\ pc = "auth"
  /\ IF AuthDone THEN Finish /\ UNCHANGED <<left, icm>>
     ELSE icm' = "kicked" /\ pc' = "wait" /\ left' = AuthTries /\ UNCHANGED poc0
  /\ UNCHANGED <<at, saved, cnhi, slept,
                 present, mapped, cfg, upTrain, downTrain>>

(* Wrong variant: the wait for the reset has no limit.                     *)
AwaitForever ==
  /\ pc = "wait"
  /\ IF AuthDone THEN pc' = "settle" ELSE UNCHANGED pc
  /\ UNCHANGED <<at, left, slept, saved, poc0, cnhi, controller>>

(* Local0--, Break at Zero, else Sleep (One) and look at bit 31 again.     *)
Await ==
  /\ pc = "wait"
  /\ IF AuthDone THEN pc' = "settle" /\ UNCHANGED <<left, slept>>
     ELSE /\ left' = left - 1
          /\ IF left = 1 THEN pc' = "settle" /\ UNCHANGED slept
                         ELSE slept' = slept + 1 /\ UNCHANGED pc
  /\ UNCHANGED <<at, saved, poc0, cnhi, controller>>

SettleDown ==
  /\ pc = "settle"
  /\ slept' = slept + Settle
  /\ Finish
  /\ UNCHANGED <<at, left, saved, cnhi, controller>>

Driver == _INI \/ ICMD \/ Configure \/ ConfigureGaveUp \/ Check \/ Train
          \/ TrainGaveUp \/ LookICME \/ ResetICM \/ Await \/ SettleDown

-----------------------------------------------------------------------------
(* The controller (external).                                              *)

Lose ==
  /\ present /\ present' = FALSE
  /\ UNCHANGED <<driver, mapped, cfg, upTrain, downTrain, icm>>

(* It comes back without its configuration; the root port keeps its own.   *)
Reappear ==
  /\ ~present /\ present' = TRUE
  /\ cfg' = [r \in Regs |-> IF r \in Group.RP THEN cfg[r] ELSE "reset"]
  /\ icm' = "stopped"
  /\ UNCHANGED <<driver, mapped, upTrain, downTrain>>

LinkChange ==
  /\ upTrain' \in BOOLEAN /\ downTrain' \in BOOLEAN
  /\ UNCHANGED <<driver, present, mapped, cfg, icm>>

(* The ICM firmware starts, on its own or because it was told to.          *)
Firmware ==
  /\ present /\ icm \in {"stopped", "kicked"}
  /\ icm' \in {"a3", "authed"}
  /\ UNCHANGED <<driver, present, mapped, cfg, upTrain, downTrain>>

Next == Driver \/ Lose \/ Reappear \/ LinkChange \/ Firmware

Spec == Init /\ [][Next]_vars

(* A method always runs on; the controller owes nothing.                   *)
FairSpec == Spec /\ WF_vars(Driver)

-----------------------------------------------------------------------------
(* Properties.                                                             *)

(* CNHI reports success only when every register it restores holds the     *)
(* firmware's value and the controller answers, although it reads back one *)
(* register of each group, all-ones compares equal with an all-ones record *)
(* of an absent controller, and the controller may have lost its           *)
(* configuration during any Sleep on the way.                              *)
RestoredOnSuccess ==
  [][cnhi' = "one" /\ cnhi # "one" => Restored]_vars

(* The boot waits for _INI no longer than its loops allow together.        *)
Budget == 1 + 3 * CfgTries + 3 * LinkTries + NhiTries + AuthTries + Settle
WithinBudget == slept <= Budget

(* _INI returns, and takes POC0 back, whatever the controller does.        *)
Returns == <>[](pc = "done" /\ poc0 = 0)

(* The inductive strengthening of the first two, in parts.                 *)

\* until the record is made, the registers below the root port are all as the
\* firmware left them or none is, and in the first case the table saw them
BeforeRecord ==
  pc = "ini" =>
    \/ (\A r \in Windows : cfg[r] = "boot") /\ (present => mapped)
    \/ \A r \in Regs \ Group.RP : cfg[r] # "boot"

\* a record is the firmware's value of every register, or of none below the
\* root port when the controller was away, or unconfigured, at _INI
RecordWhole ==
  pc # "ini" =>
    /\ \A r \in Group.RP : saved[r] = "boot"
    /\ \/ \A r \in Windows : saved[r] = "boot"
       \/ \A r \in Regs \ Group.RP : saved[r] # "boot"

\* a bridge with its bus number has the rest of its configuration
BridgeWhole ==
  /\ \A r \in Group.RP : cfg[r] = "boot"
  /\ cfg["UP19"] = "boot" => cfg["UPrest"] = "boot"
  /\ cfg["DP19"] = "boot" => \A r \in Group.DS \ {"DP2C"} : cfg[r] = "boot"
  /\ cfg["NH10"] = "boot" => cfg["NHrest"] = "boot"

\* without such a record, a controller that is there has no bus number of
\* the firmware's, so nothing below it can be reached
LateArrival ==
  pc # "ini" /\ saved["UP19"] # "boot" /\ present => cfg["UP19"] # "boot"

\* the last stage is entered through a trained downstream link only
LinkSeen ==
  (pc \in {"try", "check"} /\ at = "NHI") \/ cnhi = "one"
    => saved["UP19"] = "boot"

\* milliseconds _INI may still sleep once stage s is over
Ahead ==
  LET LT2 == AuthTries + Settle
      NHI == LinkTries + LT2
      DL  == NhiTries + NHI
      DS  == LinkTries + DL
      LT  == CfgTries + DS
      UP  == LinkTries + LT
  IN  [RP |-> CfgTries + UP, UP |-> UP, LT |-> LT, DS |-> DS, DL |-> DL,
       NHI |-> NHI, LT2 |-> LT2]

\* what is slept and what may still be slept
OnTime ==
  /\ slept <= Budget
  /\ pc = "ini" => slept = 0
  /\ pc = "icmd" => slept = 1
  /\ pc = "try" => slept + left + Ahead[at] <= Budget
  /\ pc \in {"check", "icme"} => slept + Ahead[at] <= Budget
  /\ pc = "auth" => slept + AuthTries + Settle <= Budget
  /\ pc = "wait" => slept + left + Settle <= Budget
  /\ pc = "settle" => slept + Settle <= Budget

\* where each loop is, and what is known there
Places ==
  /\ pc = "check" => at \in DOMAIN Group
  /\ pc = "icme" => at = "NHI"
  /\ pc = "wait" => left > 0
  /\ pc \in {"ini", "icmd"} => cnhi = "none"

IInv == TypeOK /\ BeforeRecord /\ RecordWhole /\ BridgeWhole /\ LateArrival /\ LinkSeen
        /\ OnTime /\ Places

(* What the project's documentation of the code says.                      *)

(* "NVM started means we need reset", "NVM already started, resetting":    *)
(* the controller is reset only when NVM_AUTH_DONE is set.                 *)
ResetOnlyIfStarted ==
  [][pc = "auth" /\ pc' = "wait" => icm \in {"a3", "authed"}]_vars

(* "Save Ridge Config on Boot ICM ... Store Complete": what was recorded   *)
(* is the whole configuration, so writing it back to a controller that     *)
(* still has it changes nothing.                                           *)
ConfigKept ==
  [][pc = "try" /\ present => \A r \in Regs : cfg[r] = "boot" => cfg'[r] = "boot"]_vars
=============================================================================
