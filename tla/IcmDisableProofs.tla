------------------------- MODULE IcmDisableProofs -------------------------
(* Proofs about IcmDisable, for every limit of its loops: CNHI reports     *)
(* success only with the firmware's configuration in place, and _INI is    *)
(* over after a bounded number of milliseconds of sleep.                   *)
EXTENDS IcmDisable, TLAPS

(* The registers, listed.                                                  *)
LEMMA RegsAre ==
  /\ Regs = {"R_20", "RPrest", "UP19", "UPrest", "DP19", "DPrest", "DP2C",
             "DSB1", "DSB2", "NH10", "NHrest"}
  /\ Windows = Regs \ {"DP2C"}
  /\ DOMAIN Group = {"RP", "UP", "DS", "NHI"}
  /\ Group.RP = {"R_20", "RPrest"} /\ Group["RP"] = Group.RP
  /\ Group.UP = {"UP19", "UPrest"} /\ Group["UP"] = Group.UP
  /\ Group.DS = {"DP19", "DPrest", "DP2C", "DSB1", "DSB2"} /\ Group["DS"] = Group.DS
  /\ Group.NHI = {"NH10", "NHrest"} /\ Group["NHI"] = Group.NHI
BY DEF Regs, Windows, Group

LEMMA CheckedAre ==
  /\ Checked["RP"] = "R_20" /\ Checked["UP"] = "UP19"
  /\ Checked["DS"] = "DP19" /\ Checked["NHI"] = "NH10"
BY DEF Checked

LEMMA FollowingAre ==
  /\ Following["RP"] = "UP" /\ Following["UP"] = "LT" /\ Following["LT"] = "DS"
  /\ Following["DS"] = "DL" /\ Following["DL"] = "NHI"
BY DEF Following

LEMMA LimitsAre ==
  /\ Limit["RP"] = CfgTries /\ Limit["UP"] = CfgTries /\ Limit["DS"] = CfgTries
  /\ Limit["LT"] = LinkTries /\ Limit["DL"] = LinkTries /\ Limit["LT2"] = LinkTries
  /\ Limit["NHI"] = NhiTries
BY DEF Limit

(* The budget is the sum of what the stages use, in their order.           *)
LEMMA AheadAdds ==
  /\ Ahead["LT2"] = AuthTries + Settle
  /\ Ahead["NHI"] = Limit["LT2"] + Ahead["LT2"]
  /\ Ahead["DL"] = Limit["NHI"] + Ahead["NHI"]
  /\ Ahead["DS"] = Limit["DL"] + Ahead["DL"]
  /\ Ahead["LT"] = Limit["DS"] + Ahead["DS"]
  /\ Ahead["UP"] = Limit["LT"] + Ahead["LT"]
  /\ Ahead["RP"] = Limit["UP"] + Ahead["UP"]
  /\ Budget = 1 + Limit["RP"] + Ahead["RP"] /\ Budget \in Nat
  /\ \A s \in Stage : Ahead[s] \in Nat /\ Limit[s] \in Nat
BY LimitsAssumption, LimitsAre DEF Ahead, Budget, Stage

LEMMA InitIInv == Init => IInv
<1> SUFFICES ASSUME Init PROVE IInv
  OBVIOUS
<1>1. TypeOK
  BY RegsAre DEF Init, TypeOK, Values, Stage
<1>b. BeforeRecord
  BY RegsAre DEF Init, BeforeRecord
<1>2. RecordWhole /\ LateArrival /\ LinkSeen /\ Places
  BY DEF Init, RecordWhole, LateArrival, LinkSeen, Places
<1>3. BridgeWhole
  BY RegsAre DEF Init, BridgeWhole
<1>4. OnTime
  BY LimitsAssumption DEF Init, OnTime, Budget
<1>5. QED
  BY <1>1, <1>b, <1>2, <1>3, <1>4 DEF IInv

LEMMA TypeStep == ASSUME IInv, [Next]_vars PROVE TypeOK'
<1> USE DEF TypeOK, driver, controller
<1>0. TypeOK /\ Places
  BY DEF IInv
<1>1. CASE _INI
  BY <1>0, <1>1, RegsAre DEF _INI, Read, Values
<1>2. CASE ICMD
  BY <1>0, <1>2, LimitsAre, LimitsAssumption DEF ICMD, Finish, Stage
<1>3. CASE Configure
  <2>1. cfg' \in [Regs -> Values]
    BY <1>0, <1>3 DEF Configure
  <2>2. QED
    BY <1>0, <1>3, <2>1 DEF Configure, Again
<1>4. CASE ConfigureGaveUp
  BY <1>0, <1>4 DEF ConfigureGaveUp
<1>5. CASE Check
  <2>1. at # "NHI" => Following[at] \in Stage /\ Limit[Following[at]] \in Nat
    BY <1>0, <1>5, RegsAre, FollowingAre, LimitsAre, LimitsAssumption DEF Check, Stage, Places
  <2>2. QED
    BY <1>0, <1>5, <2>1 DEF Check, Finish, Enter
<1>6. CASE Train
  <2>1. at # "LT2" => Following[at] \in Stage /\ Limit[Following[at]] \in Nat
    BY <1>6, FollowingAre, LimitsAre, LimitsAssumption DEF Train, Stage
  <2>2. QED
    BY <1>0, <1>6, <2>1 DEF Train, Enter, Again
<1>7. CASE TrainGaveUp
  BY <1>0, <1>7 DEF TrainGaveUp, Finish
<1>8. CASE LookICME
  BY <1>0, <1>8, LimitsAre, LimitsAssumption DEF LookICME, Finish, Enter, Stage
<1>9. CASE ResetICM
  BY <1>0, <1>9, LimitsAssumption DEF ResetICM, Finish
<1>10. CASE Await
  BY <1>0, <1>10 DEF Await, Places
<1>11. CASE SettleDown
  BY <1>0, <1>11, LimitsAssumption DEF SettleDown, Finish
<1>12. CASE Lose
  BY <1>0, <1>12 DEF Lose
<1>13. CASE Reappear
  BY <1>0, <1>13 DEF Reappear, Values
<1>14. CASE LinkChange
  BY <1>0, <1>14 DEF LinkChange
<1>15. CASE Firmware
  BY <1>0, <1>15 DEF Firmware
<1>16. CASE UNCHANGED vars
  BY <1>0, <1>16 DEF vars
<1>17. QED
  BY <1>1, <1>2, <1>3, <1>4, <1>5, <1>6, <1>7, <1>8, <1>9, <1>10, <1>11, <1>12,
     <1>13, <1>14, <1>15, <1>16 DEF Next, Driver

(* The time still needed shrinks with every step that sleeps.              *)
LEMMA TimeStep == ASSUME IInv, [Next]_vars PROVE OnTime' /\ Places'
<1> USE DEF OnTime, Places, driver
<1>0. OnTime /\ Places
  BY DEF IInv
<1>a. AuthTries \in Nat \ {0} /\ Settle \in Nat /\ Budget \in Nat
  BY LimitsAssumption, AheadAdds
<1>b. left \in Nat /\ slept \in Nat /\ at \in Stage
  BY DEF IInv, TypeOK
<1>c. Ahead[at] \in Nat /\ Limit[at] \in Nat
  BY <1>b, AheadAdds
<1>d. Ahead["LT2"] = AuthTries + Settle
  BY AheadAdds
<1>1. CASE _INI
  <2>1. Budget >= 1
    BY AheadAdds DEF Stage
  <2>2. QED
    BY <1>0, <1>a, <1>b, <1>1, <2>1 DEF _INI
<1>2. CASE ICMD
  BY <1>0, <1>a, <1>b, <1>c, <1>2, AheadAdds, RegsAre DEF ICMD, Finish
<1>3. CASE Configure
  BY <1>0, <1>a, <1>b, <1>c, <1>3 DEF Configure, Again
<1>4. CASE ConfigureGaveUp
  BY <1>0, <1>a, <1>b, <1>c, <1>4 DEF ConfigureGaveUp
<1>5. CASE Check
  <2>1. at # "NHI" => Ahead[at] = Limit[Following[at]] + Ahead[Following[at]]
    BY <1>0, <1>a, <1>b, <1>c, <1>5, RegsAre, FollowingAre, AheadAdds DEF Check
  <2>2. at # "NHI" => Limit[Following[at]] \in Nat /\ Ahead[Following[at]] \in Nat
    BY <1>0, <1>5, RegsAre, FollowingAre, AheadAdds DEF Check, Stage
  <2>3. CASE pc' = "try"
    BY <1>0, <1>a, <1>b, <1>c, <1>5, <2>1, <2>2, <2>3 DEF Check, Finish, Enter
  <2>4. CASE pc' # "try"
    BY <1>0, <1>a, <1>b, <1>c, <1>5, <2>4 DEF Check, Finish, Enter
  <2>5. QED
    BY <2>3, <2>4
<1>6. CASE Train
  <2>1. at # "LT2" => Ahead[at] = Limit[Following[at]] + Ahead[Following[at]]
    BY <1>6, FollowingAre, AheadAdds DEF Train
  <2>2. at # "LT2" => Limit[Following[at]] \in Nat /\ Ahead[Following[at]] \in Nat
    BY <1>6, FollowingAre, AheadAdds DEF Train, Stage
  <2>3. Ahead["LT2"] = AuthTries + Settle
    BY AheadAdds
  <2>4. QED
    BY <1>0, <1>a, <1>b, <1>c, <1>6, <2>1, <2>2, <2>3 DEF Train, Enter, Again
<1>7. CASE TrainGaveUp
  BY <1>0, <1>a, <1>b, <1>c, <1>d, <1>7 DEF TrainGaveUp, Finish
<1>8. CASE LookICME
  <2>1. Ahead["NHI"] = Limit["LT2"] + Ahead["LT2"] /\ Limit["LT2"] \in Nat
    BY AheadAdds DEF Stage
  <2>2. QED
    BY <1>0, <1>a, <1>b, <1>d, <1>8, <2>1 DEF LookICME, Finish, Enter
<1>9. CASE ResetICM
  BY <1>0, <1>a, <1>b, <1>c, <1>9 DEF ResetICM, Finish
<1>10. CASE Await
  BY <1>0, <1>a, <1>b, <1>c, <1>10 DEF Await
<1>11. CASE SettleDown
  BY <1>0, <1>a, <1>b, <1>c, <1>11 DEF SettleDown, Finish
<1>12. CASE UNCHANGED driver
  BY <1>0, <1>a, <1>b, <1>c, <1>12
<1>13. QED
  BY <1>1, <1>2, <1>3, <1>4, <1>5, <1>6, <1>7, <1>8, <1>9, <1>10, <1>11, <1>12
  DEF Next, Driver, Lose, Reappear, LinkChange, Firmware, vars

(* What the record and the registers look like is disturbed by four        *)
(* actions only.                                                           *)
LEMMA RegisterStep ==
  ASSUME IInv, [Next]_vars
  PROVE  BeforeRecord' /\ RecordWhole' /\ BridgeWhole' /\ LateArrival'
<1> USE RegsAre DEF BeforeRecord, RecordWhole, BridgeWhole, LateArrival
<1>0. BeforeRecord /\ RecordWhole /\ BridgeWhole /\ LateArrival
  BY DEF IInv
<1>1. CASE _INI
  <2>1. /\ pc = "ini" /\ pc' = "icmd" /\ UNCHANGED <<cfg, present, mapped>>
        /\ saved' = [r \in Regs |-> IF r \in Windows THEN Read(cfg, r) ELSE "zero"]
    BY <1>1 DEF _INI, controller
  <2>2. saved'["DP2C"] = "zero" /\ \A r \in Windows : saved'[r] = Read(cfg, r)
    BY <2>1
  <2>3. \A r \in Group.RP : saved'[r] = "boot"
    BY <1>0, <2>2 DEF Read, Reach
  <2>4. CASE present /\ \A r \in Windows : cfg[r] = "boot"
    <3>1. mapped
      BY <1>0, <2>1, <2>4
    <3>2. \A r \in Windows : Read(cfg, r) = "boot"
      BY <2>4, <3>1 DEF Read, Reach
    <3>3. QED
      BY <1>0, <2>1, <2>2, <3>2
  <2>5. CASE ~present \/ \A r \in Regs \ Group.RP : cfg[r] # "boot"
    <3>1. \A r \in Windows \ Group.RP : Read(cfg, r) # "boot"
      BY <2>5 DEF Read, Reach
    <3>2. \A r \in Regs \ Group.RP : saved'[r] # "boot"
      BY <2>2, <3>1
    <3>3. QED
      BY <1>0, <2>1, <2>3, <2>5, <3>2
  <2>6. QED
    BY <1>0, <2>1, <2>4, <2>5
<1>2. CASE Configure
  <2>1. /\ UNCHANGED <<saved, present>> /\ pc = "try" /\ at \in DOMAIN Group
        /\ pc' \in {"check", "try"}
    BY <1>2 DEF Configure, Again
  <2>2. \A r \in Regs : cfg'[r] = IF r \in Group[at] /\ Reach(cfg, r)
                                  THEN saved[r] ELSE cfg[r]
    BY <1>2 DEF Configure
  <2>3. \A g \in DOMAIN Group : \A r, q \in Group[g] : Reach(cfg, r) = Reach(cfg, q)
    BY DEF Reach
  <2>4. CASE saved["UP19"] = "boot"
    <3>1. \A r \in Windows : saved[r] = "boot"
      BY <1>0, <2>1, <2>4
    <3>2. QED
      BY <1>0, <2>1, <2>2, <2>3, <2>4, <3>1
  <2>5. CASE saved["UP19"] # "boot"
    <3>1. \A r \in Regs \ Group.RP : saved[r] # "boot"
      BY <1>0, <2>1, <2>5
    <3>2. QED
      BY <1>0, <2>1, <2>2, <2>3, <2>5, <3>1
  <2>6. QED
    BY <2>4, <2>5
<1>3. CASE Lose
  BY <1>0, <1>3 DEF Lose, driver
<1>4. CASE Reappear
  BY <1>0, <1>4 DEF Reappear, driver
<1>5. CASE UNCHANGED <<saved, cfg, present, mapped>> /\ pc # "ini" /\ pc' # "ini"
  BY <1>0, <1>5
<1>6. CASE UNCHANGED <<pc, saved, cfg, present, mapped>>
  BY <1>0, <1>6
<1>7. CASE ICMD \/ ConfigureGaveUp \/ Check
  BY <1>5, <1>7 DEF ICMD, ConfigureGaveUp, Check, Finish, Enter, controller
<1>8. CASE Train \/ TrainGaveUp \/ LookICME
  BY <1>5, <1>8 DEF Train, TrainGaveUp, LookICME, Finish, Enter, Again, controller
<1>9. CASE ResetICM \/ Await \/ SettleDown
  BY <1>5, <1>9 DEF ResetICM, Await, SettleDown, Finish, controller
<1>10. CASE LinkChange \/ Firmware \/ UNCHANGED vars
  BY <1>6, <1>10 DEF LinkChange, Firmware, vars, driver, controller
<1>11. QED
  BY <1>1, <1>2, <1>3, <1>4, <1>7, <1>8, <1>9, <1>10 DEF Next, Driver

(* The stage that reaches NHI lies behind a trained downstream link, which *)
(* a record of an absent controller never gets past.                       *)
LEMMA LinkStep == ASSUME IInv, [Next]_vars PROVE LinkSeen'
<1> USE DEF LinkSeen
<1>0. LinkSeen /\ LateArrival /\ Places
  BY DEF IInv
<1>1. CASE _INI
  BY <1>0, <1>1 DEF _INI, Places
<1>2. CASE ICMD
  BY <1>0, <1>2 DEF ICMD, Finish, Places
<1>3. CASE Check
  <2>1. at # "NHI" => Following[at] # "NHI"
    BY <1>0, <1>3, RegsAre, FollowingAre DEF Check, Places
  <2>2. QED
    BY <1>0, <1>3, <2>1 DEF Check, Finish, Enter
<1>4. CASE Train
  <2>1. CASE at = "DL" /\ DownTrained
    BY <1>0, <1>4, <2>1, RegsAre DEF Train, Enter, DownTrained, UpTrained, Reach, LateArrival
  <2>2. CASE at = "DL" /\ ~DownTrained
    BY <1>0, <1>4, <2>2 DEF Train, Again
  <2>3. CASE at # "DL"
    BY <1>0, <1>4, <2>3, FollowingAre DEF Train, Enter, Again
  <2>4. QED
    BY <2>1, <2>2, <2>3
<1>5. CASE Configure \/ ConfigureGaveUp
  BY <1>0, <1>5 DEF Configure, ConfigureGaveUp, Again
<1>6. CASE TrainGaveUp \/ LookICME
  BY <1>0, <1>6 DEF TrainGaveUp, LookICME, Finish, Enter
<1>7. CASE ResetICM \/ Await \/ SettleDown
  BY <1>0, <1>7 DEF ResetICM, Await, SettleDown, Finish
<1>8. CASE UNCHANGED driver
  BY <1>0, <1>8 DEF driver
<1>9. QED
  BY <1>1, <1>2, <1>3, <1>4, <1>5, <1>6, <1>7, <1>8
  DEF Next, Driver, Lose, Reappear, LinkChange, Firmware, vars

(* The inductive invariant of _INI, for every limit of its loops.          *)
THEOREM StrengthenedInvariant == Spec => []IInv
<1>1. IInv /\ [Next]_vars => IInv'
  BY TypeStep, TimeStep, RegisterStep, LinkStep DEF IInv
<1>2. QED
  BY InitIInv, <1>1, PTL DEF Spec

(* The boot never waits longer for _INI than Budget milliseconds.          *)
THEOREM BootDelayBounded == Spec => []WithinBudget
<1>1. IInv => WithinBudget
  BY DEF IInv, OnTime, WithinBudget
<1>2. QED
  BY StrengthenedInvariant, <1>1, PTL

(* CNHI answers One only with the firmware's configuration in place on a   *)
(* controller that answers.                                                *)
THEOREM SuccessIsRestored == Spec => RestoredOnSuccess
<1>1. ASSUME IInv, [Next]_vars, cnhi' = "one", cnhi # "one" PROVE Restored
  <2>1. Check /\ at = "NHI" /\ saved["NH10"] = Read(cfg, "NH10")
    BY <1>1, CheckedAre
    DEF Next, Driver, _INI, ICMD, Configure, ConfigureGaveUp, Check, Train, TrainGaveUp,
        LookICME, ResetICM, Await, SettleDown, Lose, Reappear, LinkChange, Firmware,
        driver, vars
  <2>2. \A r \in Windows : saved[r] = "boot"
    BY <1>1, <2>1, RegsAre DEF IInv, LinkSeen, RecordWhole, Check
  <2>3. Reach(cfg, "NH10") /\ cfg["NH10"] = "boot"
    BY <2>1, <2>2, RegsAre DEF Read
  <2>4. present /\ cfg["UP19"] = "boot" /\ cfg["DP19"] = "boot"
    BY <2>3, RegsAre DEF Reach
  <2>5. QED
    BY <1>1, <2>3, <2>4, RegsAre DEF Restored, IInv, BridgeWhole
<1>2. IInv /\ [Next]_vars => [cnhi' = "one" /\ cnhi # "one" => Restored]_vars
  BY <1>1
<1>3. QED
  BY StrengthenedInvariant, <1>2, PTL DEF Spec, RestoredOnSuccess

-----------------------------------------------------------------------------
(* The safety half of Returns.                                             *)

\* the steps of _INI once stage s is over
StepsAfter ==
  LET LT2 == AuthTries + 2
      NHI == LinkTries + 2 + LT2
      DL  == NhiTries + 2 + NHI
      DS  == LinkTries + 1 + DL
      LT  == CfgTries + 2 + DS
      UP  == LinkTries + 1 + LT
  IN  [RP |-> CfgTries + 2 + UP, UP |-> UP, LT |-> LT, DS |-> DS, DL |-> DL,
       NHI |-> NHI, LT2 |-> LT2]

\* the steps of _INI still to come, counting those a failure would save
StepsLeft ==
  CASE pc = "ini"    -> CfgTries + 4 + StepsAfter["RP"]
    [] pc = "icmd"   -> CfgTries + 3 + StepsAfter["RP"]
    [] pc = "try"    -> left + (IF at \in DOMAIN Group THEN 2 ELSE 1) + StepsAfter[at]
    [] pc = "check"  -> 1 + StepsAfter[at]
    [] pc = "icme"   -> StepsAfter["NHI"]
    [] pc = "auth"   -> AuthTries + 2
    [] pc = "wait"   -> left + 1
    [] pc = "settle" -> 1
    [] pc = "done"   -> 0

(* Every step of _INI uses up one of the steps it has left, and the        *)
(* controller, whatever it does meanwhile, gives it no other: no loop is   *)
(* entered twice, and none counts on the controller to end.  When _INI is  *)
(* over, POC0 is taken back, and it stays so.                              *)
StepsRunOut ==
  [][/\ Driver => StepsLeft' < StepsLeft
     /\ ~Driver => StepsLeft' = StepsLeft
     /\ pc = "done" => UNCHANGED driver]_vars
TakenBack == StepsLeft = 0 => pc = "done" /\ poc0 = 0

(* What each stage adds to those behind it.                                *)
LEMMA StepsAdd ==
  /\ StepsAfter["LT2"] = AuthTries + 2
  /\ StepsAfter["NHI"] = LinkTries + 2 + StepsAfter["LT2"]
  /\ StepsAfter["DL"] = NhiTries + 2 + StepsAfter["NHI"]
  /\ StepsAfter["DS"] = LinkTries + 1 + StepsAfter["DL"]
  /\ StepsAfter["LT"] = CfgTries + 2 + StepsAfter["DS"]
  /\ StepsAfter["UP"] = LinkTries + 1 + StepsAfter["LT"]
  /\ StepsAfter["RP"] = CfgTries + 2 + StepsAfter["UP"]
  /\ AuthTries \in Nat /\ \A s \in Stage : StepsAfter[s] \in Nat
BY LimitsAssumption DEF StepsAfter, Stage

(* What it costs to enter the next stage is what was set aside for it.     *)
LEMMA EnterUses ==
  ASSUME NEW s \in Stage \ {"NHI", "LT2"}, Enter(Following[s])
  PROVE  StepsLeft' = StepsAfter[s]
<1> DEFINE f == Following[s]
<1>1. pc' = "try" /\ at' = f /\ left' = Limit[f]
  BY DEF Enter
<1>2. StepsAfter[s] = Limit[f] + (IF f \in DOMAIN Group THEN 2 ELSE 1) + StepsAfter[f]
  BY StepsAdd, FollowingAre, LimitsAre, RegsAre DEF Stage
<1> HIDE DEF f
<1> QED
  BY <1>1, <1>2 DEF StepsLeft, StepsAfter, Group

LEMMA StepsLeftNat ==
  TypeOK => StepsLeft \in Nat /\ (StepsLeft = 0 => pc = "done")
BY StepsAdd, LimitsAssumption DEF TypeOK, StepsLeft, Stage

(* A step of _INI uses up one of its steps.                                *)
LEMMA DriverUses == IInv /\ Driver => StepsLeft' < StepsLeft
<1> SUFFICES ASSUME IInv, Driver
             PROVE  StepsLeft' < StepsLeft
  OBVIOUS
<1>0. /\ TypeOK /\ Places /\ at \in Stage /\ left \in Nat
      /\ StepsLeft \in Nat /\ (StepsLeft = 0 => pc = "done")
      /\ StepsAfter' = StepsAfter
      /\ DOMAIN Group = {"RP", "UP", "DS", "NHI"}
      /\ Stage = {"RP", "UP", "LT", "DS", "DL", "NHI", "LT2"}
  BY StepsLeftNat, RegsAre DEF IInv, TypeOK, StepsAfter, Stage
<1>1. ASSUME Finish, pc # "done"
      PROVE  StepsLeft' < StepsLeft
  <2>1. StepsLeft' = 0
    BY <1>1 DEF Finish, StepsLeft
  <2> HIDE DEF StepsLeft
  <2> QED
    BY <1>0, <1>1, <2>1
<1>2. ASSUME Again, pc = "try", left > 0, pc' = pc, at' = at
      PROVE  StepsLeft' < StepsLeft
  <2>1. /\ StepsLeft = left + (IF at \in DOMAIN Group THEN 2 ELSE 1) + StepsAfter[at]
        /\ StepsLeft' = left' + (IF at \in DOMAIN Group THEN 2 ELSE 1) + StepsAfter[at]
    BY <1>2, <1>0 DEF StepsLeft, Group
  <2>2. StepsAfter[at] \in Nat /\ left' = left - 1
    BY <1>0, <1>2, StepsAdd DEF Again
  <2> HIDE DEF StepsLeft
  <2> QED
    BY <1>0, <1>2, <2>1, <2>2
<1>3. CASE _INI
  BY <1>0, <1>3, StepsAdd, LimitsAssumption DEF _INI, StepsLeft
<1>4. CASE ICMD
  <2>1. CASE Finish
    BY <1>1, <1>4, <2>1 DEF ICMD
  <2>2. CASE pc' = "try" /\ at' = "RP" /\ left' = Limit["RP"]
    BY <1>0, <1>4, <2>2, StepsAdd, LimitsAre, LimitsAssumption DEF ICMD, StepsLeft
  <2> QED
    BY <1>4, <2>1, <2>2 DEF ICMD
<1>5. CASE Configure \/ ConfigureGaveUp
  <2>1. CASE Again /\ left > 0 /\ pc = "try"
    BY <1>2, <2>1 DEF Again
  <2>2. CASE pc = "try" /\ at \in DOMAIN Group /\ pc' = "check" /\ UNCHANGED <<at, left>>
    <3>1. /\ StepsLeft = left + 2 + StepsAfter[at]
          /\ StepsLeft' = 1 + StepsAfter[at]
      BY <1>0, <2>2 DEF StepsLeft
    <3>2. StepsAfter[at] \in Nat
      BY <1>0, StepsAdd
    <3> HIDE DEF StepsLeft
    <3> QED
      BY <1>0, <3>1, <3>2
  <2> QED
    BY <1>5, <2>1, <2>2 DEF Configure, ConfigureGaveUp
<1>6. CASE Check
  <2>1. pc = "check" /\ at \in DOMAIN Group /\ StepsLeft = 1 + StepsAfter[at]
        /\ StepsAfter[at] \in Nat
    BY <1>0, <1>6, StepsAdd DEF Check, Places, StepsLeft
  <2>2. CASE at # "NHI" /\ Enter(Following[at])
    <3>1. StepsLeft' = StepsAfter[at]
      BY <1>0, <2>1, <2>2, EnterUses
    <3> HIDE DEF StepsLeft
    <3> QED
      BY <2>1, <3>1
  <2>3. CASE at = "NHI" /\ pc' = "icme"
    <3>1. StepsLeft' = StepsAfter[at]
      BY <1>0, <2>3 DEF StepsLeft
    <3> HIDE DEF StepsLeft
    <3> QED
      BY <2>1, <3>1
  <2>4. CASE Finish
    BY <1>1, <2>1, <2>4
  <2> QED
    BY <1>6, <2>2, <2>3, <2>4 DEF Check
<1>7. CASE Train
  <2>1. CASE Again
    BY <1>2, <1>7, <2>1 DEF Train, Again
  <2>2. pc = "try" /\ at \in {"LT", "DL", "LT2"} /\ left > 0
        /\ StepsLeft = left + 1 + StepsAfter[at] /\ StepsAfter[at] \in Nat
    BY <1>0, <1>7, StepsAdd DEF Train, StepsLeft
  <2>3. CASE at # "LT2" /\ Enter(Following[at])
    <3>1. StepsLeft' = StepsAfter[at]
      BY <1>0, <2>2, <2>3, EnterUses
    <3> HIDE DEF StepsLeft
    <3> QED
      BY <1>0, <2>2, <3>1
  <2>4. CASE at = "LT2" /\ pc' = "auth"
    <3>1. StepsLeft' = AuthTries + 2
      BY <2>4 DEF StepsLeft
    <3> HIDE DEF StepsLeft
    <3> QED
      BY <1>0, <2>2, <2>4, <3>1, StepsAdd
  <2> QED
    BY <1>7, <2>1, <2>3, <2>4 DEF Train
<1>8. CASE TrainGaveUp
  <2>1. CASE Finish
    BY <1>1, <1>8, <2>1 DEF TrainGaveUp
  <2>2. CASE at = "LT2" /\ pc' = "auth"
    BY <1>0, <1>8, <2>2, StepsAdd DEF TrainGaveUp, StepsLeft
  <2> QED
    BY <1>8, <2>1, <2>2 DEF TrainGaveUp
<1>9. CASE LookICME
  <2>1. CASE Finish
    BY <1>1, <1>9, <2>1 DEF LookICME
  <2>2. CASE Enter("LT2")
    <3>1. pc = "icme" /\ pc' = "try" /\ at' = "LT2" /\ left' = LinkTries
      BY <1>9, <2>2, LimitsAre DEF LookICME, Enter
    <3> QED
      BY <1>0, <3>1, StepsAdd, LimitsAssumption DEF StepsLeft
  <2> QED
    BY <1>9, <2>1, <2>2 DEF LookICME
<1>10. CASE ResetICM
  <2>1. CASE Finish
    BY <1>1, <1>10, <2>1 DEF ResetICM
  <2>2. CASE pc' = "wait" /\ left' = AuthTries
    BY <1>10, <2>2, StepsAdd DEF ResetICM, StepsLeft
  <2> QED
    BY <1>10, <2>1, <2>2 DEF ResetICM
<1>11. CASE Await
  <2>1. pc = "wait" /\ left > 0 /\ StepsLeft = left + 1
    BY <1>0, <1>11 DEF Await, Places, StepsLeft
  <2>2. StepsLeft' = 1 \/ StepsLeft' = left
    <3>1. pc' = "settle" \/ (pc' = "wait" /\ left' = left - 1)
      BY <1>11, <2>1 DEF Await
    <3>2. pc' = "settle" => StepsLeft' = 1
      BY DEF StepsLeft
    <3>3. pc' = "wait" => StepsLeft' = left' + 1
      BY DEF StepsLeft
    <3> HIDE DEF StepsLeft
    <3> QED
      BY <1>0, <3>1, <3>2, <3>3
  <2> HIDE DEF StepsLeft
  <2> QED
    BY <1>0, <2>1, <2>2
<1>12. CASE SettleDown
  BY <1>1, <1>12 DEF SettleDown
<1> QED
  BY <1>3, <1>4, <1>5, <1>6, <1>7, <1>8, <1>9, <1>10, <1>11, <1>12 DEF Driver

(* _INI is over after a bounded number of its own steps, whatever the      *)
(* controller does, and leaves POC0 at zero.                               *)
THEOREM IniRunsOut == Spec => [](StepsLeft \in Nat /\ TakenBack) /\ StepsRunOut
<1> DEFINE Over == pc = "done" => poc0 = 0
           Inv  == IInv /\ Over
<1>1. Init => Over
  BY DEF Init
<1>2. ASSUME Over, [Next]_vars
      PROVE  Over'
  BY <1>2 DEF Next, Driver, _INI, ICMD, Configure, ConfigureGaveUp, Check, Train,
       TrainGaveUp, LookICME, ResetICM, Await, SettleDown, Lose, Reappear, LinkChange,
       Firmware, Finish, Enter, Again, driver, vars
<1>3. IInv /\ Over => StepsLeft \in Nat /\ TakenBack
  BY StepsLeftNat DEF IInv, TakenBack
<1>4. IInv /\ [Next]_vars
      => [/\ Driver => StepsLeft' < StepsLeft
          /\ ~Driver => StepsLeft' = StepsLeft
          /\ pc = "done" => UNCHANGED driver]_vars
  <2> SUFFICES ASSUME IInv, Next
               PROVE  /\ Driver => StepsLeft' < StepsLeft
                      /\ ~Driver => StepsLeft' = StepsLeft
                      /\ pc = "done" => UNCHANGED driver
    OBVIOUS
  <2>1. ~Driver => UNCHANGED driver
    BY DEF Next, Lose, Reappear, LinkChange, Firmware
  <2>2. UNCHANGED driver => StepsLeft' = StepsLeft
    BY DEF driver, StepsLeft, StepsAfter, Group
  <2>3. pc = "done" => ~Driver
    BY DEF Driver, _INI, ICMD, Configure, ConfigureGaveUp, Check, Train, TrainGaveUp,
           LookICME, ResetICM, Await, SettleDown
  <2> QED
    BY <2>1, <2>2, <2>3, DriverUses
<1> HIDE DEF Over
<1>5. Spec => []Over
  BY <1>1, <1>2, PTL DEF Spec
<1> QED
  BY <1>3, <1>4, <1>5, StrengthenedInvariant, PTL DEF Spec, StepsRunOut
=============================================================================
