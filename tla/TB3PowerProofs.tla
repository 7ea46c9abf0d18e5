--------------------------- MODULE TB3PowerProofs ---------------------------
(* Proofs about TB3Power, for every number of polls and with and without   *)
(* reporting of the link's activity.                                       *)
EXTENDS TB3Power, TLAPS

LEMMA InitIInv == Init => IInv
<1> SUFFICES ASSUME Init PROVE IInv
  OBVIOUS
<1>1. 0 \in 0 .. Limit /\ 0 \in Nat /\ Limit \in Nat
  BY LimitAssumption
<1>2. PICK p \in {"off", "on"} : power = [d \in Devices |-> p]
  BY DEF Init
<1>3. TypeOK
  <2>1. power \in [Devices -> {"off", "up", "on"}]
    BY <1>2
  <2>2. QED
    BY <1>1, <2>1, Zenon DEF Init, TypeOK, Speeds, Links
<1>4. Tree /\ Working
  BY <1>2 DEF Init, Tree, Working, Parent, Devices
<1>5. Request /\ SpeedRestored
  BY DEF Init, Request, SpeedRestored
<1>6. Budget
  BY <1>1 DEF Init, Budget
<1>7. QED
  BY <1>3, <1>4, <1>5, <1>6 DEF IInv

(* The counters.                                                           *)
LEMMA CountersStep ==
  ASSUME TypeOK, [Next]_vars
  PROVE  left' \in 0 .. Limit /\ leftX' \in 0 .. Limit /\ polls' \in Nat
<1>0. left \in 0 .. Limit /\ leftX \in 0 .. Limit /\ polls \in Nat /\ Limit \in Nat
  BY LimitAssumption DEF TypeOK
<1>1. CASE RpPs0 \/ RpPs3 \/ Dsb2Ps0 \/ Dsb2Ps3 \/ LinkUp \/ LinkLost \/ Link2
  BY <1>0, <1>1 DEF RpPs0, RpPs3, Dsb2Ps0, Dsb2Ps3, LinkUp, LinkLost, Link2, method
<1>2. ASSUME NEW d \in Devices, Ps3(d) PROVE UNCHANGED <<left, leftX, polls>>
  BY <1>2 DEF Ps3, method
<1>3. ASSUME NEW d \in Callers, PCED(d)
      PROVE  left' = Limit /\ leftX' = leftX /\ polls' = 0
  BY <1>3 DEF PCED
<1>4. CASE Pced
  BY <1>0, <1>4 DEF Pced, Settle, Train1, Avnd1, Train2, Avnd2, Train3, Poll, Finish
<1>5. CASE PCEDX \/ PcedX
  BY <1>0, <1>5 DEF PCEDX, PcedX, TrainX, AvndX, PollX
<1>6. CASE UNCHANGED vars
  BY <1>0, <1>6 DEF vars, method
<1>7. QED
  BY <1>0, <1>1, <1>2, <1>3, <1>4, <1>5, <1>6 DEF Next

LEMMA TypeStep == ASSUME TypeOK, [Next]_vars PROVE TypeOK'
<1> DEFINE Places == {"idle", "settle", "train1", "avnd1", "train2", "avnd2", "train3",
                      "xtrain", "xavnd"}
           Power == power' \in [Devices -> {"off", "up", "on"}]
           Method == /\ pc' \in [{"UPSB", "XHC2"} -> Places]
                     /\ owner' \in Callers \cup {"none"} /\ cycling' \in BOOLEAN
           Flags == iip3' \in BOOLEAN /\ prsr' \in BOOLEAN /\ prsr2' \in BOOLEAN
           Wire == /\ psta' \in [{"RP01", "DSB2"} -> BOOLEAN]
                   /\ ldxx' \in BOOLEAN /\ tspd' \in Speeds /\ cspd' \in Speeds
                   /\ link' \in Links /\ link2' \in Links
<1>0. left' \in 0 .. Limit /\ leftX' \in 0 .. Limit /\ polls' \in Nat
  BY CountersStep
<1> SUFFICES Power /\ Method /\ Flags /\ Wire
  BY <1>0 DEF TypeOK
<1> USE DEF TypeOK, method, flags, wire, Speeds, Links
<1>1. CASE RpPs0 \/ RpPs3
  <2>1. Power /\ Method
    BY <1>1 DEF RpPs0, RpPs3, TurnOn
  <2>2. Flags
    BY <1>1, Zenon DEF RpPs0, RpPs3
  <2>3. psta' \in [{"RP01", "DSB2"} -> BOOLEAN]
    BY <1>1 DEF RpPs0, RpPs3
  <2>4. ldxx' \in BOOLEAN /\ UNCHANGED <<tspd, cspd, link, link2>>
    BY <1>1, Zenon DEF RpPs0, RpPs3
  <2>5. QED
    BY <2>1, <2>2, <2>3, <2>4
<1>2. CASE Dsb2Ps0 \/ Dsb2Ps3
  <2>1. Power /\ Method
    BY <1>2 DEF Dsb2Ps0, Dsb2Ps3, TurnOn
  <2>2. psta["DSB2"] \in BOOLEAN /\ (prsr2' = psta["DSB2"] \/ prsr2' = prsr2)
    BY <1>2 DEF Dsb2Ps0, Dsb2Ps3
  <2>3. prsr2' \in BOOLEAN /\ UNCHANGED <<iip3, prsr>>
    BY <1>2, <2>2 DEF Dsb2Ps0, Dsb2Ps3
  <2>4. UNCHANGED <<ldxx, tspd, cspd, link, link2>>
    BY <1>2 DEF Dsb2Ps0, Dsb2Ps3
  <2>5. psta' \in [{"RP01", "DSB2"} -> BOOLEAN]
    BY <1>2 DEF Dsb2Ps0, Dsb2Ps3
  <2>6. QED
    BY <2>1, <2>3, <2>4, <2>5
<1>3. ASSUME NEW d \in Devices, Ps3(d) PROVE Power /\ Method /\ Flags /\ Wire
  BY <1>3 DEF Ps3
<1>4. ASSUME NEW d \in Callers, PCED(d) PROVE Power /\ Method /\ Flags /\ Wire
  BY <1>4 DEF PCED, Goto
<1>5. CASE Settle \/ Train1 \/ Train2
  <2>1. Power /\ Method
    BY <1>5 DEF Settle, Train1, Train2, Poll, Goto
  <2>2. Flags
    BY <1>5, Zenon DEF Settle, Train1, Train2
  <2>3. Wire
    BY <1>5, Zenon DEF Settle, Train1, Train2
  <2>4. QED
    BY <2>1, <2>2, <2>3
<1>6. CASE Avnd1
  <2>1. Power /\ Method
    BY <1>6 DEF Avnd1, Poll, Goto
  <2>2. Flags
    BY <1>6, Zenon DEF Avnd1
  <2>3. Wire
    BY <1>6, Zenon DEF Avnd1
  <2>4. QED
    BY <2>1, <2>2, <2>3
<1>7. CASE Avnd2
  <2>1. Power
    BY <1>7 DEF Avnd2, Poll, Finish, TurnOn
  <2>2. Method
    BY <1>7 DEF Avnd2, Poll, Finish, Goto
  <2>3. Flags
    BY <1>7, Zenon DEF Avnd2, Finish
  <2>4. Wire
    BY <1>7, Zenon DEF Avnd2
  <2>5. QED
    BY <2>1, <2>2, <2>3, <2>4
<1>8. CASE Train3
  <2>1. Power
    BY <1>8 DEF Train3, Poll, Finish, TurnOn
  <2>2. Method
    BY <1>8 DEF Train3, Poll, Finish, Goto
  <2>3. Flags
    BY <1>8, Zenon DEF Train3, Finish
  <2>4. Wire
    BY <1>8, Zenon DEF Train3
  <2>5. QED
    BY <2>1, <2>2, <2>3, <2>4
<1>9. CASE PCEDX \/ TrainX \/ AvndX
  <2>1. Power /\ Method
    BY <1>9 DEF PCEDX, TrainX, AvndX, PollX, GotoX, TurnOn
  <2>2. Flags
    BY <1>9, Zenon DEF PCEDX, TrainX, AvndX
  <2>3. Wire
    BY <1>9, Zenon DEF PCEDX, TrainX, AvndX
  <2>4. QED
    BY <2>1, <2>2, <2>3
<1>10. CASE LinkUp \/ LinkLost \/ Link2
  BY <1>10 DEF LinkUp, LinkLost, Link2
<1>11. CASE UNCHANGED vars
  BY <1>11 DEF vars
<1>12. QED
  BY <1>1, <1>2, <1>3, <1>4, <1>5, <1>6, <1>7, <1>8, <1>9, <1>10, <1>11 DEF Next, Pced, PcedX

(* Only the owner of PCED finishes, and the device is then on.             *)
LEMMA TreeStep ==
  ASSUME TypeOK, Tree, Working, [Next]_vars
  PROVE  Tree' /\ Working'
<1> USE DEF TypeOK, Tree, Working, Parent, Devices, Callers
<1>1. CASE RpPs0 \/ RpPs3
  BY <1>1 DEF RpPs0, RpPs3, TurnOn, ChildrenOff, method
<1>2. CASE Dsb2Ps0 \/ Dsb2Ps3
  BY <1>2 DEF Dsb2Ps0, Dsb2Ps3, TurnOn, ParentOn, ChildrenOff, method
<1>3. ASSUME NEW d \in Devices, Ps3(d) PROVE Tree' /\ Working'
  BY <1>3 DEF Ps3, ChildrenOff, method
<1>4. ASSUME NEW d \in Callers, PCED(d) PROVE Tree' /\ Working'
  BY <1>4 DEF PCED, ParentOn, Goto
<1>5. CASE Settle \/ Train1 \/ Avnd1 \/ Train2
  <2>1. /\ UNCHANGED <<power, owner>> /\ pc'["XHC2"] = pc["XHC2"]
        /\ pc["UPSB"] # "idle" /\ pc'["UPSB"] # "idle"
    BY <1>5 DEF Settle, Train1, Avnd1, Train2, Poll, Goto
  <2>2. QED
    BY <2>1
<1>6. CASE Avnd2 \/ Train3
  <2>1. pc["UPSB"] # "idle" /\ pc'["XHC2"] = pc["XHC2"]
    BY <1>6 DEF Avnd2, Train3, Poll, Finish, Goto
  <2>2. \/ UNCHANGED <<power, owner>> /\ pc'["UPSB"] # "idle"
        \/ TurnOn(owner) /\ owner' = "none" /\ pc'["UPSB"] = "idle"
    BY <1>6 DEF Avnd2, Train3, Poll, Finish, Goto
  <2>3. QED
    BY <2>1, <2>2 DEF TurnOn
<1>7. CASE PCEDX \/ TrainX \/ AvndX
  <2>1. owner' = owner /\ pc'["UPSB"] = pc["UPSB"]
    BY <1>7 DEF PCEDX, TrainX, AvndX, PollX, GotoX
  <2>2. \/ power' = power
        \/ power["DSB2"] = "on" /\ power["XHC2"] = "off" /\ power' = [power EXCEPT !["XHC2"] = "up"]
        \/ pc["XHC2"] = "xavnd" /\ power' = [power EXCEPT !["XHC2"] = "on"]
    BY <1>7 DEF PCEDX, TrainX, AvndX, ParentOn, TurnOn
  <2>3. power'["XHC2"] = "up" <=> pc'["XHC2"] # "idle"
    BY <1>7 DEF PCEDX, TrainX, AvndX, PollX, GotoX, TurnOn
  <2>4. QED
    BY <2>1, <2>2, <2>3
<1>8. CASE LinkUp \/ LinkLost \/ Link2 \/ UNCHANGED vars
  <2>1. UNCHANGED <<power, owner, pc>>
    BY <1>8 DEF LinkUp, LinkLost, Link2, vars, method
  <2>2. QED
    BY <2>1
<1>9. QED
  BY <1>1, <1>2, <1>3, <1>4, <1>5, <1>6, <1>7, <1>8 DEF Next, Pced, PcedX

(* IIP3 reaches UPSB's own PCED only, and a disabled link its Settle.      *)
LEMMA RequestStep ==
  ASSUME TypeOK, Tree, Working, Request, [Next]_vars
  PROVE  Request'
<1> USE DEF TypeOK, Request, Callers
<1>1. CASE RpPs0 \/ RpPs3
  <2>1. power["UPSB"] = "off" \/ iip3' = iip3
    BY <1>1 DEF RpPs0, RpPs3, ChildrenOff, Parent
  <2>2. UNCHANGED <<cycling, owner, pc>> /\ power'["UPSB"] = power["UPSB"]
    BY <1>1 DEF RpPs0, RpPs3, TurnOn, Devices, method
  <2>3. ldxx' => ldxx
    BY <1>1, Zenon DEF RpPs0, RpPs3, wire
  <2>4. QED
    BY <2>1, <2>2, <2>3
<1>2. CASE Dsb2Ps0 \/ Dsb2Ps3
  <2>1. UNCHANGED <<iip3, cycling, owner, pc, ldxx>> /\ power'["UPSB"] = power["UPSB"]
    BY <1>2 DEF Dsb2Ps0, Dsb2Ps3, TurnOn, Devices, method, flags, wire
  <2>2. QED
    BY <2>1
<1>3. ASSUME NEW d \in Devices, Ps3(d) PROVE Request'
  <2>1. /\ UNCHANGED <<iip3, cycling, owner, pc, ldxx>>
        /\ power'["UPSB"] = power["UPSB"] \/ power'["UPSB"] = "off"
    BY <1>3 DEF Ps3, Devices, method, flags, wire
  <2>2. QED
    BY <2>1
<1>4. ASSUME NEW d \in Callers, PCED(d) PROVE Request'
  <2>1. iip3 => d = "UPSB"
    BY <1>4 DEF PCED, ParentOn, Parent
  <2>2. ~ldxx
    BY <1>4 DEF PCED, Working
  <2>3. /\ UNCHANGED iip3 /\ owner' = d
        /\ power'["UPSB"] = power["UPSB"] \/ power'["UPSB"] = "up"
    BY <1>4 DEF PCED, Devices
  <2>4. cycling' = iip3 /\ (ldxx' = (ldxx \/ iip3))
    BY <1>4 DEF PCED
  <2>5. iip3 => pc'["UPSB"] = "settle"
    BY <1>4 DEF PCED, Goto
  <2>6. cycling' => d = "UPSB"
    BY <2>1, <2>4, Zenon
  <2>7. ldxx' => cycling' /\ pc'["UPSB"] = "settle"
    BY <2>2, <2>4, <2>5, Zenon
  <2>8. QED
    BY <2>3, <2>6, <2>7
<1>5. CASE Settle
  <2>1. UNCHANGED <<power, owner, cycling, iip3>>
    BY <1>5 DEF Settle, flags
  <2>2. ~ldxx'
    BY <1>5, Zenon DEF Settle
  <2>3. QED
    BY <2>1, <2>2
<1>6. CASE Train1 \/ Avnd1 \/ Train2
  <2>1. UNCHANGED <<power, owner, cycling, iip3, ldxx>> /\ ~ldxx
    BY <1>6 DEF Train1, Avnd1, Train2, flags, wire
  <2>2. QED
    BY <2>1
<1>7. CASE Avnd2 \/ Train3
  <2>1. UNCHANGED <<cycling, ldxx>> /\ ~ldxx
    BY <1>7 DEF Avnd2, Train3, wire
  <2>2. UNCHANGED <<power, owner, iip3>> \/ (owner' = "none" /\ iip3' = FALSE)
    BY <1>7 DEF Avnd2, Train3, Poll, Finish
  <2>3. QED
    BY <2>1, <2>2
<1>8. CASE PCEDX \/ TrainX \/ AvndX
  <2>1. UNCHANGED <<iip3, cycling, owner, ldxx>>
    BY <1>8 DEF PCEDX, TrainX, AvndX, flags, wire
  <2>2. pc'["UPSB"] = pc["UPSB"] /\ power'["UPSB"] = power["UPSB"]
    BY <1>8 DEF PCEDX, TrainX, AvndX, PollX, GotoX, TurnOn, Devices
  <2>3. QED
    BY <2>1, <2>2
<1>9. CASE LinkUp \/ LinkLost \/ Link2 \/ UNCHANGED vars
  <2>1. UNCHANGED <<power, iip3, cycling, owner, pc, ldxx>>
    BY <1>9 DEF LinkUp, LinkLost, Link2, vars, method, flags, wire
  <2>2. QED
    BY <2>1
<1>10. QED
  BY <1>1, <1>2, <1>3, <1>4, <1>5, <1>6, <1>7, <1>8, <1>9 DEF Next, Pced, PcedX

LEMMA SpeedStep ==
  ASSUME TypeOK, Working, SpeedRestored, [Next]_vars
  PROVE  SpeedRestored'
<1> USE DEF TypeOK, SpeedRestored
<1>1. CASE RpPs0 \/ RpPs3 \/ Dsb2Ps0 \/ Dsb2Ps3 \/ LinkUp \/ LinkLost \/ Link2
  <2>1. UNCHANGED <<pc, cycling, tspd>>
    BY <1>1 DEF RpPs0, RpPs3, Dsb2Ps0, Dsb2Ps3, LinkUp, LinkLost, Link2, method, wire
  <2>2. QED
    BY <2>1
<1>2. ASSUME NEW d \in Devices, Ps3(d) PROVE SpeedRestored'
  <2>1. UNCHANGED <<pc, cycling, tspd>>
    BY <1>2 DEF Ps3, method, wire
  <2>2. QED
    BY <2>1
<1>3. ASSUME NEW d \in Callers, PCED(d) PROVE SpeedRestored'
  <2>1. pc["UPSB"] = "idle" /\ tspd' = tspd
    BY <1>3 DEF PCED, Working
  <2>2. QED
    BY <2>1
<1>4. CASE Settle
  BY <1>4 DEF Settle, Goto
<1>5. CASE Train1
  <2>1. UNCHANGED <<cycling, tspd>> /\ pc'["UPSB"] \in {"train1", "avnd1"}
    BY <1>5 DEF Train1, Poll, Goto, wire
  <2>2. QED
    BY <1>5, <2>1
<1>6. CASE Avnd1
  BY <1>6 DEF Avnd1, Poll, Goto
<1>7. CASE Train2 \/ Avnd2 \/ Train3
  <2>1. tspd # 1 /\ tspd' # 1
    BY <1>7 DEF Train2, Avnd2, Train3, wire
  <2>2. QED
    BY <2>1
<1>8. CASE PCEDX \/ TrainX \/ AvndX
  <2>1. UNCHANGED <<cycling, tspd>> /\ pc'["UPSB"] = pc["UPSB"]
    BY <1>8 DEF PCEDX, TrainX, AvndX, PollX, GotoX, wire
  <2>2. QED
    BY <2>1
<1>9. CASE UNCHANGED vars
  BY <1>9 DEF vars, method, wire
<1>10. QED
  BY <1>1, <1>2, <1>3, <1>4, <1>5, <1>6, <1>7, <1>8, <1>9 DEF Next, Pced, PcedX

(* What a step of PCED does with its place, its deadline and the delay.    *)
LEMMA PcedMoves ==
  ASSUME TypeOK, Pced
  PROVE  \/ left' \in 0 .. left - 1 /\ polls' = polls + 1 /\ pc' = pc /\ pc["UPSB"] # "idle"
         \/ /\ polls' = polls
            /\ \/ /\ left' \in 0 .. left
                  /\ pc["UPSB"] = "settle" /\ pc'["UPSB"] = "train1"
               \/ /\ left' \in 0 .. left
                  /\ pc["UPSB"] = "train1" /\ pc'["UPSB"] = "avnd1"
               \/ /\ left' \in 0 .. left
                  /\ pc["UPSB"] = "train2" /\ pc'["UPSB"] = "avnd2"
               \/ /\ left' = Limit
                  /\ pc["UPSB"] \in {"settle", "avnd1"} /\ pc'["UPSB"] = "train2"
               \/ left' = Limit /\ pc["UPSB"] = "avnd2" /\ pc'["UPSB"] = "train3"
               \/ /\ left' = left
                  /\ pc["UPSB"] \in {"avnd2", "train3"} /\ pc'["UPSB"] = "idle"
<1>1. CASE Settle
  BY <1>1 DEF Settle, Goto, TypeOK
<1>2. CASE Train1
  BY <1>2 DEF Train1, Poll, Goto, TypeOK
<1>3. CASE Avnd1
  BY <1>3 DEF Avnd1, Poll, Goto, TypeOK
<1>4. CASE Train2
  BY <1>4 DEF Train2, Poll, Goto, TypeOK
<1>5. CASE Avnd2
  BY <1>5 DEF Avnd2, Poll, Finish, Goto, TypeOK
<1>6. CASE Train3
  BY <1>6 DEF Train3, Poll, Finish, Goto, TypeOK
<1>7. QED
  BY <1>1, <1>2, <1>3, <1>4, <1>5, <1>6 DEF Pced

(* A poll moves one unit from the deadline to the delay; only settle,      *)
(* avnd1 and avnd2 set a new deadline, and each comes after the last.      *)
LEMMA BudgetStep ==
  ASSUME TypeOK, Working, Budget, [Next]_vars
  PROVE  Budget'
<1>0. /\ left \in 0 .. Limit /\ polls \in Nat /\ Limit \in Nat
      /\ left' \in 0 .. Limit /\ polls' \in Nat
  BY CountersStep, LimitAssumption DEF TypeOK
<1> USE <1>0 DEF Budget
<1>1. CASE UNCHANGED <<left, polls>> /\ pc'["UPSB"] = pc["UPSB"]
  BY <1>1
<1>2. CASE RpPs0 \/ RpPs3 \/ Dsb2Ps0 \/ Dsb2Ps3 \/ LinkUp \/ LinkLost \/ Link2
  BY <1>1, <1>2 DEF RpPs0, RpPs3, Dsb2Ps0, Dsb2Ps3, LinkUp, LinkLost, Link2, method
<1>3. ASSUME NEW d \in Devices, Ps3(d) PROVE Budget'
  BY <1>1, <1>3 DEF Ps3, method
<1>4. ASSUME NEW d \in Callers, PCED(d) PROVE Budget'
  <2>1. left' = Limit /\ polls' = 0 /\ pc'["UPSB"] \in {"settle", "avnd2"}
    BY <1>4 DEF PCED, Goto, TypeOK
  <2>2. QED
    BY <2>1
<1>5. CASE Pced
  BY <1>5, PcedMoves
<1>6. CASE PCEDX \/ TrainX \/ AvndX
  <2>1. UNCHANGED <<left, polls>> /\ pc'["UPSB"] = pc["UPSB"]
    BY <1>6 DEF PCEDX, TrainX, AvndX, PollX, GotoX, TypeOK
  <2>2. QED
    BY <1>1, <2>1
<1>7. CASE UNCHANGED vars
  BY <1>1, <1>7 DEF vars, method
<1>8. QED
  BY <1>2, <1>3, <1>4, <1>5, <1>6, <1>7 DEF Next, PcedX

(* The strengthening is inductive, for every deadline.                     *)
THEOREM StrengthenedInvariant == Spec => []IInv
<1>1. Init => IInv
  BY InitIInv
<1>2. IInv /\ [Next]_vars => IInv'
  BY TypeStep, TreeStep, RequestStep, SpeedStep, BudgetStep DEF IInv
<1>3. QED
  BY <1>1, <1>2, PTL DEF Spec

(* PCED never takes the link of RP01 from under a device in use, and never *)
(* leaves it disabled.                                                     *)
THEOREM LinkKept == Spec => []NotUnderUse
<1>1. IInv => NotUnderUse
  <2> SUFFICES ASSUME IInv, ldxx PROVE NotUnderUse
    BY DEF NotUnderUse
  <2>1. owner = "UPSB" /\ pc["UPSB"] = "settle" /\ power["UPSB"] = "up"
    BY DEF IInv, Request, Working
  <2>2. \A d \in Devices \ {"RP01"} : power[d] # "on"
    BY <2>1 DEF IInv, Tree, TypeOK, Parent, Devices
  <2>3. QED
    BY <2>1, <2>2 DEF NotUnderUse
<1>2. QED
  BY <1>1, StrengthenedInvariant, PTL

(* A power-on polls for three deadlines at the most.                       *)
THEOREM DelayBounded == Spec => []PowerOnBounded
<1>1. IInv => PowerOnBounded
  <2> SUFFICES ASSUME IInv PROVE PowerOnBounded
    OBVIOUS
  <2>1. left \in 0 .. Limit /\ polls \in Nat /\ Limit \in Nat
    BY LimitAssumption DEF IInv, TypeOK
  <2>2. QED
    BY <2>1 DEF IInv, Budget, PowerOnBounded
<1>2. QED
  BY <1>1, StrengthenedInvariant, PTL

-----------------------------------------------------------------------------
(* Every power-on ends.                                                    *)

\* What UPSB.PCED still has before it: the polls of this deadline, those of
\* the deadlines to come, and the stages.
StepsLeft ==
  CASE pc["UPSB"] = "settle" -> left + 2 * Limit + 6
    [] pc["UPSB"] = "train1" -> left + 2 * Limit + 5
    [] pc["UPSB"] = "avnd1"  -> left + 2 * Limit + 4
    [] pc["UPSB"] = "train2" -> left + Limit + 3
    [] pc["UPSB"] = "avnd2"  -> left + Limit + 2
    [] pc["UPSB"] = "train3" -> left + 1
    [] OTHER -> 0

\* The same for XHC2.PCED.
StepsLeftX ==
  CASE pc["XHC2"] = "xtrain" -> leftX + 2
    [] pc["XHC2"] = "xavnd"  -> leftX + 1
    [] OTHER -> 0

\* A device that is being powered on has its PCED at work, and a PCED that
\* is at work belongs to such a device.
BeingWorkedOn ==
  /\ \A d \in Callers : power[d] = "up" <=> owner = d
  /\ owner # "none" <=> StepsLeft > 0
  /\ power["XHC2"] = "up" <=> StepsLeftX > 0
  /\ StepsLeft \in 0 .. 3 * Limit + 6
  /\ StepsLeftX \in 0 .. Limit + 2

(* Each step of a PCED uses up one of those it has left, and what the      *)
(* links, the OS and the other PCED do gives it none; what is being        *)
(* powered on is not put off before it is on.                              *)
StepsRunOut ==
  [][/\ Pced => StepsLeft' < StepsLeft
     /\ PcedX => StepsLeftX' < StepsLeftX
     /\ StepsLeft > 0 => StepsLeft' <= StepsLeft
     /\ StepsLeftX > 0 => StepsLeftX' <= StepsLeftX
     /\ \A d \in Devices : power[d] = "up" => power'[d] \in {"up", "on"}]_vars

\* The stages of UPSB.PCED are not XHC2's.
Stages ==
  /\ pc["UPSB"] \in {"idle", "settle", "train1", "avnd1", "train2", "avnd2", "train3"}
  /\ pc["XHC2"] \in {"idle", "xtrain", "xavnd"}

LEMMA StagesStep == ASSUME TypeOK, Stages, [Next]_vars PROVE Stages'
<1>1. CASE Pced
  <2>1. pc'["XHC2"] = pc["XHC2"]
    BY <1>1 DEF Pced, Settle, Train1, Avnd1, Train2, Avnd2, Train3, Finish, Poll, Goto, TypeOK
  <2>2. QED
    BY <1>1, <2>1, PcedMoves DEF Stages
<1>2. CASE PcedX
  BY <1>2 DEF PcedX, TrainX, AvndX, PollX, GotoX, TypeOK, Stages
<1>3. CASE (\E d \in Callers : PCED(d)) \/ PCEDX
  BY <1>3 DEF PCED, PCEDX, Goto, GotoX, TypeOK, Stages
<1>4. CASE RpPs0 \/ RpPs3 \/ Dsb2Ps0 \/ Dsb2Ps3 \/ (\E d \in Devices : Ps3(d))
             \/ LinkUp \/ LinkLost \/ Link2 \/ UNCHANGED vars
  BY <1>4 DEF RpPs0, RpPs3, Dsb2Ps0, Dsb2Ps3, Ps3, LinkUp, LinkLost, Link2, vars,
     method, Stages
<1>5. QED
  BY <1>1, <1>2, <1>3, <1>4 DEF Next

(* Only PCED's own steps touch what it has left, and each lowers it.       *)
LEMMA OwnStep ==
  ASSUME TypeOK, Stages, Pced
  PROVE  StepsLeft' < StepsLeft /\ StepsLeftX' = StepsLeftX
<1>1. left \in 0 .. Limit /\ Limit \in Nat \ {0}
  BY LimitAssumption DEF TypeOK
<1>2. StepsLeft' < StepsLeft
  BY <1>1, PcedMoves DEF StepsLeft, Stages
<1>3. leftX' = leftX /\ pc'["XHC2"] = pc["XHC2"]
  BY DEF Pced, Settle, Train1, Avnd1, Train2, Avnd2, Train3, Finish, Poll, Goto, TypeOK
<1>4. QED
  BY <1>2, <1>3 DEF StepsLeftX

LEMMA OwnStepX ==
  ASSUME TypeOK, PcedX
  PROVE  StepsLeftX' < StepsLeftX /\ StepsLeft' = StepsLeft
<1>1. leftX \in 0 .. Limit /\ Limit \in Nat \ {0}
  BY LimitAssumption DEF TypeOK
<1>2. left' = left /\ pc'["UPSB"] = pc["UPSB"]
  BY DEF PcedX, TrainX, AvndX, PollX, GotoX, TypeOK
<1>3. \/ pc["XHC2"] = "xtrain" /\ pc'["XHC2"] = "xtrain" /\ leftX' \in 0 .. leftX - 1
      \/ pc["XHC2"] = "xtrain" /\ pc'["XHC2"] = "xavnd" /\ leftX' \in 0 .. leftX
      \/ pc["XHC2"] = "xavnd" /\ pc'["XHC2"] = "xavnd" /\ leftX' \in 0 .. leftX - 1
      \/ pc["XHC2"] = "xavnd" /\ pc'["XHC2"] = "idle"
  <2>1. CASE TrainX
    BY <2>1 DEF TrainX, PollX, GotoX, TypeOK
  <2>2. CASE AvndX
    BY <2>2 DEF AvndX, PollX, GotoX, TypeOK
  <2>3. QED
    BY <2>1, <2>2 DEF PcedX
<1>4. StepsLeftX' < StepsLeftX
  BY <1>1, <1>3 DEF StepsLeftX
<1>5. QED
  BY <1>2, <1>4 DEF StepsLeft

(* Nobody else gives a PCED that runs any more to do.                      *)
LEMMA OthersKeep ==
  ASSUME TypeOK, Working, [Next]_vars, ~Pced, ~PcedX
  PROVE  /\ StepsLeft > 0 => StepsLeft' = StepsLeft
         /\ StepsLeftX > 0 => StepsLeftX' = StepsLeftX
<1>1. CASE \E d \in Callers : PCED(d)
  <2>1. StepsLeft = 0
    BY <1>1 DEF PCED, Working, StepsLeft
  <2>2. leftX' = leftX /\ pc'["XHC2"] = pc["XHC2"]
    BY <1>1 DEF PCED, Goto, TypeOK
  <2>3. QED
    BY <2>1, <2>2 DEF StepsLeftX
<1>2. CASE PCEDX
  <2>1. StepsLeftX = 0
    BY <1>2 DEF PCEDX, Working, StepsLeftX
  <2>2. left' = left /\ pc'["UPSB"] = pc["UPSB"]
    BY <1>2 DEF PCEDX, GotoX, TypeOK
  <2>3. QED
    BY <2>1, <2>2 DEF StepsLeft
<1>3. CASE UNCHANGED method
  BY <1>3 DEF method, StepsLeft, StepsLeftX
<1>4. RpPs0 \/ RpPs3 \/ Dsb2Ps0 \/ Dsb2Ps3 \/ (\E d \in Devices : Ps3(d))
        \/ LinkUp \/ LinkLost \/ Link2 \/ UNCHANGED vars => UNCHANGED method
  BY DEF RpPs0, RpPs3, Dsb2Ps0, Dsb2Ps3, Ps3, LinkUp, LinkLost, Link2, vars, method
<1>5. QED
  BY <1>1, <1>2, <1>3, <1>4 DEF Next

(* A device on its way up is not put off before it is on.                  *)
LEMMA UpOrOn ==
  ASSUME TypeOK, [Next]_vars, NEW d \in Devices, power[d] = "up"
  PROVE  power'[d] \in {"up", "on"}
<1>1. CASE RpPs0 \/ RpPs3 \/ Dsb2Ps0 \/ Dsb2Ps3
  BY <1>1 DEF RpPs0, RpPs3, Dsb2Ps0, Dsb2Ps3, TurnOn, TypeOK
<1>2. CASE (\E e \in Devices : Ps3(e)) \/ (\E e \in Callers : PCED(e)) \/ PCEDX
  BY <1>2 DEF Ps3, PCED, PCEDX, TypeOK
<1>3. CASE Pced
  BY <1>3 DEF Pced, Settle, Train1, Avnd1, Train2, Avnd2, Train3, Finish, TurnOn, TypeOK
<1>4. CASE PcedX
  BY <1>4 DEF PcedX, TrainX, AvndX, TurnOn, TypeOK
<1>5. CASE LinkUp \/ LinkLost \/ Link2 \/ UNCHANGED vars
  BY <1>5 DEF LinkUp, LinkLost, Link2, vars
<1>6. QED
  BY <1>1, <1>2, <1>3, <1>4, <1>5 DEF Next

(* Under FairSpec this is why PowersOn holds: a power-on has a PCED at     *)
(* work, which has at most 3 * Limit + 6 steps before it (Limit + 2 for    *)
(* XHC2's) and gets no more of them from the links or from the other one.  *)
THEOREM PowerOnsRunOut == Spec => []BeingWorkedOn /\ StepsRunOut
<1>1. Init => Stages
  BY DEF Init, Stages
<1>2. IInv /\ Stages /\ [Next]_vars => Stages'
  BY StagesStep DEF IInv
<1>3. IInv /\ Stages => BeingWorkedOn
  <2> SUFFICES ASSUME IInv, Stages PROVE BeingWorkedOn
    OBVIOUS
  <2>1. left \in 0 .. Limit /\ leftX \in 0 .. Limit /\ Limit \in Nat \ {0}
    BY LimitAssumption DEF IInv, TypeOK
  <2>2. StepsLeft \in 0 .. 3 * Limit + 6 /\ (StepsLeft > 0 <=> pc["UPSB"] # "idle")
    BY <2>1 DEF Stages, StepsLeft
  <2>3. StepsLeftX \in 0 .. Limit + 2 /\ (StepsLeftX > 0 <=> pc["XHC2"] # "idle")
    BY <2>1 DEF Stages, StepsLeftX
  <2>4. \A d \in Callers : power[d] = "up" <=> owner = d
    BY DEF IInv, Working, Callers, Devices, TypeOK
  <2>5. owner # "none" <=> pc["UPSB"] # "idle"
    BY DEF IInv, Working
  <2>6. power["XHC2"] = "up" <=> pc["XHC2"] # "idle"
    BY DEF IInv, Working
  <2>7. QED
    BY <2>2, <2>3, <2>4, <2>5, <2>6 DEF BeingWorkedOn
<1>4. IInv /\ Stages /\ [Next]_vars =>
      [/\ Pced => StepsLeft' < StepsLeft
       /\ PcedX => StepsLeftX' < StepsLeftX
       /\ StepsLeft > 0 => StepsLeft' <= StepsLeft
       /\ StepsLeftX > 0 => StepsLeftX' <= StepsLeftX
       /\ \A d \in Devices : power[d] = "up" => power'[d] \in {"up", "on"}]_vars
  <2> SUFFICES ASSUME IInv, Stages, [Next]_vars
               PROVE  /\ Pced => StepsLeft' < StepsLeft
                      /\ PcedX => StepsLeftX' < StepsLeftX
                      /\ StepsLeft > 0 => StepsLeft' <= StepsLeft
                      /\ StepsLeftX > 0 => StepsLeftX' <= StepsLeftX
                      /\ \A d \in Devices : power[d] = "up" => power'[d] \in {"up", "on"}
    OBVIOUS
  <2> USE DEF IInv
  <2>1. StepsLeft \in Int /\ StepsLeftX \in Int
    BY LimitAssumption DEF TypeOK, Stages, StepsLeft, StepsLeftX
  <2>2. StepsLeft' \in Int /\ StepsLeftX' \in Int
    <3>1. TypeOK' /\ Stages'
      BY TypeStep, StagesStep
    <3>2. QED
      BY <3>1, LimitAssumption DEF TypeOK, Stages, StepsLeft, StepsLeftX
  <2>3. Pced => StepsLeft' < StepsLeft /\ StepsLeftX' = StepsLeftX
    BY OwnStep
  <2>4. PcedX => StepsLeftX' < StepsLeftX /\ StepsLeft' = StepsLeft
    BY OwnStepX
  <2>5. ~Pced /\ ~PcedX => /\ StepsLeft > 0 => StepsLeft' = StepsLeft
                           /\ StepsLeftX > 0 => StepsLeftX' = StepsLeftX
    BY OthersKeep
  <2>6. \A d \in Devices : power[d] = "up" => power'[d] \in {"up", "on"}
    BY UpOrOn
  <2> HIDE DEF IInv, Pced, PcedX, StepsLeft, StepsLeftX
  <2>7. QED
    BY <2>1, <2>2, <2>3, <2>4, <2>5, <2>6
<1>5. QED
  BY <1>1, <1>2, <1>3, <1>4, StrengthenedInvariant, PTL DEF Spec, StepsRunOut
=============================================================================
