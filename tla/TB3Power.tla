------------------------------- MODULE TB3Power -------------------------------
(***************************************************************************)
(* The power methods of SSDT-TB3: _PS0 and _PS3 of the root port RP01, of  *)
(* the upstream bridge UPSB, of the Thunderbolt controller NHI0 and of the *)
(* USB bridge DSB2 and its controller XHC2.  UPSB._PS0 and NHI0._PS0 both  *)
(* run UPSB.PCED, which disables, enables and retrains the link of RP01    *)
(* that all the others sit behind; the flags IIP3 and PRSR that steer it   *)
(* are set by the methods of RP01.                                         *)
(*                                                                         *)
(* The OS calls them in the order of the device tree, each on its own      *)
(* thread; an action runs from one Sleep to the next.  POFF is false,      *)
(* since nothing ever changes RTBT and RUSB, so PCDA only sets IIP3; UGIO  *)
(* and UTLK do nothing, their parts being under If (Zero).  PCIA, CTPD,    *)
(* GPCI, GNHI, GXCI and DSB0's flags are written and never read to effect. *)
(***************************************************************************)
EXTENDS Integers

CONSTANTS
  Limit,   \* polls (of 10 ms) within the one second of a deadline
  LACR     \* TRUE: the ports report link activity

ASSUME LimitAssumption == Limit \in Nat \ {0}
ASSUME LACRAssumption == LACR \in BOOLEAN

Devices == {"RP01", "UPSB", "NHI0", "DSB2", "XHC2"}
Parent  == [UPSB |-> "RP01", NHI0 |-> "UPSB", DSB2 |-> "UPSB", XHC2 |-> "DSB2"]
Callers == {"UPSB", "NHI0"}     \* of UPSB.PCED

VARIABLES
  power,     \* each device, as the OS sees it; "up" while its _PS0 runs
  pc,        \* where PCED is: UPSB's, and that of XHC2
  owner,     \* who runs UPSB.PCED, or "none"
  cycling,   \* its Local0
  left,      \* polls until its deadline
  polls,     \* history: the polls it has slept for in all
  leftX,     \* the same for XHC2.PCED
  iip3,
  prsr,
  prsr2,     \* DSB2.PRSR
  \* the hardware
  psta,      \* RP01 and DSB2 are in D3
  ldxx,      \* the link of RP01 is disabled
  tspd,      \* its target speed
  cspd,      \* its current speed
  link,      \* RP01 to UPSB
  link2      \* DSB2 to XHC2

method == <<pc, owner, cycling, left, polls, leftX>>
flags  == <<iip3, prsr, prsr2>>
wire   == <<ldxx, tspd, cspd, link>>
vars   == <<power, method, flags, psta, wire, link2>>

Links  == {"down", "training", "up"}
Speeds == {1, 3}

TypeOK ==
  /\ power \in [Devices -> {"off", "up", "on"}]
  /\ pc \in [{"UPSB", "XHC2"} ->
              {"idle", "settle", "train1", "avnd1", "train2", "avnd2", "train3", "xtrain", "xavnd"}]
  /\ owner \in Callers \cup {"none"}
  /\ cycling \in BOOLEAN
  /\ left \in 0 .. Limit /\ leftX \in 0 .. Limit /\ polls \in Nat
  /\ iip3 \in BOOLEAN /\ prsr \in BOOLEAN /\ prsr2 \in BOOLEAN
  /\ psta \in [{"RP01", "DSB2"} -> BOOLEAN]
  /\ ldxx \in BOOLEAN /\ tspd \in Speeds /\ cspd \in Speeds
  /\ link \in Links /\ link2 \in Links

Init ==
  /\ power \in {[d \in Devices |-> p] : p \in {"off", "on"}}
  /\ pc = [d \in {"UPSB", "XHC2"} |-> "idle"]
  /\ owner = "none" /\ cycling = FALSE
  /\ left = 0 /\ polls = 0 /\ leftX = 0
  /\ iip3 = FALSE /\ prsr = FALSE /\ prsr2 = FALSE
  /\ psta = [d \in {"RP01", "DSB2"} |-> FALSE]
  /\ ldxx = FALSE /\ tspd = 3 /\ cspd \in Speeds
  /\ link \in {"down", "up"} /\ link2 = "down"

-----------------------------------------------------------------------------
(* What the methods read.                                                  *)

Trained(l)  == l = "up" \/ (~LACR /\ l = "down")   \* LTRN, LACR and LACT
AVND == link = "up"
AVND2 == link = "up" /\ link2 = "up"

\* The registers of DSB2 read as ones when UPSB is gone.
Trained2 == link = "up" /\ Trained(link2)

ParentOn(d) == d \in DOMAIN Parent => power[Parent[d]] = "on"
ChildrenOff(d) == \A c \in DOMAIN Parent : Parent[c] = d => power[c] = "off"
TurnOn(d) == power' = [power EXCEPT ![d] = "on"]

-----------------------------------------------------------------------------
(* RP01 and DSB2.                                                          *)

\* _PS0 is PCEU.
RpPs0 ==
  /\ power["RP01"] = "off"
  /\ TurnOn("RP01")
  /\ prsr' = (psta["RP01"] \/ ldxx)
  /\ psta' = [psta EXCEPT !["RP01"] = FALSE]
  /\ ldxx' = FALSE
  /\ UNCHANGED <<method, iip3, prsr2, tspd, cspd, link, link2>>

\* _PS3 is PCDA; the OS may then put the port into D3.
RpPs3 ==
  /\ power["RP01"] = "on" /\ ChildrenOff("RP01")
  /\ power' = [power EXCEPT !["RP01"] = "off"]
  /\ iip3' = TRUE
  /\ \E b \in BOOLEAN : psta' = [psta EXCEPT !["RP01"] = b]
  /\ UNCHANGED <<method, prsr, prsr2, wire, link2>>

Dsb2Ps0 ==
  /\ power["DSB2"] = "off" /\ ParentOn("DSB2")
  /\ TurnOn("DSB2")
  /\ prsr2' = psta["DSB2"]
  /\ psta' = [psta EXCEPT !["DSB2"] = FALSE]
  /\ UNCHANGED <<method, iip3, prsr, wire, link2>>

Dsb2Ps3 ==
  /\ power["DSB2"] = "on" /\ ChildrenOff("DSB2")
  /\ power' = [power EXCEPT !["DSB2"] = "off"]
  /\ \E b \in BOOLEAN : psta' = [psta EXCEPT !["DSB2"] = b]
  /\ UNCHANGED <<method, flags, wire, link2>>

\* _PS3 of UPSB, NHI0 and XHC2 leaves all of this alone; the command that
\* UPSB's gives the controller is TbtMailbox.
Ps3(d) ==
  /\ d \in {"UPSB", "NHI0", "XHC2"}
  /\ power[d] = "on" /\ ChildrenOff(d)
  /\ power' = [power EXCEPT ![d] = "off"]
  /\ UNCHANGED <<method, flags, psta, wire, link2>>

-----------------------------------------------------------------------------
(* UPSB.PCED, from UPSB._PS0 and NHI0._PS0.                                *)

Goto(place) == pc' = [pc EXCEPT !["UPSB"] = place]

\* Wrong variant: the deadline is computed again before each poll.
PollAnew ==
  /\ UNCHANGED <<left, polls, pc>>

\* One of its polls has failed: Sleep (0x0A), which may take longer.
Poll ==
  /\ left' \in 0 .. left - 1
  /\ polls' = polls + 1
  /\ UNCHANGED pc

\* Up to the first Sleep.  Without PRSR the method goes on at once.
PCED(d) ==
  /\ power[d] = "off" /\ ParentOn(d) /\ owner = "none"
  /\ power' = [power EXCEPT ![d] = "up"]
  /\ owner' = d
  /\ cycling' = iip3
  /\ prsr' = (prsr \/ iip3)
  /\ ldxx' = (ldxx \/ iip3)
  /\ link' = IF iip3 THEN "down" ELSE link
  /\ left' = Limit /\ polls' = 0
  /\ Goto(IF prsr \/ iip3 THEN "settle" ELSE "avnd2")
  /\ UNCHANGED <<leftX, iip3, prsr2, psta, tspd, cspd, link2>>

\* After Sleep (0x1E): a link this call took down comes back slowly first.
Settle ==
  /\ pc["UPSB"] = "settle"
  /\ IF cycling
       THEN /\ tspd' = 1 /\ ldxx' = FALSE
            /\ left' \in 0 .. left /\ Goto("train1")
       ELSE left' = Limit /\ Goto("train2") /\ UNCHANGED <<tspd, ldxx>>
  /\ UNCHANGED <<power, owner, cycling, polls, leftX, flags, psta, cspd, link, link2>>

Train1 ==
  /\ pc["UPSB"] = "train1"
  /\ IF left > 0 /\ ~Trained(link)
       THEN Poll
       ELSE Goto("avnd1") /\ left' \in 0 .. left /\ UNCHANGED polls
  /\ UNCHANGED <<power, owner, cycling, leftX, flags, psta, wire, link2>>

\* Wait for UPSB, then full speed and LRTN.
Avnd1 ==
  /\ pc["UPSB"] = "avnd1"
  /\ IF left > 0 /\ ~AVND
       THEN Poll /\ UNCHANGED <<tspd, link>>
       ELSE /\ tspd' = 3
            /\ link' = IF link = "up" THEN "training" ELSE link
            /\ left' = Limit /\ Goto("train2") /\ UNCHANGED polls
  /\ UNCHANGED <<power, owner, cycling, leftX, flags, psta, ldxx, cspd, link2>>

\* Wrong variant: the wait for UPSB gets a deadline of its own.
Train2Anew ==
  /\ pc["UPSB"] = "train2"
  /\ IF left > 0 /\ ~Trained(link)
       THEN Poll /\ UNCHANGED prsr
       ELSE Goto("avnd2") /\ left' = Limit /\ prsr' = FALSE /\ UNCHANGED polls
  /\ UNCHANGED <<power, owner, cycling, leftX, iip3, prsr2, psta, wire, link2>>

\* Ends with Sleep (0xFA) and PRSR = Zero.
Train2 ==
  /\ pc["UPSB"] = "train2"
  /\ IF left > 0 /\ ~Trained(link)
       THEN Poll /\ UNCHANGED prsr
       ELSE Goto("avnd2") /\ left' \in 0 .. left /\ prsr' = FALSE /\ UNCHANGED polls
  /\ UNCHANGED <<power, owner, cycling, leftX, iip3, prsr2, psta, wire, link2>>

\* Wrong variant: the request of RP01's _PS3 is not taken back.
FinishKeeping ==
  /\ TurnOn(owner) /\ owner' = "none" /\ Goto("idle")
  /\ UNCHANGED iip3

\* PCED returns; the CRMW calls that _PS0 still makes are CioMailbox.
Finish ==
  /\ TurnOn(owner) /\ owner' = "none" /\ Goto("idle")
  /\ iip3' = FALSE

\* The first disjunct is the poll, the second a link below the speed both
\* of its ends support, the third one to leave alone.
Avnd2 ==
  /\ pc["UPSB"] = "avnd2"
  /\ \/ /\ left > 0 /\ ~AVND
        /\ Poll
        /\ UNCHANGED <<power, owner, iip3, tspd, link>>
     \/ /\ left = 0 \/ AVND
        /\ AVND /\ cspd # 3
        /\ tspd' = 3 /\ link' = "training"
        /\ left' = Limit /\ Goto("train3")
        /\ UNCHANGED <<power, owner, polls, iip3>>
     \/ /\ left = 0 \/ AVND
        /\ Finish
        /\ UNCHANGED <<left, polls, tspd, link>>
  /\ UNCHANGED <<cycling, leftX, prsr, prsr2, psta, ldxx, cspd, link2>>

Train3 ==
  /\ pc["UPSB"] = "train3"
  /\ IF left > 0 /\ ~(Trained(link) /\ AVND)
       THEN Poll /\ UNCHANGED <<power, owner, iip3>>
       ELSE Finish /\ UNCHANGED <<left, polls>>
  /\ UNCHANGED <<cycling, leftX, prsr, prsr2, psta, wire, link2>>

-----------------------------------------------------------------------------
(* XHC2._PS0 and its own PCED.                                             *)

GotoX(place) == pc' = [pc EXCEPT !["XHC2"] = place]
PollX == leftX' \in 0 .. leftX - 1 /\ UNCHANGED pc

PCEDX ==
  /\ power["XHC2"] = "off" /\ ParentOn("XHC2")
  /\ power' = [power EXCEPT !["XHC2"] = "up"]
  /\ leftX' = Limit
  /\ GotoX(IF prsr2 THEN "xtrain" ELSE "xavnd")
  /\ UNCHANGED <<owner, cycling, left, polls, flags, psta, wire, link2>>

TrainX ==
  /\ pc["XHC2"] = "xtrain"
  /\ IF leftX > 0 /\ ~Trained2
       THEN PollX /\ UNCHANGED prsr2
       ELSE GotoX("xavnd") /\ leftX' \in 0 .. leftX /\ prsr2' = FALSE
  /\ UNCHANGED <<power, owner, cycling, left, polls, iip3, prsr, psta, wire, link2>>

AvndX ==
  /\ pc["XHC2"] = "xavnd"
  /\ IF leftX > 0 /\ ~AVND2
       THEN PollX /\ UNCHANGED power
       ELSE GotoX("idle") /\ TurnOn("XHC2") /\ UNCHANGED leftX
  /\ UNCHANGED <<owner, cycling, left, polls, flags, psta, wire, link2>>

-----------------------------------------------------------------------------
(* The links: a device may answer the training, at its target speed or     *)
(* below it, or not, and it may leave.                                     *)

LinkUp ==
  /\ link # "up" /\ ~ldxx
  /\ link' = "up"
  /\ cspd' \in {s \in Speeds : s <= tspd}
  /\ UNCHANGED <<power, method, flags, psta, ldxx, tspd, link2>>

LinkLost ==
  /\ link' \in {"down", "training"} /\ link' # link
  /\ link' = "training" => ~ldxx
  /\ UNCHANGED <<power, method, flags, psta, ldxx, tspd, cspd, link2>>

Link2 ==
  /\ link2' \in Links /\ link2' # link2
  /\ UNCHANGED <<power, method, flags, psta, wire>>

-----------------------------------------------------------------------------
Pced == Settle \/ Train1 \/ Avnd1 \/ Train2 \/ Avnd2 \/ Train3
PcedX == TrainX \/ AvndX

Next ==
  \/ RpPs0 \/ RpPs3 \/ Dsb2Ps0 \/ Dsb2Ps3
  \/ \E d \in Devices : Ps3(d)
  \/ (\E d \in Callers : PCED(d)) \/ Pced
  \/ PCEDX \/ PcedX
  \/ LinkUp \/ LinkLost \/ Link2

Spec == Init /\ [][Next]_vars

\* The interpreter goes on with a method that has slept.
FairSpec == Spec /\ WF_vars(Pced) /\ WF_vars(PcedX)

-----------------------------------------------------------------------------
(* Properties.                                                             *)

(* PCED takes the link down only while nothing below it is in use: IIP3,   *)
(* which RP01's _PS3 sets, is used up by UPSB's _PS0 before NHI0's, which  *)
(* runs PCED with XHC2 on already, can meet it.  No call leaves the link   *)
(* disabled.                                                               *)
NotUnderUse ==
  ldxx => /\ owner = "UPSB" /\ pc["UPSB"] = "settle"
          /\ \A d \in Devices \ {"RP01"} : power[d] # "on"

(* The slow target speed is for the first training only: whatever the      *)
(* timeouts and however the link behaves, PCED does not return with it.    *)
SpeedRestored == tspd = 1 => cycling /\ pc["UPSB"] \in {"train1", "avnd1"}

(* The three deadlines bound the delay of the whole power-on: the second   *)
(* wait of a pair shares what the first has left.                          *)
PowerOnBounded == polls <= 3 * Limit

(* A device that is being powered on gets there, whatever its link does.   *)
PowersOn == \A d \in {"UPSB", "NHI0", "XHC2"} : power[d] = "up" ~> power[d] = "on"

-----------------------------------------------------------------------------
(* The inductive invariant.                                                *)

Tree == \A d \in DOMAIN Parent : power[d] # "off" => power[Parent[d]] = "on"

Working ==
  /\ owner # "none" => power[owner] = "up"
  /\ \A d \in Devices \ {"XHC2"} : power[d] = "up" => owner = d
  /\ owner = "none" <=> pc["UPSB"] = "idle"
  /\ power["XHC2"] = "up" <=> pc["XHC2"] # "idle"

(* The request of RP01's _PS3 meets UPSB and nobody else.                  *)
Request ==
  /\ iip3 => power["UPSB"] # "on"
  /\ cycling /\ owner # "none" => owner = "UPSB"
  /\ ldxx => cycling /\ pc["UPSB"] = "settle"

Budget ==
  polls + (CASE pc["UPSB"] = "idle" -> 0 [] OTHER -> left)
    <= (CASE pc["UPSB"] \in {"settle", "train1", "avnd1"} -> Limit
          [] pc["UPSB"] \in {"train2", "avnd2"} -> 2 * Limit
          [] OTHER -> 3 * Limit)

IInv == TypeOK /\ Tree /\ Working /\ Request /\ SpeedRestored /\ Budget
=============================================================================
