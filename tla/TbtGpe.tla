------------------------------- MODULE TbtGpe -------------------------------
(***************************************************************************)
(* Thunderbolt hot plug in the firmware's DSDT (BIOS 1.13, TB-On): the GPE *)
(* handler _E42, which two events start (GPE 0x42, and 0x6F through THDR), *)
(* against the sleep and wake methods RPTS and RWAK and against PCI0._INI. *)
(*                                                                         *)
(* Two things keep them apart.  The mutex OSUM covers TINI, which parks    *)
(* the root port on a temporary bus number while it talks to the           *)
(* controller, and the part of _E42 that looks for the controller.  The    *)
(* event WFEV is reset by RPTS and signalled once PCI0._INI or RWAK is     *)
(* through with TINI; _E42 waits for it first.                             *)
(*                                                                         *)
(* An action is the code from one Sleep, Acquire or Wait to the next: the  *)
(* interpreter runs one method at a time and changes over only there.      *)
(***************************************************************************)
EXTENDS Integers

CONSTANTS
  Handlers,    \* the GPEs whose methods run _E42
  TNAT, GP5F, Recurse,  \* setup options; Recurse is DPTF and DDDR, and not
                        \* the OS that _E42 excepts
  PollMax,     \* the 0x64 polls of OSUP and DMSI
  RsmiMax,     \* the 0x1A rounds of RSMI
  MaxSleeps,   \* bound: times the machine goes to sleep
  MaxPlugs     \* bound: times the controller leaves or joins the bus

ASSUME OptionsAssumption ==
  TNAT \in BOOLEAN /\ GP5F \in BOOLEAN /\ Recurse \in BOOLEAN
ASSUME HandlersAssumption == Handlers \cap {"pm", "free"} = {}
ASSUME LimitsAssumption ==
  /\ PollMax \in Nat \ {0} /\ RsmiMax \in Nat \ {0}
  /\ MaxSleeps \in Nat /\ MaxPlugs \in Nat

VARIABLES
  pm,       \* where the sleep and wake thread is
  pc,       \* where each handler is
  left,     \* the loop counter of each handler, and of TINI at "pm"
  fresh,    \* history: the handler has waited for WFEV since the last RPTS
  adr,      \* the bus number in the address OSUP or DMSI computed
  lfp,      \* Local0 of RSMI: the power GPIO as it found it
  osum,     \* owner of OSUM, or "free"
  wfev,     \* units in WFEV
  sbus,     \* secondary bus of the root port: "none" is 0
  kept,     \* Local1 of TINI
  fp,       \* the force-power GPIO
  mixed,    \* history: two calls of RSMI have overlapped
  present,  \* the controller answers, where the bus number leads to it
  sts,      \* the plug event is latched in the GPE status register
  sleeps, plugs

thread  == <<pm, kept>>
handler == <<pc, fresh, adr, lfp>>
gpio    == <<fp, mixed>>
world   == <<present, sts, sleeps, plugs>>
vars    == <<thread, handler, left, osum, wfev, sbus, gpio, world>>

Buses == {"none", "os", "temp"}

\* handlers that run _E42 beyond WWAK; those that own OSUM
Inside == {"wsub", "rsmi", "power", "dmsi", "gnis", "acquire", "osup",
           "again", "release"}
Locked == {"osup", "again", "release"}

TypeOK ==
  /\ pm \in {"boot", "tini", "signal", "on", "pts", "waking"}
  /\ pc \in [Handlers -> {"idle", "wwak"} \cup Inside]
  /\ left \in [Handlers \cup {"pm"} -> 0 .. PollMax + RsmiMax]
  /\ fresh \in [Handlers -> BOOLEAN]
  /\ adr \in [Handlers -> Buses]
  /\ lfp \in [Handlers -> BOOLEAN]
  /\ osum \in Handlers \cup {"free", "pm"}
  /\ wfev \in Nat
  /\ sbus \in Buses /\ kept \in Buses
  /\ fp \in BOOLEAN /\ mixed \in BOOLEAN /\ present \in BOOLEAN /\ sts \in BOOLEAN
  /\ sleeps \in 0 .. MaxSleeps /\ plugs \in 0 .. MaxPlugs

(* The OS evaluates PCI0._INI with the bus numbers of the firmware.        *)
Init ==
  /\ pm = "boot"
  /\ pc = [h \in Handlers |-> "idle"]
  /\ left = [x \in Handlers \cup {"pm"} |-> 0]
  /\ fresh = [h \in Handlers |-> FALSE]
  /\ adr = [h \in Handlers |-> "none"]
  /\ lfp = [h \in Handlers |-> FALSE]
  /\ osum = "free" /\ wfev = 0
  /\ sbus = "os" /\ kept = "none"
  /\ fp = FALSE /\ mixed = FALSE
  /\ present \in BOOLEAN /\ sts = FALSE
  /\ sleeps = 0 /\ plugs = 0

\* a read through bus number b does not come back as all ones; number 0 leads
\* to the host bridge, which is always there
Answers(b) == b = "none" \/ (present /\ sbus = b)

-----------------------------------------------------------------------------
(* RPTS, TINI, RWAK and PCI0._INI.                                         *)

(* Wrong variant: TINI without the mutex.                                  *)
TiniUnlocked ==
  /\ pm \in {"boot", "waking"}
  /\ pm' = "tini"
  /\ kept' = sbus /\ sbus' = "temp"
  /\ left' = [left EXCEPT !["pm"] = PollMax]
  /\ UNCHANGED <<handler, osum, wfev, gpio, world>>

(* Acquire (OSUM), and TINI up to the first poll of its OSUP.              *)
Tini ==
  /\ pm \in {"boot", "waking"} /\ osum = "free"
  /\ osum' = "pm"
  /\ pm' = "tini"
  /\ kept' = sbus /\ sbus' = "temp"
  /\ left' = [left EXCEPT !["pm"] = PollMax]
  /\ UNCHANGED <<handler, wfev, gpio, world>>

(* OSUP in TINI: gone, acknowledged or out of polls, REG6 = Local1 and     *)
(* Release (OSUM); else Sleep and poll again.                              *)
TiniOsup ==
  /\ pm = "tini"
  /\ \/ /\ pm' = "signal"
        /\ sbus' = kept
        /\ osum' = "free"
        /\ UNCHANGED left
     \/ /\ Answers("temp") /\ left["pm"] > 0
        /\ left' = [left EXCEPT !["pm"] = @ - 1]
        /\ UNCHANGED <<pm, sbus, osum>>
  /\ UNCHANGED <<kept, handler, wfev, gpio, world>>

(* The rest of RWAK, and of PCI0._INI: Signal (WFEV).                      *)
SignalWfev ==
  /\ pm = "signal"
  /\ wfev' = wfev + 1
  /\ pm' = "on"
  /\ UNCHANGED <<kept, handler, left, osum, sbus, gpio, world>>

(* Wrong variant: RPTS does not reset WFEV.                                *)
RptsNoReset ==
  /\ pm = "on" /\ sbus # "none" /\ sleeps < MaxSleeps
  /\ pm' = "pts"
  /\ fresh' = [h \in Handlers |-> FALSE]
  /\ sleeps' = sleeps + 1
  /\ UNCHANGED <<kept, pc, adr, lfp, left, osum, wfev, sbus, gpio, present, sts, plugs>>

(* RPTS: Reset (WFEV).  The OS has configured its bridges before it goes   *)
(* to sleep.  SXTB is called only when the controller is gone, which loses *)
(* its write.                                                              *)
Rpts ==
  /\ pm = "on" /\ sbus # "none" /\ sleeps < MaxSleeps
  /\ pm' = "pts"
  /\ wfev' = 0
  /\ fresh' = [h \in Handlers |-> FALSE]
  /\ sleeps' = sleeps + 1
  /\ UNCHANGED <<kept, pc, adr, lfp, left, osum, sbus, gpio, present, sts, plugs>>

-----------------------------------------------------------------------------
(* _E42.                                                                   *)

Goto(h, l) == pc' = [pc EXCEPT ![h] = l]

(* Wrong variant: the unit is not given back.                              *)
WaitOnly(h) ==
  /\ pc[h] = "wwak" /\ wfev > 0
  /\ wfev' = wfev - 1
  /\ fresh' = [fresh EXCEPT ![h] = TRUE]
  /\ Goto(h, "wsub")
  /\ UNCHANGED <<thread, adr, lfp, left, osum, sbus, gpio, world>>

(* Wait (WFEV), and Signal (WFEV) to give the unit back.                   *)
WWAK(h) ==
  /\ pc[h] = "wwak" /\ wfev > 0
  /\ fresh' = [fresh EXCEPT ![h] = TRUE]
  /\ Goto(h, "wsub")
  /\ UNCHANGED <<thread, adr, lfp, left, osum, wfev, sbus, gpio, world>>

(* WSUB ends once the root port has a secondary bus.                       *)
WSUB(h) ==
  /\ pc[h] = "wsub" /\ sbus # "none"
  /\ Goto(h, IF TNAT THEN "rsmi" ELSE "gnis")
  /\ UNCHANGED <<thread, fresh, adr, lfp, left, osum, wfev, sbus, gpio, world>>

(* RSMI: nothing to do (One, 0x02) unless the controller is gone and the   *)
(* event is latched; then it toggles the force-power GPIO.  Otherwise on   *)
(* to DMSI, which goes ahead if the controller asks for the SMI (0x25).    *)
RSMI(h) ==
  /\ pc[h] = "rsmi"
  /\ \/ /\ ~Answers(sbus) /\ sts
        /\ lfp' = [lfp EXCEPT ![h] = fp]
        /\ fp' = ~fp
        /\ mixed' = (mixed \/ \E g \in Handlers : pc[g] = "power")
        /\ left' = [left EXCEPT ![h] = RsmiMax]
        /\ Goto(h, "power")
        /\ UNCHANGED adr
     \/ /\ Answers(sbus)
        /\ adr' = [adr EXCEPT ![h] = sbus]
        /\ left' = [left EXCEPT ![h] = PollMax]
        /\ Goto(h, "dmsi")
        /\ UNCHANGED <<lfp, gpio>>
     \/ /\ Answers(sbus) \/ ~sts
        /\ Goto(h, "gnis")
        /\ UNCHANGED <<adr, lfp, left, gpio>>
  /\ UNCHANGED <<thread, fresh, osum, wfev, sbus, world>>

(* Wrong variant: giving up leaves the GPIO toggled.                       *)
PowerNotRestored(h) ==
  /\ pc[h] = "power"
  /\ IF (~Answers(sbus) \/ sts) /\ left[h] > 0
     THEN /\ sts' = FALSE
          /\ left' = [left EXCEPT ![h] = @ - 1]
          /\ UNCHANGED <<pc, fp>>
     ELSE /\ fp' = IF left[h] > 0 THEN lfp[h] ELSE fp
          /\ Goto(h, "idle")
          /\ UNCHANGED <<left, sts>>
  /\ UNCHANGED <<thread, fresh, adr, lfp, mixed, osum, wfev, sbus, present, sleeps, plugs>>

(* The loop of RSMI: wait for the controller to come back, clearing the    *)
(* status (CLNE); either way the GPIO is set as it was, and _E42 returns.  *)
Power(h) ==
  /\ pc[h] = "power"
  /\ IF (~Answers(sbus) \/ sts) /\ left[h] > 0
     THEN /\ sts' = FALSE
          /\ left' = [left EXCEPT ![h] = @ - 1]
          /\ UNCHANGED <<pc, fp>>
     ELSE /\ fp' = lfp[h]
          /\ Goto(h, "idle")
          /\ UNCHANGED <<left, sts>>
  /\ UNCHANGED <<thread, fresh, adr, lfp, mixed, osum, wfev, sbus, present, sleeps, plugs>>

(* DMSI: controller gone is Zero, and _E42 goes on; done, or out of polls, *)
(* is One, and it returns.                                                 *)
DMSI(h) ==
  /\ pc[h] = "dmsi"
  /\ \/ ~Answers(adr[h]) /\ Goto(h, "gnis") /\ UNCHANGED left
     \/ Answers(adr[h]) /\ Goto(h, "idle") /\ UNCHANGED left
     \/ /\ Answers(adr[h]) /\ left[h] > 0
        /\ left' = [left EXCEPT ![h] = @ - 1]
        /\ UNCHANGED pc
  /\ UNCHANGED <<thread, fresh, adr, lfp, osum, wfev, sbus, gpio, world>>

(* GNIS: with the GPIO filter, an event that is not a hot plug is dropped. *)
GNIS(h) ==
  /\ pc[h] = "gnis"
  /\ \/ Goto(h, "acquire")
     \/ GP5F /\ Answers(sbus) /\ Goto(h, "idle")
  /\ UNCHANGED <<thread, fresh, adr, lfp, left, osum, wfev, sbus, gpio, world>>

(* Acquire (OSUM), and TBFF: controller there, notify; else OSUP.          *)
Enter(h) ==
  /\ pc[h] = "acquire" /\ osum = "free"
  /\ osum' = h
  /\ adr' = [adr EXCEPT ![h] = sbus]
  /\ left' = [left EXCEPT ![h] = PollMax]
  /\ Goto(h, IF Answers(sbus) THEN "release" ELSE "osup")
  /\ UNCHANGED <<thread, fresh, lfp, wfev, sbus, gpio, world>>

(* OSUP in TBFF: gone is 0x02, acknowledged or out of polls is One.        *)
Osup(h) ==
  /\ pc[h] = "osup"
  /\ \/ ~Answers(adr[h]) /\ Goto(h, "release") /\ UNCHANGED left
     \/ Answers(adr[h]) /\ Goto(h, "again") /\ UNCHANGED left
     \/ /\ Answers(adr[h]) /\ left[h] > 0
        /\ left' = [left EXCEPT ![h] = @ - 1]
        /\ UNCHANGED pc
  /\ UNCHANGED <<thread, fresh, adr, lfp, osum, wfev, sbus, gpio, world>>

(* Wrong variant: the nested _E42 starts before Release (OSUM).            *)
AgainLocked(h) ==
  /\ pc[h] = "again"
  /\ Goto(h, IF Recurse THEN "wwak" ELSE "idle")
  /\ osum' = IF Recurse THEN osum ELSE "free"
  /\ UNCHANGED <<thread, fresh, adr, lfp, left, wfev, sbus, gpio, world>>

(* TBFF gave One: Sleep, Release (OSUM), and perhaps _E42 once more.       *)
Again(h) ==
  /\ pc[h] = "again"
  /\ Goto(h, IF Recurse THEN "wwak" ELSE "idle")
  /\ osum' = "free"
  /\ UNCHANGED <<thread, fresh, adr, lfp, left, wfev, sbus, gpio, world>>

(* NTFY, Sleep, Release (OSUM).                                            *)
Leave(h) ==
  /\ pc[h] = "release"
  /\ Goto(h, "idle")
  /\ osum' = "free"
  /\ UNCHANGED <<thread, fresh, adr, lfp, left, wfev, sbus, gpio, world>>

Step(h) == WWAK(h) \/ WSUB(h) \/ RSMI(h) \/ Power(h) \/ DMSI(h) \/ GNIS(h)
           \/ Osup(h) \/ Again(h) \/ Leave(h)

-----------------------------------------------------------------------------
(* The machine and the OS (external).                                      *)

(* A GPE, which stays disabled until its method has returned.  The call    *)
(* starts with locals of its own.                                          *)
Gpe(h) ==
  /\ pc[h] = "idle"
  /\ Goto(h, "wwak")
  /\ fresh' = [fresh EXCEPT ![h] = FALSE]
  /\ adr' = [adr EXCEPT ![h] = "none"]
  /\ lfp' = [lfp EXCEPT ![h] = FALSE]
  /\ left' = [left EXCEPT ![h] = 0]
  /\ UNCHANGED <<thread, osum, wfev, sbus, gpio, world>>

(* Sleep and power-up.  The firmware may or may not number the bus again.  *)
Sleep ==
  /\ pm = "pts"
  /\ pm' = "waking"
  /\ sbus' \in {"none", "os"}
  /\ UNCHANGED <<kept, handler, left, osum, wfev, gpio, world>>

(* The OS configures the root port, after _WAK.                            *)
OsRestoresBus ==
  /\ pm = "on" /\ sbus = "none"
  /\ sbus' = "os"
  /\ UNCHANGED <<thread, handler, left, osum, wfev, gpio, world>>

(* The controller leaves or joins the bus, with or without an event.       *)
Plug ==
  /\ plugs < MaxPlugs
  /\ plugs' = plugs + 1
  /\ present' = ~present
  /\ sts' \in {sts, TRUE}
  /\ UNCHANGED <<thread, handler, left, osum, wfev, sbus, gpio, sleeps>>

Next ==
  \/ Tini \/ TiniOsup \/ SignalWfev \/ Rpts
  \/ \E h \in Handlers : Step(h) \/ Enter(h) \/ Gpe(h)
  \/ Sleep \/ OsRestoresBus \/ Plug

Spec == Init /\ [][Next]_vars

(* Methods run on, semaphores are served in order, the machine wakes up    *)
(* and the OS configures its bridges; no event is owed.                    *)
FairSpec ==
  /\ Spec
  /\ SF_vars(Tini) /\ WF_vars(TiniOsup) /\ WF_vars(SignalWfev)
  /\ WF_vars(Sleep) /\ WF_vars(OsRestoresBus)
  /\ \A h \in Handlers : WF_vars(Step(h)) /\ SF_vars(Enter(h))

-----------------------------------------------------------------------------
(* Properties.                                                             *)

(* While TINI has the root port on its temporary bus, no handler that has  *)
(* waited for WFEV since the last RPTS is anywhere beyond WWAK: none of    *)
(* WSUB, RSMI, DMSI, GNIS and TBFF computes an address from that bus.      *)
TempBusUnseen ==
  sbus = "temp" => \A h \in Handlers : pc[h] \in Inside => ~fresh[h]

(* And no handler at all, not even one that was under way when the machine *)
(* went to sleep, looks for the controller (TBFF, OSUP) on that bus.       *)
TempBusPrivate ==
  \A h \in Handlers : pc[h] \in Locked =>
    sbus # "temp" /\ \A g \in Handlers \ {h} : pc[g] \notin Locked

(* The inductive strengthening of these two, in parts.                     *)

\* who owns OSUM
Owners ==
  /\ osum = "pm" <=> pm = "tini"
  /\ \A h \in Handlers : osum = h <=> pc[h] \in Locked

\* TINI alone uses the temporary bus, and does not take it for the real one
TempBus ==
  /\ sbus = "temp" <=> pm = "tini"
  /\ kept # "temp"

\* between RPTS and the end of RWAK nobody gets past WWAK
Gate ==
  pm # "on" => wfev = 0 /\ \A h \in Handlers : pc[h] \in Inside => ~fresh[h]

IInv == TypeOK /\ Owners /\ TempBus /\ Gate

(* RSMI leaves the power GPIO as it found it, by whichever way it leaves,  *)
(* as long as the two handlers have not been in it at the same time: then  *)
(* one records what the other has toggled.                                 *)
PowerRestored ==
  ~mixed /\ (\A h \in Handlers : pc[h] # "power") => fp = FALSE

(* Waking up ends: no handler keeps OSUM from RWAK while it waits for the  *)
(* WFEV that only RWAK signals.                                            *)
WakeCompletes == pm # "on" ~> pm = "on"

(* Every handler returns.                                                  *)
HandlersReturn == \A h \in Handlers : pc[h] # "idle" ~> pc[h] = "idle"
=============================================================================
