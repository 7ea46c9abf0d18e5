----------------------------- MODULE MCFirmware -----------------------------
(* Three parts of the firmware that share nothing here, side by side: a     *)
(* behaviour is one of the combined battery, of the WMI events or of the    *)
(* controller's banked registers, and the other two stay as they are.       *)
EXTENDS BatteryCombiner, FiniteSets

CONSTANTS
  Workers, MaxEvents,
  Threads, Sensors, Jobs, TextLen, Free

ASSUME WorkersAssumption ==
  IsFiniteSet(Workers) /\ {"free", "nevt"} \cap Workers = {} /\ MaxEvents \in Nat
ASSUME BanksAssumption ==
  /\ Jobs \subseteq {"_BST", "_BIF", "_Q66", "PAT0", "PAT1", "_TMP"}
  /\ Sensors \subseteq Nat /\ Free \notin Threads /\ TextLen \in Nat \ {0}

VARIABLES
  part,
  wpc, nevt, found, wmix, ecmx, wmev, wmbu, ecd0, notes, docked, raised,
  events, took, told, ignored,
  job, arg, at, owner, bank, byte, seen, text, placed

wmiVars  == <<wpc, nevt, found, wmix, ecmx, wmev, wmbu, ecd0, notes, docked,
              raised, events, took, told, ignored>>
bankVars == <<job, arg, at, owner, bank, byte, seen, text, placed>>

Wmi   == INSTANCE WmiEvents WITH pc <- wpc
Banks == INSTANCE EcBanks WITH Batteries <- {1, 2}

(* Batteries with values of four bits: in use, empty, gone with and        *)
(* without a last report, just inserted, and with values not known.        *)
Report(present_, design, full, remaining, rate, charge, other) ==
  [present |-> present_, design |-> design, full |-> full, voltage |-> 3,
   remaining |-> remaining, rate |-> rate, state |-> charge, other |-> other]

U == 15
MCReports ==
  { Report(TRUE, 6, 5, 4, 2, 2, 1),
    Report(TRUE, 5, 4, 3, 1, 1, U),
    Report(TRUE, 5, 5, 0, 0, 0, 1),
    Report(TRUE, 5, 5, U, 1, 1, 1),
    Report(TRUE, U, U, 2, U, 2, 3),
    Report(TRUE, 0, 0, 0, 0, 0, 0),
    Report(FALSE, U, U, U, U, 0, U),
    Report(FALSE, 5, 4, 4, 1, 1, 2) }

\* What a part starts with matters to itself only.
MCInit ==
  /\ part \in {"battery", "wmi", "banks"}
  /\ Init /\ Wmi!Init /\ Banks!Init
  /\ part # "battery" =>
       /\ method = "_BST"
       /\ \A b \in Batteries : battery[b] = Report(TRUE, 6, 5, 4, 2, 2, 1)
  /\ part # "wmi" => docked

BatteryNext == part = "battery" /\ Next /\ UNCHANGED <<part, wmiVars, bankVars>>
WmiNext     == part = "wmi" /\ Wmi!Next /\ UNCHANGED <<part, vars, bankVars>>
BanksNext   == part = "banks" /\ Banks!Next /\ UNCHANGED <<part, vars, wmiVars>>

\* The fairness of WmiEvents.
MCSpec ==
  /\ MCInit
  /\ [][BatteryNext \/ WmiNext \/ BanksNext]_<<part, vars, wmiVars, bankVars>>
  /\ WF_wmiVars(part = "wmi" /\ Wmi!Nevt) /\ SF_wmiVars(part = "wmi" /\ Wmi!Query)
  /\ \A w \in Workers : /\ WF_wmiVars(part = "wmi" /\ Wmi!Step(w))
                        /\ SF_wmiVars(part = "wmi" /\ Wmi!Acquire(w))
                        /\ SF_wmiVars(part = "wmi" /\ Wmi!Notified(w))

-----------------------------------------------------------------------------
(* The properties, as their modules define and explain them.               *)

\* WmiEvents: _WED's answer is its own, no event is stranded, the OS is told
\* the state that holds, and every call returns.
OwnAnswer       == Wmi!OwnAnswer
NothingStranded == Wmi!NothingStranded
ToldCurrent     == Wmi!ToldCurrent
CallsReturn     == Wmi!CallsReturn

\* EcBanks: what is read and written is for the battery or sensor selected.
OwnReads     == Banks!OwnReads
OwnThreshold == Banks!OwnThreshold
=============================================================================
