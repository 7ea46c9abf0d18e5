----------------------------- MODULE CioMailbox -----------------------------
(***************************************************************************)
(* The configuration mailbox of the Thunderbolt upstream bridge UPSB, as   *)
(* patches/thunderbolt/SSDT-TB3.dsl drives it: CIOR and CIOW program one   *)
(* access to a port register and poll PROG until the controller has run    *)
(* it; CRMW builds a verified read-modify-write from them and retries.     *)
(*                                                                         *)
(* CRMW, CIOR and CIOW are Serialized, so one call runs at a time and its  *)
(* locals are plain variables.  Everything the driver sees of the device   *)
(* is a PCI configuration read, and a device that is gone reads as all     *)
(* ones.  A register value is the set of its bits that are 1: `&' is       *)
(* \cap, `|' is \cup, `& ~m' is \ m and 0xFFFFFFFF is Bits.                *)
(***************************************************************************)
EXTENDS Integers

CONSTANTS
  Ports,       \* port registers a call can name (Arg0, Arg1, Arg2)
  Bits,        \* bit positions of a port register
  Calls,       \* the argument lists callers use: records [reg, data, mask]
  PowerOn,     \* value of every port register after a power-on
  LastTry,     \* the 4 of `While (Local3 <= 0x04)'
  PollMax,     \* the 0x2710 polls CIOR and CIOW make of PROG
  Late,        \* TRUE: the controller may finish a command after the driver
               \* has given up on it
  None         \* the controller has no command

ASSUME CallsAssumption ==
  /\ Calls \subseteq [reg : Ports, data : SUBSET Bits, mask : SUBSET Bits]
  /\ \A c \in Calls : c.data \subseteq c.mask
ASSUME PowerOnAssumption == PowerOn \subseteq Bits
ASSUME LimitsAssumption  == LastTry \in Nat /\ PollMax \in Nat \ {0}
ASSUME LateAssumption    == Late \in BOOLEAN

VARIABLES
  \* the running CRMW call
  call,     \* its arguments (of the last call, when none runs)
  pc,       \* where it is; "idle" when the mutex of CRMW is free
  phase,    \* which of the three mailbox accesses of an attempt it is in
  tries,    \* Local3 of CRMW
  polls,    \* Local0 of CIOR and CIOW
  val,      \* Local2 of CRMW: the value to write
  result,   \* what CRMW last returned, "none" while it runs
  \* the mailbox registers and the controller behind them
  present,  \* the controller answers configuration cycles
  mb,       \* DWIX, PORT, SPCE, CMD0 and WDAT as last programmed
  prog,     \* PROG
  tmot,     \* TMOT
  rdat,     \* RDAT
  busy,     \* the command the controller is working on, or None
  port,     \* the port registers themselves
  \* history
  removed   \* the controller went away since the running (last) call began

driver     == <<call, pc, phase, tries, polls, val, result>>
controller == <<present, mb, prog, tmot, rdat, busy, port>>
vars       == <<driver, controller, removed>>

Values   == SUBSET Bits
Bit      == {0, 1}
Commands == [cmd0 : Bit, reg : Ports, data : Values]   \* CMD0 is 1 for a write
Results  == {"none", "ok", "failed"}

ASSUME NoneAssumption == None \notin Commands

TypeOK ==
  /\ call \in Calls
  /\ pc \in {"idle", "issue", "poll", "tmot", "rdat", "sleep"}
  /\ phase \in {"read", "write", "verify"}
  /\ tries \in 0 .. LastTry + 1
  /\ pc \notin {"idle", "sleep"} => tries <= LastTry
  /\ polls \in 0 .. PollMax
  /\ val \in Values
  /\ result \in Results
  /\ present \in BOOLEAN
  /\ mb \in Commands
  /\ prog \in Bit
  /\ tmot \in Bit
  /\ rdat \in Values
  /\ busy \in Commands \cup {None}
  /\ port \in [Ports -> Values]
  /\ removed \in BOOLEAN

Init ==
  /\ pc = "idle" /\ phase = "read" /\ tries = 0 /\ polls = 0
  /\ call \in Calls
  /\ val = {}
  /\ result = "none"
  /\ present \in BOOLEAN
  /\ mb \in [cmd0 : {0}, reg : Ports, data : {{}}]
  /\ prog = 0 /\ tmot = 0 /\ rdat = {} /\ busy = None
  /\ port = [r \in Ports |-> PowerOn]
  /\ removed = FALSE

-----------------------------------------------------------------------------
(* What a configuration read of each mailbox field returns.                *)

AVND == present                              \* AVND # 0xFFFFFFFF
PROG == IF present THEN prog ELSE 1
TMOT == IF present THEN tmot ELSE 1
RDAT == IF present THEN rdat ELSE Bits

-----------------------------------------------------------------------------
(* CRMW, CIOR and CIOW.                                                    *)

Return(r) ==
  /\ result' = r
  /\ pc' = "idle"

(* Entry of CRMW: with the controller gone it returns One at once.         *)
CRMW(c) ==
  /\ pc = "idle"
  /\ call' = c
  /\ tries' = 0
  /\ removed' = FALSE
  /\ IF AVND
     THEN pc' = "issue" /\ phase' = "read" /\ result' = "none"
     ELSE result' = "failed" /\ UNCHANGED <<pc, phase>>
  /\ UNCHANGED <<polls, val, controller>>

(* CIOR (reads) and CIOW (the write): program the registers, set PROG.     *)
(* A read also clears RDAT.  Writes to an absent device are dropped.       *)
Issue ==
  /\ pc = "issue"
  /\ pc' = "poll"
  /\ polls' = PollMax
  /\ IF present
     THEN /\ mb' = [cmd0  |-> IF phase = "write" THEN 1 ELSE 0,
                    reg   |-> call.reg,
                    data  |-> IF phase = "write" THEN val ELSE mb.data]
          /\ rdat' = IF phase = "write" THEN rdat ELSE {}
          /\ tmot' = 0
          /\ prog' = 1
     ELSE UNCHANGED <<mb, rdat, tmot, prog>>
  /\ UNCHANGED <<call, phase, tries, val, result,
                 present, busy, port, removed>>

(* An access failed: CRMW counts the attempt and sleeps.                   *)
Retry ==
  /\ tries' = tries + 1
  /\ pc' = "sleep"
  /\ UNCHANGED <<call, phase, polls, val, result>>

(* PROG is still set: Stall and poll again.                                *)
PollAgain ==
  /\ pc = "poll" /\ polls > 0 /\ PROG = 1
  /\ polls' = polls - 1
  /\ UNCHANGED <<call, pc, phase, tries, val, result, controller, removed>>

PollDone ==
  /\ pc = "poll" /\ polls > 0 /\ PROG = 0
  /\ pc' = "tmot"
  /\ UNCHANGED <<call, phase, tries, polls, val, result, controller, removed>>

(* Wrong variant: Local1 starts as Zero, so running out of polls counts as *)
(* an answered access.                                                     *)
TimeoutCountsAsDone ==
  /\ pc = "poll" /\ polls = 0
  /\ pc' = "tmot"
  /\ UNCHANGED <<call, phase, tries, polls, val, result, controller, removed>>

(* The polls are used up; there is no last look at PROG after the final    *)
(* Stall.  A controller that is never late has dropped the command by now. *)
PollTimeout ==
  /\ pc = "poll" /\ polls = 0
  /\ Retry
  /\ IF Late THEN UNCHANGED <<prog, busy>> ELSE prog' = 0 /\ busy' = None
  /\ UNCHANGED <<present, mb, tmot, rdat, port, removed>>

(* Wrong variant: a write without an error is taken as the result, nothing *)
(* is read back.                                                           *)
NoReadBack ==
  /\ pc = "tmot"
  /\ \/ TMOT = 1 /\ Retry
     \/ /\ TMOT = 0 /\ phase = "write"
        /\ Return("ok")
        /\ UNCHANGED <<call, phase, tries, polls, val>>
     \/ /\ TMOT = 0 /\ phase # "write"
        /\ pc' = "rdat"
        /\ UNCHANGED <<call, phase, tries, polls, val, result>>
  /\ UNCHANGED <<controller, removed>>

(* Local1 = TMOT: the write is done, a read still has to fetch RDAT.       *)
ReadTMOT ==
  /\ pc = "tmot"
  /\ \/ TMOT = 1 /\ Retry
     \/ /\ TMOT = 0 /\ phase = "write"
        /\ phase' = "verify" /\ pc' = "issue"
        /\ UNCHANGED <<call, tries, polls, val, result>>
     \/ /\ TMOT = 0 /\ phase # "write"
        /\ pc' = "rdat"
        /\ UNCHANGED <<call, phase, tries, polls, val, result>>
  /\ UNCHANGED <<controller, removed>>

(* Wrong variant: the old bits are not carried over (no & ~Arg4).          *)
ModifyFromScratch ==
  /\ pc = "rdat" /\ phase = "read"
  /\ val' = call.data
  /\ phase' = "write" /\ pc' = "issue"
  /\ UNCHANGED <<call, tries, polls, result, controller, removed>>

(* RDAT of the first read: Local2 &= ~Arg4, Local2 |= Arg3.                *)
Modify ==
  /\ pc = "rdat" /\ phase = "read"
  /\ val' = (RDAT \ call.mask) \cup call.data
  /\ phase' = "write" /\ pc' = "issue"
  /\ UNCHANGED <<call, tries, polls, result, controller, removed>>

(* Wrong variant: the read-back is not compared with Arg3.                 *)
VerifyAnything ==
  /\ pc = "rdat" /\ phase = "verify"
  /\ Return("ok")
  /\ UNCHANGED <<call, phase, tries, polls, val, controller, removed>>

(* RDAT of the second read: Local2 & Arg4 == Arg3 ends the loop.           *)
Verify ==
  /\ pc = "rdat" /\ phase = "verify"
  /\ IF RDAT \cap call.mask = call.data
     THEN Return("ok") /\ UNCHANGED <<call, phase, tries, polls, val>>
     ELSE Retry
  /\ UNCHANGED <<controller, removed>>

(* Wrong variant: the loop test never ends the loop.                       *)
WakeAndGoOn ==
  /\ pc = "sleep"
  /\ pc' = "issue" /\ phase' = "read"
  /\ tries' = 0
  /\ UNCHANGED <<call, polls, val, result, controller, removed>>

(* After the Sleep: the loop test of CRMW.                                 *)
Wake ==
  /\ pc = "sleep"
  /\ IF tries <= LastTry
     THEN pc' = "issue" /\ phase' = "read" /\ UNCHANGED result
     ELSE Return("failed") /\ UNCHANGED phase
  /\ UNCHANGED <<call, tries, polls, val, controller, removed>>

Driver == Issue \/ PollAgain \/ PollDone \/ PollTimeout \/ ReadTMOT
          \/ Modify \/ Verify \/ Wake

-----------------------------------------------------------------------------
(* The controller (external): it takes the programmed command, runs it,    *)
(* and clears PROG.  PROG is one bit: a command programmed while the       *)
(* controller is busy is lost when the older one clears PROG.  A register  *)
(* may silently refuse a write, which is why CRMW reads it back.           *)

Fetch ==
  /\ present /\ prog = 1 /\ busy = None
  /\ busy' = mb
  /\ UNCHANGED <<driver, present, mb, prog, tmot, rdat, port, removed>>

Complete ==
  /\ busy # None
  /\ busy' = None /\ prog' = 0 /\ tmot' = 0
  /\ IF busy.cmd0 = 1
     THEN /\ port' \in {port, [port EXCEPT ![busy.reg] = busy.data]}
          /\ UNCHANGED rdat
     ELSE rdat' = port[busy.reg] /\ UNCHANGED port
  /\ UNCHANGED <<driver, present, mb, removed>>

(* The access behind the mailbox timed out; a write may still have landed. *)
Fail ==
  /\ busy # None
  /\ busy' = None /\ prog' = 0 /\ tmot' = 1
  /\ \/ UNCHANGED port
     \/ busy.cmd0 = 1 /\ port' = [port EXCEPT ![busy.reg] = busy.data]
  /\ UNCHANGED <<driver, present, mb, rdat, removed>>

(* Surprise removal, and a controller that powers up again.                *)
Remove ==
  /\ present
  /\ present' = FALSE /\ busy' = None /\ removed' = TRUE
  /\ UNCHANGED <<driver, mb, prog, tmot, rdat, port>>

Insert ==
  /\ ~present
  /\ present' = TRUE
  /\ prog' = 0 /\ tmot' = 0 /\ rdat' = {}
  /\ port' = [r \in Ports |-> PowerOn]
  /\ UNCHANGED <<driver, mb, busy, removed>>

Next ==
  \/ \E c \in Calls : CRMW(c)
  \/ Driver
  \/ Fetch \/ Complete \/ Fail \/ Remove \/ Insert

Spec == Init /\ [][Next]_vars

(* AML runs to its next step by itself; the controller owes nothing.       *)
FairSpec == Spec /\ WF_vars(Driver)

-----------------------------------------------------------------------------
(* Properties.                                                             *)

(* When CRMW reports success and the controller has stayed in place, the   *)
(* masked bits of the register are what the caller asked for: no stale     *)
(* completion of an earlier, abandoned command can have answered the       *)
(* read-back of the last attempt.                                          *)
SuccessMeansSet ==
  result = "ok" /\ ~removed => port[call.reg] \cap call.mask = call.data

(* Read-modify-write touches nothing else: as long as the controller stays *)
(* in place, a port register changes only if the running call names it,    *)
(* and only in bits of its mask.  (Holds when the controller is not late.) *)
OnlyMaskedBits ==
  [][present /\ ~removed =>
       \A r \in Ports :
         LET may == IF r = call.reg THEN call.mask ELSE {}
         IN  port'[r] \ may = port[r] \ may]_vars

(* The inductive strengthening of the two properties above and of the one  *)
(* below, in parts.                                                        *)

\* the controller works only on a programmed command, and only while there
CommandPending == busy # None => present /\ prog = 1

\* without a removal, the controller is there for the whole call
StaysPresent ==
  /\ pc # "idle" => result = "none"
  /\ (pc # "idle" \/ result = "ok") /\ ~removed => present

\* after an answered access the mailbox is free again
Settled ==
  /\ (pc \in {"tmot", "rdat"} \/ (pc = "issue" /\ phase # "read") \/ result = "ok")
     /\ present => prog = 0
  /\ pc = "rdat" /\ ~removed => tmot = 0
  /\ ~Late /\ pc # "poll" /\ present => prog = 0

\* a read is answered by the command that was programmed for it; if the
\* controller can be late, this is true of the read-back only
ReadAnswered ==
  /\ pc \in {"poll", "tmot", "rdat"} /\ ~removed
  /\ phase = "verify" \/ (phase = "read" /\ ~Late)
  => /\ mb.cmd0 = 0 /\ mb.reg = call.reg /\ busy \in {None, mb}
     /\ prog = 0 /\ tmot = 0 => rdat = port[call.reg]

\* the write carries the register's own bits outside the mask
WriteFaithful ==
  ~Late /\ ~removed /\ phase = "write" /\ pc \in {"issue", "poll", "tmot"}
  => /\ val = (port[call.reg] \ call.mask) \cup call.data
     /\ pc = "poll" => /\ mb = [cmd0 |-> 1, reg |-> call.reg, data |-> val]
                      /\ busy \in {None, mb}

\* a controller that is never late works for the running call only
Addressed ==
  ~Late /\ pc = "poll" /\ present /\ prog = 1
  => mb.reg = call.reg /\ busy \in {None, mb}

IInv ==
  /\ TypeOK /\ CommandPending /\ StaysPresent /\ Settled
  /\ ReadAnswered /\ WriteFaithful /\ Addressed /\ SuccessMeansSet

(* Once CRMW has reported success nothing moves the register until the     *)
(* next call: no command of that call is still under way.                  *)
QuietAfterSuccess ==
  [][result = "ok" /\ present => port' = port]_vars

(* Every call returns, whatever the controller does or fails to do.        *)
CallsReturn == pc # "idle" ~> pc = "idle"

(* The mailbox implements the verified masked write.                       *)
Abstract == INSTANCE MaskedWrite WITH running <- pc # "idle"
ImplementsMaskedWrite == Abstract!Spec
=============================================================================
