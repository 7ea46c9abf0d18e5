------------------------------ MODULE WmiEvents ------------------------------
(***************************************************************************)
(* The WMI events of the DSDT.  The embedded controller raises an event,   *)
(* its query handler NEVT notes it in WMEV and notifies the OS (WMNF), and *)
(* the OS calls _WED of AMW0, which takes one event out of WMEV and        *)
(* describes it in the buffer WMBU.  _WED is not Serialized; it works      *)
(* under the mutex WMIX, which WVSP and WVCU acquire and no method         *)
(* releases: the interpreter does, when the evaluation has ended and WMBU  *)
(* has been handed over.  ECMX guards a register of the controller.        *)
(*                                                                         *)
(* An action runs to the next point where another thread can go on: an     *)
(* Acquire, or an access to the embedded controller.                       *)
(***************************************************************************)
EXTENDS Integers, FiniteSets

CONSTANTS
  Workers,     \* the OS threads that evaluate methods of AMW0
  MaxEvents    \* bound: the events the controller raises

\* the event bits 0x0100, 0x0200, 0x0400 and 0x0800
Events == {"dock", "button", "other", "queue"}

VARIABLES
  pc,       \* where each worker is
  nevt,     \* where NEVT is
  found,    \* its Local0, less what it has passed on
  wmix,     \* owner of WMIX
  ecmx,     \* owner of ECMX
  wmev,     \* WMEV
  wmbu,     \* what WMBU describes
  ecd0,     \* ECD0: the OS wants the events
  notes,    \* Notify (AMW0, 0xD0) the OS has not answered with _WED yet
  docked,   \* what ECG4 reads
  raised,   \* the events the controller holds
  events,   \* history: how many it has raised
  took,     \* history: what the running _WED of each worker has described
  told,     \* history: the docking state last described to the OS
  ignored   \* history: some _WED has answered nothing because of ECD0

queueing == <<nevt, found, notes>>
world    == <<docked, raised, events>>
history  == <<took, told, ignored>>
vars     == <<pc, queueing, wmix, ecmx, wmev, wmbu, ecd0, world, history>>

Contents == {"clear", "button", "in", "out", "queue"}

(* The types of the variables; a notification is answered once. *)
TypeOK ==
  /\ pc \in [Workers -> {"idle", "wed", "take", "ecg4", "dock", "ec0a", "drain",
                         "return", "info", "fill"}]
  /\ nevt \in {"idle", "read", "raise"}
  /\ found \subseteq Events /\ wmev \subseteq Events /\ raised \subseteq Events
  /\ wmix \in Workers \cup {"free"}
  /\ ecmx \in Workers \cup {"free", "nevt"}
  /\ wmbu \in Contents
  /\ ecd0 \in BOOLEAN /\ docked \in BOOLEAN /\ told \in BOOLEAN /\ ignored \in BOOLEAN
  /\ notes \in Nat /\ events \in 0 .. MaxEvents
  /\ took \in [Workers -> Contents]

Init ==
  /\ pc = [w \in Workers |-> "idle"]
  /\ nevt = "idle" /\ found = {} /\ notes = 0
  /\ wmix = "free" /\ ecmx = "free"
  /\ wmev = {} /\ wmbu = "clear" /\ ecd0 = FALSE
  /\ docked \in BOOLEAN /\ raised = {} /\ events = 0
  /\ took = [w \in Workers |-> "clear"]
  /\ told = docked /\ ignored = FALSE

Goto(w, place) == pc' = [pc EXCEPT ![w] = place]

-----------------------------------------------------------------------------
(* The embedded controller, and NEVT, which its query calls.               *)

\* an event; docking and undocking change what ECG4 reads
Raise(e) ==
  /\ events < MaxEvents
  /\ events' = events + 1
  /\ raised' = raised \cup {e}
  /\ docked' = IF e = "dock" THEN ~docked ELSE docked
  /\ UNCHANGED <<pc, queueing, wmix, ecmx, wmev, wmbu, ecd0, history>>

Query ==
  /\ nevt = "idle" /\ raised # {} /\ ecmx = "free"
  /\ nevt' = "read" /\ ecmx' = "nevt"
  /\ UNCHANGED <<pc, found, notes, wmix, wmev, wmbu, ecd0, world, history>>

\* ECG1: reading the event register clears it
ECG1 ==
  /\ nevt = "read"
  /\ found' = raised /\ raised' = {}
  /\ nevt' = "raise" /\ ecmx' = "free"
  /\ UNCHANGED <<pc, notes, wmix, wmev, wmbu, ecd0, docked, events, history>>

\* the order in which NEVT looks at the bits
Next4(s) == CHOOSE e \in s :
  \A f \in s : CASE f = "dock" -> e = "dock"
                 [] f = "button" -> e \in {"dock", "button"}
                 [] f = "other" -> e # "queue"
                 [] f = "queue" -> TRUE

\* SWEV and Notify for one of them.
WMNF ==
  /\ nevt = "raise"
  /\ IF found = {}
       THEN nevt' = "idle" /\ UNCHANGED <<found, wmev, notes>>
       ELSE /\ wmev' = wmev \cup {Next4(found)}
            /\ notes' = notes + 1
            /\ found' = found \ {Next4(found)}
            /\ UNCHANGED nevt
  /\ UNCHANGED <<pc, wmix, ecmx, wmbu, ecd0, world, history>>

-----------------------------------------------------------------------------
(* _WED.                                                                   *)

Notified(w) ==
  /\ pc[w] = "idle" /\ notes > 0
  /\ notes' = notes - 1
  /\ Goto(w, "wed")
  /\ took' = [took EXCEPT ![w] = "clear"]
  /\ UNCHANGED <<nevt, found, wmix, ecmx, wmev, wmbu, ecd0, world, told, ignored>>

WVSP(w) ==
  /\ pc[w] = "wed" /\ wmix = "free"
  /\ wmix' = w /\ wmbu' = "clear"
  /\ Goto(w, "take")
  /\ UNCHANGED <<queueing, ecmx, wmev, ecd0, world, history>>

Describe(w, c) ==
  /\ wmbu' = c
  /\ took' = [took EXCEPT ![w] = c]

\* Wrong variant: CWEV (0x0200) is missing.
TakeKeeps(w) ==
  /\ pc[w] = "take"
  /\ \/ /\ ~ecd0
        /\ Goto(w, "return") /\ ignored' = TRUE
        /\ UNCHANGED <<wmev, wmbu, took>>
     \/ /\ ecd0 /\ "button" \in wmev
        /\ Describe(w, "button") /\ Goto(w, "return")
        /\ UNCHANGED <<wmev, ignored>>
  /\ UNCHANGED <<queueing, wmix, ecmx, ecd0, world, told>>

\* One event, by the order of the tests; CWEV of the first two comes first.
Take(w) ==
  /\ pc[w] = "take"
  /\ \/ /\ ~ecd0
        /\ Goto(w, "return") /\ ignored' = TRUE
        /\ UNCHANGED <<wmev, wmbu, took>>
     \/ /\ ecd0 /\ "button" \in wmev
        /\ wmev' = wmev \ {"button"}
        /\ Describe(w, "button") /\ Goto(w, "return")
        /\ UNCHANGED ignored
     \/ /\ ecd0 /\ "button" \notin wmev /\ "dock" \in wmev
        /\ wmev' = wmev \ {"dock"}
        /\ Goto(w, "ecg4")
        /\ UNCHANGED <<wmbu, took, ignored>>
     \/ /\ ecd0 /\ wmev \cap {"button", "dock"} = {}
        /\ Goto(w, IF "queue" \in wmev THEN "ec0a" ELSE "return")
        /\ UNCHANGED <<wmev, wmbu, took, ignored>>
  /\ UNCHANGED <<queueing, wmix, ecmx, ecd0, world, told>>

\* ECR1 for ECG4, or the first of EC0A, under ECMX.
EcAcquire(w) ==
  /\ pc[w] \in {"ecg4", "ec0a"} /\ ecmx = "free"
  /\ ecmx' = w
  /\ Goto(w, IF pc[w] = "ecg4" THEN "dock" ELSE "drain")
  /\ UNCHANGED <<queueing, wmix, wmev, wmbu, ecd0, world, history>>

\* Wrong variant: ECR1 without its Release.
DockKeeps(w) ==
  /\ pc[w] = "dock"
  /\ Describe(w, IF docked THEN "in" ELSE "out") /\ told' = docked
  /\ Goto(w, "return")
  /\ UNCHANGED <<queueing, wmix, ecmx, wmev, ecd0, world, ignored>>

Dock(w) ==
  /\ pc[w] = "dock"
  /\ ecmx' = "free"
  /\ Describe(w, IF docked THEN "in" ELSE "out") /\ told' = docked
  /\ Goto(w, "return")
  /\ UNCHANGED <<queueing, wmix, wmev, ecd0, world, ignored>>

\* Wrong variant: WVCU ends with the Release it seems to lack.
DrainReleases(w) ==
  /\ pc[w] = "drain"
  /\ ecmx' = "free" /\ wmix' = "free"
  /\ Describe(w, "queue") /\ wmev' = wmev \ {"queue"}
  /\ Goto(w, "return")
  /\ UNCHANGED <<queueing, ecd0, world, told, ignored>>

\* The rest of EC0A, and CWEV.
Drain(w) ==
  /\ pc[w] = "drain"
  /\ ecmx' = "free"
  /\ Describe(w, "queue") /\ wmev' = wmev \ {"queue"}
  /\ Goto(w, "return")
  /\ UNCHANGED <<queueing, wmix, ecd0, world, told, ignored>>

\* Wrong variant: CWEV (0x0100) comes last, as in the queue's branch.
ReturnClearing(w) ==
  /\ pc[w] = "return"
  /\ wmix' = IF wmix = w THEN "free" ELSE wmix
  /\ wmev' = IF took[w] \in {"in", "out"} THEN wmev \ {"dock"} ELSE wmev
  /\ Goto(w, "idle")
  /\ UNCHANGED <<queueing, ecmx, wmbu, ecd0, world, history>>

\* The end of the evaluation: WMBU is copied, then WMIX freed.
Return(w) ==
  /\ pc[w] = "return"
  /\ wmix' = IF wmix = w THEN "free" ELSE wmix
  /\ Goto(w, "idle")
  /\ UNCHANGED <<queueing, ecmx, wmev, wmbu, ecd0, world, history>>

-----------------------------------------------------------------------------
(* The other methods of AMW0.                                              *)

WED0(on) ==
  /\ ecd0 # on /\ ecd0' = on
  /\ UNCHANGED <<pc, queueing, wmix, ecmx, wmev, wmbu, world, history>>

WQAA(w) ==
  /\ pc[w] = "idle"
  /\ Goto(w, "info")
  /\ UNCHANGED <<queueing, wmix, ecmx, wmev, wmbu, ecd0, world, history>>

InfoAcquire(w) ==
  /\ pc[w] = "info" /\ wmix = "free"
  /\ wmix' = w /\ Goto(w, "fill")
  /\ UNCHANGED <<queueing, ecmx, wmev, wmbu, ecd0, world, history>>

InfoRelease(w) ==
  /\ pc[w] = "fill"
  /\ wmix' = "free" /\ Goto(w, "idle")
  /\ UNCHANGED <<queueing, ecmx, wmev, wmbu, ecd0, world, history>>

-----------------------------------------------------------------------------
Acquire(w) == WVSP(w) \/ EcAcquire(w) \/ InfoAcquire(w)
Step(w) == Take(w) \/ Dock(w) \/ Drain(w) \/ Return(w) \/ InfoRelease(w)
Nevt == ECG1 \/ WMNF

Next ==
  \/ (\E e \in Events : Raise(e)) \/ Query \/ Nevt
  \/ \E w \in Workers : Notified(w) \/ WQAA(w) \/ Acquire(w) \/ Step(w)
  \/ \E on \in BOOLEAN : WED0(on)

Spec == Init /\ [][Next]_vars

\* The interpreter goes on with every method, hands its mutexes to those
\* that wait, and the OS answers every Notify and query.
FairSpec ==
  /\ Spec
  /\ WF_vars(Nevt) /\ SF_vars(Query)
  /\ \A w \in Workers : WF_vars(Step(w)) /\ SF_vars(Acquire(w)) /\ SF_vars(Notified(w))

-----------------------------------------------------------------------------
(* Properties.                                                             *)

(* _WED answers what it has described itself: nobody clears or fills WMBU  *)
(* between its description and the end of the evaluation.                  *)
OwnAnswer == \A w \in Workers : pc[w] = "return" => wmbu = took[w]

(* No event is stranded in WMEV with nobody about to look for it, unless   *)
(* ECD0 made a _WED answer nothing: two calls never take the same event,   *)
(* and one call never takes two.                                           *)
Looking == Cardinality({w \in Workers : pc[w] \in {"wed", "take", "ec0a", "drain"}})
NothingStranded == ~ignored => Cardinality(wmev \ {"other"}) <= notes + Looking

(* When an undocking or docking has been passed on and no call describes   *)
(* it any more, the state the OS was told last is the one the controller   *)
(* is in, however often it changed meanwhile, and also if the OS has       *)
(* switched the events off and on again.                                   *)
ToldCurrent ==
  (/\ "dock" \notin raised \cup found \cup wmev
   /\ \A w \in Workers : pc[w] \notin {"ecg4", "dock"})
    => told = docked

(* Every call returns and gives WMIX back.                                 *)
CallsReturn == \A w \in Workers : pc[w] # "idle" ~> pc[w] = "idle"

-----------------------------------------------------------------------------
(* The inductive invariant.                                                *)

\* between the Acquire of WMIX and the end of the evaluation
Inside == {"take", "ecg4", "dock", "ec0a", "drain", "return", "fill"}
Locked == \A w \in Workers : pc[w] \in Inside => wmix = w

\* until it describes an event, _WED has described nothing
Undescribed == \A w \in Workers :
  /\ pc[w] \in {"wed", "take", "ecg4", "dock", "ec0a", "drain"} => took[w] = "clear"
  /\ pc[w] \in {"take", "ecg4", "dock", "ec0a", "drain"} => wmbu = "clear"

\* what a _WED has seen in WMEV stays there until it takes it
StillQueued == \A w \in Workers : pc[w] \in {"ec0a", "drain"} => "queue" \in wmev

\* NEVT does not look for new events before it has passed on those it has
PassedOn == nevt # "raise" => found = {}

IInv == /\ TypeOK /\ Locked /\ Undescribed /\ OwnAnswer
        /\ StillQueued /\ NothingStranded /\ PassedOn /\ ToldCurrent
=============================================================================
