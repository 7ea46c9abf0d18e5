--------------------------- MODULE FirmwareProofs ---------------------------
(***************************************************************************)
(* Theorems about the parts of MCFirmware: WmiEvents (Wmi), for any finite *)
(* number of threads and any number of events; the banked registers of the *)
(* embedded controller, EcBanks (Banks); and BatteryCombiner.              *)
(***************************************************************************)
EXTENDS MCFirmware, Sequences, FiniteSetTheorems, TLAPS

-----------------------------------------------------------------------------
(* WmiEvents: the types.                                                   *)

(* The order of NEVT's tests picks one of the events it has found.         *)
LEMMA NextFound ==
  ASSUME NEW s \in SUBSET Wmi!Events, s # {}
  PROVE  Wmi!Next4(s) \in s
<1> DEFINE First(e) == \A f \in s : CASE f = "dock" -> e = "dock"
                                      [] f = "button" -> e \in {"dock", "button"}
                                      [] f = "other" -> e # "queue"
                                      [] f = "queue" -> TRUE
<1>1. s \subseteq {"dock", "button", "other", "queue"}
  BY DEF Wmi!Events
<1>2. \E e \in s : First(e)
  <2>1. CASE "dock" \in s
    <3>1. First("dock")
      BY <1>1
    <3> QED
      BY <2>1, <3>1
  <2>2. CASE "dock" \notin s /\ "button" \in s
    <3>1. First("button")
      BY <1>1, <2>2
    <3> QED
      BY <2>2, <3>1
  <2>3. CASE "dock" \notin s /\ "button" \notin s /\ "other" \in s
    <3>1. First("other")
      BY <1>1, <2>3
    <3> QED
      BY <2>3, <3>1
  <2>4. CASE "dock" \notin s /\ "button" \notin s /\ "other" \notin s
    <3>1. s = {"queue"}
      BY <1>1, <2>4
    <3>2. First("queue")
      BY <3>1
    <3> QED
      BY <3>1, <3>2
  <2> HIDE DEF First
  <2> QED
    BY <2>1, <2>2, <2>3, <2>4
<1>3. Wmi!Next4(s) = CHOOSE e \in s : First(e)
  BY DEF Wmi!Next4
<1> HIDE DEF First
<1> QED
  BY <1>2, <1>3

LEMMA WmiTypeStep == ASSUME Wmi!TypeOK, [Wmi!Next]_(Wmi!vars) PROVE Wmi!TypeOK'
<1> USE DEF Wmi!TypeOK, Wmi!Goto, Wmi!Contents, Wmi!queueing, Wmi!world, Wmi!history
<1>1. ASSUME NEW e \in Wmi!Events, Wmi!Raise(e) PROVE Wmi!TypeOK'
  <2>1. events' \in 0 .. MaxEvents /\ raised' \subseteq Wmi!Events
    BY <1>1, WorkersAssumption DEF Wmi!Raise
  <2>2. docked' \in BOOLEAN
    BY <1>1, Zenon DEF Wmi!Raise
  <2>3. UNCHANGED <<wpc, Wmi!queueing, wmix, ecmx, wmev, wmbu, ecd0, Wmi!history>>
    BY <1>1 DEF Wmi!Raise
  <2> QED
    BY <2>1, <2>2, <2>3
<1>2. CASE Wmi!Query \/ Wmi!ECG1
  <2>1. /\ nevt' \in {"idle", "read", "raise"} /\ ecmx' \in Workers \cup {"free", "nevt"}
        /\ found' \subseteq Wmi!Events /\ raised' \subseteq Wmi!Events
    BY <1>2 DEF Wmi!Query, Wmi!ECG1
  <2>2. UNCHANGED <<wpc, notes, wmix, wmev, wmbu, ecd0, docked, events, Wmi!history>>
    BY <1>2 DEF Wmi!Query, Wmi!ECG1
  <2> QED
    BY <2>1, <2>2
<1>3. CASE Wmi!WMNF
  <2>1. found # {} => Wmi!Next4(found) \in Wmi!Events
    BY NextFound
  <2>2. /\ nevt' \in {"idle", "read", "raise"} /\ notes' \in Nat
        /\ found' \subseteq Wmi!Events /\ wmev' \subseteq Wmi!Events
    BY <1>3, <2>1 DEF Wmi!WMNF
  <2>3. UNCHANGED <<wpc, wmix, ecmx, wmbu, ecd0, Wmi!world, Wmi!history>>
    BY <1>3 DEF Wmi!WMNF
  <2> QED
    BY <2>2, <2>3
<1>4. ASSUME NEW w \in Workers,
             Wmi!Notified(w) \/ Wmi!WQAA(w) \/ Wmi!WVSP(w) \/ Wmi!EcAcquire(w) \/ Wmi!InfoAcquire(w)
      PROVE  Wmi!TypeOK'
  <2>1. /\ wpc' \in [Workers -> {"idle", "wed", "take", "ecg4", "dock", "ec0a", "drain",
                                 "return", "info", "fill"}]
        /\ notes' \in Nat
    BY <1>4 DEF Wmi!Notified, Wmi!WQAA, Wmi!WVSP, Wmi!EcAcquire, Wmi!InfoAcquire
  <2>2. /\ wmix' \in Workers \cup {"free"} /\ ecmx' \in Workers \cup {"free", "nevt"}
        /\ wmbu' \in Wmi!Contents /\ took' \in [Workers -> Wmi!Contents]
    BY <1>4 DEF Wmi!Notified, Wmi!WQAA, Wmi!WVSP, Wmi!EcAcquire, Wmi!InfoAcquire
  <2>3. UNCHANGED <<nevt, found, wmev, ecd0, Wmi!world, told, ignored>>
    BY <1>4 DEF Wmi!Notified, Wmi!WQAA, Wmi!WVSP, Wmi!EcAcquire, Wmi!InfoAcquire
  <2> QED
    BY <2>1, <2>2, <2>3
<1>5. ASSUME NEW w \in Workers, Wmi!Step(w) PROVE Wmi!TypeOK'
  <2> USE DEF Wmi!Take, Wmi!Dock, Wmi!Drain, Wmi!Return, Wmi!InfoRelease, Wmi!Describe, Wmi!Step
  <2>1. wpc' \in [Workers -> {"idle", "wed", "take", "ecg4", "dock", "ec0a", "drain",
                              "return", "info", "fill"}]
    BY <1>5
  <2>2. /\ wmix' \in Workers \cup {"free"} /\ ecmx' \in Workers \cup {"free", "nevt"}
        /\ wmev' \subseteq Wmi!Events
    BY <1>5
  <2>3. wmbu' \in Wmi!Contents /\ took' \in [Workers -> Wmi!Contents]
    BY <1>5
  <2>4. told' \in BOOLEAN /\ ignored' \in BOOLEAN
    BY <1>5, Zenon
  <2>5. UNCHANGED <<nevt, found, notes, ecd0, Wmi!world>>
    BY <1>5
  <2> QED
    BY <2>1, <2>2, <2>3, <2>4, <2>5
<1>6. ASSUME NEW on \in BOOLEAN, Wmi!WED0(on) PROVE Wmi!TypeOK'
  BY <1>6 DEF Wmi!WED0
<1>7. CASE UNCHANGED Wmi!vars
  BY <1>7 DEF Wmi!vars
<1> QED
  BY <1>1, <1>2, <1>3, <1>4, <1>5, <1>6, <1>7 DEF Wmi!Next, Wmi!Nevt, Wmi!Acquire

-----------------------------------------------------------------------------
(* WmiEvents: what WMIX protects.                                          *)

LEMMA WmiAlone ==
  ASSUME Wmi!Locked, NEW w \in Workers, wpc[w] \in Wmi!Inside
  PROVE  \A u \in Workers \ {w} : wpc[u] \notin Wmi!Inside
BY DEF Wmi!Locked

WmiOwn == Wmi!Locked /\ Wmi!Undescribed /\ Wmi!OwnAnswer /\ Wmi!StillQueued

(* The steps of the controller and of NEVT leave the calls alone, and only *)
(* add to WMEV.                                                            *)
LEMMA WmiOwnUnmoved ==
  ASSUME WmiOwn, UNCHANGED <<wpc, wmix, wmbu, took>>, wmev \subseteq wmev'
  PROVE  WmiOwn'
BY DEF WmiOwn, Wmi!Locked, Wmi!Undescribed, Wmi!OwnAnswer, Wmi!StillQueued

(* A call enters when WMIX is free, and is alone until it ends.            *)
LEMMA WmiOwnStep ==
  ASSUME Wmi!TypeOK, WmiOwn, [Wmi!Next]_(Wmi!vars)
  PROVE  WmiOwn'
<1> DEFINE Places == {"idle", "wed", "take", "ecg4", "dock", "ec0a", "drain", "return", "info", "fill"}
<1>0. wpc \in [Workers -> Places] /\ took \in [Workers -> Wmi!Contents]
  BY DEF Wmi!TypeOK
<1> USE DEF WmiOwn, Wmi!Locked, Wmi!Undescribed, Wmi!OwnAnswer, Wmi!StillQueued, Wmi!Inside,
            Wmi!Goto, Wmi!queueing, Wmi!world, Wmi!history
<1>1. CASE (\E e \in Wmi!Events : Wmi!Raise(e)) \/ Wmi!Query \/ Wmi!ECG1 \/ Wmi!WMNF
             \/ (\E on \in BOOLEAN : Wmi!WED0(on)) \/ UNCHANGED Wmi!vars
  <2>1. UNCHANGED <<wpc, wmix, wmbu, took>> /\ wmev \subseteq wmev'
    BY <1>1 DEF Wmi!Raise, Wmi!Query, Wmi!ECG1, Wmi!WMNF, Wmi!WED0, Wmi!vars
  <2> QED
    BY <2>1, WmiOwnUnmoved
<1>2. ASSUME NEW w \in Workers, Wmi!Notified(w) \/ Wmi!WQAA(w) PROVE WmiOwn'
  BY <1>0, <1>2 DEF Wmi!Notified, Wmi!WQAA
<1>3. ASSUME NEW w \in Workers, Wmi!WVSP(w) \/ Wmi!InfoAcquire(w) PROVE WmiOwn'
  <2>1. \A u \in Workers : wpc[u] \notin Wmi!Inside
    BY <1>3, WorkersAssumption DEF Wmi!WVSP, Wmi!InfoAcquire
  <2> QED
    BY <1>0, <1>3, <2>1 DEF Wmi!WVSP, Wmi!InfoAcquire
<1>4. ASSUME NEW w \in Workers, Wmi!EcAcquire(w) PROVE WmiOwn'
  BY <1>0, <1>4 DEF Wmi!EcAcquire
<1>5. ASSUME NEW w \in Workers, Wmi!Step(w) PROVE WmiOwn'
  <2>1. wpc[w] \in Wmi!Inside
    BY <1>5 DEF Wmi!Step, Wmi!Take, Wmi!Dock, Wmi!Drain, Wmi!Return, Wmi!InfoRelease
  <2>2. \A u \in Workers \ {w} : wpc[u] \notin Wmi!Inside
    BY <2>1, WmiAlone
  <2>3. CASE Wmi!Take(w)
    BY <1>0, <2>2, <2>3 DEF Wmi!Take, Wmi!Describe
  <2>4. CASE Wmi!Dock(w) \/ Wmi!Drain(w)
    BY <1>0, <2>2, <2>4 DEF Wmi!Dock, Wmi!Drain, Wmi!Describe
  <2>5. CASE Wmi!Return(w) \/ Wmi!InfoRelease(w)
    BY <1>0, <2>2, <2>5 DEF Wmi!Return, Wmi!InfoRelease
  <2> QED
    BY <1>5, <2>3, <2>4, <2>5 DEF Wmi!Step
<1> QED
  BY <1>1, <1>2, <1>3, <1>4, <1>5 DEF Wmi!Next, Wmi!Nevt, Wmi!Acquire

(* A docking that has been raised is on its way to the OS until a call     *)
(* describes the state that then holds.                                    *)
LEMMA WmiToldStep ==
  ASSUME Wmi!TypeOK, WmiOwn, Wmi!PassedOn, Wmi!ToldCurrent, [Wmi!Next]_(Wmi!vars)
  PROVE  Wmi!PassedOn' /\ Wmi!ToldCurrent'
<1> USE DEF Wmi!PassedOn, Wmi!ToldCurrent, Wmi!queueing, Wmi!world, Wmi!history, Wmi!Goto
<1>0. /\ wpc \in [Workers -> {"idle", "wed", "take", "ecg4", "dock", "ec0a", "drain",
                              "return", "info", "fill"}]
      /\ told \in BOOLEAN /\ docked \in BOOLEAN
  BY DEF Wmi!TypeOK
<1>1. ASSUME NEW e \in Wmi!Events, Wmi!Raise(e) PROVE Wmi!PassedOn' /\ Wmi!ToldCurrent'
  BY <1>1 DEF Wmi!Raise
<1>2. CASE Wmi!Query \/ Wmi!ECG1 \/ Wmi!WMNF
  <2>1. UNCHANGED <<wpc, told, docked>>
    BY <1>2 DEF Wmi!Query, Wmi!ECG1, Wmi!WMNF
  <2>2. /\ nevt' # "raise" => found' = {}
        /\ "dock" \in raised \cup found \cup wmev => "dock" \in raised' \cup found' \cup wmev'
    BY <1>2 DEF Wmi!Query, Wmi!ECG1, Wmi!WMNF
  <2> QED
    BY <2>1, <2>2
<1>3. ASSUME NEW w \in Workers,
             Wmi!Notified(w) \/ Wmi!WQAA(w) \/ Wmi!WVSP(w) \/ Wmi!EcAcquire(w) \/ Wmi!InfoAcquire(w)
      PROVE  Wmi!PassedOn' /\ Wmi!ToldCurrent'
  <2>1. UNCHANGED <<nevt, found, raised, wmev, told, docked>>
    BY <1>3 DEF Wmi!Notified, Wmi!WQAA, Wmi!WVSP, Wmi!EcAcquire, Wmi!InfoAcquire
  <2>2. \A u \in Workers : wpc[u] \in {"ecg4", "dock"} => wpc'[u] \in {"ecg4", "dock"}
    BY <1>0, <1>3 DEF Wmi!Notified, Wmi!WQAA, Wmi!WVSP, Wmi!EcAcquire, Wmi!InfoAcquire
  <2> QED
    BY <2>1, <2>2
<1>4. ASSUME NEW w \in Workers, Wmi!Step(w) PROVE Wmi!PassedOn' /\ Wmi!ToldCurrent'
  <2>1. UNCHANGED <<nevt, found, raised, docked>>
    BY <1>4 DEF Wmi!Step, Wmi!Take, Wmi!Dock, Wmi!Drain, Wmi!Return, Wmi!InfoRelease
  <2>2. CASE Wmi!Dock(w)
    BY <2>1, <2>2 DEF Wmi!Dock
  <2>3. CASE ~Wmi!Dock(w)
    <3>1. told' = told
      BY <1>4, <2>3 DEF Wmi!Step, Wmi!Take, Wmi!Drain, Wmi!Return, Wmi!InfoRelease
    <3>2. \/ "dock" \in wmev => "dock" \in wmev'
          \/ wpc'[w] = "ecg4"
      BY <1>0, <1>4, <2>3 DEF Wmi!Step, Wmi!Take, Wmi!Drain, Wmi!Return, Wmi!InfoRelease
    <3>3. \A u \in Workers : wpc[u] \in {"ecg4", "dock"} => wpc'[u] \in {"ecg4", "dock"}
      BY <1>0, <1>4, <2>3 DEF Wmi!Step, Wmi!Take, Wmi!Drain, Wmi!Return, Wmi!InfoRelease
    <3> QED
      BY <2>1, <3>1, <3>2, <3>3
  <2> QED
    BY <2>2, <2>3
<1>5. CASE (\E on \in BOOLEAN : Wmi!WED0(on)) \/ UNCHANGED Wmi!vars
  BY <1>5 DEF Wmi!WED0, Wmi!vars
<1> QED
  BY <1>1, <1>2, <1>3, <1>4, <1>5 DEF Wmi!Next, Wmi!Nevt, Wmi!Acquire

-----------------------------------------------------------------------------
(* WmiEvents: nothing is stranded.                                         *)

WmiQueued == wmev \ {"other"}
WmiLookers == {"wed", "take", "ec0a", "drain"}

(* WmiEvents counts with its own copy of Cardinality.                      *)
LEMMA WmiCardinality == ASSUME NEW S PROVE Wmi!Cardinality(S) = Cardinality(S)
BY DEF Wmi!Cardinality, Cardinality

(* There are four events.                                                  *)
LEMMA EventsCounted ==
  ASSUME NEW s \in SUBSET Wmi!Events
  PROVE  /\ IsFiniteSet(s) /\ Cardinality(s) \in Nat
         /\ Cardinality(Wmi!Events) \in Nat /\ Cardinality(s) <= Cardinality(Wmi!Events)
<1>1. IsFiniteSet({"dock"} \cup {"button"})
  BY FS_Singleton, FS_AddElement
<1>2. IsFiniteSet(({"dock"} \cup {"button"}) \cup {"other"})
  BY <1>1, FS_AddElement
<1>3. IsFiniteSet(Wmi!Events)
  <2>1. Wmi!Events = (({"dock"} \cup {"button"}) \cup {"other"}) \cup {"queue"}
    BY DEF Wmi!Events
  <2>2. QED
    BY <1>2, <2>1, FS_AddElement
<1>4. IsFiniteSet(s) /\ Cardinality(s) <= Cardinality(Wmi!Events)
  BY <1>3, FS_Subset
<1>5. QED
  BY <1>3, <1>4, FS_CardinalityType

LEMMA WmiQueuedFinite ==
  ASSUME Wmi!TypeOK
  PROVE  IsFiniteSet(WmiQueued) /\ Cardinality(WmiQueued) \in Nat
BY EventsCounted DEF WmiQueued, Wmi!TypeOK

LEMMA WmiLookingType == Wmi!Looking \in Nat
<1>1. {w \in Workers : wpc[w] \in WmiLookers} \subseteq Workers
  OBVIOUS
<1>2. IsFiniteSet({w \in Workers : wpc[w] \in WmiLookers})
  BY <1>1, FS_Subset, WorkersAssumption
<1> QED
  BY <1>2, FS_CardinalityType, WmiCardinality DEF Wmi!Looking, WmiLookers

LEMMA WmiSomeLooks ==
  ASSUME NEW w \in {u \in Workers : wpc[u] \in WmiLookers}
  PROVE  Wmi!Looking >= 1
<1> DEFINE S == {u \in Workers : wpc[u] \in WmiLookers}
<1>1. S \subseteq Workers
  OBVIOUS
<1>2. IsFiniteSet(S) /\ S # {}
  BY <1>1, FS_Subset, WorkersAssumption
<1> HIDE DEF S
<1>3. Cardinality(S) \in Nat /\ Cardinality(S) # 0
  BY <1>2, FS_EmptySet, FS_CardinalityType
<1> QED
  BY <1>3, WmiCardinality DEF S, Wmi!Looking, WmiLookers

(* What a step of one call does to the number of those that look.          *)
LEMMA WmiLookingAfter ==
  ASSUME Wmi!TypeOK, NEW w \in Workers, NEW place, wpc' = [wpc EXCEPT ![w] = place]
  PROVE  /\ (place \in WmiLookers <=> wpc[w] \in WmiLookers) => Wmi!Looking' = Wmi!Looking
         /\ place \in WmiLookers /\ wpc[w] \notin WmiLookers => Wmi!Looking' = Wmi!Looking + 1
         /\ place \notin WmiLookers /\ wpc[w] \in WmiLookers => Wmi!Looking' = Wmi!Looking - 1
<1> DEFINE S == {u \in Workers : wpc[u] \in WmiLookers}
           T == {u \in Workers : wpc'[u] \in WmiLookers}
<1>1. \A u \in Workers : wpc'[u] = IF u = w THEN place ELSE wpc[u]
  BY DEF Wmi!TypeOK
<1>2. IsFiniteSet(S) /\ IsFiniteSet(S \ {w}) /\ Cardinality(S \ {w}) \in Nat /\ w \notin S \ {w}
  <2>1. S \subseteq Workers /\ S \ {w} \subseteq Workers
    OBVIOUS
  <2>2. IsFiniteSet(S) /\ IsFiniteSet(S \ {w})
    BY <2>1, FS_Subset, WorkersAssumption
  <2> QED
    BY <2>2, FS_CardinalityType
<1>3. /\ wpc[w] \in WmiLookers => S = (S \ {w}) \cup {w}
      /\ wpc[w] \notin WmiLookers => S = S \ {w}
  OBVIOUS
<1>4. /\ place \in WmiLookers => T = (S \ {w}) \cup {w}
      /\ place \notin WmiLookers => T = S \ {w}
  BY <1>1
<1> HIDE DEF S, T
<1>5. Cardinality((S \ {w}) \cup {w}) = Cardinality(S \ {w}) + 1
  BY <1>2, FS_AddElement
<1>6. Wmi!Looking = Cardinality(S) /\ Wmi!Looking' = Cardinality(T)
  BY WmiCardinality DEF S, T, Wmi!Looking, WmiLookers
<1>7. CASE wpc[w] \in WmiLookers
  <2>1. Wmi!Looking = Cardinality(S \ {w}) + 1
    BY <1>3, <1>5, <1>6, <1>7
  <2>2. /\ place \in WmiLookers => Wmi!Looking' = Cardinality(S \ {w}) + 1
        /\ place \notin WmiLookers => Wmi!Looking' = Cardinality(S \ {w})
    BY <1>4, <1>5, <1>6
  <2> QED
    BY <1>2, <1>7, <2>1, <2>2
<1>8. CASE wpc[w] \notin WmiLookers
  <2>1. Wmi!Looking = Cardinality(S \ {w})
    BY <1>3, <1>6, <1>8
  <2>2. /\ place \in WmiLookers => Wmi!Looking' = Cardinality(S \ {w}) + 1
        /\ place \notin WmiLookers => Wmi!Looking' = Cardinality(S \ {w})
    BY <1>4, <1>5, <1>6
  <2> QED
    BY <1>2, <1>8, <2>1, <2>2
<1> QED
  BY <1>7, <1>8

LEMMA WmiStrandedStep ==
  ASSUME Wmi!TypeOK, WmiOwn, Wmi!NothingStranded, [Wmi!Next]_(Wmi!vars)
  PROVE  Wmi!NothingStranded'
<1> DEFINE Bound == Cardinality(WmiQueued) <= notes + Wmi!Looking
<1>1. IsFiniteSet(WmiQueued) /\ Cardinality(WmiQueued) \in Nat /\ Wmi!Looking \in Nat /\ notes \in Nat
  BY WmiQueuedFinite, WmiLookingType DEF Wmi!TypeOK
<1>2. SUFFICES ASSUME ~ignored' PROVE Bound'
  BY WmiCardinality DEF Wmi!NothingStranded, WmiQueued
<1> USE DEF Wmi!queueing, Wmi!world, Wmi!history, Wmi!Goto
<1>3. ASSUME ~ignored, wmev' = wmev, notes' = notes, Wmi!Looking' = Wmi!Looking
      PROVE  Bound'
  BY <1>3, WmiCardinality DEF Wmi!NothingStranded, WmiQueued
<1>4. ASSUME ~ignored PROVE Bound
  BY <1>4, WmiCardinality DEF Wmi!NothingStranded, WmiQueued
<1>5. CASE (\E e \in Wmi!Events : Wmi!Raise(e)) \/ Wmi!Query \/ Wmi!ECG1
             \/ (\E on \in BOOLEAN : Wmi!WED0(on)) \/ UNCHANGED Wmi!vars
  <2>1. UNCHANGED <<wmev, notes, wpc, ignored>>
    BY <1>5 DEF Wmi!Raise, Wmi!Query, Wmi!ECG1, Wmi!WED0, Wmi!vars
  <2>2. Wmi!Looking' = Wmi!Looking
    BY <2>1 DEF Wmi!Looking
  <2> QED
    BY <1>2, <1>3, <2>1, <2>2
<1>6. CASE Wmi!WMNF
  <2>1. UNCHANGED <<wpc, ignored>>
    BY <1>6 DEF Wmi!WMNF
  <2>2. Wmi!Looking' = Wmi!Looking
    BY <2>1 DEF Wmi!Looking
  <2>3. CASE found = {}
    BY <1>2, <1>3, <1>6, <2>1, <2>2, <2>3 DEF Wmi!WMNF
  <2>4. CASE found # {}
    <3>1. notes' = notes + 1 /\ wmev' = wmev \cup {Wmi!Next4(found)}
      BY <1>6, <2>4 DEF Wmi!WMNF
    <3>2. WmiQueued' = WmiQueued \/ WmiQueued' = WmiQueued \cup {Wmi!Next4(found)}
      BY <3>1 DEF WmiQueued
    <3>3. Cardinality(WmiQueued') <= Cardinality(WmiQueued) + 1
      BY <1>1, <3>2, FS_AddElement
    <3>4. Cardinality(WmiQueued') \in Nat
      BY <1>1, <3>2, FS_AddElement, FS_CardinalityType
    <3> QED
      BY <1>1, <1>2, <1>4, <2>1, <2>2, <3>1, <3>3, <3>4
  <2> QED
    BY <2>3, <2>4
<1>7. ASSUME NEW w \in Workers, Wmi!Notified(w) PROVE Bound'
  <2>1. /\ wpc[w] = "idle" /\ notes > 0 /\ notes' = notes - 1 /\ wpc' = [wpc EXCEPT ![w] = "wed"]
        /\ UNCHANGED <<wmev, ignored>>
    BY <1>7 DEF Wmi!Notified
  <2>2. Wmi!Looking' = Wmi!Looking + 1
    BY <1>1, <2>1, WmiLookingAfter DEF WmiLookers
  <2> QED
    BY <1>1, <1>2, <1>4, <2>1, <2>2 DEF WmiQueued
<1>8. ASSUME NEW w \in Workers, Wmi!WQAA(w) \/ Wmi!Acquire(w) \/ Wmi!Dock(w)
                                  \/ Wmi!Return(w) \/ Wmi!InfoRelease(w)
      PROVE  Bound'
  <2>1. UNCHANGED <<wmev, notes, ignored>>
    BY <1>8 DEF Wmi!WQAA, Wmi!Acquire, Wmi!WVSP, Wmi!EcAcquire, Wmi!InfoAcquire, Wmi!Dock,
                Wmi!Return, Wmi!InfoRelease
  <2>2. PICK place : /\ wpc' = [wpc EXCEPT ![w] = place]
                     /\ place \in WmiLookers <=> wpc[w] \in WmiLookers
    BY <1>8 DEF Wmi!WQAA, Wmi!Acquire, Wmi!WVSP, Wmi!EcAcquire, Wmi!InfoAcquire, Wmi!Dock,
                Wmi!Return, Wmi!InfoRelease, WmiLookers
  <2>3. Wmi!Looking' = Wmi!Looking
    BY <1>1, <2>2, WmiLookingAfter
  <2> QED
    BY <1>2, <1>3, <2>1, <2>3
\* an event is taken by a call that looked for it
<1>9. ASSUME NEW w \in Workers, NEW e \in WmiQueued, NEW place \in {"return", "ecg4"},
             wpc[w] \in WmiLookers, wpc' = [wpc EXCEPT ![w] = place],
             wmev' = wmev \ {e}, UNCHANGED <<notes, ignored>>
      PROVE  Bound'
  <2>1. Wmi!Looking' = Wmi!Looking - 1
    BY <1>1, <1>9, WmiLookingAfter DEF WmiLookers
  <2>2. WmiQueued' = WmiQueued \ {e}
    BY <1>9 DEF WmiQueued
  <2>3. Cardinality(WmiQueued') = Cardinality(WmiQueued) - 1
    BY <1>1, <2>2, FS_RemoveElement
  <2> QED
    BY <1>1, <1>2, <1>4, <1>9, <2>1, <2>3
<1>10. ASSUME NEW w \in Workers, Wmi!Take(w) PROVE Bound'
  <2>1. wpc[w] = "take" /\ notes' = notes /\ (~ignored' => ecd0 /\ ~ignored)
    BY <1>10 DEF Wmi!Take, Wmi!Describe, Wmi!TypeOK
  <2>2. CASE ecd0 /\ "button" \in wmev
    BY <1>2, <1>9, <1>10, <2>1, <2>2 DEF Wmi!Take, WmiQueued, WmiLookers
  <2>3. CASE ecd0 /\ "button" \notin wmev /\ "dock" \in wmev
    BY <1>2, <1>9, <1>10, <2>1, <2>3 DEF Wmi!Take, WmiQueued, WmiLookers
  <2>4. CASE ecd0 /\ wmev \cap {"button", "dock"} = {} /\ "queue" \in wmev
    <3>1. wpc' = [wpc EXCEPT ![w] = "ec0a"] /\ wmev' = wmev /\ ignored' = ignored
      BY <1>10, <2>4 DEF Wmi!Take
    <3>2. Wmi!Looking' = Wmi!Looking
      BY <1>1, <2>1, <3>1, WmiLookingAfter DEF WmiLookers
    <3> QED
      BY <1>2, <1>3, <2>1, <3>1, <3>2
  <2>5. CASE ecd0 /\ wmev \cap {"button", "dock"} = {} /\ "queue" \notin wmev
    <3>1. wmev' = wmev
      BY <1>10, <2>5 DEF Wmi!Take
    <3>2. WmiQueued' = {}
      BY <2>5, <3>1 DEF WmiQueued, Wmi!TypeOK, Wmi!Events
    <3>3. Wmi!Looking' \in Nat
      <4>1. wpc' = [wpc EXCEPT ![w] = "return"]
        BY <1>10, <2>5 DEF Wmi!Take
      <4>2. w \in {u \in Workers : wpc[u] \in WmiLookers}
        BY <2>1 DEF WmiLookers
      <4>3. Wmi!Looking >= 1
        BY <4>2, WmiSomeLooks
      <4>4. "return" \notin WmiLookers /\ wpc[w] \in WmiLookers
        BY <2>1 DEF WmiLookers
      <4>5. Wmi!Looking' = Wmi!Looking - 1
        BY <4>1, <4>4, WmiLookingAfter
      <4> QED
        BY <1>1, <4>3, <4>5
    <3> QED
      BY <1>1, <2>1, <3>2, <3>3, FS_EmptySet
  <2> QED
    BY <1>2, <2>1, <2>2, <2>3, <2>4, <2>5
<1>11. ASSUME NEW w \in Workers, Wmi!Drain(w) PROVE Bound'
  <2>1. "queue" \in WmiQueued
    BY <1>11 DEF Wmi!Drain, WmiOwn, Wmi!StillQueued, WmiQueued
  <2> QED
    BY <1>9, <1>11, <2>1 DEF Wmi!Drain, WmiLookers
<1> QED
  BY <1>5, <1>6, <1>7, <1>8, <1>10, <1>11 DEF Wmi!Next, Wmi!Nevt, Wmi!Step

-----------------------------------------------------------------------------
(* WmiEvents: the invariant and what it gives.                             *)

LEMMA WmiInit == Wmi!Init => Wmi!IInv
<1> SUFFICES ASSUME Wmi!Init PROVE Wmi!IInv
  OBVIOUS
<1>1. Wmi!TypeOK
  <2>1. /\ wpc \in [Workers -> {"idle", "wed", "take", "ecg4", "dock", "ec0a", "drain",
                               "return", "info", "fill"}]
        /\ took \in [Workers -> Wmi!Contents] /\ wmbu \in Wmi!Contents
        /\ nevt \in {"idle", "read", "raise"}
    BY DEF Wmi!Init, Wmi!Contents
  <2>2. /\ found \subseteq Wmi!Events /\ wmev \subseteq Wmi!Events /\ raised \subseteq Wmi!Events
        /\ wmix \in Workers \cup {"free"} /\ ecmx \in Workers \cup {"free", "nevt"}
    BY DEF Wmi!Init
  <2>3. ecd0 \in BOOLEAN /\ docked \in BOOLEAN /\ told \in BOOLEAN /\ ignored \in BOOLEAN
    BY Zenon DEF Wmi!Init
  <2>4. notes \in Nat /\ events \in 0 .. MaxEvents
    BY WorkersAssumption DEF Wmi!Init
  <2> QED
    BY <2>1, <2>2, <2>3, <2>4 DEF Wmi!TypeOK
<1>2. Wmi!Locked /\ Wmi!Undescribed /\ Wmi!OwnAnswer /\ Wmi!StillQueued
  BY DEF Wmi!Init, Wmi!Locked, Wmi!Undescribed, Wmi!OwnAnswer, Wmi!StillQueued, Wmi!Inside
<1>3. Wmi!PassedOn /\ Wmi!ToldCurrent
  BY DEF Wmi!Init, Wmi!PassedOn, Wmi!ToldCurrent
<1>4. Wmi!NothingStranded
  <2>1. wmev \ {"other"} = {} /\ notes = 0
    BY DEF Wmi!Init
  <2>2. Wmi!Cardinality(wmev \ {"other"}) = 0
    BY <2>1, FS_EmptySet, WmiCardinality
  <2> QED
    BY <2>1, <2>2, WmiLookingType DEF Wmi!NothingStranded
<1> QED
  BY <1>1, <1>2, <1>3, <1>4 DEF Wmi!IInv

(* The inductive invariant of WmiEvents: a call is alone between the       *)
(* Acquire of WMIX and its end, and has described nothing before it has    *)
(* taken an event.                                                         *)
THEOREM WmiInvariant == Wmi!Spec => []Wmi!IInv
<1>1. ASSUME Wmi!IInv, [Wmi!Next]_(Wmi!vars) PROVE Wmi!IInv'
  <2>1. Wmi!TypeOK /\ WmiOwn /\ Wmi!NothingStranded /\ Wmi!PassedOn /\ Wmi!ToldCurrent
    BY <1>1 DEF Wmi!IInv, WmiOwn
  <2>2. Wmi!TypeOK' /\ WmiOwn' /\ Wmi!NothingStranded' /\ Wmi!PassedOn' /\ Wmi!ToldCurrent'
    BY <1>1, <2>1, WmiTypeStep, WmiOwnStep, WmiStrandedStep, WmiToldStep
  <2> QED
    BY <2>2 DEF Wmi!IInv, WmiOwn
<1> QED
  BY <1>1, WmiInit, PTL DEF Wmi!Spec

(* _WED of AMW0 answers what it has described itself, whatever the other   *)
(* methods under WMIX do before its evaluation ends.                       *)
THEOREM AnswersOwn == Wmi!Spec => []OwnAnswer
<1>1. Wmi!IInv => OwnAnswer
  BY DEF Wmi!IInv, OwnAnswer
<1> QED
  BY <1>1, WmiInvariant, PTL

(* As long as ECD0 has made no _WED answer nothing, the events in WMEV are *)
(* no more than the notifications and the calls of _WED still to take one. *)
THEOREM NoEventStranded == Wmi!Spec => []NothingStranded
<1>1. Wmi!IInv => NothingStranded
  BY DEF Wmi!IInv, NothingStranded
<1> QED
  BY <1>1, WmiInvariant, PTL

(* Once no docking event is on its way, the state _WED told the OS last is *)
(* the one ECG4 would read.                                                *)
THEOREM OsToldCurrent == Wmi!Spec => []ToldCurrent
<1>1. Wmi!IInv => ToldCurrent
  BY DEF Wmi!IInv, ToldCurrent
<1> QED
  BY <1>1, WmiInvariant, PTL

-----------------------------------------------------------------------------
(* WmiEvents: every call ends, and so does NEVT.                           *)

\* What a call still has before it.
WmiStepsLeft(w) ==
  CASE wpc[w] = "wed" -> 5
    [] wpc[w] = "take" -> 4
    [] wpc[w] \in {"ecg4", "ec0a"} -> 3
    [] wpc[w] \in {"dock", "drain", "info"} -> 2
    [] wpc[w] \in {"return", "fill"} -> 1
    [] OTHER -> 0

\* What NEVT has: the events it may find, and those it has found.
NevtStepsLeft ==
  CASE nevt = "read" -> Cardinality(Wmi!Events) + 2
    [] nevt = "raise" -> Cardinality(found) + 1
    [] OTHER -> 0

(* Who holds a mutex can go on: the holder of ECMX waits for nothing, and  *)
(* the holder of WMIX for ECMX at the most, so the two never close a ring. *)
HoldersGoOn ==
  /\ wmix # "free" => wpc[wmix] \in Wmi!Inside
  /\ \A w \in Workers : ecmx = w <=> wpc[w] \in {"dock", "drain"}
  /\ ecmx = "nevt" <=> nevt = "read"

(* A step of a call, the taking of a mutex included, uses up one of those  *)
(* it has left; nobody else gives a running call any.                      *)
WmiStepsRunOut ==
  [][/\ \A w \in Workers : Wmi!Acquire(w) \/ Wmi!Step(w)
                             => WmiStepsLeft(w)' < WmiStepsLeft(w)
     /\ \A w \in Workers : wpc[w] # "idle" => WmiStepsLeft(w)' <= WmiStepsLeft(w)
     /\ Wmi!Nevt => NevtStepsLeft' < NevtStepsLeft
     /\ nevt # "idle" => NevtStepsLeft' <= NevtStepsLeft]_(Wmi!vars)

WmiPlaces == {"idle", "wed", "take", "ecg4", "dock", "ec0a", "drain", "return", "info", "fill"}

LEMMA HoldersGoOnStep ==
  ASSUME Wmi!TypeOK, Wmi!Locked, HoldersGoOn, [Wmi!Next]_(Wmi!vars)
  PROVE  HoldersGoOn'
<1>0. /\ wpc \in [Workers -> WmiPlaces]
      /\ wmix \in Workers \cup {"free"} /\ ecmx \in Workers \cup {"free", "nevt"}
      /\ "free" \notin Workers /\ "nevt" \notin Workers
  BY WorkersAssumption DEF Wmi!TypeOK, WmiPlaces
<1> USE DEF HoldersGoOn, Wmi!Inside, Wmi!queueing, Wmi!world, Wmi!history, Wmi!Goto, WmiPlaces
<1>1. CASE UNCHANGED <<wpc, nevt, wmix, ecmx>>
  BY <1>1
<1>2. CASE \/ \E e \in Wmi!Events : Wmi!Raise(e)
           \/ \E on \in BOOLEAN : Wmi!WED0(on)
           \/ UNCHANGED Wmi!vars
  BY <1>1, <1>2 DEF Wmi!Raise, Wmi!WED0, Wmi!vars
<1>3. CASE Wmi!Query \/ Wmi!ECG1 \/ Wmi!WMNF
  BY <1>0, <1>3 DEF Wmi!Query, Wmi!ECG1, Wmi!WMNF
<1>4. ASSUME NEW w \in Workers, Wmi!Notified(w) \/ Wmi!WQAA(w) PROVE HoldersGoOn'
  BY <1>0, <1>4 DEF Wmi!Notified, Wmi!WQAA
<1>5. ASSUME NEW w \in Workers, Wmi!Acquire(w) PROVE HoldersGoOn'
  <2>1. CASE Wmi!WVSP(w) \/ Wmi!InfoAcquire(w)
    BY <1>0, <2>1 DEF Wmi!WVSP, Wmi!InfoAcquire
  <2>2. CASE Wmi!EcAcquire(w)
    BY <1>0, <2>2 DEF Wmi!EcAcquire
  <2>3. QED
    BY <1>5, <2>1, <2>2 DEF Wmi!Acquire
<1>6. ASSUME NEW w \in Workers, Wmi!Step(w) PROVE HoldersGoOn'
  <2>1. CASE Wmi!Take(w)
    BY <1>0, <2>1 DEF Wmi!Take, Wmi!Describe
  <2>2. CASE Wmi!Dock(w) \/ Wmi!Drain(w)
    BY <1>0, <2>2 DEF Wmi!Dock, Wmi!Drain
  <2>3. CASE Wmi!Return(w) \/ Wmi!InfoRelease(w)
    <3>1. wmix = w
      BY <2>3 DEF Wmi!Locked, Wmi!Return, Wmi!InfoRelease
    <3>2. QED
      BY <1>0, <2>3, <3>1 DEF Wmi!Return, Wmi!InfoRelease
  <2>4. QED
    BY <1>6, <2>1, <2>2, <2>3 DEF Wmi!Step
<1>7. QED
  BY <1>2, <1>3, <1>4, <1>5, <1>6 DEF Wmi!Next, Wmi!Nevt

(* The places of a call come in one order only.                            *)
LEMMA WmiOwnCloser ==
  ASSUME Wmi!TypeOK, NEW w \in Workers, Wmi!Acquire(w) \/ Wmi!Step(w)
  PROVE  WmiStepsLeft(w)' < WmiStepsLeft(w)
<1> USE DEF Wmi!TypeOK, Wmi!Goto, WmiStepsLeft
<1>1. CASE Wmi!Acquire(w)
  BY <1>1 DEF Wmi!Acquire, Wmi!WVSP, Wmi!EcAcquire, Wmi!InfoAcquire
<1>2. CASE Wmi!Take(w)
  BY <1>2 DEF Wmi!Take
<1>3. CASE Wmi!Dock(w) \/ Wmi!Drain(w) \/ Wmi!Return(w) \/ Wmi!InfoRelease(w)
  BY <1>3 DEF Wmi!Dock, Wmi!Drain, Wmi!Return, Wmi!InfoRelease
<1>4. QED
  BY <1>1, <1>2, <1>3 DEF Wmi!Step

LEMMA WmiOthersKeep ==
  ASSUME Wmi!TypeOK, [Wmi!Next]_(Wmi!vars), NEW w \in Workers, wpc[w] # "idle",
         ~Wmi!Acquire(w), ~Wmi!Step(w)
  PROVE  wpc'[w] = wpc[w]
<1> USE DEF Wmi!TypeOK, Wmi!Goto
<1>1. CASE \/ \E e \in Wmi!Events : Wmi!Raise(e)
           \/ \E on \in BOOLEAN : Wmi!WED0(on)
           \/ Wmi!Query \/ Wmi!Nevt \/ UNCHANGED Wmi!vars
  BY <1>1 DEF Wmi!Raise, Wmi!WED0, Wmi!Query, Wmi!Nevt, Wmi!ECG1, Wmi!WMNF, Wmi!vars
<1>2. ASSUME NEW u \in Workers, Wmi!Notified(u) \/ Wmi!WQAA(u) PROVE wpc'[w] = wpc[w]
  BY <1>2 DEF Wmi!Notified, Wmi!WQAA
<1>3. ASSUME NEW u \in Workers, u # w, Wmi!Acquire(u) PROVE wpc'[w] = wpc[w]
  BY <1>3 DEF Wmi!Acquire, Wmi!WVSP, Wmi!EcAcquire, Wmi!InfoAcquire
<1>4. ASSUME NEW u \in Workers, u # w, Wmi!Step(u) PROVE wpc'[w] = wpc[w]
  BY <1>4 DEF Wmi!Step, Wmi!Take, Wmi!Dock, Wmi!Drain, Wmi!Return, Wmi!InfoRelease
<1>5. QED
  BY <1>1, <1>2, <1>3, <1>4 DEF Wmi!Next

(* NEVT reads at most the events there are, and passes one on each time.   *)
LEMMA NevtCloser ==
  ASSUME Wmi!TypeOK, Wmi!Nevt
  PROVE  NevtStepsLeft' < NevtStepsLeft
<1>1. IsFiniteSet(found) /\ Cardinality(Wmi!Events) \in Nat /\ Cardinality(found) \in Nat
  BY EventsCounted DEF Wmi!TypeOK
<1>2. CASE Wmi!ECG1
  <2>1. nevt = "read" /\ nevt' = "raise" /\ found' \in SUBSET Wmi!Events
    BY <1>2 DEF Wmi!ECG1, Wmi!TypeOK
  <2>2. Cardinality(found') <= Cardinality(Wmi!Events) /\ Cardinality(found') \in Nat
    BY <2>1, EventsCounted
  <2>3. QED
    BY <1>1, <2>1, <2>2 DEF NevtStepsLeft
<1>3. CASE Wmi!WMNF
  <2>1. CASE found = {}
    BY <1>1, <1>3, <2>1 DEF Wmi!WMNF, NevtStepsLeft
  <2>2. CASE found # {}
    <3>1. Wmi!Next4(found) \in found
      BY <2>2, NextFound DEF Wmi!TypeOK
    <3>2. nevt = "raise" /\ nevt' = "raise" /\ found' = found \ {Wmi!Next4(found)}
      BY <1>3, <2>2 DEF Wmi!WMNF
    <3>3. Cardinality(found') = Cardinality(found) - 1
      BY <1>1, <3>1, <3>2, FS_RemoveElement
    <3>4. QED
      BY <1>1, <3>2, <3>3 DEF NevtStepsLeft
  <2>3. QED
    BY <2>1, <2>2
<1>4. QED
  BY <1>2, <1>3 DEF Wmi!Nevt

LEMMA NevtKept ==
  ASSUME Wmi!TypeOK, [Wmi!Next]_(Wmi!vars), nevt # "idle", ~Wmi!Nevt
  PROVE  UNCHANGED <<nevt, found>>
<1> USE DEF Wmi!queueing
<1>1. CASE \/ \E e \in Wmi!Events : Wmi!Raise(e)
           \/ \E on \in BOOLEAN : Wmi!WED0(on)
           \/ Wmi!Query \/ UNCHANGED Wmi!vars
  BY <1>1 DEF Wmi!Raise, Wmi!WED0, Wmi!Query, Wmi!vars
<1>2. ASSUME NEW u \in Workers, Wmi!Notified(u) \/ Wmi!WQAA(u) \/ Wmi!Acquire(u)
      PROVE  UNCHANGED <<nevt, found>>
  BY <1>2 DEF Wmi!Notified, Wmi!WQAA, Wmi!Acquire, Wmi!WVSP, Wmi!EcAcquire, Wmi!InfoAcquire
<1>3. ASSUME NEW u \in Workers, Wmi!Step(u) PROVE UNCHANGED <<nevt, found>>
  BY <1>3 DEF Wmi!Step, Wmi!Take, Wmi!Dock, Wmi!Drain, Wmi!Return, Wmi!InfoRelease
<1>4. QED
  BY <1>1, <1>2, <1>3 DEF Wmi!Next

(* Why CallsReturn holds under the fairness stated: a call is at most five *)
(* steps from its end, nothing sets it back, and whoever holds a mutex it  *)
(* waits for can go on.                                                    *)
THEOREM WmiCallsRunOut == Wmi!Spec => []HoldersGoOn /\ WmiStepsRunOut
<1>1. Wmi!Init => HoldersGoOn
  BY WorkersAssumption DEF Wmi!Init, HoldersGoOn
<1>2. Wmi!IInv /\ HoldersGoOn /\ [Wmi!Next]_(Wmi!vars) => HoldersGoOn'
  BY HoldersGoOnStep DEF Wmi!IInv
<1>3. Wmi!IInv /\ [Wmi!Next]_(Wmi!vars) =>
      [/\ \A w \in Workers : Wmi!Acquire(w) \/ Wmi!Step(w)
                               => WmiStepsLeft(w)' < WmiStepsLeft(w)
       /\ \A w \in Workers : wpc[w] # "idle" => WmiStepsLeft(w)' <= WmiStepsLeft(w)
       /\ Wmi!Nevt => NevtStepsLeft' < NevtStepsLeft
       /\ nevt # "idle" => NevtStepsLeft' <= NevtStepsLeft]_(Wmi!vars)
  <2> SUFFICES ASSUME Wmi!IInv, [Wmi!Next]_(Wmi!vars)
               PROVE  /\ \A w \in Workers : Wmi!Acquire(w) \/ Wmi!Step(w)
                                              => WmiStepsLeft(w)' < WmiStepsLeft(w)
                      /\ \A w \in Workers : wpc[w] # "idle"
                                              => WmiStepsLeft(w)' <= WmiStepsLeft(w)
                      /\ Wmi!Nevt => NevtStepsLeft' < NevtStepsLeft
                      /\ nevt # "idle" => NevtStepsLeft' <= NevtStepsLeft
    OBVIOUS
  <2>1. Wmi!TypeOK /\ Wmi!TypeOK'
    BY WmiTypeStep DEF Wmi!IInv
  <2>2. \A w \in Workers : Wmi!Acquire(w) \/ Wmi!Step(w) => WmiStepsLeft(w)' < WmiStepsLeft(w)
    BY <2>1, WmiOwnCloser
  <2>3. \A w \in Workers : wpc[w] # "idle" => WmiStepsLeft(w)' <= WmiStepsLeft(w)
    <3> TAKE w \in Workers
    <3>1. WmiStepsLeft(w) \in Int /\ WmiStepsLeft(w)' \in Int
      BY DEF WmiStepsLeft
    <3>2. CASE Wmi!Acquire(w) \/ Wmi!Step(w)
      BY <2>2, <3>1, <3>2
    <3>3. CASE ~Wmi!Acquire(w) /\ ~Wmi!Step(w) /\ wpc[w] # "idle"
      <4>1. wpc'[w] = wpc[w]
        BY <2>1, <3>3, WmiOthersKeep
      <4>2. WmiStepsLeft(w)' = WmiStepsLeft(w)
        BY <4>1 DEF WmiStepsLeft
      <4>3. QED
        BY <3>1, <4>2
    <3>4. QED
      BY <3>2, <3>3
  <2>4. Wmi!Nevt => NevtStepsLeft' < NevtStepsLeft
    BY <2>1, NevtCloser
  <2>5. nevt # "idle" => NevtStepsLeft' <= NevtStepsLeft
    <3>1. NevtStepsLeft \in Int /\ NevtStepsLeft' \in Int
      <4>1. /\ Cardinality(found) \in Nat /\ Cardinality(found') \in Nat
            /\ Cardinality(Wmi!Events) \in Nat
        BY <2>1, EventsCounted DEF Wmi!TypeOK
      <4>2. QED
        BY <4>1 DEF NevtStepsLeft
    <3>2. ~Wmi!Nevt /\ nevt # "idle" => NevtStepsLeft' = NevtStepsLeft
      BY <2>1, NevtKept DEF NevtStepsLeft
    <3>3. QED
      BY <2>4, <3>1, <3>2
  <2>6. QED
    BY <2>2, <2>3, <2>4, <2>5
<1>4. QED
  BY <1>1, <1>2, <1>3, WmiInvariant, PTL DEF Wmi!Spec, WmiStepsRunOut

-----------------------------------------------------------------------------
(* BatteryCombiner: the answer is made of what the batteries report.       *)

LEMMA PackageHasType ==
  ASSUME TypeOK, NEW b \in Batteries PROVE Package(method, battery[b]) \in Packages
BY DEF TypeOK, Packages

LEMMA BatteryTypeStep == ASSUME TypeOK, [Next]_vars PROVE TypeOK'
<1> DEFINE Places == {"idle", "data0", "sta0", "data1", "sta1", "combine", "done"}
           Kept == battery' = battery /\ method' = method
           Locals == package' = package /\ state' = state /\ status' = status
<1>1. ASSUME NEW b \in Batteries, Change(b) PROVE TypeOK'
  <2>1. battery' \in [Batteries -> Reports] /\ steady' \in BOOLEAN
    BY <1>1 DEF Change, TypeOK
  <2> QED
    BY <1>1, <2>1 DEF Change, TypeOK
<1>2. ASSUME NEW b \in Batteries, Data(b) PROVE TypeOK'
  <2>1. package' \in [Batteries -> Packages]
    <3>1. Package(method, battery[b]) \in Packages
      BY PackageHasType
    <3> HIDE DEF Package, Packages
    <3> QED
      BY <1>2, <3>1 DEF Data, TypeOK
  <2>2. state' \in [Batteries -> States]
    BY <1>2 DEF Data, TypeOK, States
  <2>3. pc' \in Places
    BY <1>2 DEF Data
  <2>4. UNCHANGED <<battery, method, status, steady>>
    BY <1>2 DEF Data
  <2> QED
    BY <2>1, <2>2, <2>3, <2>4 DEF TypeOK
<1>3. ASSUME NEW b \in Batteries, Sta(b) PROVE TypeOK'
  <2>1. status' \in [Batteries -> BOOLEAN]
    <3>1. (battery[b].present /\ Valid(method, package[b])) \in BOOLEAN
      OBVIOUS
    <3> QED
      BY <1>3, <3>1, Zenon DEF Sta, TypeOK
  <2>2. pc' \in Places
    BY <1>3 DEF Sta
  <2>3. UNCHANGED <<battery, method, package, state, steady>>
    BY <1>3 DEF Sta
  <2> QED
    BY <2>1, <2>2, <2>3 DEF TypeOK
<1>4. ASSUME NEW m \in Methods, Call(m) PROVE TypeOK'
  BY <1>4 DEF Call, TypeOK
<1>5. CASE Combine
  <2>1. package' \in [Batteries -> Packages] /\ state' \in [Batteries -> States]
        /\ status' \in [Batteries -> BOOLEAN]
    BY <1>5 DEF Combine, Forget, Packages, States
  <2> QED
    BY <1>5, <2>1 DEF Combine, TypeOK
<1>6. CASE UNCHANGED vars
  BY <1>6 DEF vars, TypeOK
<1> QED
  BY <1>1, <1>2, <1>3, <1>4, <1>5, <1>6 DEF Next

LEMMA BatteryGathersStep ==
  ASSUME TypeOK, Gathered, [Next]_vars PROVE Gathered'
<1> DEFINE Got(b) == /\ pc \in Read(b) => /\ package[b] = Package(method, battery[b])
                                          /\ state[b] = battery[b].state
                     /\ pc \in Asked(b) => status[b] = ValidNow(b)
<1>0. Batteries = {0, 1}
  BY DEF Batteries
<1>1. SUFFICES ASSUME steady', NEW c \in Batteries PROVE Got(c)'
  BY DEF Gathered
<1>2. ASSUME NEW b \in Batteries, Change(b) PROVE FALSE
  BY <1>1, <1>2 DEF Change
<1>3. ASSUME steady PROVE Got(c)
  BY <1>3 DEF Gathered
<1>4. ASSUME NEW b \in Batteries, Data(b) PROVE Got(c)'
  <2>1. steady /\ battery' = battery /\ method' = method /\ status' = status
    BY <1>1, <1>4 DEF Data
  <2>2. CASE c = b
    <3>1. package'[c] = Package(method, battery[c]) /\ state'[c] = battery[c].state
      BY <1>4, <2>2 DEF Data, TypeOK
    <3>2. pc' \notin Asked(c)
      BY <1>0, <1>4, <2>2 DEF Data, Asked
    <3> QED
      BY <2>1, <3>1, <3>2
  <2>3. CASE c # b
    <3>1. package'[c] = package[c] /\ state'[c] = state[c]
      BY <1>4, <2>3 DEF Data, TypeOK
    <3>2. (pc' \in Read(c) => pc \in Read(c)) /\ (pc' \in Asked(c) => pc \in Asked(c))
      BY <1>0, <1>4, <2>3 DEF Data, Read, Asked
    <3>3. ValidNow(c)' = ValidNow(c)
      BY <2>1 DEF ValidNow
    <3> QED
      BY <1>3, <2>1, <3>1, <3>2, <3>3
  <2> QED
    BY <2>2, <2>3
<1>5. ASSUME NEW b \in Batteries, Sta(b) PROVE Got(c)'
  <2>1. steady /\ UNCHANGED <<battery, method, package, state>>
    BY <1>1, <1>5 DEF Sta
  <2>2. pc' \in Read(c) => pc \in Read(c)
    BY <1>0, <1>5, <2>1 DEF Sta, Read
  <2>3. ValidNow(c)' = ValidNow(c)
    BY <2>1 DEF ValidNow
  <2>4. CASE c = b
    <3>1. pc \in Read(c)
      BY <1>0, <1>5, <2>4 DEF Sta, Read
    <3>2. package[c] = Package(method, battery[c])
      BY <1>3, <2>1, <3>1
    <3>3. status'[c] = (battery[c].present /\ Valid(method, package[c]))
      BY <1>5, <2>4 DEF Sta, TypeOK
    <3>4. status'[c] = ValidNow(c)
      BY <3>2, <3>3 DEF ValidNow
    <3> QED
      BY <1>3, <2>1, <2>2, <2>3, <3>4
  <2>5. CASE c # b
    <3>1. status'[c] = status[c]
      BY <1>5, <2>5 DEF Sta, TypeOK
    <3>2. pc' \in Asked(c) => pc \in Asked(c)
      BY <1>0, <1>5, <2>5 DEF Sta, Asked
    <3> QED
      BY <1>3, <2>1, <2>2, <2>3, <3>1, <3>2
  <2> QED
    BY <2>4, <2>5
<1>6. CASE (\E m \in Methods : Call(m)) \/ Combine
  BY <1>6 DEF Call, Combine, Read, Asked
<1>7. CASE UNCHANGED vars
  BY <1>1, <1>3, <1>7 DEF vars, Read, Asked, ValidNow
<1> QED
  BY <1>2, <1>4, <1>5, <1>6, <1>7 DEF Next


LEMMA BatteryAnswersStep ==
  ASSUME TypeOK, Gathered, AnswerRight, [Next]_vars PROVE AnswerRight'
<1>1. CASE (\E b \in Batteries : Change(b) \/ Data(b) \/ Sta(b)) \/ (\E m \in Methods : Call(m))
  <2>1. ~Answered'
    BY <1>1 DEF Change, Data, Sta, Call, Answered
  <2> QED
    BY <2>1 DEF AnswerRight
<1>2. CASE Combine
  <2> DEFINE One == IF ValidNow(1) THEN 1 ELSE 0
  <2>1. SUFFICES ASSUME steady PROVE AnswerRight'
    BY <1>2 DEF Combine, AnswerRight, Answered
  <2>2. UNCHANGED <<battery, method>>
    BY <1>2 DEF Combine
  <2>3. \A b \in Batteries : /\ package[b] = Package(method, battery[b])
                             /\ state[b] = battery[b].state
                             /\ status[b] = ValidNow(b)
    BY <1>2, <2>1 DEF Gathered, Combine, Read, Asked
  <2>4. 0 \in Batteries /\ 1 \in Batteries /\ One \in Batteries
    BY DEF Batteries
  <2>5. BothValid <=> status[0] /\ status[1]
    BY <2>3 DEF BothValid, Both, ValidNow, Batteries
  <2>6. DOMAIN Package(method, battery[0]) = DOMAIN Field(method)
    BY DEF Package
  <2>7. CASE BothValid
    <3>1. answer' = [package |-> [i \in DOMAIN package[0] |->
                                   Combined(How(method)[i], package[0][i], package[1][i])],
                     state |-> CombinedState(state[0], state[1])]
      BY <1>2, <2>5, <2>7 DEF Combine
    <3>2. /\ answer'.package = [i \in DOMAIN package[0] |->
                                 Combined(How(method)[i], package[0][i], package[1][i])]
          /\ answer'.state = CombinedState(state[0], state[1])
      BY <3>1
    <3>3. BothValid'
      BY <2>2, <2>7 DEF BothValid, Both
    <3> HIDE DEF One
    <3> QED
      BY <2>2, <2>3, <2>4, <2>6, <3>2, <3>3 DEF AnswerRight
  <2>8. CASE ~BothValid
    <3>1. answer' = [package |-> package[One], state |-> state[One]]
      <4>1. status[1] = ValidNow(1)
        BY <2>3, <2>4
      <4> QED
        BY <1>2, <2>5, <2>8, <4>1 DEF Combine
    <3>2. answer'.package = Package(method, battery[One]) /\ answer'.state = battery[One].state
      BY <2>3, <2>4, <3>1
    <3>3. ~BothValid'
      BY <2>2, <2>8 DEF BothValid, Both
    <3>4. ValidNow(1)' = ValidNow(1)
      BY <2>2 DEF ValidNow
    <3> QED
      BY <2>2, <3>2, <3>3, <3>4 DEF AnswerRight
  <2> QED
    BY <2>7, <2>8
<1>3. CASE UNCHANGED vars
  BY <1>3 DEF vars, AnswerRight, Answered, BothValid, Both, ValidNow
<1> QED
  BY <1>1, <1>2, <1>3 DEF Next

(* The inductive invariant of BatteryCombiner: while nothing changes, the  *)
(* locals of the method hold what the batteries report, and the answer is  *)
(* combined from that.                                                     *)
THEOREM BatteryInvariant == Spec => []BatteryInv
<1>1. Init => BatteryInv
  <2> SUFFICES ASSUME Init PROVE BatteryInv
    OBVIOUS
  <2>1. package \in [Batteries -> Packages] /\ state \in [Batteries -> States]
    BY DEF Init, Packages, States
  <2>2. TypeOK
    BY <2>1 DEF Init, TypeOK
  <2>3. Gathered /\ AnswerRight
    BY DEF Init, Gathered, AnswerRight, Answered, Read, Asked
  <2> QED
    BY <2>2, <2>3 DEF BatteryInv
<1>2. BatteryInv /\ [Next]_vars => BatteryInv'
  BY BatteryTypeStep, BatteryGathersStep, BatteryAnswersStep DEF BatteryInv
<1> QED
  BY <1>1, <1>2, PTL DEF Spec


-----------------------------------------------------------------------------
(* BatteryCombiner: what that says of the report.                          *)

(* With one battery in the machine, it is the one that is passed on.       *)
LEMMA OneIsReported == BatteryInv => ReportsTheOne
<1> SUFFICES ASSUME BatteryInv, NEW b \in Batteries, Answered, OnlyOne(b),
                    Valid(method, Package(method, battery[b]))
             PROVE  /\ answer.package = Package(method, battery[b])
                    /\ answer.state = battery[b].state
  BY DEF ReportsTheOne
<1>1. b \in {0, 1}
  BY DEF Batteries
<1>2. ~battery[1 - b].present /\ 1 - b \in Batteries
  BY <1>1 DEF OnlyOne, Batteries
<1>3. ~BothValid
  BY <1>2 DEF BothValid, Both
<1>4. b = IF ValidNow(1) THEN 1 ELSE 0
  <2>1. CASE b = 1
    BY <2>1 DEF ValidNow, OnlyOne
  <2>2. CASE b = 0
    <3>1. ~ValidNow(1)
      BY <1>2, <2>2 DEF ValidNow
    <3> QED
      BY <2>2, <3>1
  <2> QED
    BY <1>1, <2>1, <2>2
<1> QED
  BY <1>3, <1>4 DEF BatteryInv, AnswerRight

(* Where the package is guarded against unknown values, one leaves that of *)
(* the first battery.                                                      *)
LEMMA UnknownIsNotMixed == BatteryInv => KnownOrFirst
<1> DEFINE Its(b) == Package(method, battery[b])
<1> SUFFICES ASSUME BatteryInv, Answered, NEW i \in DOMAIN answer.package,
                    How(method)[i] \in {"add", "mean"}, ~Known(method, i)
             PROVE  \E b \in Batteries : answer.package[i] = Its(b)[i]
  BY DEF KnownOrFirst
<1>1. CASE BothValid
  <2>1. PICK b \in Batteries : Its(b)[i] = Unknown
    BY DEF Known
  <2>2. Unknown \in {Its(0)[i], Its(1)[i]}
    BY <2>1 DEF Batteries
  <2>3. answer.package = [j \in DOMAIN Field(method) |->
                           Combined(How(method)[j], Its(0)[j], Its(1)[j])]
    BY <1>1 DEF BatteryInv, AnswerRight
  <2>4. answer.package[i] = Combined(How(method)[i], Its(0)[i], Its(1)[i])
    BY <2>3
  <2>5. answer.package[i] = Its(0)[i]
    BY <2>2, <2>4 DEF Combined
  <2> QED
    BY <2>5 DEF Batteries
<1>2. CASE ~BothValid
  BY <1>2 DEF BatteryInv, AnswerRight, Batteries
<1> QED
  BY <1>1, <1>2

(* The package of _BST, field by field.                                    *)
LEMMA ChargeField ==
  ASSUME NEW r \in Reports
  PROVE  /\ DOMAIN Field("_BST") = 1 .. 3 /\ How("_BST")[2] = "addAny"
         /\ Package("_BST", r)[2] = r.remaining
         /\ Valid("_BST", Package("_BST", r)) <=> r.remaining # 0
<1>1. Field("_BST") = <<"rate", "remaining", "voltage">>
  BY DEF Field
<1>2. DOMAIN Field("_BST") = 1 .. 3 /\ Field("_BST")[2] = "remaining"
  BY <1>1
<1>3. How("_BST")[2] = "addAny"
  BY DEF How
<1>4. Package("_BST", r)[2] = r.remaining
  BY <1>2 DEF Package
<1>5. Checked("_BST") = {2}
  BY DEF Checked
<1>6. r.remaining # Ones
  BY WidthAssumption, ReportsAssumption
<1> QED
  BY <1>2, <1>3, <1>4, <1>5, <1>6 DEF Valid

(* The charge of a battery that is passed on is no more than its capacity; *)
(* the sum of two charges no more than the sum of the capacities.          *)
LEMMA ChargeIsBounded == BatteryInv => ChargeFits
<1> SUFFICES ASSUME BatteryInv, Answered, method = "_BST",
                    \E b \in Batteries : battery[b].present /\ battery[b].remaining > 0,
                    \A b \in Batteries : battery[b].present => Sound(battery[b])
             PROVE  answer.package[2] <= Capacity
  BY DEF ChargeFits
<1>1. \A b \in Batteries : battery[b] \in Reports
  BY DEF BatteryInv, TypeOK
<1>2. \A b \in Batteries : battery[b].present =>
        /\ battery[b].full \in Nat /\ battery[b].remaining \in Nat
        /\ battery[b].remaining <= battery[b].full
  BY WidthAssumption DEF Sound
<1>3. \A b \in Batteries : ValidNow(b) <=> battery[b].present /\ battery[b].remaining # 0
  BY <1>1, ChargeField DEF ValidNow
<1>4. 0 \in Batteries /\ 1 \in Batteries /\ \A b \in Batteries : b = 0 \/ b = 1
  BY DEF Batteries
<1>5. /\ battery[0].present /\ battery[1].present => Capacity = battery[0].full + battery[1].full
      /\ ~battery[0].present /\ battery[1].present => Capacity = battery[1].full
      /\ battery[0].present /\ ~battery[1].present => Capacity = battery[0].full
  <2> DEFINE have == {b \in Batteries : battery[b].present /\ Sound(battery[b])}
  <2>1. have = {b \in Batteries : battery[b].present}
    OBVIOUS
  <2>2. /\ battery[0].present /\ battery[1].present => have = Batteries
        /\ ~battery[0].present /\ battery[1].present => have = {1} /\ have # Batteries
        /\ battery[0].present /\ ~battery[1].present => have # {1} /\ have # Batteries
    BY <1>4, <2>1
  <2>3. Capacity = IF have = Batteries THEN battery[0].full + battery[1].full
                   ELSE IF have = {1} THEN battery[1].full ELSE battery[0].full
    BY DEF Capacity
  <2> HIDE DEF have
  <2> QED
    BY <2>2, <2>3
<1>6. CASE BothValid
  <2>1. answer.package = [i \in DOMAIN Field("_BST") |->
                           Combined(How("_BST")[i], Package("_BST", battery[0])[i],
                                                    Package("_BST", battery[1])[i])]
    BY <1>6 DEF BatteryInv, AnswerRight
  <2>2. answer.package[2] = Combined("addAny", battery[0].remaining, battery[1].remaining)
    BY <1>1, <1>4, <2>1, ChargeField
  <2>3. answer.package[2] = battery[0].remaining + battery[1].remaining
    BY <2>2 DEF Combined
  <2>4. battery[0].present /\ battery[1].present
    BY <1>4, <1>6 DEF BothValid, Both
  <2> QED
    BY <1>2, <1>4, <1>5, <2>3, <2>4
<1>7. CASE ~BothValid
  <2> DEFINE One == IF ValidNow(1) THEN 1 ELSE 0
  <2>1. answer.package = Package("_BST", battery[One])
    BY <1>7 DEF BatteryInv, AnswerRight
  <2>2. One \in Batteries
    BY <1>4
  <2>3. answer.package[2] = battery[One].remaining
    BY <1>1, <2>1, <2>2, ChargeField
  <2>4. CASE ValidNow(1)
    <3>1. answer.package[2] = battery[1].remaining /\ battery[1].present
      BY <1>3, <1>4, <2>3, <2>4
    <3>2. battery[0].present => battery[0].full \in Nat
      BY <1>2, <1>4
    <3>3. Capacity = battery[1].full \/ (battery[0].present /\ Capacity = battery[0].full + battery[1].full)
      BY <1>5, <3>1
    <3> QED
      BY <1>2, <1>4, <3>1, <3>2, <3>3
  <2>5. CASE ~ValidNow(1)
    <3>1. answer.package[2] = battery[0].remaining
      BY <2>3, <2>5
    <3>2. ~battery[1].present \/ battery[1].remaining = 0
      BY <1>3, <1>4, <2>5
    <3>3. battery[0].present
      BY <1>4, <3>2
    <3>4. battery[1].present => battery[1].full \in Nat
      BY <1>2, <1>4
    <3>5. Capacity = battery[0].full \/ (battery[1].present /\ Capacity = battery[0].full + battery[1].full)
      BY <1>5, <3>3
    <3> QED
      BY <1>2, <1>4, <3>1, <3>3, <3>4, <3>5
  <2> QED
    BY <2>4, <2>5
<1> QED
  BY <1>6, <1>7

(* Of two batteries that charge, discharge or rest, one that charges makes *)
(* the combined state charging.                                            *)
LEMMA ChargingIsReported == BatteryInv => ChargingIfOne
<1> SUFFICES ASSUME BatteryInv, Answered, method = "_BST", BothValid,
                    \A b \in Batteries : Plain(battery[b].state)
             PROVE  Charging(answer.state) <=> \E b \in Batteries : Charging(battery[b].state)
  BY DEF ChargingIfOne
<1>1. answer.state = CombinedState(battery[0].state, battery[1].state)
  BY DEF BatteryInv, AnswerRight
<1>2. battery[0].state \in {0, 1, 2} /\ battery[1].state \in {0, 1, 2}
  BY DEF Plain, Batteries
<1>3. \A s \in {0, 1, 2} : Charging(s) <=> s = 2
  BY DEF Charging
<1>4. /\ answer.state \in {0, 1, 2}
      /\ answer.state = 2 <=> 2 \in {battery[0].state, battery[1].state}
  <2> DEFINE reported == {battery[0].state, battery[1].state} \cap 1 .. 5
  <2>1. answer.state = IF reported = {} THEN battery[0].state
                       ELSE IF 2 \in reported THEN 2
                       ELSE CHOOSE n \in reported : \A k \in reported : n <= k
    BY <1>1 DEF CombinedState
  <2>2. CASE reported = {}
    <3>1. battery[0].state = 0 /\ battery[1].state = 0
      <4>1. battery[0].state \notin reported /\ battery[1].state \notin reported
        BY <2>2
      <4>2. battery[0].state \notin 1 .. 5 /\ battery[1].state \notin 1 .. 5
        BY <4>1
      <4> QED
        BY <1>2, <4>2
    <3>2. answer.state = battery[0].state
      <4> HIDE DEF reported
      <4> QED
        BY <2>1, <2>2
    <3> QED
      BY <3>1, <3>2
  <2>3. CASE 2 \in reported
    BY <2>1, <2>3
  <2>4. CASE reported # {} /\ 2 \notin reported
    <3>1. reported = {1}
      BY <1>2, <2>4
    <3> HIDE DEF reported
    <3>2. answer.state = 1
      BY <2>1, <3>1
    <3> QED
      BY <2>4, <3>2 DEF reported
  <2> QED
    BY <2>2, <2>3, <2>4
<1> QED
  BY <1>2, <1>3, <1>4 DEF Batteries

(* What BATC answers, if nothing changes while it asks, is sound: the      *)
(* battery that is there, nothing unknown mixed in, no more charge than    *)
(* there is room for, and charging if one battery is.                      *)
THEOREM ReportIsSound == Spec => []ReportSound
<1>1. BatteryInv => ReportSound
  BY OneIsReported, UnknownIsNotMixed, ChargeIsBounded, ChargingIsReported DEF ReportSound
<1> QED
  BY <1>1, BatteryInvariant, PTL


-----------------------------------------------------------------------------
(* EcBanks: the accesses of a method, by their position.                   *)

Accesses == [op : {"acquire", "timed", "ignored", "release", "read", "write"},
             x : Nat \cup {"ECM1", "PATM"}, y : Nat]

Reads == {Banks!ECR1(r) : r \in 16 .. 41}

Joined(s, u, c) ==
  /\ s \in Seq(Accesses) /\ u \in Seq(Accesses) /\ c \in Seq(Accesses)
  /\ Len(s) \in Nat /\ Len(u) \in Nat /\ Len(c) = Len(s) + Len(u)
  /\ \A p \in 1 .. Len(s) : c[p] = s[p]
  /\ \A p \in Len(s) + 1 .. Len(c) : c[p] = u[p - Len(s)]

LEMMA JoinedAre == \A s, u \in Seq(Accesses) : Joined(s, u, s \o u) /\ s \o u \in Seq(Accesses)
BY DEF Joined

LEMMA AccessTypes ==
  /\ \A m \in {"ECM1", "PATM"} : {Banks!Acq(m), Banks!AcqOrEnd(m), Banks!AcqOrNot(m), Banks!Rel(m)}
                                   \subseteq Accesses
  /\ \A r \in Nat : Banks!ECR1(r) \in Accesses
  /\ \A r, v \in Nat : Banks!ECW1(r, v) \in Accesses
BY DEF Accesses, Banks!Acq, Banks!AcqOrEnd, Banks!AcqOrNot, Banks!Rel, Banks!ECR1, Banks!ECW1,
       Banks!Step

LEMMA OnePiece ==
  ASSUME NEW x \in Accesses
  PROVE  <<x>> \in Seq(Accesses) /\ Len(<<x>>) = 1 /\ <<x>>[1] = x
OBVIOUS

TwoReads(u) == u \in Seq(Accesses) /\ Len(u) = 2 /\ u[1] \in Reads /\ u[2] \in Reads

LEMMA ReadPiece == \A r \in 16 .. 40 : TwoReads(Banks!ECR2(r))
<1> SUFFICES ASSUME NEW r \in 16 .. 40 PROVE TwoReads(Banks!ECR2(r))
  OBVIOUS
<1>1. Banks!ECR2(r) = <<Banks!ECR1(r), Banks!ECR1(r + 1)>>
  BY DEF Banks!ECR2
<1>2. Banks!ECR1(r) \in Reads /\ Banks!ECR1(r + 1) \in Reads
  BY DEF Reads
<1>3. Banks!ECR1(r) \in Accesses /\ Banks!ECR1(r + 1) \in Accesses
  BY AccessTypes
<1> QED
  BY <1>1, <1>2, <1>3 DEF TwoReads

\* the selection of a text, and its bytes
IsText(u) ==
  /\ u \in Seq(Accesses) /\ Len(u) = 1 + TextLen
  /\ \E n \in 1 .. 3 : u[1] = Banks!ECW1(4, n)
  /\ \A p \in 2 .. 1 + TextLen : u[p] = Banks!ECR1(42)

LEMMA TextPiece == \A n \in 1 .. 3 : IsText(Banks!ECM8(n))
<1> SUFFICES ASSUME NEW n \in 1 .. 3 PROVE IsText(Banks!ECM8(n))
  OBVIOUS
<1> DEFINE s == <<Banks!ECW1(4, n)>>
           u == [i \in 1 .. TextLen |-> Banks!ECR1(42)]
           c == s \o u
<1>1. Banks!ECW1(4, n) \in Accesses /\ Banks!ECR1(42) \in Accesses
  BY AccessTypes
<1>2. s \in Seq(Accesses) /\ Len(s) = 1 /\ s[1] = Banks!ECW1(4, n)
  BY <1>1
<1>3. /\ u \in Seq(Accesses) /\ Len(u) = TextLen
      /\ \A p \in 1 .. TextLen : u[p] = Banks!ECR1(42)
  BY <1>1, BanksAssumption
<1>4. Banks!ECM8(n) = c
  BY DEF Banks!ECM8
<1>5. Joined(s, u, c)
  BY <1>2, <1>3, JoinedAre
<1> HIDE DEF s, u, c
<1> QED
  BY <1>2, <1>3, <1>4, <1>5, BanksAssumption DEF Joined, IsText

(* _BST selects the battery with its third access and reads after it.      *)
LEMMA ECG6Code ==
  ASSUME NEW b \in Nat, NEW c, c = Banks!ECG6(b)
  PROVE  /\ c \in Seq(Accesses) /\ Len(c) = 11
         /\ c[1] = Banks!Acq("ECM1") /\ c[2] = Banks!ECR1(0) /\ c[3] = Banks!ECW1(3, b)
         /\ \A p \in 4 .. 10 : c[p] \in Reads
         /\ c[11] = Banks!Rel("ECM1")
<1> DEFINE A == <<Banks!Acq("ECM1"), Banks!ECR1(0), Banks!ECW1(3, b), Banks!ECR1(16)>>
           R == Banks!ECR2(18)
           S == Banks!ECR2(22)
           T == Banks!ECR2(20)
           Z == <<Banks!Rel("ECM1")>>
           B == A \o R
           C == B \o S
           D == C \o T
           E == D \o Z
<1>1. /\ A \in Seq(Accesses) /\ Len(A) = 4
      /\ A[1] = Banks!Acq("ECM1") /\ A[2] = Banks!ECR1(0) /\ A[3] = Banks!ECW1(3, b)
      /\ A[4] \in Reads
  BY AccessTypes DEF Reads
<1>2. Z \in Seq(Accesses) /\ Len(Z) = 1 /\ Z[1] = Banks!Rel("ECM1")
  BY AccessTypes
<1>3. TwoReads(R) /\ TwoReads(S) /\ TwoReads(T)
  BY ReadPiece
<1>4. c = E
  BY DEF Banks!ECG6
<1> HIDE DEF A, R, S, T, Z
<1>5. R \in Seq(Accesses) /\ S \in Seq(Accesses) /\ T \in Seq(Accesses)
  BY <1>3 DEF TwoReads
<1>6. Joined(A, R, B)
  BY <1>1, <1>5, JoinedAre
<1> HIDE DEF B
<1>7. B \in Seq(Accesses)
  BY <1>6 DEF Joined
<1>8. Joined(B, S, C)
  BY <1>5, <1>7, JoinedAre
<1> HIDE DEF C
<1>9. C \in Seq(Accesses)
  BY <1>8 DEF Joined
<1>10. Joined(C, T, D)
  BY <1>5, <1>9, JoinedAre
<1> HIDE DEF D
<1>11. D \in Seq(Accesses)
  BY <1>10 DEF Joined
<1>12. Joined(D, Z, E)
  BY <1>2, <1>11, JoinedAre
<1> HIDE DEF E
<1>13. Len(B) = 6 /\ B[1] = A[1] /\ B[2] = A[2] /\ B[3] = A[3] /\ \A p \in 4 .. 6 : B[p] \in Reads
  BY <1>1, <1>3, <1>6 DEF Joined, TwoReads
<1>14. Len(C) = 8 /\ C[1] = A[1] /\ C[2] = A[2] /\ C[3] = A[3] /\ \A p \in 4 .. 8 : C[p] \in Reads
  BY <1>3, <1>8, <1>13 DEF Joined, TwoReads
<1>15. Len(D) = 10 /\ D[1] = A[1] /\ D[2] = A[2] /\ D[3] = A[3] /\ \A p \in 4 .. 10 : D[p] \in Reads
  BY <1>3, <1>10, <1>14 DEF Joined, TwoReads
<1>16. /\ Len(E) = 11 /\ E[1] = A[1] /\ E[2] = A[2] /\ E[3] = A[3] /\ E[11] = Z[1]
       /\ \A p \in 4 .. 10 : E[p] \in Reads
  BY <1>2, <1>12, <1>15 DEF Joined
<1>17. E \in Seq(Accesses)
  BY <1>12 DEF Joined
<1> QED
  BY <1>1, <1>2, <1>4, <1>16, <1>17


\* the text of which the access at q selects the number
HasText(s, q) ==
  /\ \E n \in 1 .. 3 : s[q] = Banks!ECW1(4, n)
  /\ \A p \in q + 1 .. q + TextLen : s[p] = Banks!ECR1(42)

LEMMA TextJoined ==
  ASSUME NEW s, NEW u, NEW c, IsText(u), Joined(s, u, c)
  PROVE  HasText(c, Len(s) + 1) /\ Len(c) = Len(s) + 1 + TextLen
<1>1. Len(s) \in Nat /\ TextLen \in Nat \ {0} /\ Len(c) = Len(s) + 1 + TextLen
  BY BanksAssumption DEF Joined, IsText
<1>2. \A p \in Len(s) + 1 .. Len(c) : c[p] = u[p - Len(s)]
  BY DEF Joined
<1>3. Len(s) + 1 \in Len(s) + 1 .. Len(c) /\ Len(s) + 1 - Len(s) = 1
  BY <1>1
<1>4. c[Len(s) + 1] = u[1]
  BY <1>2, <1>3
<1>5. \A p \in Len(s) + 1 + 1 .. Len(s) + 1 + TextLen :
        p \in Len(s) + 1 .. Len(c) /\ p - Len(s) \in 2 .. 1 + TextLen
  BY <1>1
<1>6. \A p \in Len(s) + 1 + 1 .. Len(s) + 1 + TextLen : c[p] = Banks!ECR1(42)
  BY <1>2, <1>5 DEF IsText
<1> QED
  BY <1>1, <1>4, <1>6 DEF HasText, IsText

LEMMA OneJoined ==
  ASSUME NEW s, NEW u, NEW c, Len(u) = 1, Joined(s, u, c)
  PROVE  Len(c) = Len(s) + 1 /\ c[Len(s) + 1] = u[1]
<1>1. Len(s) \in Nat /\ Len(c) = Len(s) + 1
  BY DEF Joined
<1>2. c[Len(s) + 1] = u[Len(s) + 1 - Len(s)]
  BY <1>1 DEF Joined
<1>3. Len(s) + 1 - Len(s) = 1
  BY <1>1
<1> QED
  BY <1>1, <1>2, <1>3

LEMMA ReadsJoined ==
  ASSUME NEW s, NEW u, NEW c, TwoReads(u), Joined(s, u, c)
  PROVE  Len(c) = Len(s) + 2 /\ c[Len(s) + 1] \in Reads /\ c[Len(s) + 2] \in Reads
<1>1. Len(s) \in Nat /\ Len(c) = Len(s) + 2
  BY DEF Joined, TwoReads
<1>2. c[Len(s) + 1] = u[Len(s) + 1 - Len(s)] /\ c[Len(s) + 2] = u[Len(s) + 2 - Len(s)]
  BY <1>1 DEF Joined
<1>3. Len(s) + 1 - Len(s) = 1 /\ Len(s) + 2 - Len(s) = 2
  BY <1>1
<1> QED
  BY <1>1, <1>2, <1>3 DEF TwoReads

Prefix(s, c) == /\ Len(s) \in Nat /\ Len(c) \in Nat /\ Len(s) <= Len(c)
                /\ \A p \in 1 .. Len(s) : c[p] = s[p]

LEMMA JoinedPrefix == ASSUME NEW s, NEW u, NEW c, Joined(s, u, c) PROVE Prefix(s, c)
BY DEF Joined, Prefix

LEMMA PrefixTransitive ==
  ASSUME NEW s, NEW u, NEW c, Prefix(s, u), Prefix(u, c) PROVE Prefix(s, c)
BY DEF Prefix

LEMMA TextKept ==
  ASSUME NEW s, NEW c, Prefix(s, c), NEW q \in Nat \ {0}, HasText(s, q), q + TextLen <= Len(s)
  PROVE  HasText(c, q)
<1>1. c[q] = s[q]
  BY BanksAssumption DEF Prefix
<1>2. \A p \in q + 1 .. q + TextLen : c[p] = s[p]
  BY BanksAssumption DEF Prefix
<1> QED
  BY <1>1, <1>2 DEF HasText

(* _BIF selects the battery with its second access; its reads are of that  *)
(* battery's registers or belong to one of three texts.                    *)
LEMMA ECG9Code ==
  ASSUME NEW b \in Nat, NEW c, c = Banks!ECG9(b)
  PROVE  /\ c \in Seq(Accesses) /\ Len(c) = 16 + 3 * TextLen
         /\ c[1] = Banks!Acq("ECM1") /\ c[2] = Banks!ECW1(3, b)
         /\ \A p \in 3 .. 8 : c[p] \in Reads
         /\ \A p \in {10 + TextLen, 11 + TextLen, 12 + TextLen, 14 + 2 * TextLen} : c[p] \in Reads
         /\ \A q \in Banks!TextStarts : HasText(c, q)
         /\ c[16 + 3 * TextLen] = Banks!Rel("ECM1")
<1> DEFINE L == TextLen
           A == <<Banks!Acq("ECM1"), Banks!ECW1(3, b)>>
           R1 == Banks!ECR2(32)
           R2 == Banks!ECR2(30)
           R3 == Banks!ECR2(34)
           R4 == Banks!ECR2(38)
           T1 == Banks!ECM8(1)
           T2 == Banks!ECM8(2)
           T3 == Banks!ECM8(3)
           X == <<Banks!ECR1(41)>>
           Y == <<Banks!ECR1(40)>>
           Z == <<Banks!Rel("ECM1")>>
           P1 == A \o R1
           P2 == P1 \o R2
           P3 == P2 \o R3
           P4 == P3 \o T1
           P5 == P4 \o R4
           P6 == P5 \o X
           P7 == P6 \o T2
           P8 == P7 \o Y
           P9 == P8 \o T3
           P  == P9 \o Z
           Opens(s) == s[1] = Banks!Acq("ECM1") /\ s[2] = Banks!ECW1(3, b)
<1>1. A \in Seq(Accesses) /\ Len(A) = 2 /\ Opens(A)
  BY AccessTypes
<1>2. /\ X \in Seq(Accesses) /\ Len(X) = 1 /\ X[1] \in Reads
      /\ Y \in Seq(Accesses) /\ Len(Y) = 1 /\ Y[1] \in Reads
      /\ Z \in Seq(Accesses) /\ Len(Z) = 1 /\ Z[1] = Banks!Rel("ECM1")
  BY AccessTypes DEF Reads
<1>3. TwoReads(R1) /\ TwoReads(R2) /\ TwoReads(R3) /\ TwoReads(R4)
  BY ReadPiece
<1>4. IsText(T1) /\ IsText(T2) /\ IsText(T3)
  BY TextPiece
<1>5. c = P
  BY DEF Banks!ECG9
<1> HIDE DEF A, R1, R2, R3, R4, T1, T2, T3, X, Y, Z
<1>6. /\ R1 \in Seq(Accesses) /\ R2 \in Seq(Accesses) /\ R3 \in Seq(Accesses) /\ R4 \in Seq(Accesses)
      /\ T1 \in Seq(Accesses) /\ T2 \in Seq(Accesses) /\ T3 \in Seq(Accesses)
  BY <1>3, <1>4 DEF TwoReads, IsText
<1>7. Joined(A, R1, P1) /\ P1 \in Seq(Accesses)
  BY <1>1, <1>6, JoinedAre
<1> HIDE DEF P1
<1>8. Joined(P1, R2, P2) /\ P2 \in Seq(Accesses)
  BY <1>6, <1>7, JoinedAre
<1> HIDE DEF P2
<1>9. Joined(P2, R3, P3) /\ P3 \in Seq(Accesses)
  BY <1>6, <1>8, JoinedAre
<1> HIDE DEF P3
<1>10. Joined(P3, T1, P4) /\ P4 \in Seq(Accesses)
  BY <1>6, <1>9, JoinedAre
<1> HIDE DEF P4
<1>11. Joined(P4, R4, P5) /\ P5 \in Seq(Accesses)
  BY <1>6, <1>10, JoinedAre
<1> HIDE DEF P5
<1>12. Joined(P5, X, P6) /\ P6 \in Seq(Accesses)
  BY <1>2, <1>11, JoinedAre
<1> HIDE DEF P6
<1>13. Joined(P6, T2, P7) /\ P7 \in Seq(Accesses)
  BY <1>6, <1>12, JoinedAre
<1> HIDE DEF P7
<1>14. Joined(P7, Y, P8) /\ P8 \in Seq(Accesses)
  BY <1>2, <1>13, JoinedAre
<1> HIDE DEF P8
<1>15. Joined(P8, T3, P9) /\ P9 \in Seq(Accesses)
  BY <1>6, <1>14, JoinedAre
<1> HIDE DEF P9
<1>16. Joined(P9, Z, P) /\ P \in Seq(Accesses)
  BY <1>2, <1>15, JoinedAre
<1> HIDE DEF P
<1>17. L \in Nat
  BY BanksAssumption
<1>18. Len(P1) = 4 /\ Opens(P1) /\ \A p \in 3 .. 4 : P1[p] \in Reads
  BY <1>1, <1>3, <1>7 DEF Joined, TwoReads
<1>19. Len(P2) = 6 /\ Opens(P2) /\ \A p \in 3 .. 6 : P2[p] \in Reads
  BY <1>3, <1>8, <1>18 DEF Joined, TwoReads
<1>20. Len(P3) = 8 /\ Opens(P3) /\ \A p \in 3 .. 8 : P3[p] \in Reads
  BY <1>3, <1>9, <1>19 DEF Joined, TwoReads
\* the first text
<1>21. Len(P4) = 9 + L /\ HasText(P4, 9)
  <2>1. HasText(P4, Len(P3) + 1) /\ Len(P4) = Len(P3) + 1 + L
    BY <1>4, <1>10, TextJoined
  <2>2. Len(P3) + 1 = 9
    BY <1>20
  <2> QED
    BY <2>1, <2>2
<1>22. Len(P5) = 11 + L /\ P5[10 + L] \in Reads /\ P5[11 + L] \in Reads
  <2>1. Len(P5) = Len(P4) + 2 /\ P5[Len(P4) + 1] \in Reads /\ P5[Len(P4) + 2] \in Reads
    BY <1>3, <1>11, ReadsJoined
  <2>2. Len(P4) + 1 = 10 + L /\ Len(P4) + 2 = 11 + L
    BY <1>17, <1>21
  <2> QED
    BY <2>1, <2>2
<1>23. Len(P6) = 12 + L /\ P6[12 + L] \in Reads
  <2>1. Len(P6) = Len(P5) + 1 /\ P6[Len(P5) + 1] \in Reads
    BY <1>2, <1>12, OneJoined
  <2>2. Len(P5) + 1 = 12 + L
    BY <1>17, <1>22
  <2> QED
    BY <2>1, <2>2
\* the second
<1>24. Len(P7) = 13 + 2 * L /\ HasText(P7, 13 + L)
  <2>1. HasText(P7, Len(P6) + 1) /\ Len(P7) = Len(P6) + 1 + L
    BY <1>4, <1>13, TextJoined
  <2>2. Len(P6) + 1 = 13 + L /\ Len(P6) + 1 + L = 13 + 2 * L
    BY <1>17, <1>23
  <2> QED
    BY <2>1, <2>2
<1>25. Len(P8) = 14 + 2 * L /\ P8[14 + 2 * L] \in Reads
  <2>1. Len(P8) = Len(P7) + 1 /\ P8[Len(P7) + 1] \in Reads
    BY <1>2, <1>14, OneJoined
  <2>2. Len(P7) + 1 = 14 + 2 * L
    BY <1>17, <1>24
  <2> QED
    BY <2>1, <2>2
\* the third
<1>26. Len(P9) = 15 + 3 * L /\ HasText(P9, 15 + 2 * L)
  <2>1. HasText(P9, Len(P8) + 1) /\ Len(P9) = Len(P8) + 1 + L
    BY <1>4, <1>15, TextJoined
  <2>2. Len(P8) + 1 = 15 + 2 * L /\ Len(P8) + 1 + L = 15 + 3 * L
    BY <1>17, <1>25
  <2> QED
    BY <2>1, <2>2
<1>27. Len(P) = 16 + 3 * L /\ P[16 + 3 * L] = Banks!Rel("ECM1")
  <2>1. Len(P) = Len(P9) + 1 /\ P[Len(P9) + 1] = Banks!Rel("ECM1")
    BY <1>2, <1>16, OneJoined
  <2>2. Len(P9) + 1 = 16 + 3 * L
    BY <1>17, <1>26
  <2> QED
    BY <2>1, <2>2
<1>28. /\ Prefix(P3, P) /\ Prefix(P4, P) /\ Prefix(P5, P) /\ Prefix(P6, P)
       /\ Prefix(P7, P) /\ Prefix(P8, P) /\ Prefix(P9, P)
  <2>1. Prefix(P9, P)
    BY <1>16, JoinedPrefix
  <2>2. Prefix(P8, P)
    BY <1>15, <2>1, JoinedPrefix, PrefixTransitive
  <2>3. Prefix(P7, P)
    BY <1>14, <2>2, JoinedPrefix, PrefixTransitive
  <2>4. Prefix(P6, P)
    BY <1>13, <2>3, JoinedPrefix, PrefixTransitive
  <2>5. Prefix(P5, P)
    BY <1>12, <2>4, JoinedPrefix, PrefixTransitive
  <2>6. Prefix(P4, P)
    BY <1>11, <2>5, JoinedPrefix, PrefixTransitive
  <2>7. Prefix(P3, P)
    BY <1>10, <2>6, JoinedPrefix, PrefixTransitive
  <2> QED
    BY <2>1, <2>2, <2>3, <2>4, <2>5, <2>6, <2>7
<1>29. Opens(P) /\ \A p \in 3 .. 8 : P[p] \in Reads
  <2>1. \A p \in 1 .. Len(P3) : P[p] = P3[p]
    BY <1>28 DEF Prefix
  <2>2. \A p \in 1 .. 8 : P[p] = P3[p]
    BY <1>20, <2>1
  <2> QED
    BY <1>20, <2>2
<1>30. P[10 + L] \in Reads /\ P[11 + L] \in Reads
  BY <1>17, <1>22, <1>28 DEF Prefix
<1>31. P[12 + L] \in Reads /\ P[14 + 2 * L] \in Reads
  BY <1>17, <1>23, <1>25, <1>28 DEF Prefix
<1>32. HasText(P, 9) /\ HasText(P, 13 + L) /\ HasText(P, 15 + 2 * L)
  <2>1. /\ 9 \in Nat \ {0} /\ 13 + L \in Nat \ {0} /\ 15 + 2 * L \in Nat \ {0}
        /\ 9 + L <= Len(P4) /\ 13 + L + L <= Len(P7) /\ 15 + 2 * L + L <= Len(P9)
    BY <1>17, <1>21, <1>24, <1>26
  <2> QED
    BY <1>21, <1>24, <1>26, <1>28, <2>1, TextKept
<1>33. \A q \in Banks!TextStarts : HasText(P, q)
  BY <1>32 DEF Banks!TextStarts
<1> QED
  BY <1>5, <1>16, <1>27, <1>29, <1>30, <1>31, <1>33


(* The methods of the sensors and _Q66: nothing of the batteries' registers *)
(* and no mutex but PATM.                                                  *)
Sensing == {Banks!AcqOrEnd("PATM"), Banks!AcqOrNot("PATM"), Banks!Rel("PATM")}
             \cup {Banks!ECR1(r) : r \in Nat \ 16 .. 42}
             \cup {Banks!ECW1(r, v) : r \in Nat \ {3, 4}, v \in Nat}
Querying == {Banks!AcqOrNot("PATM"), Banks!Rel("PATM"), Banks!ECW1(56, 255)}
             \cup {Banks!ECR1(r) : r \in Nat \ 16 .. 42}

LEMMA PATCode ==
  ASSUME NEW s \in Nat, NEW r \in {53, 54}, NEW c, c = Banks!PAT(s, r)
  PROVE  /\ c \in Seq(Accesses) /\ Len(c) = 6
         /\ c[1] = Banks!AcqOrEnd("PATM") /\ c[2] = Banks!ECW1(51, s)
         /\ c[3] = Banks!ECW1(55, 2) /\ c[4] = Banks!ECW1(51, s) /\ c[5] = Banks!ECW1(r, 1)
         /\ c[6] = Banks!Rel("PATM")
         /\ \A p \in 1 .. 6 : c[p] \in Sensing
<1>1. c = <<Banks!AcqOrEnd("PATM"), Banks!ECW1(51, s), Banks!ECW1(55, 2), Banks!ECW1(51, s),
            Banks!ECW1(r, 1), Banks!Rel("PATM")>>
  BY DEF Banks!PAT
<1>2. /\ Banks!AcqOrEnd("PATM") \in Accesses /\ Banks!Rel("PATM") \in Accesses
      /\ Banks!ECW1(51, s) \in Accesses /\ Banks!ECW1(55, 2) \in Accesses /\ Banks!ECW1(r, 1) \in Accesses
  BY AccessTypes
<1>3. /\ c \in Seq(Accesses) /\ Len(c) = 6
      /\ c[1] = Banks!AcqOrEnd("PATM") /\ c[2] = Banks!ECW1(51, s)
      /\ c[3] = Banks!ECW1(55, 2) /\ c[4] = Banks!ECW1(51, s) /\ c[5] = Banks!ECW1(r, 1)
      /\ c[6] = Banks!Rel("PATM")
  BY <1>1, <1>2
<1>4. c[1] \in Sensing /\ c[2] \in Sensing /\ c[3] \in Sensing /\ c[4] \in Sensing
        /\ c[5] \in Sensing /\ c[6] \in Sensing
  BY <1>3 DEF Sensing
<1> QED
  BY <1>3, <1>4

LEMMA KDRTCode ==
  ASSUME NEW s \in Nat, NEW c, c = Banks!KDRT(s)
  PROVE  c \in Seq(Accesses) /\ Len(c) = 2 /\ \A p \in 1 .. 2 : c[p] \in Sensing
<1>1. c = <<Banks!ECW1(51, s), Banks!ECR1(52)>>
  BY DEF Banks!KDRT
<1>2. Banks!ECW1(51, s) \in Accesses \cap Sensing /\ Banks!ECR1(52) \in Accesses \cap Sensing
  BY AccessTypes DEF Sensing
<1> QED
  BY <1>1, <1>2

LEMMA Q66Code ==
  ASSUME NEW c, c = Banks!Q66
  PROVE  c \in Seq(Accesses) /\ Len(c) = 10 /\ \A p \in 1 .. 10 : c[p] \in Querying
<1> DEFINE A == <<Banks!AcqOrNot("PATM")>>
           R == Banks!ECR2(7)
           S == Banks!ECR2(11)
           Z == <<Banks!ECR1(50), Banks!ECR1(56), Banks!ECW1(56, 255), Banks!ECR1(56),
                  Banks!Rel("PATM")>>
<1>1. /\ Banks!AcqOrNot("PATM") \in Accesses /\ Banks!Rel("PATM") \in Accesses
      /\ \A r \in Nat : Banks!ECR1(r) \in Accesses
      /\ Banks!ECW1(56, 255) \in Accesses
  BY AccessTypes
<1>2. Querying \subseteq Accesses
  BY <1>1 DEF Querying
<1>3. A \in Seq(Querying) /\ Len(A) = 1
  BY DEF Querying
<1>4. R \in Seq(Querying) /\ Len(R) = 2 /\ S \in Seq(Querying) /\ Len(S) = 2
  BY DEF Querying, Banks!ECR2
<1>5. Z \in Seq(Querying) /\ Len(Z) = 5
  BY DEF Querying
<1>6. c = ((A \o R) \o S) \o Z
  BY DEF Banks!Q66
<1> HIDE DEF A, R, S, Z
<1>7. \A s, u \in Seq(Querying) : s \o u \in Seq(Querying) /\ Len(s \o u) = Len(s) + Len(u)
  OBVIOUS
<1>8. A \o R \in Seq(Querying) /\ Len(A \o R) = Len(A) + Len(R)
  BY <1>3, <1>4, <1>7, Zenon
<1>9. (A \o R) \o S \in Seq(Querying) /\ Len((A \o R) \o S) = Len(A \o R) + Len(S)
  BY <1>4, <1>7, <1>8, Zenon
<1>10. c \in Seq(Querying) /\ Len(c) = Len((A \o R) \o S) + Len(Z)
  BY <1>5, <1>6, <1>7, <1>9, Zenon
<1>11. Len(c) = 10
  <2>1. Len(A \o R) = 3
    BY <1>3, <1>4, <1>8
  <2>2. Len((A \o R) \o S) = 5
    BY <1>4, <1>9, <2>1
  <2> QED
    BY <1>5, <1>10, <2>2
<1>12. c \in [1 .. Len(c) -> Querying] /\ Len(c) \in Nat
  BY <1>10
<1>13. c \in Seq(Accesses)
  <2>1. c \in [1 .. Len(c) -> Accesses]
    BY <1>2, <1>12
  <2> QED
    BY <1>12, <2>1
<1>14. \A p \in 1 .. 10 : c[p] \in Querying
  BY <1>11, <1>12
<1> QED
  BY <1>11, <1>13, <1>14


-----------------------------------------------------------------------------
(* EcBanks: the types, and what a step of one thread leaves alone.         *)

Sensed(j) == j \in {"PAT0", "PAT1", "_TMP", "_Q66"}
BatteryJob(j) == j \in {"_BST", "_BIF"}

LEMMA JobKinds ==
  /\ \A j \in Jobs : BatteryJob(j) \/ Sensed(j)
  /\ \A j : BatteryJob(j) => ~Sensed(j)
  /\ ~BatteryJob("none") /\ ~Sensed("none")
BY BanksAssumption DEF BatteryJob, Sensed

LEMMA ArgumentsAre ==
  ASSUME NEW j \in Jobs, NEW a \in Banks!Arguments(j)
  PROVE  a \in Nat
BY BanksAssumption DEF Banks!Arguments

LEMMA CodesAre ==
  ASSUME NEW j \in Jobs, NEW a \in Banks!Arguments(j), NEW c, c = Banks!Method(j, a)
  PROVE  /\ c \in Seq(Accesses) /\ Len(c) >= 1
         /\ Sensed(j) => \A p \in 1 .. Len(c) : c[p] \in Sensing
<1>0. a \in Nat
  BY ArgumentsAre
<1>1. CASE j = "_BST"
  <2>1. c = Banks!ECG6(a)
    BY <1>1 DEF Banks!Method
  <2>2. c \in Seq(Accesses) /\ Len(c) = 11
    BY <1>0, <2>1, ECG6Code
  <2> QED
    BY <1>1, <2>2 DEF Sensed
<1>2. CASE j = "_BIF"
  <2>1. c = Banks!ECG9(a)
    BY <1>2 DEF Banks!Method
  <2>2. c \in Seq(Accesses) /\ Len(c) = 16 + 3 * TextLen
    BY <1>0, <2>1, ECG9Code
  <2>3. Len(c) >= 1
    BY <2>2, BanksAssumption
  <2> QED
    BY <1>2, <2>2, <2>3 DEF Sensed
<1>3. CASE j = "PAT0"
  <2>1. c = Banks!PAT(a, 53)
    BY <1>3 DEF Banks!Method
  <2>2. c \in Seq(Accesses) /\ Len(c) = 6 /\ \A p \in 1 .. 6 : c[p] \in Sensing
    BY <1>0, <2>1, PATCode
  <2> QED
    BY <2>2
<1>4. CASE j = "PAT1"
  <2>1. c = Banks!PAT(a, 54)
    BY <1>4 DEF Banks!Method
  <2>2. c \in Seq(Accesses) /\ Len(c) = 6 /\ \A p \in 1 .. 6 : c[p] \in Sensing
    BY <1>0, <2>1, PATCode
  <2> QED
    BY <2>2
<1>5. CASE j = "_TMP"
  BY <1>0, <1>5, KDRTCode DEF Banks!Method
<1>6. CASE j = "_Q66"
  <2>1. c \in Seq(Accesses) /\ Len(c) = 10 /\ \A p \in 1 .. 10 : c[p] \in Querying
    BY <1>6, Q66Code DEF Banks!Method
  <2>2. Querying \subseteq Sensing
    BY DEF Querying, Sensing
  <2> QED
    BY <2>1, <2>2
<1> QED
  BY <1>1, <1>2, <1>3, <1>4, <1>5, <1>6, BanksAssumption

(* A step of a thread is one access of the method it runs: it goes on with *)
(* the next, or the method ends.                                           *)
LEMMA BanksRun ==
  ASSUME Banks!TypeOK, NEW t \in Threads, Banks!Run(t)
  PROVE  /\ job[t] \in Jobs /\ arg[t] \in Banks!Arguments(job[t])
         /\ Banks!Code(t) \in Seq(Accesses) /\ at[t] \in 1 .. Len(Banks!Code(t))
         /\ Banks!Now(t) = Banks!Code(t)[at[t]] /\ Banks!Now(t) \in Accesses
         /\ arg' = arg
         /\ \/ job' = [job EXCEPT ![t] = "none"] /\ at' = at
            \/ /\ job' = job /\ at[t] + 1 <= Len(Banks!Code(t))
               /\ at' = [at EXCEPT ![t] = at[t] + 1]
<1>1. job[t] # "none"
  BY DEF Banks!Run, Banks!Acquire, Banks!Timeout, Banks!Release, Banks!Read, Banks!Write, Banks!Does
<1>2. job[t] \in Jobs /\ arg[t] \in Banks!Arguments(job[t]) /\ at[t] \in Nat \ {0}
      /\ at[t] <= Len(Banks!Code(t))
  BY <1>1 DEF Banks!TypeOK
<1>3. Banks!Code(t) \in Seq(Accesses)
  BY <1>2, CodesAre DEF Banks!Code
<1>4. at[t] \in 1 .. Len(Banks!Code(t)) /\ Banks!Code(t)[at[t]] \in Accesses
  BY <1>2, <1>3
<1>5. Banks!Now(t) = Banks!Code(t)[at[t]]
  BY DEF Banks!Now
<1>6. arg' = arg /\ (Banks!Proceed(t) \/ Banks!End(t))
  BY DEF Banks!Run, Banks!Acquire, Banks!Timeout, Banks!Release, Banks!Read, Banks!Write
<1>7. \/ job' = [job EXCEPT ![t] = "none"] /\ at' = at
      \/ job' = job /\ at[t] # Len(Banks!Code(t)) /\ at' = [at EXCEPT ![t] = at[t] + 1]
  BY <1>6 DEF Banks!Proceed, Banks!End
<1>8. at[t] # Len(Banks!Code(t)) => at[t] + 1 <= Len(Banks!Code(t))
  BY <1>3, <1>4
<1>9. \/ job' = [job EXCEPT ![t] = "none"] /\ at' = at
      \/ /\ job' = job /\ at[t] + 1 <= Len(Banks!Code(t))
         /\ at' = [at EXCEPT ![t] = at[t] + 1]
  BY <1>7, <1>8, Zenon
<1>10. Banks!Now(t) \in Accesses
  BY <1>4, <1>5, Zenon
<1> QED
  BY <1>2, <1>3, <1>4, <1>5, <1>6, <1>9, <1>10, Zenon

LEMMA BanksOthers ==
  ASSUME Banks!TypeOK, NEW t \in Threads, Banks!Run(t), NEW u \in Threads, u # t
  PROVE  /\ job'[u] = job[u] /\ arg'[u] = arg[u] /\ at'[u] = at[u]
         /\ seen'[u] = seen[u] /\ text'[u] = text[u] /\ placed'[u] = placed[u]
<1>1. job'[u] = job[u] /\ arg'[u] = arg[u] /\ at'[u] = at[u]
  <2>1. /\ job' = job \/ job' = [job EXCEPT ![t] = "none"]
        /\ at' = at \/ at' = [at EXCEPT ![t] = at[t] + 1]
        /\ arg' = arg
    BY BanksRun
  <2>2. job \in [Threads -> Jobs \cup {"none"}] /\ at \in [Threads -> Nat \ {0}]
    BY DEF Banks!TypeOK
  <2> QED
    BY <2>1, <2>2
<1>2. seen'[u] = seen[u]
  <2>1. seen' = seen \/ seen' = [seen EXCEPT ![t] = seen[t] \cup {bank[3]}]
    BY DEF Banks!Run, Banks!Acquire, Banks!Timeout, Banks!Release, Banks!Read, Banks!Write
  <2> QED
    BY <2>1 DEF Banks!TypeOK
<1>3. text'[u] = text[u]
  <2>1. \/ text' = text \/ text' = [text EXCEPT ![t] = <<>>]
        \/ text' = [text EXCEPT ![t] = Append(text[t], <<bank[3], bank[4], byte>>)]
    BY DEF Banks!Run, Banks!Acquire, Banks!Timeout, Banks!Release, Banks!Read, Banks!Write
  <2> QED
    BY <2>1 DEF Banks!TypeOK
<1>4. placed'[u] = placed[u]
  <2>1. placed' = placed \/ placed' = [placed EXCEPT ![t] = placed[t] \cup {bank[51]}]
    BY DEF Banks!Run, Banks!Acquire, Banks!Timeout, Banks!Release, Banks!Read, Banks!Write
  <2> QED
    BY <2>1 DEF Banks!TypeOK
<1> QED
  BY <1>1, <1>2, <1>3, <1>4


LEMMA BanksCallType == ASSUME Banks!TypeOK, NEW t \in Threads, Banks!Call(t) PROVE Banks!TypeOK'
<1>1. PICK j \in Jobs : \E a \in Banks!Arguments(j) :
        job' = [job EXCEPT ![t] = j] /\ arg' = [arg EXCEPT ![t] = a]
  BY DEF Banks!Call
<1>2. PICK a \in Banks!Arguments(j) : job' = [job EXCEPT ![t] = j] /\ arg' = [arg EXCEPT ![t] = a]
  BY <1>1
<1>3. at' = [at EXCEPT ![t] = 1] /\ UNCHANGED <<owner, bank, byte>>
  BY DEF Banks!Call
<1>4. job' \in [Threads -> Jobs \cup {"none"}] /\ at' \in [Threads -> Nat \ {0}]
  BY <1>2, <1>3 DEF Banks!TypeOK
<1>5. arg' \in [Threads -> Nat]
  BY <1>2, ArgumentsAre DEF Banks!TypeOK
<1>6. /\ seen' \in [Threads -> SUBSET Nat] /\ placed' \in [Threads -> SUBSET Nat]
      /\ text' \in [Threads -> Seq(Nat \X Nat \X Nat)]
  BY DEF Banks!Call, Banks!TypeOK
<1>7. ASSUME NEW u \in Threads, job'[u] # "none"
      PROVE  arg'[u] \in Banks!Arguments(job'[u]) /\ at'[u] <= Len(Banks!Method(job'[u], arg'[u]))
  <2>1. CASE u = t
    <3>1. job'[u] = j /\ arg'[u] = a /\ at'[u] = 1
      BY <1>2, <1>3, <2>1 DEF Banks!TypeOK
    <3>2. Len(Banks!Method(j, a)) \in Nat /\ Len(Banks!Method(j, a)) >= 1
      BY CodesAre
    <3> QED
      BY <3>1, <3>2
  <2>2. CASE u # t
    <3>1. job'[u] = job[u] /\ arg'[u] = arg[u] /\ at'[u] = at[u]
      BY <1>2, <1>3, <2>2 DEF Banks!TypeOK
    <3> QED
      BY <1>7, <3>1 DEF Banks!TypeOK, Banks!Code
  <2> QED
    BY <2>1, <2>2
<1> QED
  BY <1>3, <1>4, <1>5, <1>6, <1>7 DEF Banks!TypeOK, Banks!Code

LEMMA BanksRunType == ASSUME Banks!TypeOK, NEW t \in Threads, Banks!Run(t) PROVE Banks!TypeOK'
<1> DEFINE a == Banks!Now(t)
<1>1. a \in Accesses
  BY BanksRun
<1>2. job' \in [Threads -> Jobs \cup {"none"}] /\ arg' \in [Threads -> Nat]
      /\ at' \in [Threads -> Nat \ {0}]
  <2>1. /\ job' = job \/ job' = [job EXCEPT ![t] = "none"]
        /\ at' = at \/ at' = [at EXCEPT ![t] = at[t] + 1]
        /\ arg' = arg
    BY BanksRun
  <2>2. job \in [Threads -> Jobs \cup {"none"}] /\ arg \in [Threads -> Nat]
        /\ at \in [Threads -> Nat \ {0}]
    BY DEF Banks!TypeOK
  <2>3. at[t] + 1 \in Nat \ {0}
    BY <2>2
  <2>4. at' \in [Threads -> Nat \ {0}]
    BY <2>1, <2>2, <2>3
  <2> QED
    BY <2>1, <2>2, <2>4
<1>3. owner' \in [Banks!Mutexes -> Threads \cup {Free}]
  BY DEF Banks!Run, Banks!Acquire, Banks!Timeout, Banks!Release, Banks!Read, Banks!Write, Banks!TypeOK
<1>4. bank' \in [Banks!Selectors -> Nat]
  <2>1. a.y \in Nat
    BY <1>1 DEF Accesses
  <2> HIDE DEF a
  <2>2. bank' = bank \/ bank' = [bank EXCEPT ![a.x] = a.y]
    BY DEF a, Banks!Run, Banks!Acquire, Banks!Timeout, Banks!Release, Banks!Read, Banks!Write
  <2> QED
    BY <2>1, <2>2 DEF Banks!TypeOK
<1>5. byte' \in 1 .. TextLen
  <2>1. byte' = byte \/ byte' = 1 \/ byte' = (byte % TextLen) + 1
    BY DEF Banks!Run, Banks!Acquire, Banks!Timeout, Banks!Release, Banks!Read, Banks!Write
  <2> QED
    BY <2>1, BanksAssumption DEF Banks!TypeOK
<1>6. seen' \in [Threads -> SUBSET Nat] /\ placed' \in [Threads -> SUBSET Nat]
  <2>1. bank[3] \in Nat /\ bank[51] \in Nat
    BY DEF Banks!Selectors, Banks!TypeOK
  <2>2. seen' = seen \/ seen' = [seen EXCEPT ![t] = seen[t] \cup {bank[3]}]
    BY DEF Banks!Run, Banks!Acquire, Banks!Timeout, Banks!Release, Banks!Read, Banks!Write
  <2>3. placed' = placed \/ placed' = [placed EXCEPT ![t] = placed[t] \cup {bank[51]}]
    BY DEF Banks!Run, Banks!Acquire, Banks!Timeout, Banks!Release, Banks!Read, Banks!Write
  <2>4. seen[t] \cup {bank[3]} \in SUBSET Nat /\ placed[t] \cup {bank[51]} \in SUBSET Nat
    BY <2>1 DEF Banks!TypeOK
  <2>5. seen' \in [Threads -> SUBSET Nat]
    BY <2>2, <2>4 DEF Banks!TypeOK
  <2>6. placed' \in [Threads -> SUBSET Nat]
    BY <2>3, <2>4 DEF Banks!TypeOK
  <2> QED
    BY <2>5, <2>6
<1>7. text' \in [Threads -> Seq(Nat \X Nat \X Nat)]
  <2>1. <<bank[3], bank[4], byte>> \in Nat \X Nat \X Nat
    BY BanksAssumption DEF Banks!Selectors, Banks!TypeOK
  <2>2. \/ text' = text \/ text' = [text EXCEPT ![t] = <<>>]
        \/ text' = [text EXCEPT ![t] = Append(text[t], <<bank[3], bank[4], byte>>)]
    BY DEF Banks!Run, Banks!Acquire, Banks!Timeout, Banks!Release, Banks!Read, Banks!Write
  <2>3. text[t] \in Seq(Nat \X Nat \X Nat)
    BY DEF Banks!TypeOK
  <2>4. /\ Append(text[t], <<bank[3], bank[4], byte>>) \in Seq(Nat \X Nat \X Nat)
        /\ <<>> \in Seq(Nat \X Nat \X Nat)
    BY <2>1, <2>3
  <2> QED
    BY <2>2, <2>4 DEF Banks!TypeOK
<1>8. ASSUME NEW u \in Threads, job'[u] # "none"
      PROVE  arg'[u] \in Banks!Arguments(job'[u]) /\ at'[u] <= Len(Banks!Method(job'[u], arg'[u]))
  <2>1. CASE u = t
    <3>1. job' = job /\ arg' = arg /\ at'[u] = at[t] + 1 /\ at[t] + 1 <= Len(Banks!Code(t))
      <4>1. \/ job' = [job EXCEPT ![t] = "none"]
            \/ /\ job' = job /\ at[t] + 1 <= Len(Banks!Code(t))
               /\ at' = [at EXCEPT ![t] = at[t] + 1]
        BY BanksRun
      <4>2. job' # [job EXCEPT ![t] = "none"]
        BY <1>8, <2>1 DEF Banks!TypeOK
      <4>3. arg' = arg
        BY BanksRun
      <4> QED
        BY <2>1, <4>1, <4>2, <4>3 DEF Banks!TypeOK
    <3>2. arg[t] \in Banks!Arguments(job[t])
      BY BanksRun
    <3> QED
      BY <2>1, <3>1, <3>2 DEF Banks!Code
  <2>2. CASE u # t
    <3>1. job'[u] = job[u] /\ arg'[u] = arg[u] /\ at'[u] = at[u]
      BY <2>2, BanksOthers
    <3> QED
      BY <1>8, <3>1 DEF Banks!Code, Banks!TypeOK
  <2> QED
    BY <2>1, <2>2
<1> QED
  BY <1>2, <1>3, <1>4, <1>5, <1>6, <1>7, <1>8 DEF Banks!Code, Banks!TypeOK

LEMMA BanksTypeStep == ASSUME Banks!TypeOK, [Banks!Next]_(Banks!vars) PROVE Banks!TypeOK'
<1>1. CASE UNCHANGED Banks!vars
  BY <1>1 DEF Banks!vars, Banks!TypeOK, Banks!Code
<1> QED
  BY <1>1, BanksCallType, BanksRunType DEF Banks!Next


-----------------------------------------------------------------------------
(* EcBanks: how far the text of a _BIF has got.                            *)

\* at access p of battery a: the text x, the next byte n, the selector y
TextAt(q, p, x, n, y) ==
  p \in q + 1 .. q + TextLen + 1 =>
    /\ Len(x) = p - q - 1
    /\ n = IF p = q + TextLen + 1 THEN 1 ELSE p - q
    /\ x # <<>> => x[1][2] = y
TextOrdered(a, x) == \A i \in 1 .. Len(x) : x[i] = <<a, x[1][2], i>>
TextRight(p, a, x, n, y) ==
  /\ p <= 9 => x = <<>>
  /\ \A q \in Banks!TextStarts : TextAt(q, p, x, n, y)
  /\ TextOrdered(a, x)

LEMMA TextStartsApart ==
  ASSUME NEW q \in Banks!TextStarts, NEW r \in Banks!TextStarts,
         NEW p \in q .. q + TextLen, p + 1 \in r + 1 .. r + TextLen + 1
  PROVE  q = r
BY BanksAssumption DEF Banks!TextStarts

LEMMA TextSelected ==
  ASSUME NEW q \in Banks!TextStarts, NEW a, NEW y
  PROVE  TextRight(q + 1, a, <<>>, 1, y)
<1>1. q \in Nat /\ q + 1 > 9 /\ TextLen \in Nat \ {0}
  BY BanksAssumption DEF Banks!TextStarts
<1>2. ASSUME NEW r \in Banks!TextStarts, q + 1 \in r + 1 .. r + TextLen + 1 PROVE q = r
  BY <1>1, <1>2, TextStartsApart
<1>3. Len(<<>>) = 0
  OBVIOUS
<1>4. ASSUME NEW r \in Banks!TextStarts, q + 1 \in r + 1 .. r + TextLen + 1
      PROVE  0 = q + 1 - r - 1 /\ 1 = IF q + 1 = r + TextLen + 1 THEN 1 ELSE q + 1 - r
  BY <1>1, <1>2, <1>4
<1> QED
  BY <1>1, <1>3, <1>4 DEF TextRight, TextAt, TextOrdered

LEMMA TextGoesOn ==
  ASSUME NEW p \in Nat, NEW a, NEW x, NEW n, NEW y, TextRight(p, a, x, n, y),
         p \in 1 .. 8 \cup {10 + TextLen, 11 + TextLen, 12 + TextLen, 14 + 2 * TextLen}
  PROVE  TextRight(p + 1, a, x, n, y)
<1>1. \A q \in Banks!TextStarts : p + 1 \notin q + 1 .. q + TextLen + 1
  BY BanksAssumption DEF Banks!TextStarts
<1>2. p + 1 <= 9 => p <= 9
  OBVIOUS
<1> QED
  BY <1>1, <1>2 DEF TextRight, TextAt

LEMMA SmallRemainder == ASSUME NEW k \in Nat, NEW l \in Nat \ {0}, k < l PROVE k % l = k
<1>1. k = l * 0 + k /\ 0 <= k /\ k < l
  OBVIOUS
<1> QED
  BY <1>1, Z3

LEMMA ByteRead ==
  ASSUME NEW p \in Nat, NEW a \in Nat, NEW x \in Seq(Nat \X Nat \X Nat), NEW n \in 1 .. TextLen,
         NEW y \in Nat, TextRight(p, a, x, n, y),
         NEW q \in Banks!TextStarts, p \in q + 1 .. q + TextLen
  PROVE  TextRight(p + 1, a, Append(x, <<a, y, n>>), (n % TextLen) + 1, y)
<1> DEFINE z == Append(x, <<a, y, n>>)
           m == (n % TextLen) + 1
           k == p + 1
<1>1. q \in Nat /\ q >= 9 /\ TextLen \in Nat \ {0}
  BY BanksAssumption DEF Banks!TextStarts
<1>2. p \in q + 1 .. q + TextLen + 1 /\ p # q + TextLen + 1
  BY <1>1
<1>3. Len(x) = p - q - 1 /\ n = p - q /\ (x # <<>> => x[1][2] = y)
  BY <1>2 DEF TextRight, TextAt
<1>4. /\ z \in Seq(Nat \X Nat \X Nat) /\ Len(z) = Len(x) + 1
      /\ z[Len(x) + 1] = <<a, y, n>> /\ \A i \in 1 .. Len(x) : z[i] = x[i]
  OBVIOUS
<1>5. Len(x) \in Nat /\ Len(x) + 1 = n
  BY <1>1, <1>3
<1>6. z[1][2] = y
  <2>1. CASE Len(x) = 0
    BY <1>4, <2>1
  <2>2. CASE Len(x) # 0
    <3>1. x # <<>> /\ 1 \in 1 .. Len(x)
      BY <1>5, <2>2
    <3> QED
      BY <1>3, <1>4, <3>1
  <2> QED
    BY <2>1, <2>2
<1>7. TextOrdered(a, z)
  <2>1. ASSUME NEW i \in 1 .. Len(x) PROVE z[i] = <<a, y, i>>
    <3>1. x # <<>>
      BY <1>5, <2>1
    <3>2. x[i] = <<a, x[1][2], i>>
      BY DEF TextRight, TextOrdered
    <3> QED
      BY <1>3, <1>4, <3>1, <3>2
  <2>2. z[Len(x) + 1] = <<a, y, Len(x) + 1>>
    BY <1>4, <1>5
  <2>3. \A i \in 1 .. Len(z) : i \in 1 .. Len(x) \/ i = Len(x) + 1
    BY <1>4, <1>5
  <2> QED
    BY <1>6, <2>1, <2>2, <2>3 DEF TextOrdered
<1>8. m = IF k = q + TextLen + 1 THEN 1 ELSE k - q
  <2>1. CASE p = q + TextLen
    <3>1. n = TextLen
      BY <1>1, <1>3, <2>1
    <3>2. n % TextLen = 0
      BY <1>1, <3>1
    <3> QED
      BY <1>1, <2>1, <3>2
  <2>2. CASE p # q + TextLen
    <3>1. n < TextLen
      BY <1>1, <1>3, <2>2
    <3>2. n % TextLen = n
      <4>1. n \in Nat /\ TextLen \in Nat \ {0}
        BY <1>1
      <4> QED
        BY <3>1, <4>1, SmallRemainder, Zenon
    <3> QED
      BY <1>1, <1>3, <2>2, <3>2
  <2> QED
    BY <2>1, <2>2
<1>9. Len(z) = k - q - 1
  <2>1. Len(z) = Len(x) + 1 /\ Len(x) = p - q - 1
    BY <1>3, <1>4
  <2>2. p - q - 1 + 1 = k - q - 1
    BY <1>1
  <2> HIDE DEF z, k
  <2> QED
    BY <2>1, <2>2
<1>10. ASSUME NEW r \in Banks!TextStarts, k \in r + 1 .. r + TextLen + 1 PROVE r = q
  <2>1. p \in q .. q + TextLen
    BY <1>1
  <2>2. p + 1 \in r + 1 .. r + TextLen + 1
    BY <1>10
  <2> HIDE DEF z, m, k
  <2> QED
    BY <2>1, <2>2, TextStartsApart
<1>11. ~(k <= 9)
  BY <1>1
<1> HIDE DEF z, m, k
<1>12. ASSUME NEW r \in Banks!TextStarts PROVE TextAt(r, k, z, m, y)
  <2>1. CASE r = q
    BY <1>6, <1>8, <1>9, <2>1 DEF TextAt
  <2>2. CASE r # q
    <3>1. ~(k \in r + 1 .. r + TextLen + 1)
      BY <1>10, <2>2
    <3> QED
      BY <3>1 DEF TextAt
  <2> QED
    BY <2>1, <2>2
<1>13. TextRight(k, a, z, m, y)
  BY <1>7, <1>11, <1>12, Zenon DEF TextRight
<1> QED
  BY <1>13 DEF k, z, m


-----------------------------------------------------------------------------
(* EcBanks: what one access does.                                          *)

LEMMA ReadDoes ==
  ASSUME NEW t \in Threads, Banks!Run(t), NEW r \in Nat, Banks!Now(t) = Banks!ECR1(r)
  PROVE  /\ owner' = owner /\ bank' = bank /\ placed' = placed
         /\ r \in 16 .. 41 => seen' = [seen EXCEPT ![t] = seen[t] \cup {bank[3]}]
         /\ r \notin 16 .. 41 => seen' = seen
         /\ r = 42 => /\ text' = [text EXCEPT ![t] = Append(text[t], <<bank[3], bank[4], byte>>)]
                      /\ byte' = (byte % TextLen) + 1
         /\ r # 42 => text' = text /\ byte' = byte
<1>1. Banks!Now(t).op = "read" /\ Banks!Now(t).x = r
  BY DEF Banks!ECR1, Banks!Step
<1>2. Banks!Read(t)
  BY <1>1 DEF Banks!Run, Banks!Acquire, Banks!Timeout, Banks!Release, Banks!Write, Banks!Does
<1> QED
  BY <1>1, <1>2 DEF Banks!Read

LEMMA WriteDoes ==
  ASSUME NEW t \in Threads, Banks!Run(t), NEW r \in Nat, NEW v \in Nat,
         Banks!Now(t) = Banks!ECW1(r, v)
  PROVE  /\ owner' = owner /\ seen' = seen
         /\ r \in Banks!Selectors => bank' = [bank EXCEPT ![r] = v]
         /\ r \notin Banks!Selectors => bank' = bank
         /\ r = 4 => byte' = 1 /\ text' = [text EXCEPT ![t] = <<>>]
         /\ r # 4 => byte' = byte /\ text' = text
         /\ r \in 53 .. 55 => placed' = [placed EXCEPT ![t] = placed[t] \cup {bank[51]}]
         /\ r \notin 53 .. 55 => placed' = placed
<1>1. Banks!Now(t).op = "write" /\ Banks!Now(t).x = r /\ Banks!Now(t).y = v
  BY DEF Banks!ECW1, Banks!Step
<1>2. Banks!Write(t)
  BY <1>1 DEF Banks!Run, Banks!Acquire, Banks!Timeout, Banks!Release, Banks!Read, Banks!Does
<1> QED
  BY <1>1, <1>2 DEF Banks!Write

\* An access to a mutex changes its owner at most.
LEMMA MutexDoes ==
  ASSUME NEW t \in Threads, Banks!Run(t), NEW m \in {"ECM1", "PATM"},
         Banks!Now(t) \in {Banks!Acq(m), Banks!AcqOrEnd(m), Banks!AcqOrNot(m), Banks!Rel(m)}
  PROVE  /\ bank' = bank /\ byte' = byte /\ seen' = seen /\ text' = text /\ placed' = placed
         /\ \E o \in {owner[m], t, Free} : owner' = [owner EXCEPT ![m] = o] \/ owner' = owner
<1>1. Banks!Now(t).op \in {"acquire", "timed", "ignored", "release"} /\ Banks!Now(t).x = m
  BY DEF Banks!Acq, Banks!AcqOrEnd, Banks!AcqOrNot, Banks!Rel, Banks!Step
<1>2. Banks!Acquire(t) \/ Banks!Timeout(t) \/ Banks!Release(t)
  BY <1>1 DEF Banks!Run, Banks!Read, Banks!Write, Banks!Does
<1> QED
  BY <1>1, <1>2 DEF Banks!Acquire, Banks!Timeout, Banks!Release

LEMMA AcquireDoes ==
  ASSUME NEW t \in Threads, Banks!Run(t), NEW m \in {"ECM1", "PATM"}, Banks!Now(t) = Banks!Acq(m)
  PROVE  owner[m] = Free /\ owner' = [owner EXCEPT ![m] = t]
<1>1. Banks!Now(t).op = "acquire" /\ Banks!Now(t).x = m
  BY DEF Banks!Acq, Banks!Step
<1>2. Banks!Acquire(t)
  BY <1>1 DEF Banks!Run, Banks!Timeout, Banks!Release, Banks!Read, Banks!Write, Banks!Does
<1> QED
  BY <1>1, <1>2 DEF Banks!Acquire

-----------------------------------------------------------------------------
(* EcBanks: one thread's part of ReadsInv.                                 *)

Holds(t) == BatteryJob(job[t]) /\ at[t] > 1 => owner["ECM1"] = t
Selected(t) == (job[t] = "_BST" /\ at[t] > 3) \/ (job[t] = "_BIF" /\ at[t] > 2) => bank[3] = arg[t]
SeenOwn(t) == BatteryJob(job[t]) => seen[t] \subseteq {arg[t]}
TextOwn(t) == job[t] = "_BIF" => TextRight(at[t], arg[t], text[t], byte, bank[4])
ReadsRight(t) == Holds(t) /\ Selected(t) /\ SeenOwn(t) /\ TextOwn(t)

LEMMA ReadsInvIs == Banks!ReadsInv <=> Banks!TypeOK /\ \A t \in Threads : ReadsRight(t)
<1>1. Banks!HoldsECM1 <=> \A t \in Threads : Holds(t)
  BY DEF Banks!HoldsECM1, Holds, BatteryJob
<1>2. Banks!BatterySelected <=> \A t \in Threads : Selected(t)
  BY DEF Banks!BatterySelected, Selected
<1>3. Banks!OwnBattery <=> \A t \in Threads : SeenOwn(t)
  BY DEF Banks!OwnBattery, SeenOwn, BatteryJob
<1>4. Banks!TextSoFar /\ Banks!WholeText <=> \A t \in Threads : TextOwn(t)
  BY Zenon DEF Banks!TextSoFar, Banks!WholeText, TextOwn, TextRight, TextAt, TextOrdered
<1> QED
  BY <1>1, <1>2, <1>3, <1>4 DEF Banks!ReadsInv, Banks!OwnReads, ReadsRight

LEMMA TextEmpty ==
  ASSUME NEW p \in 1 .. 9, NEW a, NEW n, NEW y
  PROVE  TextRight(p, a, <<>>, n, y)
<1>1. \A q \in Banks!TextStarts : p \notin q + 1 .. q + TextLen + 1
  BY BanksAssumption DEF Banks!TextStarts
<1>2. \A i \in 1 .. Len(<<>>) : FALSE
  OBVIOUS
<1> QED
  BY <1>1, <1>2, Zenon DEF TextRight, TextAt, TextOrdered


\* What is unchanged for a thread stays right.
LEMMA ReadsKept ==
  ASSUME NEW u \in Threads, ReadsRight(u), job'[u] = job[u], arg'[u] = arg[u], at'[u] = at[u],
         seen'[u] = seen[u], text'[u] = text[u],
         owner'["ECM1"] = owner["ECM1"], bank'[3] = bank[3], bank'[4] = bank[4], byte' = byte
  PROVE  ReadsRight(u)'
<1>1. Holds(u)' /\ Selected(u)' /\ SeenOwn(u)'
  BY DEF ReadsRight, Holds, Selected, SeenOwn
<1>2. TextOwn(u)'
  BY DEF ReadsRight, TextOwn
<1> QED
  BY <1>1, <1>2 DEF ReadsRight

\* A method that is none of the battery's has nothing to show.
LEMMA ReadsOfNone ==
  ASSUME NEW u \in Threads, ~BatteryJob(job'[u])
  PROVE  ReadsRight(u)'
BY DEF ReadsRight, Holds, Selected, SeenOwn, TextOwn, BatteryJob

LEMMA ReadsCall ==
  ASSUME Banks!TypeOK, NEW t \in Threads, Banks!Call(t), \A u \in Threads : ReadsRight(u),
         NEW u \in Threads
  PROVE  ReadsRight(u)'
<1>1. UNCHANGED <<owner, bank, byte>>
  BY DEF Banks!Call
<1>2. CASE u # t
  <2>1. job'[u] = job[u] /\ arg'[u] = arg[u] /\ at'[u] = at[u] /\ seen'[u] = seen[u] /\ text'[u] = text[u]
    BY <1>2 DEF Banks!Call, Banks!TypeOK
  <2> QED
    BY <1>1, <2>1, ReadsKept
<1>3. CASE u = t
  <2>1. at'[u] = 1 /\ seen'[u] = {} /\ text'[u] = <<>>
    BY <1>3 DEF Banks!Call, Banks!TypeOK
  <2>2. TextRight(1, arg'[u], <<>>, byte', bank'[4])
    BY TextEmpty
  <2>3. TextOwn(u)'
    BY <2>1, <2>2, Zenon DEF TextOwn
  <2>4. Holds(u)' /\ Selected(u)' /\ SeenOwn(u)'
    BY <2>1 DEF Holds, Selected, SeenOwn
  <2> QED
    BY <2>3, <2>4 DEF ReadsRight
<1> QED
  BY <1>2, <1>3

(* The methods of the sensors and _Q66 do not disturb a battery's.         *)
LEMMA SensingDoes ==
  ASSUME Banks!TypeOK, NEW t \in Threads, Banks!Run(t), Banks!Now(t) \in Sensing
  PROVE  /\ owner'["ECM1"] = owner["ECM1"] /\ bank'[3] = bank[3] /\ bank'[4] = bank[4]
         /\ byte' = byte /\ seen' = seen /\ text' = text
<1>1. CASE Banks!Now(t) \in {Banks!AcqOrEnd("PATM"), Banks!AcqOrNot("PATM"), Banks!Rel("PATM")}
  <2>1. /\ bank' = bank /\ byte' = byte /\ seen' = seen /\ text' = text
        /\ \E o \in {owner["PATM"], t, Free} : owner' = [owner EXCEPT !["PATM"] = o] \/ owner' = owner
    BY <1>1, MutexDoes
  <2>2. owner'["ECM1"] = owner["ECM1"]
    BY <2>1 DEF Banks!TypeOK, Banks!Mutexes
  <2> QED
    BY <2>1, <2>2
<1>2. ASSUME NEW r \in Nat \ 16 .. 42, Banks!Now(t) = Banks!ECR1(r)
      PROVE  owner' = owner /\ bank' = bank /\ byte' = byte /\ seen' = seen /\ text' = text
  <2>1. r \notin 16 .. 41 /\ r # 42
    OBVIOUS
  <2> QED
    BY <1>2, <2>1, ReadDoes
<1>3. ASSUME NEW r \in Nat \ {3, 4}, NEW v \in Nat, Banks!Now(t) = Banks!ECW1(r, v)
      PROVE  /\ owner' = owner /\ bank'[3] = bank[3] /\ bank'[4] = bank[4]
             /\ byte' = byte /\ seen' = seen /\ text' = text
  <2>1. /\ owner' = owner /\ byte' = byte /\ seen' = seen /\ text' = text
        /\ bank' = bank \/ bank' = [bank EXCEPT ![r] = v]
    BY <1>3, WriteDoes
  <2>2. bank'[3] = bank[3] /\ bank'[4] = bank[4]
    BY <2>1 DEF Banks!TypeOK, Banks!Selectors
  <2> QED
    BY <2>1, <2>2
<1> QED
  BY <1>1, <1>2, <1>3 DEF Sensing

LEMMA ReadsSensed ==
  ASSUME Banks!TypeOK, NEW t \in Threads, Banks!Run(t), Sensed(job[t]),
         \A u \in Threads : ReadsRight(u), NEW u \in Threads
  PROVE  ReadsRight(u)'
<1>1. Banks!Now(t) \in Sensing
  <2>1. /\ job[t] \in Jobs /\ arg[t] \in Banks!Arguments(job[t])
        /\ at[t] \in 1 .. Len(Banks!Code(t)) /\ Banks!Now(t) = Banks!Code(t)[at[t]]
    BY BanksRun
  <2>2. \A p \in 1 .. Len(Banks!Code(t)) : Banks!Code(t)[p] \in Sensing
    BY <2>1, CodesAre DEF Banks!Code
  <2> QED
    BY <2>1, <2>2
<1>2. CASE u # t
  <2>1. job'[u] = job[u] /\ arg'[u] = arg[u] /\ at'[u] = at[u] /\ seen'[u] = seen[u] /\ text'[u] = text[u]
    BY <1>2, BanksOthers
  <2> QED
    BY <1>1, <2>1, SensingDoes, ReadsKept
<1>3. CASE u = t
  <2>1. job'[u] = job[u] \/ job'[u] = "none"
    <3>1. job' = job \/ job' = [job EXCEPT ![t] = "none"]
      BY BanksRun
    <3> QED
      BY <1>3, <3>1 DEF Banks!TypeOK
  <2>2. ~BatteryJob(job'[u])
    BY <1>3, <2>1 DEF BatteryJob, Sensed
  <2> QED
    BY <2>2, ReadsOfNone
<1> QED
  BY <1>2, <1>3

(* While a method holds ECM1, or when it is about to, the others' have not *)
(* begun.                                                                  *)
LEMMA ReadsOfOthers ==
  ASSUME Banks!TypeOK, NEW t \in Threads, Banks!Run(t), \A u \in Threads : ReadsRight(u),
         owner["ECM1"] \in {t, Free}, NEW u \in Threads, u # t
  PROVE  ReadsRight(u)'
<1>1. job'[u] = job[u] /\ arg'[u] = arg[u] /\ at'[u] = at[u] /\ seen'[u] = seen[u] /\ text'[u] = text[u]
  BY BanksOthers
<1>2. CASE ~BatteryJob(job[u])
  BY <1>1, <1>2, ReadsOfNone
<1>3. CASE BatteryJob(job[u])
  <2>1. owner["ECM1"] # u
    BY BanksAssumption
  <2>2. at[u] \in Nat \ {0} /\ ~(at[u] > 1)
    BY <1>3, <2>1 DEF ReadsRight, Holds, Banks!TypeOK
  <2>3. at[u] = 1
    BY <2>2
  <2>4. Holds(u)' /\ Selected(u)' /\ SeenOwn(u)'
    BY <1>1, <2>3 DEF ReadsRight, Holds, Selected, SeenOwn
  <2>5. ASSUME job[u] = "_BIF" PROVE text[u] = <<>>
    <3>1. TextRight(at[u], arg[u], text[u], byte, bank[4])
      BY <2>5 DEF ReadsRight, TextOwn
    <3> QED
      BY <2>3, <3>1 DEF TextRight
  <2>6. ASSUME job[u] = "_BIF" PROVE TextRight(1, arg'[u], text'[u], byte', bank'[4])
    BY <1>1, <2>5, <2>6, TextEmpty
  <2>7. TextOwn(u)'
    BY <1>1, <2>3, <2>6, Zenon DEF TextOwn
  <2> QED
    BY <2>4, <2>7 DEF ReadsRight
<1> QED
  BY <1>2, <1>3


-----------------------------------------------------------------------------
(* EcBanks: a step of _BST or _BIF keeps its own reads right.              *)

\* The first access of both is Acquire (ECM1).
LEMMA ReadsAcquire ==
  ASSUME Banks!TypeOK, NEW t \in Threads, Banks!Run(t), ReadsRight(t), BatteryJob(job[t]),
         Banks!Now(t) = Banks!Acq("ECM1"), at[t] = 1, job' = job, at' = [at EXCEPT ![t] = at[t] + 1]
  PROVE  ReadsRight(t)'
<1>1. at'[t] = 2 /\ arg'[t] = arg[t] /\ job'[t] = job[t]
  <2>1. arg' = arg
    BY BanksRun
  <2> QED
    BY <2>1 DEF Banks!TypeOK
<1>2. bank' = bank /\ byte' = byte /\ seen' = seen /\ text' = text
  BY MutexDoes
<1>3. owner'["ECM1"] = t
  BY AcquireDoes DEF Banks!TypeOK, Banks!Mutexes
<1>4. Holds(t)' /\ Selected(t)' /\ SeenOwn(t)'
  BY <1>1, <1>2, <1>3 DEF ReadsRight, Holds, Selected, SeenOwn
<1>5. ASSUME job[t] = "_BIF" PROVE TextRight(2, arg[t], text[t], byte, bank[4])
  <2>1. TextRight(1, arg[t], text[t], byte, bank[4])
    BY <1>5 DEF ReadsRight, TextOwn
  <2>2. 1 \in 1 .. 8 /\ 1 \in Nat /\ 1 + 1 = 2
    OBVIOUS
  <2> QED
    BY <2>1, <2>2, TextGoesOn
<1>6. TextOwn(t)'
  BY <1>1, <1>2, <1>5, Zenon DEF TextOwn
<1> QED
  BY <1>4, <1>6 DEF ReadsRight

\* Where a text does not go on.
Between == 1 .. 8 \cup {10 + TextLen, 11 + TextLen, 12 + TextLen, 14 + 2 * TextLen}

\* A read of the battery's registers, after its selection.
LEMMA ReadsRegister ==
  ASSUME Banks!TypeOK, NEW t \in Threads, Banks!Run(t), ReadsRight(t), owner["ECM1"] = t,
         Banks!Now(t) \in Reads, bank[3] = arg[t], job[t] = "_BIF" => at[t] \in Between,
         job' = job, at' = [at EXCEPT ![t] = at[t] + 1]
  PROVE  ReadsRight(t)'
<1>1. at'[t] = at[t] + 1 /\ arg'[t] = arg[t] /\ job'[t] = job[t]
  <2>1. arg' = arg
    BY BanksRun
  <2> QED
    BY <2>1 DEF Banks!TypeOK
<1>2. PICK r \in 16 .. 41 : Banks!Now(t) = Banks!ECR1(r)
  BY DEF Reads
<1>3. /\ owner' = owner /\ bank' = bank /\ byte' = byte /\ text' = text
      /\ seen' = [seen EXCEPT ![t] = seen[t] \cup {bank[3]}]
  <2>1. r \in Nat /\ r # 42
    OBVIOUS
  <2> QED
    BY <1>2, <2>1, ReadDoes
<1>4. seen'[t] = seen[t] \cup {arg[t]}
  BY <1>3 DEF Banks!TypeOK
<1>5. Holds(t)' /\ Selected(t)' /\ SeenOwn(t)'
  BY <1>1, <1>3, <1>4 DEF ReadsRight, Holds, Selected, SeenOwn
<1>6. ASSUME job[t] = "_BIF" PROVE TextRight(at[t] + 1, arg[t], text[t], byte, bank[4])
  <2>1. TextRight(at[t], arg[t], text[t], byte, bank[4])
    BY <1>6 DEF ReadsRight, TextOwn
  <2>2. at[t] \in Nat /\ at[t] \in Between
    BY <1>6 DEF Banks!TypeOK
  <2> QED
    BY <2>1, <2>2, TextGoesOn DEF Between
<1>7. TextOwn(t)'
  BY <1>1, <1>3, <1>6, Zenon DEF TextOwn
<1> QED
  BY <1>5, <1>7 DEF ReadsRight

\* The write that selects the battery.
LEMMA ReadsSelection ==
  ASSUME Banks!TypeOK, NEW t \in Threads, Banks!Run(t), ReadsRight(t), owner["ECM1"] = t,
         Banks!Now(t) = Banks!ECW1(3, arg[t]), job[t] = "_BIF" => at[t] \in Between,
         job' = job, at' = [at EXCEPT ![t] = at[t] + 1]
  PROVE  ReadsRight(t)'
<1>1. at'[t] = at[t] + 1 /\ arg'[t] = arg[t] /\ job'[t] = job[t] /\ arg[t] \in Nat
  <2>1. arg' = arg
    BY BanksRun
  <2> QED
    BY <2>1 DEF Banks!TypeOK
<1>2. /\ owner' = owner /\ byte' = byte /\ text' = text /\ seen' = seen
      /\ bank' = [bank EXCEPT ![3] = arg[t]]
  <2>1. 3 \in Nat /\ arg[t] \in Nat /\ 3 \in Banks!Selectors /\ 3 # 4
    BY <1>1 DEF Banks!Selectors
  <2> QED
    BY <2>1, WriteDoes
<1>3. bank'[3] = arg[t] /\ bank'[4] = bank[4]
  BY <1>2 DEF Banks!TypeOK, Banks!Selectors
<1>4. Holds(t)' /\ Selected(t)' /\ SeenOwn(t)'
  BY <1>1, <1>2, <1>3 DEF ReadsRight, Holds, Selected, SeenOwn
<1>5. ASSUME job[t] = "_BIF" PROVE TextRight(at[t] + 1, arg[t], text[t], byte, bank[4])
  <2>1. TextRight(at[t], arg[t], text[t], byte, bank[4])
    BY <1>5 DEF ReadsRight, TextOwn
  <2>2. at[t] \in Nat /\ at[t] \in Between
    BY <1>5 DEF Banks!TypeOK
  <2> QED
    BY <2>1, <2>2, TextGoesOn DEF Between
<1>6. TextOwn(t)'
  BY <1>1, <1>2, <1>3, <1>5, Zenon DEF TextOwn
<1> QED
  BY <1>4, <1>6 DEF ReadsRight

\* The write that selects a text.
LEMMA ReadsTextStart ==
  ASSUME Banks!TypeOK, NEW t \in Threads, Banks!Run(t), ReadsRight(t), owner["ECM1"] = t,
         job[t] = "_BIF", at[t] \in Banks!TextStarts, NEW n \in 1 .. 3,
         Banks!Now(t) = Banks!ECW1(4, n), job' = job, at' = [at EXCEPT ![t] = at[t] + 1]
  PROVE  ReadsRight(t)'
<1>1. at'[t] = at[t] + 1 /\ arg'[t] = arg[t] /\ job'[t] = job[t]
  <2>1. arg' = arg
    BY BanksRun
  <2> QED
    BY <2>1 DEF Banks!TypeOK
<1>2. /\ owner' = owner /\ byte' = 1 /\ text' = [text EXCEPT ![t] = <<>>] /\ seen' = seen
      /\ bank' = [bank EXCEPT ![4] = n]
  <2>1. n \in Nat /\ 4 \in Nat /\ 4 \in Banks!Selectors
    BY DEF Banks!Selectors
  <2> QED
    BY <2>1, WriteDoes
<1>3. bank'[3] = bank[3] /\ text'[t] = <<>>
  BY <1>2 DEF Banks!TypeOK, Banks!Selectors
<1>4. bank[3] = arg[t]
  <2>1. at[t] > 2
    BY BanksAssumption DEF Banks!TextStarts
  <2> QED
    BY <2>1 DEF ReadsRight, Selected
<1>5. Holds(t)' /\ Selected(t)' /\ SeenOwn(t)'
  BY <1>1, <1>2, <1>3, <1>4 DEF ReadsRight, Holds, Selected, SeenOwn
<1>6. TextRight(at[t] + 1, arg[t], <<>>, 1, bank'[4])
  BY TextSelected
<1>7. TextOwn(t)'
  BY <1>1, <1>2, <1>3, <1>6, Zenon DEF TextOwn
<1> QED
  BY <1>5, <1>7 DEF ReadsRight

\* A byte of a text.
LEMMA ReadsTextByte ==
  ASSUME Banks!TypeOK, NEW t \in Threads, Banks!Run(t), ReadsRight(t), owner["ECM1"] = t,
         job[t] = "_BIF", NEW q \in Banks!TextStarts, at[t] \in q + 1 .. q + TextLen,
         Banks!Now(t) = Banks!ECR1(42), job' = job, at' = [at EXCEPT ![t] = at[t] + 1]
  PROVE  ReadsRight(t)'
<1>1. at'[t] = at[t] + 1 /\ arg'[t] = arg[t] /\ job'[t] = job[t]
  <2>1. arg' = arg
    BY BanksRun
  <2> QED
    BY <2>1 DEF Banks!TypeOK
<1>2. /\ owner' = owner /\ bank' = bank /\ seen' = seen
      /\ text' = [text EXCEPT ![t] = Append(text[t], <<bank[3], bank[4], byte>>)]
      /\ byte' = (byte % TextLen) + 1
  <2>1. 42 \in Nat /\ 42 \notin 16 .. 41
    OBVIOUS
  <2> QED
    BY <2>1, ReadDoes
<1>3. text'[t] = Append(text[t], <<bank[3], bank[4], byte>>)
  BY <1>2 DEF Banks!TypeOK
<1>4. bank[3] = arg[t]
  <2>1. at[t] > 2
    BY BanksAssumption DEF Banks!TextStarts
  <2> QED
    BY <2>1 DEF ReadsRight, Selected
<1>5. Holds(t)' /\ Selected(t)' /\ SeenOwn(t)'
  BY <1>1, <1>2, <1>4 DEF ReadsRight, Holds, Selected, SeenOwn
<1>6. TextRight(at[t] + 1, arg[t], Append(text[t], <<arg[t], bank[4], byte>>), (byte % TextLen) + 1,
                bank[4])
  <2>1. TextRight(at[t], arg[t], text[t], byte, bank[4])
    BY DEF ReadsRight, TextOwn
  <2>2. /\ at[t] \in Nat /\ arg[t] \in Nat /\ text[t] \in Seq(Nat \X Nat \X Nat)
        /\ byte \in 1 .. TextLen /\ bank[4] \in Nat
    BY DEF Banks!TypeOK, Banks!Selectors
  <2> QED
    BY <2>1, <2>2, ByteRead
<1>7. TextOwn(t)'
  BY <1>1, <1>2, <1>3, <1>4, <1>6, Zenon DEF TextOwn
<1> QED
  BY <1>5, <1>7 DEF ReadsRight


LEMMA ReadsBST ==
  ASSUME Banks!TypeOK, NEW t \in Threads, Banks!Run(t), ReadsRight(t), job[t] = "_BST",
         job' = job, at' = [at EXCEPT ![t] = at[t] + 1], at[t] + 1 <= Len(Banks!Code(t))
  PROVE  ReadsRight(t)'
<1> DEFINE c == Banks!Code(t)
<1>1. at[t] \in 1 .. Len(c) /\ Banks!Now(t) = c[at[t]]
  BY BanksRun
<1>2. c = Banks!ECG6(arg[t]) /\ arg[t] \in Nat
  BY DEF Banks!Code, Banks!Method, Banks!TypeOK
<1> HIDE DEF c
<1>3. /\ Len(c) = 11
      /\ c[1] = Banks!Acq("ECM1") /\ c[2] = Banks!ECR1(0) /\ c[3] = Banks!ECW1(3, arg[t])
      /\ \A p \in 4 .. 10 : c[p] \in Reads
  BY <1>2, ECG6Code
<1>4. at[t] \in 1 .. 10
  BY <1>1, <1>3 DEF c
<1>5. BatteryJob(job[t]) /\ (job[t] = "_BIF" => at[t] \in Between)
  BY DEF BatteryJob
<1>6. at[t] > 1 => owner["ECM1"] = t
  BY <1>5 DEF ReadsRight, Holds
<1>7. CASE at[t] = 1
  BY <1>1, <1>3, <1>5, <1>7, ReadsAcquire
<1>8. CASE at[t] = 2
  <2>1. Banks!Now(t) = Banks!ECR1(0) /\ 0 \in Nat /\ 0 \notin 16 .. 41 /\ 0 # 42
    BY <1>1, <1>3, <1>8
  <2>2. owner' = owner /\ bank' = bank /\ seen' = seen
    BY <2>1, ReadDoes
  <2>3. arg' = arg
    BY BanksRun
  <2>4. at'[t] = 3 /\ job'[t] = "_BST" /\ arg'[t] = arg[t]
    BY <1>8, <2>3 DEF Banks!TypeOK
  <2>5. Holds(t)' /\ Selected(t)' /\ SeenOwn(t)'
    BY <1>6, <1>8, <2>2, <2>4 DEF ReadsRight, Holds, Selected, SeenOwn
  <2>6. TextOwn(t)'
    BY <2>4 DEF TextOwn
  <2> QED
    BY <2>5, <2>6 DEF ReadsRight
<1>9. CASE at[t] = 3
  <2>1. Banks!Now(t) = Banks!ECW1(3, arg[t]) /\ owner["ECM1"] = t
    BY <1>1, <1>3, <1>6, <1>9
  <2> QED
    BY <1>5, <2>1, ReadsSelection
<1>10. CASE at[t] \in 4 .. 10
  <2>1. Banks!Now(t) \in Reads /\ owner["ECM1"] = t
    BY <1>1, <1>3, <1>6, <1>10
  <2>2. bank[3] = arg[t]
    BY <1>10 DEF ReadsRight, Selected
  <2> QED
    BY <1>5, <2>1, <2>2, ReadsRegister
<1> QED
  BY <1>4, <1>7, <1>8, <1>9, <1>10

LEMMA PlacesOfBIF ==
  ASSUME NEW p \in 1 .. 15 + 3 * TextLen
  PROVE  \/ p = 1 \/ p = 2 \/ p \in 3 .. 8
         \/ p \in {10 + TextLen, 11 + TextLen, 12 + TextLen, 14 + 2 * TextLen}
         \/ \E q \in Banks!TextStarts : p \in q .. q + TextLen
<1>1. TextLen \in Nat \ {0} /\ p \in Nat
  BY BanksAssumption
<1>2. 9 \in Banks!TextStarts /\ 13 + TextLen \in Banks!TextStarts /\ 15 + 2 * TextLen \in Banks!TextStarts
  BY DEF Banks!TextStarts
<1>3. \/ p \in 1 .. 8
      \/ p \in {10 + TextLen, 11 + TextLen, 12 + TextLen, 14 + 2 * TextLen}
      \/ p \in 9 .. 9 + TextLen
      \/ p \in 13 + TextLen .. 13 + TextLen + TextLen
      \/ p \in 15 + 2 * TextLen .. 15 + 2 * TextLen + TextLen
  BY <1>1
<1> QED
  BY <1>2, <1>3

LEMMA ReadsBIF ==
  ASSUME Banks!TypeOK, NEW t \in Threads, Banks!Run(t), ReadsRight(t), job[t] = "_BIF",
         job' = job, at' = [at EXCEPT ![t] = at[t] + 1], at[t] + 1 <= Len(Banks!Code(t))
  PROVE  ReadsRight(t)'
<1> DEFINE c == Banks!Code(t)
<1>1. at[t] \in 1 .. Len(c) /\ Banks!Now(t) = c[at[t]]
  BY BanksRun
<1>2. c = Banks!ECG9(arg[t]) /\ arg[t] \in Nat
  BY DEF Banks!Code, Banks!Method, Banks!TypeOK
<1>3. at[t] + 1 <= Len(c)
  OBVIOUS
<1> HIDE DEF c
<1>4. /\ Len(c) = 16 + 3 * TextLen
      /\ c[1] = Banks!Acq("ECM1") /\ c[2] = Banks!ECW1(3, arg[t])
      /\ \A p \in 3 .. 8 : c[p] \in Reads
      /\ \A p \in {10 + TextLen, 11 + TextLen, 12 + TextLen, 14 + 2 * TextLen} : c[p] \in Reads
      /\ \A q \in Banks!TextStarts : HasText(c, q)
  BY <1>2, ECG9Code
<1>5. at[t] \in 1 .. 15 + 3 * TextLen
  <2>1. Len(c) = 16 + 3 * TextLen
    BY <1>4
  <2> QED
    BY <1>1, <1>3, <2>1, BanksAssumption
<1>6. BatteryJob(job[t])
  BY DEF BatteryJob
<1>7. at[t] > 1 => owner["ECM1"] = t
  BY <1>6 DEF ReadsRight, Holds
<1>8. CASE at[t] = 1
  BY <1>1, <1>4, <1>6, <1>8, ReadsAcquire
<1>9. CASE at[t] = 2
  <2>1. Banks!Now(t) = Banks!ECW1(3, arg[t]) /\ at[t] \in Between /\ owner["ECM1"] = t
    BY <1>1, <1>4, <1>7, <1>9 DEF Between
  <2> QED
    BY <2>1, ReadsSelection
<1>10. CASE at[t] \in 3 .. 8 \cup {10 + TextLen, 11 + TextLen, 12 + TextLen, 14 + 2 * TextLen}
  <2>1. at[t] > 2 /\ at[t] \in Between
    BY <1>10, BanksAssumption DEF Between
  <2>2. Banks!Now(t) \in Reads
    BY <1>1, <1>4, <1>10
  <2>3. owner["ECM1"] = t
    BY <1>5, <1>7, <2>1
  <2>4. bank[3] = arg[t]
    BY <2>1 DEF ReadsRight, Selected
  <2> QED
    BY <2>1, <2>2, <2>3, <2>4, ReadsRegister
<1>11. ASSUME NEW q \in Banks!TextStarts, at[t] \in q .. q + TextLen PROVE ReadsRight(t)'
  <2>1. HasText(c, q)
    BY <1>4
  <2>2. q \in Nat /\ q > 1
    BY BanksAssumption DEF Banks!TextStarts
  <2>3. owner["ECM1"] = t
    BY <1>7, <1>11, <2>2
  <2>4. CASE at[t] = q
    <3>1. PICK n \in 1 .. 3 : Banks!Now(t) = Banks!ECW1(4, n)
      BY <1>1, <2>1, <2>4 DEF HasText
    <3> QED
      BY <2>3, <2>4, <3>1, ReadsTextStart
  <2>5. CASE at[t] \in q + 1 .. q + TextLen
    <3>1. Banks!Now(t) = Banks!ECR1(42)
      BY <1>1, <2>1, <2>5 DEF HasText
    <3> QED
      BY <2>3, <2>5, <3>1, ReadsTextByte
  <2> QED
    BY <1>11, <2>2, <2>4, <2>5
<1> QED
  BY <1>5, <1>8, <1>9, <1>10, <1>11, PlacesOfBIF

LEMMA ReadsBattery ==
  ASSUME Banks!TypeOK, NEW t \in Threads, Banks!Run(t), BatteryJob(job[t]),
         \A u \in Threads : ReadsRight(u), NEW u \in Threads
  PROVE  ReadsRight(u)'
<1>1. owner["ECM1"] \in {t, Free}
  <2>1. CASE at[t] > 1
    BY <2>1 DEF ReadsRight, Holds
  <2>2. CASE ~(at[t] > 1)
    <3>1. at[t] = 1 /\ arg[t] \in Nat
      BY <2>2 DEF Banks!TypeOK
    <3>2. Banks!Now(t) = Banks!Acq("ECM1")
      <4>1. CASE job[t] = "_BST"
        <5>1. Banks!Now(t) = Banks!ECG6(arg[t])[1]
          BY <3>1, <4>1 DEF Banks!Now, Banks!Code, Banks!Method
        <5> QED
          BY <3>1, <5>1, ECG6Code
      <4>2. CASE job[t] = "_BIF"
        <5>1. Banks!Now(t) = Banks!ECG9(arg[t])[1]
          BY <3>1, <4>2 DEF Banks!Now, Banks!Code, Banks!Method
        <5> QED
          BY <3>1, <5>1, ECG9Code
      <4> QED
        BY <4>1, <4>2 DEF BatteryJob
    <3> QED
      BY <3>2, AcquireDoes
  <2> QED
    BY <2>1, <2>2
<1>2. CASE u # t
  BY <1>1, <1>2, ReadsOfOthers
<1>3. CASE u = t
  <2>1. \/ job' = [job EXCEPT ![t] = "none"]
        \/ /\ job' = job /\ at[t] + 1 <= Len(Banks!Code(t))
           /\ at' = [at EXCEPT ![t] = at[t] + 1]
    BY BanksRun
  <2>2. CASE job' = [job EXCEPT ![t] = "none"]
    <3>1. ~BatteryJob(job'[u])
      BY <1>3, <2>2 DEF Banks!TypeOK, BatteryJob
    <3> QED
      BY <3>1, ReadsOfNone
  <2>3. CASE job' = job /\ at[t] + 1 <= Len(Banks!Code(t)) /\ at' = [at EXCEPT ![t] = at[t] + 1]
    BY <1>3, <2>3, ReadsBST, ReadsBIF DEF BatteryJob
  <2> QED
    BY <2>1, <2>2, <2>3
<1> QED
  BY <1>2, <1>3

LEMMA ReadsStep ==
  ASSUME Banks!TypeOK, \A u \in Threads : ReadsRight(u), [Banks!Next]_(Banks!vars),
         NEW u \in Threads
  PROVE  ReadsRight(u)'
<1>1. CASE UNCHANGED Banks!vars
  <2>1. /\ job'[u] = job[u] /\ arg'[u] = arg[u] /\ at'[u] = at[u] /\ seen'[u] = seen[u]
        /\ text'[u] = text[u] /\ owner' = owner /\ bank' = bank /\ byte' = byte
    BY <1>1 DEF Banks!vars
  <2> QED
    BY <2>1, ReadsKept
<1>2. ASSUME NEW t \in Threads, Banks!Call(t) PROVE ReadsRight(u)'
  BY <1>2, ReadsCall
<1>3. ASSUME NEW t \in Threads, Banks!Run(t) PROVE ReadsRight(u)'
  <2>1. job[t] \in Jobs
    BY <1>3, BanksRun
  <2> QED
    BY <1>3, <2>1, JobKinds, ReadsSensed, ReadsBattery
<1> QED
  BY <1>1, <1>2, <1>3 DEF Banks!Next

LEMMA BanksInit == Banks!Init => Banks!TypeOK /\ \A u \in Threads : ReadsRight(u)
<1> SUFFICES ASSUME Banks!Init PROVE Banks!TypeOK /\ \A u \in Threads : ReadsRight(u)
  OBVIOUS
<1>1. /\ job \in [Threads -> Jobs \cup {"none"}] /\ arg \in [Threads -> Nat]
      /\ at \in [Threads -> Nat \ {0}] /\ owner \in [Banks!Mutexes -> Threads \cup {Free}]
      /\ bank \in [Banks!Selectors -> Nat] /\ byte \in 1 .. TextLen
  BY BanksAssumption DEF Banks!Init
<1>2. /\ seen \in [Threads -> SUBSET Nat] /\ placed \in [Threads -> SUBSET Nat]
      /\ text \in [Threads -> Seq(Nat \X Nat \X Nat)]
  BY DEF Banks!Init
<1>3. \A u \in Threads : job[u] = "none"
  BY DEF Banks!Init
<1>4. Banks!TypeOK
  BY <1>1, <1>2, <1>3 DEF Banks!TypeOK
<1>5. \A u \in Threads : ReadsRight(u)
  BY <1>3 DEF ReadsRight, Holds, Selected, SeenOwn, TextOwn, BatteryJob
<1> QED
  BY <1>4, <1>5

(* What the controller reports for a battery, and each text of it, is of   *)
(* the battery and the text the method has selected, whatever other        *)
(* methods run at the same time: ECM1 is held from before the selection    *)
(* until after the last read (ECG6, ECG9), and no method without it writes *)
(* to 0x03 or 0x04 or reads 0x2A.                                          *)
THEOREM ReadsOfTheBattery == Banks!Spec => []OwnReads
<1> DEFINE Inv == Banks!TypeOK /\ \A u \in Threads : ReadsRight(u)
<1>1. Banks!Init => Inv
  BY BanksInit
<1>2. Inv /\ [Banks!Next]_(Banks!vars) => Inv'
  <2> SUFFICES ASSUME Inv, [Banks!Next]_(Banks!vars) PROVE Inv'
    OBVIOUS
  <2>1. Banks!TypeOK'
    BY BanksTypeStep
  <2>2. \A u \in Threads : ReadsRight(u)'
    BY ReadsStep
  <2> QED
    BY <2>1, <2>2
<1>3. Inv => OwnReads
  BY ReadsInvIs DEF Banks!ReadsInv, OwnReads
<1> QED
  BY <1>1, <1>2, <1>3, PTL DEF Banks!Spec


-----------------------------------------------------------------------------
(* EcBanks: the thresholds.                                                *)

SensorJob(j) == j \in {"PAT0", "PAT1"}

\* What the methods other than PAT0 and PAT1 do, where none reads a temperature.
Elsewhere == {Banks!Acq("ECM1"), Banks!Rel("ECM1"), Banks!AcqOrNot("PATM"), Banks!Rel("PATM")}
               \cup {Banks!ECR1(r) : r \in Nat}
               \cup {Banks!ECW1(r, v) : r \in Nat \ 51 .. 55, v \in Nat}

LEMMA ElsewhereHas ==
  /\ Banks!Acq("ECM1") \in Elsewhere /\ Banks!Rel("ECM1") \in Elsewhere
  /\ \A b \in Nat : Banks!ECW1(3, b) \in Elsewhere /\ Banks!ECW1(4, b) \in Elsewhere
  /\ \A r \in Nat : Banks!ECR1(r) \in Elsewhere
  /\ Reads \subseteq Elsewhere /\ Querying \subseteq Elsewhere
BY DEF Elsewhere, Reads, Querying

LEMMA OthersElsewhere ==
  ASSUME Banks!TypeOK, "_TMP" \notin Jobs, NEW t \in Threads, Banks!Run(t), ~SensorJob(job[t])
  PROVE  Banks!Now(t) \in Elsewhere
<1> DEFINE c == Banks!Code(t)
           k == at[t]
<1>1. /\ job[t] \in Jobs /\ arg[t] \in Banks!Arguments(job[t])
      /\ k \in 1 .. Len(c) /\ Banks!Now(t) = c[k]
  BY BanksRun
<1>2. job[t] \in {"_BST", "_BIF", "_Q66"} /\ arg[t] \in Nat
  BY <1>1, ArgumentsAre, BanksAssumption DEF SensorJob
<1> HIDE DEF k
<1>3. CASE job[t] = "_BST"
  <2>1. c = Banks!ECG6(arg[t])
    BY <1>3 DEF Banks!Code, Banks!Method
  <2> HIDE DEF c
  <2>2. /\ Len(c) = 11
        /\ c[1] = Banks!Acq("ECM1") /\ c[2] = Banks!ECR1(0) /\ c[3] = Banks!ECW1(3, arg[t])
        /\ \A p \in 4 .. 10 : c[p] \in Reads
        /\ c[11] = Banks!Rel("ECM1")
    BY <1>2, <2>1, ECG6Code
  <2>3. k = 1 \/ k = 2 \/ k = 3 \/ k \in 4 .. 10 \/ k = 11
    BY <1>1, <2>2
  <2>4. 0 \in Nat
    OBVIOUS
  <2>5. /\ c[1] \in Elsewhere /\ c[2] \in Elsewhere /\ c[3] \in Elsewhere /\ c[11] \in Elsewhere
        /\ \A p \in 4 .. 10 : c[p] \in Elsewhere
    BY <1>2, <2>2, <2>4, ElsewhereHas
  <2> QED
    BY <1>1, <2>3, <2>5
<1>4. CASE job[t] = "_BIF"
  <2>1. c = Banks!ECG9(arg[t])
    BY <1>4 DEF Banks!Code, Banks!Method
  <2> HIDE DEF c
  <2>2. /\ Len(c) = 16 + 3 * TextLen
        /\ c[1] = Banks!Acq("ECM1") /\ c[2] = Banks!ECW1(3, arg[t])
        /\ \A p \in 3 .. 8 : c[p] \in Reads
        /\ \A p \in {10 + TextLen, 11 + TextLen, 12 + TextLen, 14 + 2 * TextLen} : c[p] \in Reads
        /\ \A q \in Banks!TextStarts : HasText(c, q)
        /\ c[16 + 3 * TextLen] = Banks!Rel("ECM1")
    BY <1>2, <2>1, ECG9Code
  <2>3. CASE k = 16 + 3 * TextLen
    BY <1>1, <2>2, <2>3, ElsewhereHas
  <2>4. CASE k # 16 + 3 * TextLen
    <3>1. k \in 1 .. 15 + 3 * TextLen
      <4>1. k \in 1 .. 16 + 3 * TextLen
        BY <1>1, <2>2
      <4> QED
        BY <2>4, <4>1, BanksAssumption
    <3>2. CASE k = 1 \/ k = 2
      BY <1>1, <1>2, <2>2, <3>2, ElsewhereHas
    <3>3. CASE k \in 3 .. 8 \/ k \in {10 + TextLen, 11 + TextLen, 12 + TextLen, 14 + 2 * TextLen}
      BY <1>1, <2>2, <3>3, ElsewhereHas
    <3>4. ASSUME NEW q \in Banks!TextStarts, k \in q .. q + TextLen PROVE c[k] \in Elsewhere
      <4>1. HasText(c, q) /\ q \in Nat
        BY <2>2, BanksAssumption DEF Banks!TextStarts
      <4>2. CASE k = q
        <5>1. PICK n \in 1 .. 3 : c[k] = Banks!ECW1(4, n)
          BY <4>1, <4>2 DEF HasText
        <5>2. n \in Nat
          OBVIOUS
        <5> QED
          BY <5>1, <5>2, ElsewhereHas
      <4>3. CASE k \in q + 1 .. q + TextLen
        <5>1. c[k] = Banks!ECR1(42) /\ 42 \in Nat
          BY <4>1, <4>3 DEF HasText
        <5> QED
          BY <5>1, ElsewhereHas
      <4> QED
        BY <3>4, <4>1, <4>2, <4>3
    <3> QED
      BY <1>1, <3>1, <3>2, <3>3, <3>4, PlacesOfBIF
  <2> QED
    BY <2>3, <2>4
<1>5. CASE job[t] = "_Q66"
  <2>1. c = Banks!Q66
    BY <1>5 DEF Banks!Code, Banks!Method
  <2> HIDE DEF c
  <2>2. Len(c) = 10 /\ \A p \in 1 .. 10 : c[p] \in Querying
    BY <2>1, Q66Code
  <2>3. c[k] \in Querying
    BY <1>1, <2>2
  <2> QED
    BY <1>1, <2>3, ElsewhereHas
<1> QED
  BY <1>2, <1>3, <1>4, <1>5

\* No thread takes a mutex from another.
LEMMA MutexKept ==
  ASSUME Banks!TypeOK, NEW t \in Threads, Banks!Run(t), NEW m \in {"ECM1", "PATM"},
         owner[m] # t, owner[m] # Free
  PROVE  owner'[m] = owner[m]
<1>1. CASE Banks!Acquire(t)
  BY <1>1 DEF Banks!Acquire, Banks!TypeOK, Banks!Mutexes
<1>2. CASE Banks!Release(t)
  BY <1>2 DEF Banks!Release, Banks!TypeOK, Banks!Mutexes
<1>3. CASE Banks!Timeout(t) \/ Banks!Read(t) \/ Banks!Write(t)
  BY <1>3 DEF Banks!Timeout, Banks!Read, Banks!Write
<1> QED
  BY <1>1, <1>2, <1>3 DEF Banks!Run

LEMMA ElsewhereDoes ==
  ASSUME Banks!TypeOK, NEW t \in Threads, Banks!Run(t), Banks!Now(t) \in Elsewhere
  PROVE  bank'[51] = bank[51] /\ placed' = placed
<1>1. CASE Banks!Now(t) \in {Banks!Acq("ECM1"), Banks!Rel("ECM1"), Banks!AcqOrNot("PATM"),
                            Banks!Rel("PATM")}
  BY <1>1, MutexDoes
<1>2. ASSUME NEW r \in Nat, Banks!Now(t) = Banks!ECR1(r) PROVE bank' = bank /\ placed' = placed
  BY <1>2, ReadDoes
<1>3. ASSUME NEW r \in Nat \ 51 .. 55, NEW v \in Nat, Banks!Now(t) = Banks!ECW1(r, v)
      PROVE  bank'[51] = bank[51] /\ placed' = placed
  <2>1. r # 51 /\ r \notin 53 .. 55
    OBVIOUS
  <2>2. placed' = placed /\ (bank' = bank \/ bank' = [bank EXCEPT ![r] = v])
    BY <1>3, <2>1, WriteDoes
  <2> QED
    BY <2>1, <2>2 DEF Banks!TypeOK, Banks!Selectors
<1> QED
  BY <1>1, <1>2, <1>3 DEF Elsewhere


-----------------------------------------------------------------------------
(* EcBanks: one thread's part of ThresholdInv.                             *)

HoldsP(t) == SensorJob(job[t]) /\ at[t] > 1 => owner["PATM"] = t
SelectedP(t) == SensorJob(job[t]) /\ at[t] > 2 => bank[51] = arg[t]
PlacedOwn(t) == SensorJob(job[t]) => placed[t] \subseteq {arg[t]}
PlacedRight(t) == HoldsP(t) /\ SelectedP(t) /\ PlacedOwn(t)

LEMMA ThresholdInvIs == Banks!ThresholdInv <=> Banks!TypeOK /\ \A t \in Threads : PlacedRight(t)
<1>1. Banks!HoldsPATM <=> \A t \in Threads : HoldsP(t)
  BY DEF Banks!HoldsPATM, HoldsP, SensorJob
<1>2. Banks!SensorSelected <=> \A t \in Threads : SelectedP(t)
  BY DEF Banks!SensorSelected, SelectedP, SensorJob
<1>3. Banks!OwnThreshold <=> \A t \in Threads : PlacedOwn(t)
  BY DEF Banks!OwnThreshold, PlacedOwn, SensorJob
<1> QED
  BY <1>1, <1>2, <1>3 DEF Banks!ThresholdInv, PlacedRight

LEMMA PlacedKept ==
  ASSUME NEW u \in Threads, PlacedRight(u), job'[u] = job[u], arg'[u] = arg[u], at'[u] = at[u],
         placed'[u] = placed[u], owner["PATM"] = u => owner'["PATM"] = u,
         SensorJob(job[u]) /\ at[u] > 2 => bank'[51] = bank[51]
  PROVE  PlacedRight(u)'
BY DEF PlacedRight, HoldsP, SelectedP, PlacedOwn

LEMMA PlacedOfNone ==
  ASSUME NEW u \in Threads, ~SensorJob(job'[u])
  PROVE  PlacedRight(u)'
BY DEF PlacedRight, HoldsP, SelectedP, PlacedOwn, SensorJob

LEMMA PlacedCall ==
  ASSUME Banks!TypeOK, NEW t \in Threads, Banks!Call(t), \A u \in Threads : PlacedRight(u),
         NEW u \in Threads
  PROVE  PlacedRight(u)'
<1>1. UNCHANGED <<owner, bank>>
  BY DEF Banks!Call
<1>2. CASE u # t
  <2>1. job'[u] = job[u] /\ arg'[u] = arg[u] /\ at'[u] = at[u] /\ placed'[u] = placed[u]
    BY <1>2 DEF Banks!Call, Banks!TypeOK
  <2> QED
    BY <1>1, <2>1, PlacedKept
<1>3. CASE u = t
  <2>1. at'[u] = 1 /\ placed'[u] = {}
    BY <1>3 DEF Banks!Call, Banks!TypeOK
  <2> QED
    BY <2>1 DEF PlacedRight, HoldsP, SelectedP, PlacedOwn
<1> QED
  BY <1>2, <1>3

\* The accesses of PAT0 and PAT1.
LEMMA SensorCode ==
  ASSUME Banks!TypeOK, NEW t \in Threads, Banks!Run(t), SensorJob(job[t])
  PROVE  /\ arg[t] \in Nat /\ at[t] \in 1 .. 6 /\ Len(Banks!Code(t)) = 6
         /\ at[t] = 1 => Banks!Now(t) = Banks!AcqOrEnd("PATM")
         /\ at[t] \in {2, 4} => Banks!Now(t) = Banks!ECW1(51, arg[t])
         /\ at[t] \in {3, 5} => \E r \in 53 .. 55, v \in Nat : Banks!Now(t) = Banks!ECW1(r, v)
         /\ at[t] = 6 => Banks!Now(t) = Banks!Rel("PATM")
<1> DEFINE c == Banks!Code(t)
<1>1. at[t] \in 1 .. Len(c) /\ Banks!Now(t) = c[at[t]] /\ arg[t] \in Nat
  BY BanksRun DEF Banks!TypeOK
<1>2. PICK r \in {53, 54} : c = Banks!PAT(arg[t], r)
  BY DEF SensorJob, Banks!Code, Banks!Method
<1> HIDE DEF c
<1>3. /\ Len(c) = 6 /\ c[1] = Banks!AcqOrEnd("PATM")
      /\ c[2] = Banks!ECW1(51, arg[t]) /\ c[3] = Banks!ECW1(55, 2)
      /\ c[4] = Banks!ECW1(51, arg[t]) /\ c[5] = Banks!ECW1(r, 1) /\ c[6] = Banks!Rel("PATM")
  BY <1>1, <1>2, PATCode
<1>4. at[t] \in {3, 5} => \E s \in 53 .. 55, v \in Nat : Banks!Now(t) = Banks!ECW1(s, v)
  <2>1. 55 \in 53 .. 55 /\ r \in 53 .. 55 /\ 1 \in Nat /\ 2 \in Nat
    OBVIOUS
  <2> QED
    BY <1>1, <1>3, <2>1
<1>5. Len(Banks!Code(t)) = 6
  BY <1>3 DEF c
<1> QED
  BY <1>1, <1>3, <1>4, <1>5

\* Another thread's step: the sensor of a method that holds PATM stays selected.
LEMMA PlacedOfOthers ==
  ASSUME Banks!TypeOK, "_TMP" \notin Jobs, NEW t \in Threads, Banks!Run(t),
         \A u \in Threads : PlacedRight(u), NEW u \in Threads, u # t
  PROVE  PlacedRight(u)'
<1>1. job'[u] = job[u] /\ arg'[u] = arg[u] /\ at'[u] = at[u] /\ placed'[u] = placed[u]
  BY BanksOthers
<1>2. owner["PATM"] = u => owner'["PATM"] = u
  BY MutexKept, BanksAssumption
<1>3. ASSUME SensorJob(job[u]), at[u] > 2 PROVE bank'[51] = bank[51]
  <2>1. owner["PATM"] = u
    <3>1. at[u] > 1
      BY <1>3 DEF Banks!TypeOK
    <3> QED
      BY <1>3, <3>1 DEF PlacedRight, HoldsP
  <2>2. CASE ~SensorJob(job[t])
    BY <2>2, OthersElsewhere, ElsewhereDoes
  <2>3. CASE SensorJob(job[t])
    <3>1. ~(at[t] > 1)
      BY <2>1, <2>3 DEF PlacedRight, HoldsP
    <3>2. at[t] \in Nat \ {0}
      BY DEF Banks!TypeOK
    <3>3. at[t] = 1
      BY <3>1, <3>2
    <3>4. Banks!Now(t) = Banks!AcqOrEnd("PATM")
      BY <2>3, <3>3, SensorCode
    <3> QED
      BY <3>4, MutexDoes
  <2> QED
    BY <2>2, <2>3
<1> QED
  BY <1>1, <1>2, <1>3, PlacedKept

LEMMA TimedDoes ==
  ASSUME NEW t \in Threads, Banks!Run(t), NEW m \in {"ECM1", "PATM"}, Banks!Now(t) = Banks!AcqOrEnd(m)
  PROVE  owner' = [owner EXCEPT ![m] = t] \/ job' = [job EXCEPT ![t] = "none"]
<1>1. Banks!Now(t).op = "timed" /\ Banks!Now(t).x = m
  BY DEF Banks!AcqOrEnd, Banks!Step
<1>2. Banks!Acquire(t) \/ Banks!Timeout(t)
  BY <1>1 DEF Banks!Run, Banks!Release, Banks!Read, Banks!Write, Banks!Does
<1> QED
  BY <1>1, <1>2 DEF Banks!Acquire, Banks!Timeout, Banks!Does, Banks!End

LEMMA PlacedOwnStep ==
  ASSUME Banks!TypeOK, NEW t \in Threads, Banks!Run(t), PlacedRight(t)
  PROVE  PlacedRight(t)'
<1>1. arg' = arg
  BY BanksRun
<1>2. \/ job' = [job EXCEPT ![t] = "none"]
      \/ /\ job' = job /\ at[t] + 1 <= Len(Banks!Code(t))
         /\ at' = [at EXCEPT ![t] = at[t] + 1]
  BY BanksRun
<1>3. CASE job' = [job EXCEPT ![t] = "none"]
  <2>1. ~SensorJob(job'[t])
    BY <1>3 DEF SensorJob, Banks!TypeOK
  <2> QED
    BY <2>1, PlacedOfNone
<1>4. CASE ~SensorJob(job[t]) /\ job' = job
  BY <1>4, PlacedOfNone
<1>5. CASE SensorJob(job[t]) /\ job' # [job EXCEPT ![t] = "none"]
  <2>1. job'[t] = job[t] /\ arg'[t] = arg[t] /\ at'[t] = at[t] + 1 /\ at[t] + 1 <= Len(Banks!Code(t))
    BY <1>1, <1>2, <1>5 DEF Banks!TypeOK
  <2>2. at[t] \in 1 .. 5
    <3>1. at[t] \in 1 .. 6 /\ Len(Banks!Code(t)) = 6
      BY <1>5, SensorCode
    <3> QED
      BY <2>1, <3>1
  <2>3. CASE at[t] = 1
    <3>1. Banks!Now(t) = Banks!AcqOrEnd("PATM")
      BY <1>5, <2>3, SensorCode
    <3>2. owner' = [owner EXCEPT !["PATM"] = t]
      BY <1>5, <3>1, TimedDoes
    <3>3. owner'["PATM"] = t
      BY <3>2 DEF Banks!TypeOK, Banks!Mutexes
    <3>4. placed' = placed
      BY <3>1, MutexDoes
    <3> QED
      BY <2>1, <2>3, <3>3, <3>4 DEF PlacedRight, HoldsP, SelectedP, PlacedOwn
  <2>4. CASE at[t] \in {2, 4}
    <3>1. Banks!Now(t) = Banks!ECW1(51, arg[t]) /\ arg[t] \in Nat
      BY <1>5, <2>4, SensorCode
    <3>2. owner' = owner /\ placed' = placed /\ bank' = [bank EXCEPT ![51] = arg[t]]
      <4>1. 51 \in Nat /\ 51 \in Banks!Selectors /\ 51 \notin 53 .. 55
        BY DEF Banks!Selectors
      <4> QED
        BY <3>1, <4>1, WriteDoes
    <3>3. bank'[51] = arg[t]
      BY <3>2 DEF Banks!TypeOK, Banks!Selectors
    <3>4. owner["PATM"] = t
      BY <1>5, <2>4 DEF PlacedRight, HoldsP
    <3> QED
      BY <2>1, <3>2, <3>3, <3>4 DEF PlacedRight, HoldsP, SelectedP, PlacedOwn
  <2>5. CASE at[t] \in {3, 5}
    <3>1. PICK r \in 53 .. 55, v \in Nat : Banks!Now(t) = Banks!ECW1(r, v)
      BY <1>5, <2>5, SensorCode
    <3>2. owner' = owner /\ bank' = bank /\ placed' = [placed EXCEPT ![t] = placed[t] \cup {bank[51]}]
      <4>1. r \in Nat /\ r \notin Banks!Selectors
        BY DEF Banks!Selectors
      <4> QED
        BY <3>1, <4>1, WriteDoes
    <3>3. owner["PATM"] = t /\ bank[51] = arg[t]
      BY <1>5, <2>5 DEF PlacedRight, HoldsP, SelectedP
    <3>4. placed'[t] = placed[t] \cup {arg[t]}
      BY <3>2, <3>3 DEF Banks!TypeOK
    <3> QED
      BY <2>1, <3>2, <3>3, <3>4 DEF PlacedRight, HoldsP, SelectedP, PlacedOwn
  <2> QED
    BY <2>2, <2>3, <2>4, <2>5
<1> QED
  BY <1>2, <1>3, <1>4, <1>5

LEMMA PlacedStep ==
  ASSUME Banks!TypeOK, "_TMP" \notin Jobs, \A u \in Threads : PlacedRight(u),
         [Banks!Next]_(Banks!vars), NEW u \in Threads
  PROVE  PlacedRight(u)'
<1>1. CASE UNCHANGED Banks!vars
  <2>1. /\ job'[u] = job[u] /\ arg'[u] = arg[u] /\ at'[u] = at[u] /\ placed'[u] = placed[u]
        /\ owner' = owner /\ bank' = bank
    BY <1>1 DEF Banks!vars
  <2> QED
    BY <2>1, PlacedKept
<1>2. ASSUME NEW t \in Threads, Banks!Call(t) PROVE PlacedRight(u)'
  BY <1>2, PlacedCall
<1>3. ASSUME NEW t \in Threads, Banks!Run(t) PROVE PlacedRight(u)'
  <2>1. CASE u = t
    BY <1>3, <2>1, PlacedOwnStep
  <2>2. CASE u # t
    BY <1>3, <2>2, PlacedOfOthers
  <2> QED
    BY <2>1, <2>2
<1> QED
  BY <1>1, <1>2, <1>3 DEF Banks!Next

(* PAT0 and PAT1 set the thresholds of the sensor they are called for,     *)
(* although _Q66 goes on after 100 ms without PATM and releases it at its  *)
(* end: it selects no sensor, and the Release is refused unless it owns    *)
(* the mutex.  The hypothesis is the limit of the code's protection: KDRT, *)
(* which _TMP calls, selects its sensor without PATM, and with it the      *)
(* property fails.                                                         *)
THEOREM ThresholdOfTheSensor == "_TMP" \notin Jobs => (Banks!Spec => []OwnThreshold)
<1> SUFFICES ASSUME "_TMP" \notin Jobs PROVE Banks!Spec => []OwnThreshold
  OBVIOUS
<1> DEFINE Inv == Banks!TypeOK /\ \A u \in Threads : PlacedRight(u)
<1>1. Banks!Init => Inv
  <2> SUFFICES ASSUME Banks!Init PROVE Inv
    OBVIOUS
  <2>1. \A u \in Threads : job[u] = "none"
    BY DEF Banks!Init
  <2>2. \A u \in Threads : PlacedRight(u)
    BY <2>1 DEF PlacedRight, HoldsP, SelectedP, PlacedOwn, SensorJob
  <2> QED
    BY <2>2, BanksInit
<1>2. Inv /\ [Banks!Next]_(Banks!vars) => Inv'
  <2> SUFFICES ASSUME Inv, [Banks!Next]_(Banks!vars) PROVE Inv'
    OBVIOUS
  <2>1. Banks!TypeOK'
    BY BanksTypeStep
  <2>2. \A u \in Threads : PlacedRight(u)'
    BY PlacedStep
  <2> QED
    BY <2>1, <2>2
<1>3. Inv => OwnThreshold
  BY ThresholdInvIs DEF Banks!ThresholdInv, OwnThreshold
<1> QED
  BY <1>1, <1>2, <1>3, PTL DEF Banks!Spec
=============================================================================
