------------------------------ MODULE TbtProofs ------------------------------
(* Proofs about the Thunderbolt part of the DSDT.                          *)
(* TbtGpe, for any set of handlers and every bound: nothing that waited    *)
(* for WFEV, and nothing that owns OSUM, meets the temporary bus number of *)
(* TINI.  TbtMailbox (Mail), for any number of threads, with and without   *)
(* requests, and whatever a controller keeps when it leaves; both have the *)
(* same limit of polls.                                                    *)
EXTENDS MCTbtMailbox, TLAPS

LEMMA InitIInv == Init => IInv
<1> SUFFICES ASSUME Init PROVE IInv
  OBVIOUS
<1>0. /\ 0 \in 0 .. PollMax + RsmiMax /\ 0 \in Nat
      /\ 0 \in 0 .. MaxSleeps /\ 0 \in 0 .. MaxPlugs
  BY LimitsAssumption
<1>1. TypeOK
  BY <1>0, Zenon DEF Init, TypeOK, Buses
<1>2. Owners /\ TempBus /\ Gate
  BY HandlersAssumption DEF Init, Owners, TempBus, Gate, Inside, Locked
<1>3. QED
  BY <1>1, <1>2 DEF IInv

(* The counters stay within the polls and rounds of the code.              *)
LEMMA CountersStep ==
  ASSUME TypeOK, [Next]_vars
  PROVE  /\ left' \in [Handlers \cup {"pm"} -> 0 .. PollMax + RsmiMax]
         /\ sleeps' \in 0 .. MaxSleeps /\ plugs' \in 0 .. MaxPlugs
         /\ wfev' \in Nat
<1> USE LimitsAssumption DEF TypeOK, gpio, world
<1>0. /\ left \in [Handlers \cup {"pm"} -> 0 .. PollMax + RsmiMax]
      /\ sleeps \in 0 .. MaxSleeps /\ plugs \in 0 .. MaxPlugs /\ wfev \in Nat
  OBVIOUS
<1> USE <1>0 DEF TypeOK
<1>1. CASE Tini \/ TiniOsup \/ SignalWfev \/ Rpts
  BY <1>0, <1>1 DEF Tini, TiniOsup, SignalWfev, Rpts
<1>2. ASSUME NEW h \in Handlers, Step(h) \/ Enter(h) \/ Gpe(h)
      PROVE  /\ left' \in [Handlers \cup {"pm"} -> 0 .. PollMax + RsmiMax]
             /\ UNCHANGED <<sleeps, plugs, wfev>>
  BY <1>0, <1>2 DEF Step, Enter, Gpe, WWAK, WSUB, RSMI, Power, DMSI, GNIS, Osup, Again, Leave
<1>3. CASE Sleep \/ OsRestoresBus \/ Plug
  <2>1. UNCHANGED <<left, wfev, sleeps>>
    BY <1>3 DEF Sleep, OsRestoresBus, Plug
  <2>2. plugs' = plugs \/ (plugs < MaxPlugs /\ plugs' = plugs + 1)
    BY <1>3 DEF Sleep, OsRestoresBus, Plug
  <2>3. QED
    BY <1>0, <2>1, <2>2
<1>4. CASE UNCHANGED vars
  BY <1>0, <1>4 DEF vars
<1>5. QED
  BY <1>0, <1>1, <1>2, <1>3, <1>4 DEF Next

LEMMA TypeStep == ASSUME TypeOK, [Next]_vars PROVE TypeOK'
<1>0. /\ left' \in [Handlers \cup {"pm"} -> 0 .. PollMax + RsmiMax]
      /\ sleeps' \in 0 .. MaxSleeps /\ plugs' \in 0 .. MaxPlugs
      /\ wfev' \in Nat
  BY CountersStep
<1> DEFINE Rest == /\ pm' \in {"boot", "tini", "signal", "on", "pts", "waking"}
                   /\ pc' \in [Handlers -> {"idle", "wwak"} \cup Inside]
                   /\ fresh' \in [Handlers -> BOOLEAN]
                   /\ adr' \in [Handlers -> Buses]
                   /\ lfp' \in [Handlers -> BOOLEAN]
                   /\ osum' \in Handlers \cup {"free", "pm"}
                   /\ sbus' \in Buses /\ kept' \in Buses
                   /\ fp' \in BOOLEAN /\ mixed' \in BOOLEAN /\ present' \in BOOLEAN /\ sts' \in BOOLEAN
<1> USE DEF TypeOK, thread, handler, gpio, world, Buses
<1>1. CASE Tini \/ TiniOsup \/ SignalWfev \/ Rpts
  <2>1. Rest
    BY <1>1 DEF Tini, TiniOsup, SignalWfev, Rpts
  <2>2. QED
    BY <1>0, <2>1
<1>2. ASSUME NEW h \in Handlers, Step(h) PROVE Rest
  <2>1. CASE WWAK(h) \/ WSUB(h) \/ DMSI(h) \/ GNIS(h) \/ Osup(h)
    <3>1. UNCHANGED <<pm, kept, adr, lfp, osum, sbus, fp, mixed, present, sts>>
      BY <2>1 DEF WWAK, WSUB, DMSI, GNIS, Osup
    <3>2. fresh' \in [Handlers -> BOOLEAN]
      BY <2>1 DEF WWAK, WSUB, DMSI, GNIS, Osup
    <3>3. pc' \in [Handlers -> {"idle", "wwak"} \cup Inside]
      BY <2>1 DEF WWAK, WSUB, DMSI, GNIS, Osup, Goto, Inside
    <3>4. QED
      BY <3>1, <3>2, <3>3
  <2>2. CASE RSMI(h)
    <3>1. mixed' \in BOOLEAN
      BY <2>2, Zenon DEF RSMI
    <3>2. fp' \in BOOLEAN
      BY <2>2, Zenon DEF RSMI
    <3>3. UNCHANGED <<pm, kept, fresh, osum, sbus, present, sts>>
      BY <2>2 DEF RSMI
    <3>4. /\ pc' \in [Handlers -> {"idle", "wwak"} \cup Inside]
          /\ adr' \in [Handlers -> Buses]
      BY <2>2 DEF RSMI, Goto, Inside
    <3>5. lfp' \in [Handlers -> BOOLEAN]
      BY <2>2 DEF RSMI
    <3>6. QED
      BY <3>1, <3>2, <3>3, <3>4, <3>5
  <2>3. CASE Power(h)
    <3>1. fp' \in BOOLEAN /\ sts' \in BOOLEAN
      BY <2>3 DEF Power
    <3>2. pc' \in [Handlers -> {"idle", "wwak"} \cup Inside]
      BY <2>3 DEF Power, Goto
    <3>3. QED
      BY <2>3, <3>1, <3>2 DEF Power
  <2>4. CASE Again(h) \/ Leave(h)
    BY <2>4 DEF Again, Leave, Goto, Inside
  <2>5. QED
    BY <1>2, <2>1, <2>2, <2>3, <2>4 DEF Step
<1>3. ASSUME NEW h \in Handlers, Enter(h) \/ Gpe(h) PROVE Rest
  <2>1. UNCHANGED <<thread, sbus, gpio, world>>
    BY <1>3 DEF Enter, Gpe
  <2>2. pc' \in [Handlers -> {"idle", "wwak"} \cup Inside]
    BY <1>3 DEF Enter, Gpe, Goto, Inside
  <2>3. fresh' \in [Handlers -> BOOLEAN] /\ lfp' \in [Handlers -> BOOLEAN]
    BY <1>3 DEF Enter, Gpe
  <2>4. adr' \in [Handlers -> Buses] /\ osum' \in Handlers \cup {"free", "pm"}
    BY <1>3 DEF Enter, Gpe
  <2>5. QED
    BY <2>1, <2>2, <2>3, <2>4
<1>4. CASE Sleep \/ OsRestoresBus \/ Plug
  <2>1. UNCHANGED <<handler, osum, gpio>>
    BY <1>4, Zenon DEF Sleep, OsRestoresBus, Plug
  <2>2. pm' \in {"boot", "tini", "signal", "on", "pts", "waking"} /\ kept' \in Buses
    BY <1>4 DEF Sleep, OsRestoresBus, Plug
  <2>3. sbus' \in Buses
    BY <1>4 DEF Sleep, OsRestoresBus, Plug
  <2>4. present' \in BOOLEAN /\ sts' \in BOOLEAN
    BY <1>4, Zenon DEF Sleep, OsRestoresBus, Plug
  <2>5. UNCHANGED <<pc, fresh, adr, lfp, osum, fp, mixed>>
    BY <2>1
  <2>6. Rest
    BY <2>2, <2>3, <2>4, <2>5
  <2>7. QED
    BY <1>0, <2>6
<1>5. CASE UNCHANGED vars
  BY <1>5 DEF vars
<1>6. QED
  BY <1>0, <1>1, <1>2, <1>3, <1>4, <1>5 DEF Next

(* Who owns OSUM, who uses the temporary bus, and who may be past WWAK.    *)
LEMMA PartsStep ==
  ASSUME IInv, [Next]_vars PROVE Owners' /\ TempBus' /\ Gate'
<1> USE DEF Owners, TempBus, Gate, thread, handler, world, Inside, Locked
<1>0. Owners /\ TempBus /\ Gate
  BY DEF IInv
<1>t. /\ pc \in [Handlers -> {"idle", "wwak"} \cup Inside]
      /\ fresh \in [Handlers -> BOOLEAN] /\ wfev \in Nat
  BY DEF IInv, TypeOK
<1>1. CASE Tini
  BY <1>0, <1>1, HandlersAssumption DEF Tini
<1>2. CASE TiniOsup
  BY <1>0, <1>2, HandlersAssumption DEF TiniOsup
<1>3. CASE SignalWfev \/ Rpts
  BY <1>0, <1>3 DEF SignalWfev, Rpts
<1>4. ASSUME NEW h \in Handlers, WWAK(h) PROVE Owners' /\ TempBus' /\ Gate'
  BY <1>0, <1>t, <1>4 DEF WWAK, Goto
<1>5. ASSUME NEW h \in Handlers,
             WSUB(h) \/ RSMI(h) \/ Power(h) \/ DMSI(h) \/ GNIS(h)
      PROVE  Owners' /\ TempBus' /\ Gate'
  <2>1. /\ pc[h] \in Inside \ Locked
        /\ \E l \in ({"idle"} \cup Inside) \ Locked : pc' = [pc EXCEPT ![h] = l]
        /\ UNCHANGED <<pm, kept, fresh, osum, wfev, sbus>>
    BY <1>t, <1>5 DEF WSUB, RSMI, Power, DMSI, GNIS, Goto
  <2>2. QED
    BY <1>0, <1>t, <2>1
<1>6. ASSUME NEW h \in Handlers, Osup(h) \/ Again(h) \/ Leave(h)
      PROVE  Owners' /\ TempBus' /\ Gate'
  BY <1>0, <1>t, <1>6, HandlersAssumption DEF Osup, Again, Leave, Goto
<1>7. ASSUME NEW h \in Handlers, Enter(h) \/ Gpe(h)
      PROVE  Owners' /\ TempBus' /\ Gate'
  BY <1>0, <1>t, <1>7, HandlersAssumption DEF Enter, Gpe, Goto
<1>8. CASE Sleep \/ OsRestoresBus \/ Plug
  BY <1>0, <1>8 DEF Sleep, OsRestoresBus, Plug
<1>9. CASE UNCHANGED vars
  BY <1>0, <1>9 DEF vars
<1>10. QED
  BY <1>1, <1>2, <1>3, <1>4, <1>5, <1>6, <1>7, <1>8, <1>9 DEF Next, Step

(* The inductive invariant, for any set of handlers.                       *)
THEOREM StrengthenedInvariant == Spec => []IInv
<1>1. IInv /\ [Next]_vars => IInv'
  BY TypeStep, PartsStep DEF IInv
<1>2. QED
  BY InitIInv, <1>1, PTL DEF Spec

(* A handler that waited for WFEV after the last RPTS is never under way   *)
(* while TINI has the root port on its temporary bus.                      *)
THEOREM WaitersNeverSeeTempBus == Spec => []TempBusUnseen
<1>1. IInv => TempBusUnseen
  BY DEF IInv, TempBus, Gate, TempBusUnseen
<1>2. QED
  BY StrengthenedInvariant, <1>1, PTL

(* The search for the controller under OSUM is exclusive, and never goes   *)
(* through the temporary bus.                                              *)
THEOREM SearchIsPrivate == Spec => []TempBusPrivate
<1>1. IInv => TempBusPrivate
  BY HandlersAssumption DEF IInv, Owners, TempBus, TempBusPrivate
<1>2. QED
  BY StrengthenedInvariant, <1>1, PTL

-----------------------------------------------------------------------------
(* As long as no two calls of RSMI have overlapped, one handler at most is *)
(* in the loop of RSMI; the GPIO was off when it came there, and is off    *)
(* while nobody is there.                                                  *)
Alone ==
  ~mixed =>
    /\ (\A h \in Handlers : pc[h] # "power") => ~fp
    /\ \A h \in Handlers : pc[h] = "power" =>
         ~lfp[h] /\ \A g \in Handlers \ {h} : pc[g] # "power"

\* Steps that leave the GPIO, and the set of those in the loop, alone.
LEMMA AloneKept ==
  ASSUME Alone, UNCHANGED <<fp, mixed>>,
         \A h \in Handlers : pc'[h] = "power" <=> pc[h] = "power",
         \A h \in Handlers : pc[h] = "power" => lfp'[h] = lfp[h]
  PROVE  Alone'
BY Zenon DEF Alone

LEMMA AloneStep == ASSUME TypeOK, Alone, [Next]_vars PROVE Alone'
<1> USE DEF thread, handler, gpio, world
<1>t. /\ pc \in [Handlers -> {"idle", "wwak"} \cup Inside]
      /\ lfp \in [Handlers -> BOOLEAN]
  BY DEF TypeOK
<1>1. CASE Tini \/ TiniOsup \/ SignalWfev \/ Rpts \/ Sleep \/ OsRestoresBus \/ Plug
  <2>1. UNCHANGED <<pc, lfp, fp, mixed>>
    BY <1>1 DEF Tini, TiniOsup, SignalWfev, Rpts, Sleep, OsRestoresBus, Plug
  <2>2. QED
    BY <2>1, AloneKept
<1>2. ASSUME NEW h \in Handlers,
             WWAK(h) \/ WSUB(h) \/ DMSI(h) \/ GNIS(h) \/ Osup(h) \/ Again(h) \/ Leave(h) \/ Enter(h)
      PROVE  Alone'
  <2>1. UNCHANGED <<lfp, fp, mixed>>
    BY <1>2 DEF WWAK, WSUB, DMSI, GNIS, Osup, Again, Leave, Enter
  <2>2. /\ pc[h] # "power"
        /\ \/ UNCHANGED pc
           \/ \E l \in ({"idle", "wwak"} \cup Inside) \ {"power"} : pc' = [pc EXCEPT ![h] = l]
    BY <1>2 DEF WWAK, WSUB, DMSI, GNIS, Osup, Again, Leave, Enter, Goto, Inside
  <2>3. \A g \in Handlers : pc'[g] = "power" <=> pc[g] = "power"
    BY <1>t, <2>2
  <2>4. QED
    BY <2>1, <2>3, AloneKept
<1>3. ASSUME NEW h \in Handlers, Gpe(h) PROVE Alone'
  <2>1. /\ pc[h] = "idle" /\ pc' = [pc EXCEPT ![h] = "wwak"]
        /\ lfp' = [lfp EXCEPT ![h] = FALSE]
        /\ UNCHANGED <<fp, mixed>>
    BY <1>3 DEF Gpe, Goto
  <2>2. \A g \in Handlers : pc'[g] = "power" <=> pc[g] = "power"
    BY <1>t, <2>1
  <2>3. \A g \in Handlers : pc[g] = "power" => lfp'[g] = lfp[g]
    BY <1>t, <2>1
  <2>4. QED
    BY <2>1, <2>2, <2>3, AloneKept
<1>4. ASSUME NEW h \in Handlers, RSMI(h) PROVE Alone'
  <2>1. CASE ~mixed' /\ pc'[h] = "power"
    <3>1. /\ pc' = [pc EXCEPT ![h] = "power"]
          /\ lfp' = [lfp EXCEPT ![h] = fp]
          /\ mixed' = (mixed \/ \E g \in Handlers : pc[g] = "power")
      BY <1>t, <1>4, <2>1 DEF RSMI, Goto
    <3>2. ~mixed /\ \A g \in Handlers : pc[g] # "power"
      BY <2>1, <3>1
    <3>3. ~fp
      BY <3>2 DEF Alone
    <3>4. ~lfp'[h] /\ \A g \in Handlers \ {h} : pc'[g] # "power"
      BY <1>t, <3>1, <3>2, <3>3
    <3>5. QED
      BY <2>1, <3>4 DEF Alone
  <2>2. CASE mixed'
    BY <2>2 DEF Alone
  <2>3. CASE pc'[h] # "power"
    <3>1. UNCHANGED <<lfp, fp, mixed>>
      BY <1>t, <1>4, <2>3 DEF RSMI, Goto
    <3>2. /\ pc[h] # "power"
          /\ \E l \in Inside \ {"power"} : pc' = [pc EXCEPT ![h] = l]
      BY <1>t, <1>4, <2>3 DEF RSMI, Goto, Inside
    <3>3. \A g \in Handlers : pc'[g] = "power" <=> pc[g] = "power"
      BY <1>t, <3>2
    <3>4. QED
      BY <3>1, <3>3, AloneKept
  <2>4. QED
    BY <2>1, <2>2, <2>3
<1>5. ASSUME NEW h \in Handlers, Power(h) PROVE Alone'
  <2>1. UNCHANGED <<lfp, mixed>> /\ pc[h] = "power"
    BY <1>5 DEF Power
  <2>2. CASE UNCHANGED <<pc, fp>>
    BY <2>1, <2>2, AloneKept
  <2>3. CASE fp' = lfp[h] /\ pc' = [pc EXCEPT ![h] = "idle"]
    <3>1. ~mixed => ~fp' /\ \A g \in Handlers : pc'[g] # "power"
      BY <1>t, <2>1, <2>3 DEF Alone
    <3>2. QED
      BY <2>1, <3>1 DEF Alone
  <2>4. QED
    BY <1>5, <2>2, <2>3 DEF Power, Goto
<1>6. CASE UNCHANGED vars
  <2>1. UNCHANGED <<pc, lfp, fp, mixed>>
    BY <1>6 DEF vars
  <2>2. QED
    BY <2>1, AloneKept
<1>7. QED
  BY <1>1, <1>2, <1>3, <1>4, <1>5, <1>6 DEF Next, Step

(* RSMI gives the power GPIO back as it found it, as long as no two calls  *)
(* have overlapped.                                                        *)
THEOREM GpioRestored == Spec => []PowerRestored
<1>1. Init => Alone
  BY DEF Init, Alone
<1>2. TypeOK /\ Alone /\ [Next]_vars => Alone'
  BY AloneStep
<1>3. IInv => TypeOK
  BY DEF IInv
<1>4. TypeOK /\ Alone => PowerRestored
  BY DEF TypeOK, Alone, PowerRestored
<1>5. QED
  BY StrengthenedInvariant, <1>1, <1>2, <1>3, <1>4, PTL DEF Spec

-----------------------------------------------------------------------------
(* The command registers.                                                  *)

LEMMA MailTypeInit == Mail!Init => Mail!TypeOK
<1>1. 0 \in 0 .. PollMax
  BY LimitsAssumption
<1>2. QED
  BY <1>1, Zenon DEF Mail!Init, Mail!TypeOK, Mail!Methods, Mail!Commands, Mail!Answers

LEMMA MailNotValid == ~Mail!Valid(0) /\ ~Mail!Valid(Mail!SxtbCmd)
BY DEF Mail!Valid, Mail!SxtbCmd

LEMMA MailWriteType ==
  ASSUME Mail!TypeOK, NEW v \in Mail!Commands, Mail!WriteP2TR(v)
  PROVE  p2tr' \in Mail!Commands /\ t2pr' \in Mail!Answers
BY DEF Mail!WriteP2TR, Mail!TypeOK, Mail!Answers

(* One poll less, never below zero.                                        *)
LEMMA MailPollsType ==
  ASSUME Mail!TypeOK, NEW t \in Threads
  PROVE  [mleft EXCEPT ![t] = IF @ > 0 THEN @ - 1 ELSE @] \in [Threads -> 0 .. PollMax]
<1>1. mleft[t] \in 0 .. PollMax /\ PollMax \in Nat
  BY LimitsAssumption DEF Mail!TypeOK
<1>2. (IF mleft[t] > 0 THEN mleft[t] - 1 ELSE mleft[t]) \in 0 .. PollMax
  BY <1>1
<1>3. QED
  BY <1>2 DEF Mail!TypeOK

LEMMA MailTypeStep == ASSUME Mail!TypeOK, [Mail!Next]_(Mail!vars) PROVE Mail!TypeOK'
<1> USE DEF Mail!TypeOK, Mail!local, Mail!Goto, Mail!Methods
<1>1. 0 \in Mail!Commands /\ Mail!SxtbCmd \in Mail!Commands /\ Mail!DmsiCmd \in Mail!Commands
      /\ (\A mm \in Mail!Methods : mm # "DMSI" => Mail!Own[mm] \in Mail!Commands)
      /\ Mail!DmsiDone \in Mail!Answers /\ Mail!DmsiCmd \in Mail!Answers /\ 0 \in Mail!Answers
  BY DEF Mail!Commands, Mail!Answers, Mail!Own
<1>2. Mail!T2PR \in Mail!Answers \cup {Mail!Ones}
  BY DEF Mail!T2PR
<1>3. PollMax \in 0 .. PollMax
  BY LimitsAssumption
<1>4. ASSUME NEW t \in Threads, NEW mm \in Mail!Methods, Mail!Call(t, mm) PROVE Mail!TypeOK'
  BY <1>4 DEF Mail!Call
<1>5. ASSUME NEW t \in Threads, Mail!Look(t) PROVE Mail!TypeOK'
  BY <1>2, <1>5 DEF Mail!Look
<1>6. ASSUME NEW t \in Threads, Mail!Write(t) PROVE Mail!TypeOK'
  <2>1. p2tr' \in Mail!Commands /\ t2pr' \in Mail!Answers
    <3>1. (IF meth[t] = "DMSI" THEN Mail!DmsiCmd ELSE Mail!Own[meth[t]]) \in Mail!Commands
      BY <1>1
    <3>2. QED
      BY <1>6, <3>1, MailWriteType DEF Mail!Write
  <2>2. mleft' \in [Threads -> 0 .. PollMax]
    BY <1>3, <1>6 DEF Mail!Write
  <2>3. gone' \in BOOLEAN
    BY <1>6 DEF Mail!Write
  <2>4. QED
    BY <1>6, <2>1, <2>2, <2>3 DEF Mail!Write
<1>7. ASSUME NEW t \in Threads, Mail!Read(t) PROVE Mail!TypeOK'
  BY <1>2, <1>7 DEF Mail!Read
<1>8. ASSUME NEW t \in Threads, Mail!Sleep(t) PROVE Mail!TypeOK'
  BY <1>8 DEF Mail!Sleep
<1>9. ASSUME NEW t \in Threads, Mail!Test(t) PROVE Mail!TypeOK'
  <2>1. mleft' \in [Threads -> 0 .. PollMax]
    BY <1>9, MailPollsType DEF Mail!Test
  <2>2. gone' \in BOOLEAN
    BY <1>9 DEF Mail!Test
  <2>3. mpc' \in [Threads -> {"idle", "look", "write", "read", "nap", "test", "clear"}]
    BY <1>9 DEF Mail!Test
  <2>4. QED
    BY <1>9, <2>1, <2>2, <2>3 DEF Mail!Test
<1>10. ASSUME NEW t \in Threads, Mail!Clear(t) PROVE Mail!TypeOK'
  <2>1. p2tr' \in Mail!Commands /\ t2pr' \in Mail!Answers
    BY <1>1, <1>10, MailWriteType DEF Mail!Clear
  <2>2. gone' \in BOOLEAN
    BY <1>10 DEF Mail!Clear
  <2>3. QED
    BY <1>10, <2>1, <2>2 DEF Mail!Clear
<1>11. ASSUME NEW t \in Threads, Mail!SXTB(t) PROVE Mail!TypeOK'
  <2>1. p2tr' \in Mail!Commands /\ t2pr' \in Mail!Answers
    BY <1>1, <1>11, MailWriteType DEF Mail!SXTB
  <2>2. gone' \in BOOLEAN
    BY <1>11 DEF Mail!SXTB
  <2>3. QED
    BY <1>11, <2>1, <2>2 DEF Mail!SXTB
<1>12. CASE Mail!Take
  <2>1. Mail!Valid(p2tr) => p2tr \in Mail!Answers
    BY MailNotValid DEF Mail!Commands, Mail!Answers
  <2>2. QED
    BY <1>1, <1>12, <2>1 DEF Mail!Take
<1>13. CASE Mail!Request \/ Mail!Leave \/ Mail!Return
  BY <1>1, <1>13 DEF Mail!Request, Mail!Leave, Mail!Return
<1>14. CASE UNCHANGED Mail!vars
  BY <1>14 DEF Mail!vars
<1>15. QED
  BY <1>4, <1>5, <1>6, <1>7, <1>8, <1>9, <1>10, <1>11, <1>12, <1>13, <1>14 DEF Mail!Next, Mail!Step

(* A step writes a valid command only where its method then waits, and the *)
(* method ends by clearing it or by noting that the controller is gone.    *)
LEMMA MailLeftStep ==
  ASSUME Mail!TypeOK, Mail!NothingLeftValid, [Mail!Next]_(Mail!vars)
  PROVE  Mail!NothingLeftValid'
<1> DEFINE Before == {"idle", "look", "write"}
<1> USE DEF Mail!NothingLeftValid, Mail!TypeOK, Mail!local, Mail!Goto
<1>1. ASSUME NEW t \in Threads, NEW mm \in Mail!Methods, Mail!Call(t, mm) PROVE Mail!NothingLeftValid'
  BY <1>1 DEF Mail!Call
<1>2. ASSUME NEW t \in Threads, Mail!Look(t) PROVE Mail!NothingLeftValid'
  BY <1>2 DEF Mail!Look
<1>3. ASSUME NEW t \in Threads, Mail!Write(t) \/ Mail!Read(t) PROVE Mail!NothingLeftValid'
  BY <1>3 DEF Mail!Write, Mail!Read
<1>4. ASSUME NEW t \in Threads, Mail!Sleep(t) PROVE Mail!NothingLeftValid'
  BY <1>4 DEF Mail!Sleep
<1>5. ASSUME NEW t \in Threads, Mail!Test(t) PROVE Mail!NothingLeftValid'
  <2>1. CASE Mail!GaveUp(t)
    BY <1>5, <2>1 DEF Mail!Test
  <2>2. CASE ~Mail!GaveUp(t)
    <3>1. mpc'[t] \notin Before
      BY <1>5, <2>2 DEF Mail!Test
    <3>2. QED
      BY <3>1
  <2>3. QED
    BY <2>1, <2>2
<1>6. ASSUME NEW t \in Threads, Mail!Clear(t) PROVE Mail!NothingLeftValid'
  <2>1. CASE mpresent
    <3>1. p2tr' = 0
      BY <1>6, <2>1 DEF Mail!Clear, Mail!WriteP2TR
    <3>2. QED
      BY <3>1, MailNotValid
  <2>2. CASE ~mpresent
    BY <1>6, <2>2 DEF Mail!Clear
  <2>3. QED
    BY <2>1, <2>2
<1>7. ASSUME NEW t \in Threads, Mail!SXTB(t) PROVE Mail!NothingLeftValid'
  <2>1. CASE mpresent
    <3>1. p2tr' = Mail!SxtbCmd
      BY <1>7, <2>1 DEF Mail!SXTB, Mail!WriteP2TR
    <3>2. QED
      BY <3>1, MailNotValid
  <2>2. CASE ~mpresent
    <3>1. UNCHANGED <<mpc, p2tr>> /\ (gone' <=> gone)
      BY <1>7, <2>2 DEF Mail!SXTB, Mail!WriteP2TR
    <3>2. QED
      BY <3>1
  <2>3. QED
    BY <2>1, <2>2
<1>8. CASE Mail!Take \/ Mail!Request \/ Mail!Leave
  BY <1>8 DEF Mail!Take, Mail!Request, Mail!Leave
<1>9. CASE Mail!Return
  <2>1. UNCHANGED <<mpc, gone>> /\ (p2tr' = p2tr \/ p2tr' = 0)
    BY <1>9 DEF Mail!Return
  <2>2. QED
    BY <2>1, MailNotValid
<1>10. CASE UNCHANGED Mail!vars
  BY <1>10 DEF Mail!vars
<1>11. QED
  BY <1>1, <1>2, <1>3, <1>4, <1>5, <1>6, <1>7, <1>8, <1>9, <1>10 DEF Mail!Next, Mail!Step

(* No method leaves its command to a controller that was there to have it  *)
(* taken back: TBTC, OSUP, DMSI and SXTB, on any number of threads.        *)
THEOREM NoCommandStays == Mail!Spec => []NothingLeftValid
<1>1. Mail!Init => Mail!TypeOK /\ Mail!NothingLeftValid
  BY MailTypeInit, MailNotValid DEF Mail!Init, Mail!NothingLeftValid
<1>2. Mail!TypeOK /\ Mail!NothingLeftValid /\ [Mail!Next]_(Mail!vars) => (Mail!TypeOK /\ Mail!NothingLeftValid)'
  BY MailTypeStep, MailLeftStep
<1>3. Mail!NothingLeftValid => NothingLeftValid
  BY DEF NothingLeftValid
<1>4. QED
  BY <1>1, <1>2, <1>3, PTL DEF Mail!Spec

-----------------------------------------------------------------------------
(* The safety half of CallsReturn: the steps that the call of thread t may *)
(* still take, at most three for each poll.                                *)
MailStepsLeft(t) ==
  IF mpc[t] = "idle" THEN 0
  ELSE IF mpc[t] = "look" THEN 3 * PollMax + 3
  ELSE IF mpc[t] = "write" THEN 3 * PollMax + 2
  ELSE IF mpc[t] = "clear" THEN 1
  ELSE IF mpc[t] = "read" THEN 3 * mleft[t] + 1
  ELSE IF meth[t] = "TBTC"
    THEN IF mpc[t] = "nap" THEN 3 * mleft[t] ELSE 3 * mleft[t] - 1
    ELSE IF mpc[t] = "nap" THEN 3 * mleft[t] + 2 ELSE 3 * mleft[t]

\* A poll is counted before its loop is left: there is always one to count.
PollsToGo ==
  \A t \in Threads :
    /\ mpc[t] \in {"read", "test"} => mleft[t] > 0
    /\ mpc[t] = "nap" /\ meth[t] = "TBTC" => mleft[t] > 0

(* Every step of a method uses up one of the steps it has left.  Neither   *)
(* the controller nor the other methods, which write the same registers,   *)
(* make it longer.                                                         *)
MailStepsRunOut ==
  [][\A t \in Threads :
       /\ Mail!Step(t) => MailStepsLeft(t)' < MailStepsLeft(t)
       /\ mpc[t] # "idle" /\ ~Mail!Step(t) => MailStepsLeft(t)' = MailStepsLeft(t)
       /\ mpc[t] = "idle" => MailStepsLeft(t)' <= 3 * PollMax + 3]_(Mail!vars)

(* What a step of a method does to its own thread.                         *)
LEMMA MailOwnStep ==
  ASSUME Mail!TypeOK, PollsToGo, NEW t \in Threads, Mail!Step(t)
  PROVE  /\ MailStepsLeft(t)' < MailStepsLeft(t)
         /\ mpc'[t] \in {"read", "test"} => mleft'[t] > 0
         /\ mpc'[t] = "nap" /\ meth'[t] = "TBTC" => mleft'[t] > 0
<1>0. /\ mleft[t] \in Nat /\ PollMax \in Nat \ {0}
      /\ mpc \in [Threads -> {"idle", "look", "write", "read", "nap", "test", "clear"}]
      /\ mleft \in [Threads -> 0 .. PollMax]
      /\ mpc[t] \in {"read", "test"} => mleft[t] > 0
      /\ mpc[t] = "nap" /\ meth[t] = "TBTC" => mleft[t] > 0
  BY LimitsAssumption DEF Mail!TypeOK, PollsToGo
<1> USE DEF MailStepsLeft
<1>1. CASE Mail!Look(t)
  BY <1>0, <1>1 DEF Mail!Look, Mail!Goto
<1>2. CASE Mail!Write(t)
  BY <1>0, <1>2 DEF Mail!Write, Mail!Goto
<1>3. CASE Mail!Read(t)
  BY <1>0, <1>3 DEF Mail!Read, Mail!Goto
<1>4. CASE Mail!Sleep(t)
  BY <1>0, <1>4 DEF Mail!Sleep, Mail!Goto
<1>5. CASE Mail!Test(t)
  <2>1. /\ mpc[t] = "test" /\ mleft'[t] = mleft[t] - 1 /\ meth' = meth
        /\ \/ mpc'[t] \in {"idle", "clear"}
           \/ meth[t] # "TBTC" /\ mpc'[t] = "nap"
           \/ meth[t] = "TBTC" /\ mpc'[t] = "read" /\ mleft[t] > 1
    BY <1>0, <1>5 DEF Mail!Test, Mail!Goto
  <2> QED
    BY <1>0, <2>1
<1>6. CASE Mail!Clear(t)
  BY <1>0, <1>6 DEF Mail!Clear, Mail!Goto
<1> QED
  BY <1>1, <1>2, <1>3, <1>4, <1>5, <1>6 DEF Mail!Step

(* What any other step does to it while its call runs.                     *)
LEMMA MailOtherStep ==
  ASSUME Mail!TypeOK, [Mail!Next]_(Mail!vars), NEW t \in Threads, ~Mail!Step(t)
  PROVE  \/ mpc'[t] = mpc[t] /\ mleft'[t] = mleft[t] /\ meth'[t] = meth[t]
         \/ mpc[t] = "idle" /\ mpc'[t] \in {"look", "write"}
<1>0. /\ mpc \in [Threads -> {"idle", "look", "write", "read", "nap", "test", "clear"}]
      /\ mleft \in [Threads -> 0 .. PollMax] /\ meth \in [Threads -> Mail!Methods]
  BY DEF Mail!TypeOK
<1>1. ASSUME NEW u \in Threads, NEW mm \in Mail!Methods, Mail!Call(u, mm)
      PROVE  \/ mpc'[t] = mpc[t] /\ mleft'[t] = mleft[t] /\ meth'[t] = meth[t]
             \/ mpc[t] = "idle" /\ mpc'[t] \in {"look", "write"}
  BY <1>0, <1>1 DEF Mail!Call, Mail!Goto
<1>2. ASSUME NEW u \in Threads, Mail!Step(u)
      PROVE  mpc'[t] = mpc[t] /\ mleft'[t] = mleft[t] /\ meth'[t] = meth[t]
  BY <1>0, <1>2 DEF Mail!Step, Mail!Look, Mail!Write, Mail!Read, Mail!Sleep, Mail!Test,
                    Mail!Clear, Mail!Goto
<1>3. ASSUME \/ Mail!Take \/ Mail!Request \/ Mail!Leave \/ Mail!Return
             \/ \E u \in Threads : Mail!SXTB(u)
      PROVE  UNCHANGED <<mpc, mleft, meth>>
  BY <1>3 DEF Mail!Take, Mail!Request, Mail!Leave, Mail!Return, Mail!SXTB, Mail!local
<1>4. CASE UNCHANGED Mail!vars
  BY <1>4 DEF Mail!vars, Mail!local
<1> QED
  BY <1>1, <1>2, <1>3, <1>4 DEF Mail!Next

(* A call of TBTC, OSUP or DMSI takes at most 3 * PollMax + 3 of its own   *)
(* steps, however many run at once and whatever the controller answers.    *)
THEOREM MailCallsRunOut ==
  Mail!Spec => [](\A t \in Threads : MailStepsLeft(t) \in Nat) /\ MailStepsRunOut
<1> DEFINE Inv == Mail!TypeOK /\ PollsToGo
<1>1. Mail!Init => Inv
  BY MailTypeInit DEF Mail!Init, PollsToGo
<1>2. ASSUME Inv, [Mail!Next]_(Mail!vars), NEW t \in Threads
      PROVE  /\ mpc'[t] \in {"read", "test"} => mleft'[t] > 0
             /\ mpc'[t] = "nap" /\ meth'[t] = "TBTC" => mleft'[t] > 0
  <2>1. CASE Mail!Step(t)
    BY <1>2, <2>1, MailOwnStep
  <2>2. CASE ~Mail!Step(t)
    <3>1. \/ mpc'[t] = mpc[t] /\ mleft'[t] = mleft[t] /\ meth'[t] = meth[t]
          \/ mpc[t] = "idle" /\ mpc'[t] \in {"look", "write"}
      BY <1>2, <2>2, MailOtherStep
    <3> QED
      BY <1>2, <3>1 DEF PollsToGo
  <2> QED
    BY <2>1, <2>2
<1>3. Inv /\ [Mail!Next]_(Mail!vars) => Inv'
  <2>1. Inv /\ [Mail!Next]_(Mail!vars) => PollsToGo'
    BY <1>2 DEF PollsToGo
  <2> QED
    BY <2>1, MailTypeStep
<1>4. Inv => \A t \in Threads : MailStepsLeft(t) \in Nat
  <2> SUFFICES ASSUME Inv, NEW t \in Threads
               PROVE  MailStepsLeft(t) \in Nat
    OBVIOUS
  <2>1. /\ mleft[t] \in Nat /\ PollMax \in Nat
        /\ mpc[t] = "test" => mleft[t] > 0
        /\ mpc[t] \in {"idle", "look", "write", "read", "nap", "test", "clear"}
    BY LimitsAssumption DEF Mail!TypeOK, PollsToGo
  <2> QED
    BY <2>1 DEF MailStepsLeft
<1>5. Inv /\ [Mail!Next]_(Mail!vars) =>
      [\A t \in Threads :
         /\ Mail!Step(t) => MailStepsLeft(t)' < MailStepsLeft(t)
         /\ mpc[t] # "idle" /\ ~Mail!Step(t) => MailStepsLeft(t)' = MailStepsLeft(t)
         /\ mpc[t] = "idle" => MailStepsLeft(t)' <= 3 * PollMax + 3]_(Mail!vars)
  <2> SUFFICES ASSUME Inv, Mail!Next, NEW t \in Threads
               PROVE  /\ Mail!Step(t) => MailStepsLeft(t)' < MailStepsLeft(t)
                      /\ mpc[t] # "idle" /\ ~Mail!Step(t)
                           => MailStepsLeft(t)' = MailStepsLeft(t)
                      /\ mpc[t] = "idle" => MailStepsLeft(t)' <= 3 * PollMax + 3
    OBVIOUS
  <2>1. CASE Mail!Step(t)
    <3>1. mpc[t] # "idle"
      BY <2>1 DEF Mail!Step, Mail!Look, Mail!Write, Mail!Read, Mail!Sleep, Mail!Test,
                  Mail!Clear
    <3> QED
      BY <2>1, <3>1, MailOwnStep
  <2>2. CASE ~Mail!Step(t)
    <3>1. \/ mpc'[t] = mpc[t] /\ mleft'[t] = mleft[t] /\ meth'[t] = meth[t]
          \/ mpc[t] = "idle" /\ mpc'[t] \in {"look", "write"}
      BY <2>2, MailOtherStep
    <3> QED
      BY <2>2, <3>1, LimitsAssumption DEF MailStepsLeft
  <2> QED
    BY <2>1, <2>2
<1> HIDE DEF Inv
<1> QED
  BY <1>1, <1>3, <1>4, <1>5, PTL DEF Mail!Spec, MailStepsRunOut

-----------------------------------------------------------------------------
(* The safety half of HandlersReturn and WakeCompletes.                    *)

\* Where a handler stands.  A nested _E42 costs a stage of "again", which OSUP
\* gets to only if the controller answers; TBFF called OSUP because it did not.
Stage(h) ==
  CASE pc[h] = "idle"    -> 0
    [] pc[h] = "release" -> 1
    [] pc[h] = "osup"    -> IF present THEN 10 ELSE 2
    [] pc[h] = "acquire" -> 3
    [] pc[h] = "gnis"    -> 4
    [] pc[h] \in {"dmsi", "power"} -> 5
    [] pc[h] = "rsmi"    -> 6
    [] pc[h] = "wsub"    -> 7
    [] pc[h] = "wwak"    -> 8
    [] pc[h] = "again"   -> 9

PmStage == CASE pm = "on" -> 0 [] pm = "signal" -> 1 [] pm = "tini" -> 2
             [] pm \in {"boot", "waking"} -> 3 [] pm = "pts" -> 4

SameFor(h) == Stage(h)' = Stage(h) /\ left'[h] = left[h] /\ plugs' = plugs

\* closer to its return: by plugs that are still to come, stage and polls
CloserFor(h) ==
  \/ plugs' > plugs
  \/ plugs' = plugs /\ Stage(h)' < Stage(h)
  \/ plugs' = plugs /\ Stage(h)' = Stage(h) /\ left'[h] < left[h]

CloserForPm ==
  \/ PmStage' < PmStage
  \/ PmStage' = PmStage /\ left'["pm"] < left["pm"]

(* Every step of a handler brings it closer to its return, and no other    *)
(* step takes it back; so with sleep and wake, until pm is "on".           *)
GpeStepsRunOut ==
  [][/\ \A h \in Handlers :
          /\ Step(h) \/ Enter(h) => CloserFor(h)
          /\ pc[h] # "idle" => CloserFor(h) \/ SameFor(h)
     /\ Tini \/ TiniOsup \/ SignalWfev \/ Sleep => CloserForPm
     /\ pm # "on" => CloserForPm \/ (PmStage' = PmStage /\ left'["pm"] = left["pm"])]_vars

(* What is waited for is on its way.  The owner of OSUM, TINI or a handler *)
(* at a place where nothing is waited for, gives it back; WFEV is          *)
(* signalled, or RWAK has yet to signal it and waits for OSUM only.        *)
WaitsEnd ==
  /\ osum = "pm" => pm = "tini"
  /\ \A h \in Handlers : osum = h => pc[h] \in {"osup", "again", "release"}
  /\ pm = "on" => wfev > 0

\* OSUP under OSUM is for a controller that did not answer.
NotAnswered == \A h \in Handlers : pc[h] = "osup" => adr[h] = "os"

LEMMA NotAnsweredStep == ASSUME IInv, NotAnswered, [Next]_vars PROVE NotAnswered'
<1> USE DEF NotAnswered
<1>t. /\ pc \in [Handlers -> {"idle", "wwak"} \cup Inside]
      /\ adr \in [Handlers -> Buses]
      /\ osum = "free" => sbus # "temp"
      /\ sbus \in Buses
  BY HandlersAssumption DEF IInv, TypeOK, Owners, TempBus
<1>1. ASSUME NEW h \in Handlers, Enter(h)
      PROVE  NotAnswered'
  <2>1. pc'[h] = "osup" => adr'[h] = "os"
    BY <1>t, <1>1 DEF Enter, Goto, Answers, Buses
  <2> QED
    BY <1>t, <1>1, <2>1 DEF Enter, Goto
<1>2. ASSUME NEW h \in Handlers, Step(h) \/ Gpe(h)
      PROVE  NotAnswered'
  <2>1. CASE RSMI(h)
    BY <1>t, <2>1 DEF RSMI, Goto
  <2>2. CASE Gpe(h)
    BY <1>t, <2>2 DEF Gpe, Goto
  <2>3. CASE WWAK(h) \/ WSUB(h) \/ Power(h) \/ DMSI(h) \/ GNIS(h) \/ Osup(h) \/ Again(h)
             \/ Leave(h)
    BY <1>t, <2>3 DEF WWAK, WSUB, Power, DMSI, GNIS, Osup, Again, Leave, Goto
  <2> QED
    BY <1>2, <2>1, <2>2, <2>3 DEF Step
<1>3. CASE Tini \/ TiniOsup \/ SignalWfev \/ Rpts \/ Sleep \/ OsRestoresBus \/ Plug
  BY <1>3 DEF Tini, TiniOsup, SignalWfev, Rpts, Sleep, OsRestoresBus, Plug, handler
<1>4. CASE UNCHANGED vars
  BY <1>4 DEF vars, handler
<1> QED
  BY <1>1, <1>2, <1>3, <1>4 DEF Next

LEMMA WaitsEndStep == ASSUME IInv, WaitsEnd, [Next]_vars PROVE WaitsEnd'
<1>1. /\ osum' = "pm" => pm' = "tini"
      /\ \A h \in Handlers : osum' = h => pc'[h] \in {"osup", "again", "release"}
  <2>1. Owners'
    BY PartsStep
  <2> QED
    BY <2>1 DEF Owners, Locked
<1>2. pm' = "on" => wfev' > 0
  <2>0. wfev \in Nat /\ (pm = "on" => wfev > 0)
    BY DEF IInv, TypeOK, WaitsEnd
  <2>1. CASE Tini \/ TiniOsup \/ Rpts \/ Sleep
    BY <2>1 DEF Tini, TiniOsup, Rpts, Sleep
  <2>2. CASE SignalWfev
    BY <2>0, <2>2 DEF SignalWfev
  <2>3. CASE OsRestoresBus \/ Plug
    BY <2>0, <2>3 DEF OsRestoresBus, Plug, thread
  <2>4. ASSUME NEW h \in Handlers, Step(h) \/ Enter(h) \/ Gpe(h)
        PROVE  UNCHANGED <<pm, wfev>>
    BY <2>4 DEF Step, Enter, Gpe, WWAK, WSUB, RSMI, Power, DMSI, GNIS, Osup, Again, Leave,
                thread
  <2>5. CASE UNCHANGED vars
    BY <2>0, <2>5 DEF vars, thread
  <2> QED
    BY <2>0, <2>1, <2>2, <2>3, <2>4, <2>5 DEF Next
<1> QED
  BY <1>1, <1>2 DEF WaitsEnd

(* A handler's own step, the wait for OSUM among them.                     *)
LEMMA HandlerCloser ==
  ASSUME IInv, NotAnswered, NEW h \in Handlers, Step(h) \/ Enter(h)
  PROVE  CloserFor(h)
<1>0. /\ pc \in [Handlers -> {"idle", "wwak"} \cup Inside] /\ pc[h] \in {"idle", "wwak"} \cup Inside
      /\ left \in [Handlers \cup {"pm"} -> 0 .. PollMax + RsmiMax]
      /\ left[h] \in Nat /\ plugs \in Nat
      /\ osum = "free" => sbus # "temp"
      /\ sbus \in Buses
  BY HandlersAssumption, LimitsAssumption DEF IInv, TypeOK, Owners, TempBus
<1> USE DEF Stage, Goto, world
<1>1. ASSUME plugs' = plugs, Stage(h)' < Stage(h)
      PROVE  CloserFor(h)
  BY <1>1 DEF CloserFor
<1>2. ASSUME plugs' = plugs, present' = present, pc' = pc, left' = [left EXCEPT ![h] = @ - 1],
             left[h] > 0
      PROVE  CloserFor(h)
  BY <1>0, <1>2 DEF CloserFor
<1>3. CASE WWAK(h)
  BY <1>0, <1>1, <1>3 DEF WWAK
<1>4. CASE WSUB(h)
  BY <1>0, <1>1, <1>4 DEF WSUB
<1>5. CASE RSMI(h)
  <2>1. pc[h] = "rsmi" /\ pc'[h] \in {"power", "dmsi", "gnis"} /\ plugs' = plugs
    BY <1>0, <1>5 DEF RSMI
  <2> QED
    BY <1>1, <2>1
<1>6. CASE Power(h)
  <2>1. pc[h] = "power" /\ plugs' = plugs /\ present' = present
    BY <1>6 DEF Power
  <2>2. CASE pc' = pc
    BY <1>0, <1>2, <1>6, <2>1, <2>2 DEF Power
  <2>3. CASE pc'[h] = "idle"
    BY <1>1, <2>1, <2>3
  <2> QED
    BY <1>0, <1>6, <2>2, <2>3 DEF Power
<1>7. CASE DMSI(h)
  <2>1. pc[h] = "dmsi" /\ plugs' = plugs /\ present' = present
    BY <1>7 DEF DMSI
  <2>2. CASE pc' = pc /\ left[h] > 0 /\ left' = [left EXCEPT ![h] = @ - 1]
    BY <1>2, <2>1, <2>2
  <2>3. CASE pc'[h] \in {"gnis", "idle"}
    BY <1>1, <2>1, <2>3
  <2> QED
    BY <1>0, <1>7, <2>2, <2>3 DEF DMSI
<1>8. CASE GNIS(h)
  <2>1. pc[h] = "gnis" /\ pc'[h] \in {"acquire", "idle"} /\ plugs' = plugs
    BY <1>0, <1>8 DEF GNIS
  <2> QED
    BY <1>1, <2>1
<1>9. CASE Enter(h)
  <2>1. pc[h] = "acquire" /\ plugs' = plugs /\ present' = present
    BY <1>9 DEF Enter
  <2>2. CASE pc'[h] = "release"
    BY <1>1, <2>1, <2>2
  <2>3. CASE pc'[h] = "osup" /\ ~Answers(sbus)
    <3>1. ~present
      BY <1>0, <1>9, <2>3 DEF Enter, Answers, Buses
    <3> QED
      BY <1>1, <2>1, <2>3, <3>1
  <2> QED
    BY <1>0, <1>9, <2>2, <2>3 DEF Enter
<1>10. CASE Osup(h)
  <2>1. pc[h] = "osup" /\ plugs' = plugs /\ present' = present
    BY <1>10 DEF Osup
  <2>2. CASE pc' = pc /\ left[h] > 0 /\ left' = [left EXCEPT ![h] = @ - 1]
    BY <1>2, <2>1, <2>2
  <2>3. CASE pc'[h] = "release"
    BY <1>1, <2>1, <2>3
  <2>4. CASE Answers(adr[h]) /\ pc'[h] = "again"
    <3>1. present
      BY <2>1, <2>4 DEF NotAnswered, Answers
    <3> QED
      BY <1>1, <2>1, <2>4, <3>1
  <2> QED
    BY <1>0, <1>10, <2>2, <2>3, <2>4 DEF Osup
<1>11. CASE Again(h)
  <2>1. pc[h] = "again" /\ pc'[h] \in {"wwak", "idle"} /\ plugs' = plugs
    BY <1>0, <1>11 DEF Again
  <2> QED
    BY <1>1, <2>1
<1>12. CASE Leave(h)
  BY <1>0, <1>1, <1>12 DEF Leave
<1> QED
  BY <1>3, <1>4, <1>5, <1>6, <1>7, <1>8, <1>9, <1>10, <1>11, <1>12 DEF Step

(* The other steps do not take a handler back.                             *)
LEMMA HandlerKept ==
  ASSUME IInv, NotAnswered, [Next]_vars, NEW h \in Handlers, pc[h] # "idle"
  PROVE  CloserFor(h) \/ SameFor(h)
<1>0. /\ pc \in [Handlers -> {"idle", "wwak"} \cup Inside]
      /\ left \in [Handlers \cup {"pm"} -> 0 .. PollMax + RsmiMax]
      /\ plugs \in Nat /\ h # "pm"
  BY HandlersAssumption, LimitsAssumption DEF IInv, TypeOK
<1>1. ASSUME pc'[h] = pc[h], left'[h] = left[h], UNCHANGED <<present, plugs>>
      PROVE  SameFor(h)
  BY <1>1 DEF SameFor, Stage
<1>2. ASSUME NEW g \in Handlers, Step(g) \/ Enter(g) \/ Gpe(g)
      PROVE  CloserFor(h) \/ SameFor(h)
  <2>1. CASE g = h /\ (Step(g) \/ Enter(g))
    BY <2>1, HandlerCloser
  <2>2. CASE g = h /\ Gpe(g)
    BY <2>2 DEF Gpe
  <2>3. CASE g # h
    <3>1. UNCHANGED <<present, plugs>>
      BY <1>2 DEF Step, Enter, Gpe, WWAK, WSUB, RSMI, Power, DMSI, GNIS, Osup, Again,
                  Leave, world
    <3>2. pc'[h] = pc[h]
      BY <1>0, <1>2, <2>3 DEF Step, Enter, Gpe, WWAK, WSUB, RSMI, Power, DMSI, GNIS, Osup,
                              Again, Leave, Goto
    <3>3. left'[h] = left[h]
      BY <1>0, <1>2, <2>3 DEF Step, Enter, Gpe, WWAK, WSUB, RSMI, Power, DMSI, GNIS, Osup,
                              Again, Leave
    <3> QED
      BY <1>1, <3>1, <3>2, <3>3
  <2> QED
    BY <1>2, <2>1, <2>2, <2>3
<1>3. CASE Tini \/ TiniOsup
  <2>1. UNCHANGED <<pc, present, plugs>>
    BY <1>3 DEF Tini, TiniOsup, handler, world
  <2>2. left'[h] = left[h]
    BY <1>0, <1>3 DEF Tini, TiniOsup
  <2> QED
    BY <1>1, <2>1, <2>2
<1>4. CASE SignalWfev \/ Rpts \/ Sleep \/ OsRestoresBus
  <2>1. UNCHANGED <<pc, left, present, plugs>>
    BY <1>4 DEF SignalWfev, Rpts, Sleep, OsRestoresBus, handler, world
  <2> QED
    BY <1>1, <2>1
<1>5. CASE Plug
  BY <1>0, <1>5 DEF Plug, CloserFor
<1>6. CASE UNCHANGED vars
  <2>1. UNCHANGED <<pc, left, present, plugs>>
    BY <1>6 DEF vars, handler, world
  <2> QED
    BY <1>1, <2>1
<1> QED
  BY <1>2, <1>3, <1>4, <1>5, <1>6 DEF Next

(* Sleep and wake: TINI polls a bounded number of times.                   *)
LEMMA PmCloser ==
  ASSUME IInv, [Next]_vars
  PROVE  /\ Tini \/ TiniOsup \/ SignalWfev \/ Sleep => CloserForPm
         /\ pm # "on" => CloserForPm \/ (PmStage' = PmStage /\ left'["pm"] = left["pm"])
<1>0. /\ left \in [Handlers \cup {"pm"} -> 0 .. PollMax + RsmiMax]
      /\ left["pm"] \in Nat /\ "pm" \notin Handlers
      /\ pm \in {"boot", "tini", "signal", "on", "pts", "waking"}
  BY HandlersAssumption, LimitsAssumption DEF IInv, TypeOK
<1> USE DEF PmStage, CloserForPm
<1>1. CASE Tini \/ SignalWfev \/ Sleep
  BY <1>0, <1>1 DEF Tini, SignalWfev, Sleep
<1>2. CASE TiniOsup
  <2>1. pm = "tini" /\ PmStage = 2
    BY <1>2 DEF TiniOsup
  <2>2. CASE pm' = "signal"
    BY <2>1, <2>2
  <2>3. CASE pm' = pm /\ left["pm"] > 0 /\ left' = [left EXCEPT !["pm"] = @ - 1]
    BY <1>0, <2>1, <2>3
  <2> QED
    BY <1>2, <2>2, <2>3 DEF TiniOsup
<1>6. pm' = pm /\ left'["pm"] = left["pm"] => ~(Tini \/ SignalWfev \/ Sleep)
  BY DEF Tini, SignalWfev, Sleep
<1>3. ASSUME NEW h \in Handlers, Step(h) \/ Enter(h) \/ Gpe(h)
      PROVE  pm' = pm /\ left'["pm"] = left["pm"]
  BY <1>0, <1>3 DEF Step, Enter, Gpe, WWAK, WSUB, RSMI, Power, DMSI, GNIS, Osup, Again, Leave,
                    thread
<1>4. CASE Rpts
  <2>1. pm = "on"
    BY <1>4 DEF Rpts
  <2>2. ~Tini /\ ~TiniOsup /\ ~SignalWfev /\ ~Sleep
    BY <2>1 DEF Tini, TiniOsup, SignalWfev, Sleep
  <2> QED
    BY <2>1, <2>2
<1>5. CASE OsRestoresBus \/ Plug \/ UNCHANGED vars
  <2>1. UNCHANGED <<pm, left>>
    BY <1>5 DEF OsRestoresBus, Plug, thread, vars
  <2> QED
    BY <1>2, <1>6, <2>1
<1> QED
  BY <1>0, <1>1, <1>2, <1>3, <1>4, <1>5, <1>6 DEF Next

(* Every handler and every wake-up runs out of steps, the nested _E42      *)
(* included, and whoever waits for OSUM or WFEV waits for somebody who is  *)
(* on the way to give it.                                                  *)
THEOREM GpeRunsOut == Spec => []WaitsEnd /\ GpeStepsRunOut
<1>1. Init => NotAnswered /\ WaitsEnd
  BY HandlersAssumption DEF Init, NotAnswered, WaitsEnd
<1>2. IInv /\ NotAnswered /\ [Next]_vars => NotAnswered'
  BY NotAnsweredStep
<1>3. IInv /\ WaitsEnd /\ [Next]_vars => WaitsEnd'
  BY WaitsEndStep
<1>4. IInv /\ NotAnswered /\ [Next]_vars =>
      [/\ \A h \in Handlers :
            /\ Step(h) \/ Enter(h) => CloserFor(h)
            /\ pc[h] # "idle" => CloserFor(h) \/ SameFor(h)
       /\ Tini \/ TiniOsup \/ SignalWfev \/ Sleep => CloserForPm
       /\ pm # "on"
            => CloserForPm \/ (PmStage' = PmStage /\ left'["pm"] = left["pm"])]_vars
  BY HandlerCloser, HandlerKept, PmCloser
<1> QED
  BY <1>1, <1>2, <1>3, <1>4, StrengthenedInvariant, PTL DEF Spec, GpeStepsRunOut
=============================================================================
