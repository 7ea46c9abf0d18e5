-------------------------- MODULE CioMailboxProofs --------------------------
(***************************************************************************)
(* Proofs about CioMailbox, for every set of ports, bits and calls, every  *)
(* retry and poll limit, and a controller that may or may not be late.     *)
(***************************************************************************)
EXTENDS CioMailbox, TLAPS

(* Every variable keeps its type in every step of CRMW, CIOR, CIOW and the *)
(* controller behind them.                                                 *)
LEMMA TypeStep == TypeOK /\ [Next]_vars => TypeOK'
<1> USE DEF TypeOK, Values, Commands, Results, vars, driver, controller, Bit

<1>1. ASSUME TypeOK, NEW c \in Calls, CRMW(c)
      PROVE  TypeOK'
  <2>1. tries' = 0 /\ tries' \in 0 .. LastTry + 1 /\ tries' <= LastTry
    BY <1>1, LimitsAssumption DEF CRMW
  <2>2. removed' \in BOOLEAN
    BY <1>1 DEF CRMW
  <2>3. /\ pc' \in {"idle", "issue", "poll", "tmot", "rdat", "sleep"}
        /\ phase' \in {"read", "write", "verify"}
        /\ result' \in Results
    BY <1>1 DEF CRMW
  <2> QED
    BY <1>1, <2>1, <2>2, <2>3 DEF CRMW
<1>2. ASSUME TypeOK, Issue
      PROVE  TypeOK'
  BY <1>2, CallsAssumption, LimitsAssumption DEF Issue
<1>3. ASSUME TypeOK, PollAgain
      PROVE  TypeOK'
  BY <1>3, LimitsAssumption DEF PollAgain
<1>4. ASSUME TypeOK, PollDone
      PROVE  TypeOK'
  BY <1>4 DEF PollDone
<1>5. ASSUME TypeOK, PollTimeout
      PROVE  TypeOK'
  BY <1>5, LimitsAssumption DEF PollTimeout, Retry
<1>6. ASSUME TypeOK, ReadTMOT
      PROVE  TypeOK'
  BY <1>6, LimitsAssumption DEF ReadTMOT, Retry
<1>7. ASSUME TypeOK, Modify
      PROVE  TypeOK'
  BY <1>7, CallsAssumption DEF Modify, RDAT
<1>8. ASSUME TypeOK, Verify
      PROVE  TypeOK'
  BY <1>8, LimitsAssumption DEF Verify, Return, Retry
<1>9. ASSUME TypeOK, Wake
      PROVE  TypeOK'
  BY <1>9 DEF Wake, Return
<1>10. ASSUME TypeOK, Fetch
       PROVE  TypeOK'
  BY <1>10 DEF Fetch
<1>11. ASSUME TypeOK, Complete
       PROVE  TypeOK'
  BY <1>11 DEF Complete
<1>12. ASSUME TypeOK, Fail
       PROVE  TypeOK'
  BY <1>12 DEF Fail
<1>13. ASSUME TypeOK, Remove \/ Insert
       PROVE  TypeOK'
  BY <1>13, PowerOnAssumption DEF Remove, Insert
<1>14. ASSUME TypeOK, UNCHANGED vars
       PROVE  TypeOK'
  BY <1>14
<1> QED
  BY <1>1, <1>2, <1>3, <1>4, <1>5, <1>6, <1>7, <1>8, <1>9, <1>10, <1>11,
     <1>12, <1>13, <1>14 DEF Next, Driver

(* The parts of the strengthened invariant hold initially.                 *)
LEMMA InitIInv == Init => IInv
<1> SUFFICES ASSUME Init PROVE IInv
  OBVIOUS
<1>1. TypeOK
  <2>1. /\ tries \in 0 .. LastTry + 1 /\ tries <= LastTry
        /\ polls \in 0 .. PollMax
    BY LimitsAssumption DEF Init
  <2>2. port \in [Ports -> Values] /\ mb \in Commands
    BY PowerOnAssumption DEF Init, Values, Commands, Bit
  <2> QED
    BY <2>1, <2>2 DEF Init, TypeOK, Values, Results, Bit
<1>2. CommandPending /\ StaysPresent /\ Settled /\ ReadAnswered
      /\ WriteFaithful /\ Addressed /\ SuccessMeansSet
  BY DEF Init, CommandPending, StaysPresent, Settled, ReadAnswered,
         WriteFaithful, Addressed, SuccessMeansSet
<1> QED
  BY <1>1, <1>2 DEF IInv

(* Every step keeps the parts of the strengthened invariant.               *)
Parts ==
  /\ CommandPending /\ StaysPresent /\ Settled
  /\ ReadAnswered /\ WriteFaithful /\ Addressed /\ SuccessMeansSet

LEMMA PartsStep == IInv /\ [Next]_vars => Parts'
<1> USE DEF IInv, Parts, TypeOK, CommandPending, StaysPresent, Settled,
            ReadAnswered, WriteFaithful, Addressed, SuccessMeansSet, driver, controller,
            Values, Commands, Bit
<1>1. ASSUME IInv, NEW c \in Calls, CRMW(c)
      PROVE  Parts'
  BY <1>1 DEF CRMW, AVND
<1>2. ASSUME IInv, Issue
      PROVE  Parts'
  BY <1>2 DEF Issue
<1>3. ASSUME IInv, PollAgain
      PROVE  Parts'
  BY <1>3 DEF PollAgain, PROG
<1>4. ASSUME IInv, PollDone
      PROVE  Parts'
  BY <1>4 DEF PollDone, PROG
<1>5. ASSUME IInv, PollTimeout
      PROVE  Parts'
  BY <1>5 DEF PollTimeout, Retry
<1>6. ASSUME IInv, ReadTMOT
      PROVE  Parts'
  BY <1>6 DEF ReadTMOT, TMOT, Retry
<1>7. ASSUME IInv, Modify
      PROVE  Parts'
  <2>1. call.data \subseteq call.mask
    BY <1>7, CallsAssumption
  <2>2. CommandPending' /\ StaysPresent' /\ Settled' /\ ReadAnswered'
        /\ Addressed' /\ SuccessMeansSet'
    BY <1>7 DEF Modify
  <2>3. WriteFaithful'
    <3> SUFFICES ASSUME ~Late, ~removed
                 PROVE  val' = (port[call.reg] \ call.mask) \cup call.data
      BY <1>7 DEF Modify
    <3>1. present /\ rdat = port[call.reg]
      BY <1>7 DEF Modify
    <3> QED
      BY <1>7, <2>1, <3>1 DEF Modify, RDAT
  <2> QED
    BY <2>2, <2>3
<1>8. ASSUME IInv, Verify
      PROVE  Parts'
  <2>1. CASE RDAT \cap call.mask = call.data
    <3>1. removed \/ (present /\ prog = 0 /\ rdat = port[call.reg])
      BY <1>8 DEF Verify
    <3>2. SuccessMeansSet'
      BY <1>8, <2>1, <3>1 DEF Verify, RDAT, Return
    <3> QED
      BY <1>8, <2>1, <3>1, <3>2 DEF Verify, Return
  <2>2. CASE RDAT \cap call.mask # call.data
    BY <1>8, <2>2 DEF Verify, Retry
  <2> QED
    BY <2>1, <2>2
<1>9. ASSUME IInv, Wake
      PROVE  Parts'
  BY <1>9 DEF Wake, Return
<1>10. ASSUME IInv, Fetch
      PROVE  Parts'
  BY <1>10 DEF Fetch
<1>11. ASSUME IInv, Complete
      PROVE  Parts'
  BY <1>11 DEF Complete
<1>12. ASSUME IInv, Fail
      PROVE  Parts'
  BY <1>12 DEF Fail
<1>13. ASSUME IInv, Remove
      PROVE  Parts'
  BY <1>13 DEF Remove
<1>14. ASSUME IInv, Insert
      PROVE  Parts'
  BY <1>14 DEF Insert
<1>15. ASSUME IInv, UNCHANGED vars
      PROVE  Parts'
  BY <1>15 DEF vars
<1> QED
  BY <1>1, <1>2, <1>3, <1>4, <1>5, <1>6, <1>7, <1>8, <1>9, <1>10, <1>11, <1>12, <1>13, <1>14, <1>15 DEF Next, Driver

THEOREM StrengthenedInvariant == Spec => []IInv
<1>1. IInv /\ [Next]_vars => IInv'
  BY TypeStep, PartsStep DEF IInv, Parts
<1> QED
  BY InitIInv, <1>1, PTL DEF Spec

(* Type correctness of the mailbox and the call that drives it.            *)
THEOREM TypeCorrect == Spec => []TypeOK
<1>1. IInv => TypeOK
  BY DEF IInv
<1> QED
  BY <1>1, StrengthenedInvariant, PTL

(* When CRMW reports success the register holds the data, late controller  *)
(* or not, unless the controller was removed during the call.              *)
THEOREM SuccessIsVerified == Spec => []SuccessMeansSet
<1>1. IInv => SuccessMeansSet
  BY DEF IInv
<1> QED
  BY <1>1, StrengthenedInvariant, PTL

(* No command of a successful call reaches a register after its return.    *)
THEOREM SuccessIsQuiet == Spec => QuietAfterSuccess
<1>1. IInv /\ [Next]_vars => [result = "ok" /\ present => port' = port]_vars
  <2> SUFFICES ASSUME IInv, [Next]_vars, result = "ok", present
               PROVE  port' = port
    OBVIOUS
  <2>1. pc = "idle" /\ busy = None
    BY DEF IInv, CommandPending, StaysPresent, Settled
  <2> QED
    BY <2>1 DEF Next, vars, driver, controller, CRMW, Driver, Issue, PollAgain,
                PollDone, PollTimeout, ReadTMOT, Modify, Verify, Wake, Fetch,
                Complete, Fail, Remove, Insert
<1> QED
  BY <1>1, StrengthenedInvariant, PTL DEF Spec, QuietAfterSuccess

(* With a controller that is never late, CRMW changes no register but the  *)
(* one it names, and no bit of it outside its mask.                        *)
THEOREM ExactWrite == ASSUME ~Late PROVE Spec => OnlyMaskedBits
<1> DEFINE
  May(r)  == IF r = call.reg THEN call.mask ELSE {}
  Kept(r) == port'[r] \ May(r) = port[r] \ May(r)
<1>1. IInv /\ [Next]_vars
      => [present /\ ~removed => \A r \in Ports : Kept(r)]_vars
  <2> SUFFICES ASSUME IInv, [Next]_vars, present, ~removed, NEW r \in Ports
               PROVE  Kept(r)
    OBVIOUS
  <2>1. CASE port' = port
    BY <2>1
  <2>2. CASE busy # None /\ busy.cmd0 = 1
             /\ port' = [port EXCEPT ![busy.reg] = busy.data]
    <3>1. pc = "poll"
      BY <2>2 DEF IInv, CommandPending, Settled
    <3>2. phase = "write"
      BY <2>2, <3>1 DEF IInv, TypeOK, ReadAnswered
    <3>3. /\ busy.reg = call.reg /\ busy.data = val
          /\ val = (port[call.reg] \ call.mask) \cup call.data
          /\ call.data \subseteq call.mask
      BY <2>2, <3>1, <3>2, CallsAssumption DEF IInv, TypeOK, WriteFaithful
    <3> QED
      BY <2>2, <3>3 DEF IInv, TypeOK
  <2> QED
    BY <2>1, <2>2 DEF Next, vars, driver, controller, CRMW, Driver, Issue,
                PollAgain, PollDone, PollTimeout, ReadTMOT, Modify, Verify,
                Wake, Fetch, Complete, Fail, Remove, Insert
<1> QED
  BY <1>1, StrengthenedInvariant, PTL DEF Spec, OnlyMaskedBits

(* Every step of the mailbox is a step of the verified masked write, or    *)
(* leaves it alone.                                                        *)
THEOREM Refinement == Spec => ImplementsMaskedWrite
<1>1. Init => Abstract!Init
  BY DEF Init, Abstract!Init
<1>2. IInv /\ [Next]_vars => [Abstract!Next]_(Abstract!vars)
  <2> SUFFICES ASSUME IInv, [Next]_vars
               PROVE  [Abstract!Next]_(Abstract!vars)
    OBVIOUS
  <2> USE DEF Abstract!vars, driver, controller
  <2>1. ASSUME NEW c \in Calls, CRMW(c)
        PROVE  Abstract!Begin(c)
    BY <2>1 DEF CRMW, AVND, Abstract!Begin
  <2>2. CASE Issue \/ PollAgain \/ PollDone \/ PollTimeout \/ ReadTMOT
             \/ Modify \/ Fetch \/ UNCHANGED vars
    BY <2>2 DEF Issue, PollAgain, PollDone, PollTimeout, ReadTMOT, Retry,
                Modify, Fetch, vars
  <2>3. CASE Verify
    <3>1. removed \/ (present /\ rdat = port[call.reg])
      BY <2>3 DEF Verify, IInv, TypeOK, StaysPresent, Settled, ReadAnswered
    <3>2. CASE RDAT \cap call.mask = call.data
      <4>1. removed \/ Abstract!Holds(call)
        BY <3>1, <3>2 DEF RDAT, Abstract!Holds
      <4>2. Abstract!Return("ok")
        BY <2>3, <3>2, <4>1 DEF Verify, Return, Abstract!Return
      <4> QED
        BY <4>2 DEF Abstract!Next
    <3>3. CASE RDAT \cap call.mask # call.data
      BY <2>3, <3>3 DEF Verify, Retry
    <3> QED
      BY <3>2, <3>3
  <2>4. CASE Wake
    <3>1. CASE tries <= LastTry
      BY <2>4, <3>1 DEF Wake
    <3>2. CASE ~(tries <= LastTry)
      <4>1. Abstract!Return("failed")
        BY <2>4, <3>2 DEF Wake, Return, Abstract!Return
      <4> QED
        BY <4>1 DEF Abstract!Next
    <3> QED
      BY <3>1, <3>2
  <2>5. CASE Complete \/ Fail
    <3>1. CASE port' = port
      BY <2>5, <3>1 DEF Complete, Fail
    <3>2. CASE busy.cmd0 = 1 /\ port' = [port EXCEPT ![busy.reg] = busy.data]
      <4>1. present /\ busy \in Commands /\ result # "ok"
        BY <2>5 DEF Complete, Fail, IInv, TypeOK, CommandPending, Settled
      <4>2. CASE Late
        BY <2>5, <3>2, <4>1, <4>2
           DEF Complete, Fail, Abstract!Write, Abstract!Next, Commands, Values
      <4>3. CASE ~Late
        <5>1. pc = "poll" /\ busy.reg = call.reg /\ busy = mb
          <6>1. busy # None /\ prog = 1
            BY <2>5 DEF Complete, Fail, IInv, CommandPending
          <6>2. pc = "poll"
            BY <4>1, <4>3, <6>1 DEF IInv, Settled
          <6> QED
            BY <4>1, <4>3, <6>1, <6>2 DEF IInv, Addressed
        <5>2. ~removed => busy.data = (port[call.reg] \ call.mask) \cup call.data
          BY <3>2, <4>3, <5>1 DEF IInv, TypeOK, ReadAnswered, WriteFaithful
        <5>3. /\ busy.data \in SUBSET Bits
              /\ UNCHANGED <<present, pc, call, result, removed>>
          BY <2>5, <4>1 DEF Complete, Fail, Commands, Values
        <5>4. CASE removed
          <6>1. \E v \in SUBSET Bits : port' = [port EXCEPT ![call.reg] = v]
            BY <3>2, <5>1, <5>3
          <6> QED
            BY <4>1, <5>1, <5>3, <5>4, <6>1 DEF Abstract!Write, Abstract!Next
        <5>5. CASE ~removed
          <6>1. port' = [port EXCEPT ![call.reg] = (@ \ call.mask) \cup call.data]
            BY <3>2, <5>1, <5>2, <5>5
          <6> QED
            BY <4>1, <5>1, <5>3, <6>1 DEF Abstract!Write, Abstract!Next
        <5> QED
          BY <5>4, <5>5
      <4> QED
        BY <4>2, <4>3
    <3> QED
      BY <2>5, <3>1, <3>2 DEF Complete, Fail
  <2>6. CASE Remove
    BY <2>6 DEF Remove, Abstract!Remove, Abstract!Next
  <2>7. CASE Insert
    BY <2>7 DEF Insert, Abstract!Insert, Abstract!Next
  <2> QED
    BY <2>1, <2>2, <2>3, <2>4, <2>5, <2>6, <2>7
       DEF Next, Driver, Abstract!Next
<1> QED
  BY <1>1, <1>2, StrengthenedInvariant, PTL
     DEF Spec, ImplementsMaskedWrite, Abstract!Spec


-----------------------------------------------------------------------------
(* The safety half of CallsReturn.                                         *)

\* steps of one mailbox access: Issue, the polls and their end, TMOT, RDAT
AccessSteps == PollMax + 4

\* steps of k attempts of three accesses and a Sleep
Attempts(k) == k * (3 * AccessSteps + 1)

\* what the running attempt may still take
AccessesAfter == CASE phase = "read" -> 2 * AccessSteps
                   [] phase = "write" -> AccessSteps
                   [] phase = "verify" -> 0
InAccess == CASE pc = "issue" -> AccessSteps
              [] pc = "poll" -> polls + 3
              [] pc = "tmot" -> 2
              [] pc = "rdat" -> 1

\* the steps the running call may still take
StepsLeft ==
  IF pc = "idle" THEN 0
  ELSE IF pc = "sleep" THEN Attempts(LastTry + 1 - tries) + 1
  ELSE Attempts(LastTry - tries) + AccessesAfter + InAccess + 1

(* A call of CRMW is at any time at most StepsLeft of its own steps from   *)
(* its return: every step of it uses up one, no step of the controller     *)
(* takes a step of it or gives it another, and when it begins there are    *)
(* at most (LastTry + 1) * (3 * PollMax + 13).                             *)
StepsRunOut ==
  [][/\ Driver => StepsLeft' < StepsLeft
     /\ pc # "idle" /\ ~Driver => StepsLeft' = StepsLeft
     /\ pc = "idle" => StepsLeft' <= Attempts(LastTry + 1)]_vars

(* Attempts multiplies.                                                    *)
LEMMA AttemptsAdd ==
  ASSUME NEW k \in Nat
  PROVE  /\ AccessSteps \in Nat
         /\ Attempts(k) \in Nat
         /\ Attempts(k + 1) = Attempts(k) + 3 * AccessSteps + 1
<1>1. AccessSteps \in Nat
  BY LimitsAssumption DEF AccessSteps
<1> DEFINE n == 3 * AccessSteps + 1
<1>2. n \in Nat
  BY <1>1
<1> HIDE DEF n
<1>3. k * n \in Nat /\ (k + 1) * n = k * n + n
  BY <1>2
<1> QED
  BY <1>1, <1>3 DEF Attempts, n

(* Outside the last Sleep an attempt is left to the running one.           *)
LEMMA InAttempt ==
  ASSUME TypeOK, pc \in {"issue", "poll", "tmot", "rdat"}
  PROVE  /\ LastTry - tries \in Nat /\ LastTry + 1 - tries \in Nat
         /\ Attempts(LastTry - tries) \in Nat
         /\ Attempts(LastTry + 1 - tries)
              = Attempts(LastTry - tries) + 3 * AccessSteps + 1
         /\ AccessSteps = PollMax + 4 /\ PollMax \in Nat /\ polls \in 0 .. PollMax
         /\ phase \in {"read", "write", "verify"}
<1>1. /\ tries \in Nat /\ tries <= LastTry /\ LastTry \in Nat /\ PollMax \in Nat
      /\ polls \in 0 .. PollMax /\ phase \in {"read", "write", "verify"}
  BY LimitsAssumption DEF TypeOK
<1> DEFINE k == LastTry - tries
<1>2. k \in Nat /\ LastTry + 1 - tries = k + 1
  BY <1>1
<1>3. Attempts(k) \in Nat /\ Attempts(k + 1) = Attempts(k) + 3 * AccessSteps + 1
  <2> HIDE DEF k
  <2> QED
    BY <1>2, AttemptsAdd
<1> QED
  BY <1>1, <1>2, <1>3 DEF AccessSteps

(* There are always finitely many steps left, and none only when no call   *)
(* runs.                                                                   *)
LEMMA StepsLeftNat == TypeOK => StepsLeft \in Nat /\ (StepsLeft = 0 <=> pc = "idle")
<1> SUFFICES ASSUME TypeOK
             PROVE  StepsLeft \in Nat /\ (StepsLeft = 0 <=> pc = "idle")
  OBVIOUS
<1>1. CASE pc = "idle"
  BY <1>1 DEF StepsLeft
<1>2. CASE pc = "sleep"
  <2> DEFINE k == LastTry + 1 - tries
  <2>1. k \in Nat
    BY LimitsAssumption DEF TypeOK
  <2>2. Attempts(k) \in Nat
    <3> HIDE DEF k
    <3> QED
      BY <2>1, AttemptsAdd
  <2> QED
    BY <1>2, <2>2 DEF StepsLeft
<1>3. CASE pc \in {"issue", "poll", "tmot", "rdat"}
  <2>1. AccessesAfter \in Nat /\ InAccess \in Nat /\ Attempts(LastTry - tries) \in Nat
    BY <1>3, InAttempt DEF AccessesAfter, InAccess
  <2> QED
    BY <1>3, <2>1 DEF StepsLeft
<1> QED
  BY <1>1, <1>2, <1>3 DEF TypeOK

(* A step of the call uses up one of its steps.                            *)
LEMMA DriverUses == TypeOK /\ Driver => StepsLeft' < StepsLeft
<1> SUFFICES ASSUME TypeOK, Driver
             PROVE  StepsLeft' < StepsLeft
  OBVIOUS
<1> USE DEF StepsLeft, AccessesAfter, InAccess
<1>1. CASE pc \in {"issue", "poll", "tmot", "rdat"}
  <2>1. /\ LastTry - tries \in Nat /\ LastTry + 1 - tries \in Nat
        /\ Attempts(LastTry - tries) \in Nat
        /\ Attempts(LastTry + 1 - tries)
             = Attempts(LastTry - tries) + 3 * AccessSteps + 1
        /\ AccessSteps = PollMax + 4 /\ PollMax \in Nat /\ polls \in 0 .. PollMax
        /\ phase \in {"read", "write", "verify"}
    BY <1>1, InAttempt
  <2>2. tries \in Nat /\ LastTry \in Nat
    BY LimitsAssumption DEF TypeOK
  <2> DEFINE a == Attempts(LastTry - tries)
  <2>3. ASSUME pc' = "sleep", tries' = tries + 1
        PROVE  StepsLeft' = a + 1
    <3>1. LastTry + 1 - tries' = LastTry - tries
      BY <2>2, <2>3
    <3> QED
      BY <2>3, <3>1
  <2>4. ASSUME pc' \notin {"idle", "sleep"}, tries' = tries
        PROVE  StepsLeft' = a + AccessesAfter' + InAccess' + 1
    BY <2>4 DEF Attempts, AccessSteps
  <2>5. StepsLeft = a + AccessesAfter + InAccess + 1
    BY <1>1
  <2> HIDE DEF a, StepsLeft
  <2>6. a \in Nat
    BY <2>1 DEF a
  <2>7. CASE Retry
    <3>1. InAccess \in Nat \ {0} /\ AccessesAfter \in Nat
      BY <1>1, <2>1
    <3> HIDE DEF InAccess, AccessesAfter
    <3>2. StepsLeft' = a + 1
      BY <2>3, <2>7 DEF Retry
    <3> QED
      BY <2>5, <2>6, <3>1, <3>2
  <2>8. CASE Return("ok")
    <3>1. StepsLeft' = 0
      BY <2>8 DEF Return, StepsLeft
    <3>2. InAccess \in Nat \ {0} /\ AccessesAfter \in Nat
      BY <1>1, <2>1
    <3> HIDE DEF InAccess, AccessesAfter
    <3> QED
      BY <2>5, <2>6, <3>1, <3>2
  <2>9. CASE Issue
    BY <2>1, <2>4, <2>5, <2>6, <2>9 DEF Issue
  <2>10. CASE PollAgain
    BY <2>1, <2>4, <2>5, <2>6, <2>10 DEF PollAgain
  <2>11. CASE PollDone
    BY <2>1, <2>4, <2>5, <2>6, <2>11 DEF PollDone
  <2>12. CASE ReadTMOT /\ ~Retry
    BY <2>1, <2>4, <2>5, <2>6, <2>12 DEF ReadTMOT
  <2>13. CASE Modify
    BY <2>1, <2>4, <2>5, <2>6, <2>13 DEF Modify
  <2> QED
    BY <1>1, <2>7, <2>8, <2>9, <2>10, <2>11, <2>12, <2>13
       DEF Driver, PollTimeout, Verify, Wake
<1>2. CASE pc = "sleep"
  <2>1. Wake
    BY <1>2 DEF Driver, Issue, PollAgain, PollDone, PollTimeout, ReadTMOT, Modify,
                Verify
  <2>2. /\ tries \in Nat /\ LastTry \in Nat /\ PollMax \in Nat
        /\ LastTry + 1 - tries \in Nat
    BY LimitsAssumption DEF TypeOK
  <2>3. CASE tries <= LastTry
    <3> DEFINE k == LastTry - tries
               a == Attempts(k)
               b == Attempts(k + 1)
    <3>1. k \in Nat /\ LastTry + 1 - tries = k + 1
      BY <2>2, <2>3
    <3>2. a \in Nat /\ b = a + 3 * AccessSteps + 1
      <4> HIDE DEF k
      <4> QED
        BY <3>1, AttemptsAdd
    <3>3. /\ pc' = "issue" /\ phase' = "read" /\ tries' = tries
      BY <2>1, <2>3 DEF Wake
    <3>4. StepsLeft' = a + 2 * AccessSteps + AccessSteps + 1
      BY <3>3 DEF Attempts, AccessSteps
    <3>5. StepsLeft = b + 1
      BY <1>2, <3>1
    <3> HIDE DEF a, b, StepsLeft
    <3> QED
      BY <2>2, <3>2, <3>4, <3>5 DEF AccessSteps
  <2>4. CASE ~(tries <= LastTry)
    <3>1. StepsLeft' = 0
      BY <2>1, <2>4 DEF Wake, Return
    <3> HIDE DEF StepsLeft
    <3>2. StepsLeft \in Nat /\ StepsLeft # 0
      BY <1>2, StepsLeftNat
    <3> QED
      BY <3>1, <3>2
  <2> QED
    BY <2>3, <2>4
<1> QED
  BY <1>1, <1>2 DEF Driver, Issue, PollAgain, PollDone, PollTimeout, ReadTMOT, Modify,
                    Verify, Wake

(* A call takes at most 3 * PollMax + 13 steps for each of its attempts,   *)
(* of which the controller can neither take one nor add one.               *)
THEOREM CallsRunOut == Spec => [](StepsLeft \in Nat) /\ StepsRunOut
<1>1. TypeOK => StepsLeft \in Nat
  BY StepsLeftNat
<1>2. TypeOK /\ [Next]_vars
      => [/\ Driver => StepsLeft' < StepsLeft
          /\ pc # "idle" /\ ~Driver => StepsLeft' = StepsLeft
          /\ pc = "idle" => StepsLeft' <= Attempts(LastTry + 1)]_vars
  <2> SUFFICES ASSUME TypeOK, Next
               PROVE  /\ Driver => StepsLeft' < StepsLeft
                      /\ pc # "idle" /\ ~Driver => StepsLeft' = StepsLeft
                      /\ pc = "idle" => StepsLeft' <= Attempts(LastTry + 1)
    OBVIOUS
  <2>1. Driver => StepsLeft' < StepsLeft
    BY DriverUses
  <2>2. ASSUME UNCHANGED driver
        PROVE  StepsLeft' = StepsLeft
    BY <2>2 DEF driver, StepsLeft, AccessesAfter, InAccess, Attempts, AccessSteps
  <2>3. pc # "idle" /\ ~Driver => UNCHANGED driver
    BY DEF Next, CRMW, Fetch, Complete, Fail, Remove, Insert
  <2>4. pc # "idle" /\ ~Driver => StepsLeft' = StepsLeft
    BY <2>2, <2>3
  <2>5. Attempts(LastTry + 1) \in Nat
        /\ Attempts(LastTry + 1) = Attempts(LastTry) + 3 * AccessSteps + 1
        /\ Attempts(LastTry) \in Nat /\ AccessSteps \in Nat
    <3>1. LastTry \in Nat /\ LastTry + 1 \in Nat
      BY LimitsAssumption
    <3> QED
      BY <3>1, AttemptsAdd
  <2>6. ASSUME pc = "idle"
        PROVE  StepsLeft' <= Attempts(LastTry + 1)
    <3>1. CASE UNCHANGED driver
      <4>1. StepsLeft' = 0
        BY <2>6, <3>1 DEF driver, StepsLeft
      <4> QED
        BY <4>1, <2>5
    <3>2. ASSUME NEW c \in Calls, CRMW(c)
          PROVE  StepsLeft' <= Attempts(LastTry + 1)
      <4>1. CASE pc' = "idle"
        <5>1. StepsLeft' = 0
          BY <4>1 DEF StepsLeft
        <5> QED
          BY <5>1, <2>5
      <4>2. CASE pc' # "idle"
        <5>1. pc' = "issue" /\ phase' = "read" /\ tries' = 0
          BY <2>6, <3>2, <4>2 DEF CRMW
        <5>2. LastTry - tries' = LastTry
          BY <5>1, LimitsAssumption
        <5>3. StepsLeft' = Attempts(LastTry) + 2 * AccessSteps + AccessSteps + 1
          BY <5>1, <5>2 DEF StepsLeft, AccessesAfter, InAccess, Attempts, AccessSteps
        <5> HIDE DEF StepsLeft
        <5> QED
          BY <2>5, <5>3
      <4> QED
        BY <4>1, <4>2
    <3> QED
      BY <2>6, <3>1, <3>2 DEF Next, Driver, Issue, PollAgain, PollDone, PollTimeout,
          ReadTMOT, Modify, Verify, Wake, Fetch, Complete, Fail, Remove, Insert
  <2> QED
    BY <2>1, <2>4, <2>6
<1> QED
  BY <1>1, <1>2, TypeCorrect, PTL DEF Spec, StepsRunOut
=============================================================================
