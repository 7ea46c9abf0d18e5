--------------------------- MODULE LiluUtilProofs ---------------------------
(***************************************************************************)
(* Theorems about the helpers of the Lilu headers: about CircularBuffer,   *)
(* for any capacity (zero included), any threads and any elements; about   *)
(* EVector (Vec), for any elements, blocks of memory and growth factors;   *)
(* and about LiluArith (Arith), for integers of any width and machines of  *)
(* any number of cores.                                                    *)
(***************************************************************************)
EXTENDS MCLiluUtil, SequenceTheorems, FiniteSetTheorems, WellFoundedInduction, TLAPS

(* Whoever is between lock and unlock is alone there.                      *)
LEMMA Alone ==
  ASSUME IInv, NEW t \in Threads, pc[t] \in Inside
  PROVE  /\ owner = t
         /\ \A u \in Threads \ {t} : pc[u] \in {"idle", "lock"} /\ owner # u
         /\ \A place \in Inside : Lag(place) = IF pc[t] = place THEN 1 ELSE 0
  <1>1. owner = t
    BY DEF IInv, LockedOnce
  <1>2. \A u \in Threads \ {t} : pc[u] \in {"idle", "lock"}
    BY <1>1 DEF IInv, LockedOnce, TypeOK
  <1> QED
    BY <1>1, <1>2 DEF Lag, Inside

(* What the lag is after a step of the thread that has the lock.           *)
LEMMA LagAfter ==
  ASSUME IInv, NEW t \in Threads, pc[t] \in Inside, NEW place, pc' = [pc EXCEPT ![t] = place]
  PROVE  \A p \in Inside : Lag(p)' = IF place = p THEN 1 ELSE 0
  <1>1. \A u \in Threads \ {t} : pc[u] \in {"idle", "lock"} /\ pc'[u] = pc[u]
    BY Alone DEF IInv, TypeOK
  <1>2. pc'[t] = place
    BY DEF IInv, TypeOK
  <1> QED
    BY <1>1, <1>2 DEF Lag, Inside

(* Both indices are inside the storage, unless there is none.              *)
LEMMA InRing ==
  ASSUME IInv, Size # 0
  PROVE  indexr \in Slots /\ indexw \in Slots
  <1>1. Size \in Nat /\ indexr \in Slots /\ indexr \in Int /\ Live \in 0 .. Size
    BY SizeAssumption DEF IInv, RingOK, Slots
  <1>2. Lag("wcount") \in 0 .. 1 /\ Live + Lag("wcount") <= Size
    <2>1. CASE \E t \in Threads : pc[t] = "wcount"
      <3>1. PICK t \in Threads : pc[t] = "wcount"
        BY <2>1
      <3>2. Lag("rcount") = 0 /\ Lag("wcount") = 1
        BY <3>1, Alone DEF Inside
      <3>3. count < Size /\ count \in Int
        BY <3>1, SizeAssumption DEF IInv, Progress, TypeOK
      <3> QED
        BY <1>1, <3>2, <3>3 DEF Live
    <2>2. CASE ~\E t \in Threads : pc[t] = "wcount"
      BY <1>1, <2>2 DEF Lag
    <2> QED
      BY <2>1, <2>2
  <1>3. indexw = At(Live + Lag("wcount") + 1)
    BY DEF IInv, RingOK
  <1> QED
    BY <1>1, <1>2, <1>3 DEF At, Slots

(* Types, and who has the lock.                                            *)
LEMMA LockKept ==
  ASSUME IInv, Next
  PROVE  TypeOK' /\ LockedOnce' /\ Alive' /\ Unused'
  <1> USE NobodyAssumption DEF ring, lock, thread
  <1>l. Size \in Nat /\ indexr \in 0 .. Size /\ indexw \in 0 .. Size /\ count \in 0 .. Size
        /\ depth \in 0 .. 2
    BY SizeAssumption DEF IInv, TypeOK
  <1>1. CASE AllocStorage \/ AllocInstance \/ InitBuffer
    <2>1. UNCHANGED <<ring, lock, thread>> /\ life' \in {"none", "storage", "instance", "made"}
          /\ held' \in SUBSET {"storage", "instance", "lock"} /\ life # "made"
      BY <1>1 DEF AllocStorage, AllocInstance, InitBuffer, IInv, TypeOK
    <2> QED
      BY <2>1 DEF IInv, TypeOK, LockedOnce, Nested, Alive, Unused
  <1>2. CASE Delete
    BY <1>2, <1>l DEF Delete, IInv, TypeOK, LockedOnce, Nested, Alive, Unused, Slots
  <1>3. ASSUME NEW t \in Threads, Step(t) PROVE TypeOK' /\ LockedOnce' /\ Alive' /\ Unused'
    <2>1. CASE (\E e \in Elements : Call(t, "push", e)) \/ (\E c \in Calls \ {"push"} : Call(t, c, NoElement))
      <3>1. PICK c \in Calls, e \in Elements \cup {NoElement} : Call(t, c, e)
        BY <2>1 DEF Calls
      <3> QED
        BY <3>1 DEF Call, Goto, Answer, IInv, TypeOK, LockedOnce, Nested, Alive, Unused, Inside
    <2>2. CASE Lock(t)
      <3>1. owner = Nobody /\ depth = 0
        BY <2>2 DEF Lock, Acquire, IInv, LockedOnce, Inside, Unused
      <3>2. PICK place \in {"test", "look"} : pc' = [pc EXCEPT ![t] = place] /\
               (place = "look" => op[t] \notin {"push", "pop"})
        BY <2>2 DEF Lock, Goto
      <3>3. life = "made"
        BY <2>2 DEF Lock, IInv, Alive
      <3> QED
        BY <2>2, <3>1, <3>2, <3>3 DEF Lock, Acquire, IInv, TypeOK, LockedOnce, Nested, Alive, Unused, Inside
    <2>3. CASE Body(t)
      <3>1. pc[t] \in Inside
        BY <2>3 DEF Body, Test, Look, Write, AdvanceWrite, CountUp, Read, AdvanceRead, CountDown, Unlock, Inside
      <3>2. /\ owner = t /\ depth = (IF Nested(t) THEN 2 ELSE 1) /\ life = "made"
            /\ \A u \in Threads \ {t} : pc[u] \in {"idle", "lock"} /\ owner # u
        BY <3>1, Alone DEF IInv, LockedOnce, Alive, Inside
      <3>3. CASE Test(t)
        <4>1. op[t] \in {"push", "pop"}
          BY <3>3 DEF Test, IInv, Progress
        <4> QED
          BY <3>2, <3>3, <4>1
             DEF Test, Acquire, Goto, IInv, TypeOK, LockedOnce, Nested, Alive, Unused, Inside
      <3>4. CASE Look(t)
        <4>1. CASE op[t] \in {"push", "pop"}
          <5>1. PICK place \in {"unlock", "write", "read"} : pc' = [pc EXCEPT ![t] = place]
            BY <3>4, <4>1 DEF Look, Goto
          <5>2. depth' = 1 /\ owner' = t
            BY <3>2, <3>4, <4>1 DEF Look, Release, Nested
          <5> QED
            BY <3>2, <3>4, <5>1, <5>2 DEF Look, IInv, TypeOK, LockedOnce, Nested, Alive, Unused, Inside
        <4>2. CASE op[t] \notin {"push", "pop"}
          <5>1. pc' = [pc EXCEPT ![t] = "idle"]
            BY <3>4, <4>2 DEF Look, Goto
          <5>2. depth' = 0 /\ owner' = Nobody
            BY <3>2, <3>4, <4>2 DEF Look, Release, Nested
          <5> QED
            BY <3>2, <3>4, <5>1, <5>2 DEF Look, IInv, TypeOK, LockedOnce, Nested, Alive, Unused, Inside
        <4> QED
          BY <4>1, <4>2
      <3>5. CASE Unlock(t)
        <4>1. depth' = 0 /\ owner' = Nobody
          BY <3>2, <3>5 DEF Unlock, Release, Nested
        <4> QED
          BY <3>2, <3>5, <4>1
             DEF Unlock, Goto, IInv, TypeOK, LockedOnce, Nested, Alive, Unused, Inside, Calls
      <3>6. CASE Write(t) \/ AdvanceWrite(t) \/ CountUp(t) \/ Read(t) \/ AdvanceRead(t) \/ CountDown(t)
        <4>1. PICK place \in {"windex", "wcount", "rindex", "rcount", "unlock"} :
                 pc' = [pc EXCEPT ![t] = place]
          BY <3>6 DEF Write, AdvanceWrite, CountUp, Read, AdvanceRead, CountDown, Goto
        <4>2. UNCHANGED <<lock, op, arg, life, held>> /\ pc[t] # "look"
          BY <3>6 DEF Write, AdvanceWrite, CountUp, Read, AdvanceRead, CountDown
        <4>3. LockedOnce' /\ Alive' /\ Unused'
          BY <3>1, <3>2, <4>1, <4>2 DEF IInv, TypeOK, LockedOnce, Nested, Alive, Unused, Inside
        <4>4. indexr \in Slots \/ Size = 0
          BY DEF IInv, RingOK
        <4>5. storage' \in [Slots -> Elements \cup {NoElement}]
              /\ elem' \in [Threads -> Elements \cup {NoElement}]
          <5>1. CASE Write(t)
            BY <5>1, <1>l DEF Write, IInv, TypeOK, Progress
          <5>2. CASE Read(t)
            BY <5>2, <4>4, <1>l DEF Read, IInv, TypeOK, Progress
          <5>3. CASE AdvanceWrite(t) \/ CountUp(t) \/ AdvanceRead(t) \/ CountDown(t)
            BY <5>3 DEF AdvanceWrite, CountUp, AdvanceRead, CountDown, IInv, TypeOK
          <5> QED
            BY <3>6, <5>1, <5>2, <5>3
        <4>8. (pc[t] \in {"windex", "rindex"}) => Size # 0 /\ indexr \in Slots /\ indexw \in Slots
          BY <1>l, InRing DEF IInv, Progress
        <4>6. indexr' \in 0 .. Size /\ indexw' \in 0 .. Size
          BY <3>6, <1>l, <4>8
             DEF Write, AdvanceWrite, CountUp, Read, AdvanceRead, CountDown, Wrap, Slots
        <4>7. count' \in 0 .. Size
          BY <3>6, <1>l
             DEF Write, AdvanceWrite, CountUp, Read, AdvanceRead, CountDown, IInv, Progress
        <4> QED
          BY <4>1, <4>2, <4>3, <4>5, <4>6, <4>7 DEF IInv, TypeOK, Inside
      <3> QED
        BY <2>3, <3>3, <3>4, <3>5, <3>6 DEF Body
    <2> QED
      BY <1>3, <2>1, <2>2, <2>3 DEF Step
  <1> QED
    BY <1>1, <1>2, <1>3 DEF Next, Lifecycle

(* The steps of a call that has the lock keep the ring in order.           *)
LEMMA RingKept ==
  ASSUME IInv, NEW t \in Threads, Body(t)
  PROVE  RingOK' /\ Progress'
  <1> USE DEF ring, lock, thread
  <1>1. pc[t] \in Inside /\ \A u \in Threads \ {t} : pc[u] \in {"idle", "lock"}
    <2>1. pc[t] \in Inside
      BY DEF Body, Test, Look, Write, AdvanceWrite, CountUp, Read, AdvanceRead, CountDown, Unlock, Inside
    <2> QED
      BY <2>1, Alone
  <1>2. /\ Size \in Nat /\ count \in 0 .. Size /\ indexr \in 0 .. Size /\ indexw \in 0 .. Size
        /\ count \in Int /\ indexr \in Int /\ indexw \in Int
    BY SizeAssumption DEF IInv, TypeOK
  <1>3. /\ Lag("rcount") = (IF pc[t] = "rcount" THEN 1 ELSE 0)
        /\ Lag("wcount") = (IF pc[t] = "wcount" THEN 1 ELSE 0)
    BY <1>1, Alone DEF Inside
  <1>4. /\ indexw = At(Live + Lag("wcount") + 1) /\ Live \in 0 .. Size
        /\ indexr \in Slots \/ Size = 0
    BY DEF IInv, RingOK
  <1>5. Size # 0 => indexr \in Slots /\ indexw \in Slots
    BY InRing
  <1>6. ASSUME UNCHANGED <<storage, indexr, indexw, count, arg, op>>, NEW place \in Inside \cup {"idle"},
               pc' = [pc EXCEPT ![t] = place],
               pc[t] \notin {"rcount", "wcount"}, place \notin {"rcount", "wcount", "windex", "test"},
               place = "write" => count < Size /\ op[t] = "push",
               place = "read" => count > 0,
               place = "rindex" => count > 0 /\ elem'[t] = storage[indexr],
               op[t] = "push" => arg[t] \in Elements
        PROVE  RingOK' /\ Progress'
    <2>1. Lag("rcount")' = 0 /\ Lag("wcount")' = 0
      BY <1>1, <1>6, LagAfter DEF Inside
    <2>2. Live' = Live
      BY <2>1, <1>3, <1>6 DEF Live
    <2>3. RingOK'
      BY <2>1, <2>2, <1>3, <1>4, <1>6 DEF RingOK, At
    <2>4. \A u \in Threads \ {t} : pc'[u] = pc[u]
      BY <1>6 DEF IInv, TypeOK
    <2>5. pc'[t] = place
      BY <1>6 DEF IInv, TypeOK
    <2>6. Progress'
      BY <2>4, <2>5, <1>1, <1>6 DEF IInv, Progress, Inside
    <2> QED
      BY <2>3, <2>6
  <1>a. op[t] = "push" => arg[t] \in Elements
    BY <1>1 DEF IInv, Progress, Inside
  <1>7. CASE Test(t)
    BY <1>7, <1>6, <1>a DEF Test, Goto, Inside
  <1>8. CASE Look(t)
    <2>1. Full <=> count = Size
      <3>1. Live = count /\ Lag("wcount") = 0
        BY <1>2, <1>3, <1>8 DEF Live, Look
      <3> QED
        BY <3>1, <1>2, <1>4, <1>5 DEF Full, At, Slots
    <2>2. IsEmpty <=> count = 0
      <3>1. Live = count /\ Lag("wcount") = 0
        BY <1>2, <1>3, <1>8 DEF Live, Look
      <3> QED
        BY <3>1, <1>2, <1>4, <1>5 DEF IsEmpty, At, Slots
    <2>3. PICK place \in {"unlock", "write", "read", "idle"} :
             /\ pc' = [pc EXCEPT ![t] = place]
             /\ place = "write" => ~Full /\ op[t] = "push"
             /\ place = "read" => ~IsEmpty
      BY <1>8 DEF Look, Goto
    <2> QED
      <3>1. UNCHANGED <<storage, indexr, indexw, count, arg, op>> /\ pc[t] = "look"
        BY <1>8 DEF Look
      <3>2. place = "write" => count < Size /\ op[t] = "push"
        BY <1>2, <2>1, <2>3
      <3>3. place = "read" => count > 0
        BY <1>2, <2>2, <2>3
      <3>4. pc' = [pc EXCEPT ![t] = place] /\ place \in {"unlock", "write", "read", "idle"}
        BY <2>3
      <3> QED
        BY <1>6, <1>a, <3>1, <3>2, <3>3, <3>4 DEF Inside
  <1>9. CASE Write(t)
    <2>0. count < Size /\ op[t] = "push" /\ Size # 0
      BY <1>2, <1>9 DEF Write, IInv, Progress
    <2>1. Lag("rcount")' = 0 /\ Lag("wcount")' = 0
      BY <1>1, <1>9, LagAfter DEF Write, Goto, Inside
    <2>2. RingOK'
      BY <2>1, <1>3, <1>4, <1>9 DEF Write, RingOK, At, Live
    <2>3. /\ \A u \in Threads \ {t} : pc'[u] = pc[u]
          /\ pc'[t] = "windex" /\ storage'[indexw] = arg[t]
      BY <1>9, <1>5, <2>0 DEF Write, Goto, IInv, TypeOK
    <2>4. Progress'
      BY <2>0, <2>3, <1>1, <1>9, <1>a DEF Write, IInv, Progress, Inside
    <2> QED
      BY <2>2, <2>4
  <1>10. CASE AdvanceWrite(t)
    <2>0. count < Size /\ op[t] = "push" /\ Size # 0 /\ storage[indexw] = arg[t]
      BY <1>2, <1>10 DEF AdvanceWrite, IInv, Progress
    <2>1. Lag("rcount")' = 0 /\ Lag("wcount")' = 1
      BY <1>1, <1>10, LagAfter DEF AdvanceWrite, Goto, Inside
    <2>2. Live = count /\ Live' = count /\ indexw = At(count + 1)
      BY <2>1, <1>2, <1>3, <1>4, <1>10 DEF AdvanceWrite, Live
    <2>3. indexw' = At(count + 2)
      BY <2>0, <2>2, <1>2, <1>5, <1>10 DEF AdvanceWrite, Wrap, At, Slots
    <2>4. RingOK'
      BY <2>0, <2>1, <2>2, <2>3, <1>2, <1>4, <1>10 DEF AdvanceWrite, RingOK, At
    <2>5. pc'[t] = "wcount" /\ \A u \in Threads \ {t} : pc'[u] = pc[u]
      BY <1>10 DEF AdvanceWrite, Goto, IInv, TypeOK
    <2>6. storage'[At(Live + 1)'] = arg'[t]
      BY <2>0, <2>2, <1>2, <1>10 DEF AdvanceWrite, At
    <2>7. Progress'
      BY <2>0, <2>5, <2>6, <1>1, <1>10, <1>a DEF AdvanceWrite, IInv, Progress, Inside
    <2> QED
      BY <2>4, <2>7
  <1>11. CASE CountUp(t)
    <2>0. count < Size
      BY <1>11 DEF CountUp, IInv, Progress
    <2>1. Lag("rcount")' = 0 /\ Lag("wcount")' = 0
      BY <1>1, <1>11, LagAfter DEF CountUp, Goto, Inside
    <2>2. Live = count /\ Live' = count + 1 /\ indexw = At(count + 2)
      BY <2>1, <1>2, <1>3, <1>4, <1>11 DEF CountUp, Live
    <2>3. RingOK'
      BY <2>0, <2>1, <2>2, <1>2, <1>4, <1>11 DEF CountUp, RingOK, At
    <2>4. pc'[t] = "unlock" /\ \A u \in Threads \ {t} : pc'[u] = pc[u]
      BY <1>11 DEF CountUp, Goto, IInv, TypeOK
    <2>5. Progress'
      BY <2>4, <1>1, <1>11, <1>a DEF CountUp, IInv, Progress, Inside
    <2> QED
      BY <2>3, <2>5
  <1>12. CASE Read(t)
    <2>1. count > 0 /\ Size # 0 /\ elem'[t] = storage[indexr]
      BY <1>2, <1>12 DEF Read, IInv, Progress, TypeOK
    <2> QED
      BY <2>1, <1>6, <1>12, <1>a DEF Read, Goto, Inside
  <1>13. CASE AdvanceRead(t)
    <2>0. count > 0 /\ Size # 0
      BY <1>2, <1>13 DEF AdvanceRead, IInv, Progress
    <2>1. Lag("rcount")' = 1 /\ Lag("wcount")' = 0
      BY <1>1, <1>13, LagAfter DEF AdvanceRead, Goto, Inside
    <2>2. Live = count /\ Live' = count - 1 /\ indexw = At(count + 1)
      BY <2>1, <1>2, <1>3, <1>4, <1>13 DEF AdvanceRead, Live
    <2>3. indexr' \in Slots
      BY <2>0, <1>2, <1>5, <1>13 DEF AdvanceRead, Wrap, Slots
    <2>4. indexw' = At(Live + Lag("wcount") + 1)'
      BY <2>0, <2>1, <2>2, <1>2, <1>5, <1>13 DEF AdvanceRead, Wrap, At, Slots
    <2>5. RingOK'
      BY <2>0, <2>2, <2>3, <2>4, <1>2, <1>13 DEF AdvanceRead, RingOK, Slots
    <2>6. pc'[t] = "rcount" /\ \A u \in Threads \ {t} : pc'[u] = pc[u]
      BY <1>13 DEF AdvanceRead, Goto, IInv, TypeOK
    <2>7. Progress'
      BY <2>0, <2>6, <1>1, <1>13, <1>a DEF AdvanceRead, IInv, Progress, Inside
    <2> QED
      BY <2>5, <2>7
  <1>14. CASE CountDown(t)
    <2>0. count > 0
      BY <1>14 DEF CountDown, IInv, Progress
    <2>1. Lag("rcount")' = 0 /\ Lag("wcount")' = 0
      BY <1>1, <1>14, LagAfter DEF CountDown, Goto, Inside
    <2>2. Live = count - 1 /\ Live' = Live /\ Lag("wcount") = 0
      BY <2>1, <1>2, <1>3, <1>14 DEF CountDown, Live
    <2>3. RingOK'
      BY <2>1, <2>2, <1>4, <1>14 DEF CountDown, RingOK, At
    <2>4. pc'[t] = "unlock" /\ \A u \in Threads \ {t} : pc'[u] = pc[u]
      BY <1>14 DEF CountDown, Goto, IInv, TypeOK
    <2>5. Progress'
      BY <2>4, <1>1, <1>14, <1>a DEF CountDown, IInv, Progress, Inside
    <2> QED
      BY <2>3, <2>5
  <1>15. CASE Unlock(t)
    <2>1. Lag("rcount")' = 0 /\ Lag("wcount")' = 0
      <3>1. pc' = [pc EXCEPT ![t] = "idle"]
        BY <1>15 DEF Unlock, Goto
      <3>2. \A p \in Inside : Lag(p)' = IF "idle" = p THEN 1 ELSE 0
        BY <3>1, <1>1, LagAfter
      <3> QED
        BY <3>2 DEF Inside
    <2>2. RingOK'
      BY <2>1, <1>3, <1>4, <1>15 DEF Unlock, RingOK, At, Live
    <2>3. /\ pc'[t] = "idle" /\ op'[t] = "getCount"
          /\ \A u \in Threads \ {t} : pc'[u] = pc[u] /\ op'[u] = op[u] /\ arg'[u] = arg[u]
      BY <1>15 DEF Unlock, Goto, IInv, TypeOK
    <2>4. Progress'
      BY <2>3, <1>1, <1>15 DEF Unlock, IInv, Progress, Inside
    <2> QED
      BY <2>2, <2>4
  <1> QED
    BY <1>7, <1>8, <1>9, <1>10, <1>11, <1>12, <1>13, <1>14, <1>15 DEF Body

(* IInv is inductive.                                                      *)
LEMMA Inductive == IInv /\ [Next]_vars => IInv'
  <1> SUFFICES ASSUME IInv, [Next]_vars PROVE IInv'
    OBVIOUS
  <1> USE DEF ring, lock, thread
  <1>1. CASE UNCHANGED vars
    BY <1>1 DEF vars, IInv, TypeOK, LockedOnce, Nested, RingOK, Progress, Alive, Unused, Live, Lag, At
  <1>2. ASSUME Next PROVE RingOK' /\ Progress'
    <2>1. ASSUME UNCHANGED <<ring, pc, op, arg, elem>> PROVE RingOK' /\ Progress'
      BY <2>1 DEF IInv, RingOK, Progress, Live, Lag, At
    <2>2. CASE AllocStorage \/ AllocInstance \/ InitBuffer
      BY <2>1, <2>2 DEF AllocStorage, AllocInstance, InitBuffer
    <2>3. CASE Delete
      <3>1. Lag("rcount")' = 0 /\ Lag("wcount")' = 0 /\ UNCHANGED pc
        BY <2>3 DEF Delete, Lag
      <3>2. RingOK'
        BY <2>3, <3>1, SizeAssumption DEF Delete, RingOK, Live, At, Slots
      <3>3. Progress'
        BY <2>3 DEF Delete, Progress
      <3> QED
        BY <3>2, <3>3
    <2>4. ASSUME NEW t \in Threads, Step(t) PROVE RingOK' /\ Progress'
      <3>1. CASE Body(t)
        BY <3>1, RingKept
      <3>2. ASSUME UNCHANGED ring, NEW place \in {"lock", "test", "look"}, pc[t] \in {"idle", "lock"},
                   pc' = [pc EXCEPT ![t] = place],
                   \A u \in Threads \ {t} : op'[u] = op[u] /\ arg'[u] = arg[u],
                   op'[t] = "push" => arg'[t] \in Elements,
                   place = "test" => op'[t] \in {"push", "pop"}, UNCHANGED elem
            PROVE  RingOK' /\ Progress'
        <4>1. pc'[t] = place /\ \A u \in Threads \ {t} : pc'[u] = pc[u]
          BY <3>2 DEF IInv, TypeOK
        <4>2. Lag("rcount")' = Lag("rcount") /\ Lag("wcount")' = Lag("wcount")
          BY <3>2, <4>1 DEF Lag
        <4>3. RingOK'
          BY <3>2, <4>2 DEF IInv, RingOK, Live, At
        <4>4. Progress'
          BY <3>2, <4>1, <4>2 DEF IInv, Progress, Live, At
        <4> QED
          BY <4>3, <4>4
      <3>3. CASE Lock(t)
        <4>1. PICK place \in {"test", "look"} : pc' = [pc EXCEPT ![t] = place]
                 /\ (place = "test" => op[t] \in {"push", "pop"})
          BY <3>3 DEF Lock, Goto
        <4>2. UNCHANGED <<ring, op, arg, elem>> /\ pc[t] = "lock"
          BY <3>3 DEF Lock
        <4>3. op[t] = "push" => arg[t] \in Elements
          BY <4>2 DEF IInv, Progress
        <4> QED
          BY <3>2, <4>1, <4>2, <4>3
      <3>4. CASE (\E e \in Elements : Call(t, "push", e)) \/ (\E c \in Calls \ {"push"} : Call(t, c, NoElement))
        <4>1. PICK c \in Calls, e \in Elements \cup {NoElement} :
                 Call(t, c, e) /\ (c = "push" => e \in Elements)
          BY <3>4 DEF Calls
        <4>2. UNCHANGED <<ring, elem>> /\ pc[t] = "idle" /\ pc' = [pc EXCEPT ![t] = "lock"]
              /\ op' = [op EXCEPT ![t] = c] /\ arg' = [arg EXCEPT ![t] = e]
          BY <4>1 DEF Call, Goto
        <4>3. /\ op'[t] = c /\ arg'[t] = e
              /\ \A u \in Threads \ {t} : op'[u] = op[u] /\ arg'[u] = arg[u]
          BY <4>2 DEF IInv, TypeOK
        <4> QED
          BY <3>2, <4>1, <4>2, <4>3
      <3> QED
        BY <2>4, <3>1, <3>3, <3>4 DEF Step
    <2> QED
      BY <1>2, <2>2, <2>3, <2>4 DEF Next, Lifecycle
  <1> QED
    BY <1>1, <1>2, LockKept DEF IInv

(* The strengthened invariant holds for every capacity.                    *)
THEOREM StrengthenedInvariant == Spec => []IInv
  <1>1. Init => IInv
    <2> SUFFICES ASSUME Init PROVE IInv
      OBVIOUS
    <2>1. TypeOK /\ LockedOnce /\ Alive /\ Unused /\ Progress
      BY SizeAssumption, NobodyAssumption
         DEF Init, TypeOK, LockedOnce, Alive, Unused, Progress, Calls, Inside, Slots
    <2>2. Lag("rcount") = 0 /\ Lag("wcount") = 0
      BY DEF Init, Lag
    <2>3. RingOK
      <3>1. indexr = 0 /\ indexw = 0 /\ count = 0
        BY DEF Init
      <3> QED
        BY <2>2, <3>1, SizeAssumption DEF RingOK, Live, At, Slots
    <2> QED
      BY <2>1, <2>3 DEF IInv
  <1> QED
    BY <1>1, Inductive, PTL DEF Spec

(* Between the lock and the unlock of a call no other thread is, and the   *)
(* recursive lock is held as often as the calls under way have taken it.   *)
THEOREM MutualExclusion == Spec => []LockedOnce
  <1>1. IInv => LockedOnce
    BY DEF IInv
  <1> QED
    BY <1>1, StrengthenedInvariant, PTL

-----------------------------------------------------------------------------
(* CircularBuffer: the lock is given back.                                 *)

\* The statements a call still has before its last unlock, at the most.
StepsInside(t) ==
  CASE pc[t] = "test" -> 6
    [] pc[t] = "look" -> 5
    [] pc[t] \in {"read", "write"} -> 4
    [] pc[t] \in {"rindex", "windex"} -> 3
    [] pc[t] \in {"rcount", "wcount"} -> 2
    [] pc[t] = "unlock" -> 1
    [] OTHER -> 0

(* The lock belongs to the one call that still has statements to run       *)
(* inside it, which may take it again.                                     *)
OwnerGoesOn ==
  /\ \A t \in Threads : owner = t <=> StepsInside(t) > 0
  /\ owner # Nobody => owner \in Threads

(* Each of them uses up one, no other thread gives the call any or gets    *)
(* the lock in between.                                                    *)
LockRunsOut ==
  [][/\ \A t \in Threads : Body(t) => StepsInside(t)' < StepsInside(t)
     /\ \A t \in Threads : owner = t => StepsInside(t)' <= StepsInside(t)
     /\ owner # Nobody => owner' \in {owner, Nobody}]_vars

(* The statements come in one order only.                                  *)
LEMMA BodyUses ==
  ASSUME TypeOK, NEW t \in Threads, Body(t)
  PROVE  StepsInside(t)' < StepsInside(t)
  <1> USE DEF TypeOK, Goto, StepsInside
  <1>1. CASE Test(t) \/ Look(t)
    BY <1>1 DEF Test, Look
  <1>2. CASE Write(t) \/ AdvanceWrite(t) \/ CountUp(t)
    BY <1>2 DEF Write, AdvanceWrite, CountUp
  <1>3. CASE Read(t) \/ AdvanceRead(t) \/ CountDown(t) \/ Unlock(t)
    BY <1>3 DEF Read, AdvanceRead, CountDown, Unlock
  <1> QED
    BY <1>1, <1>2, <1>3 DEF Body

(* Another thread does not get in, and whoever is inside moves only by     *)
(* statements of its own.                                                  *)
LEMMA InsideKept ==
  ASSUME IInv, [Next]_vars, NEW t \in Threads, owner = t
  PROVE  Body(t) \/ (pc'[t] = pc[t] /\ owner' = t)
  <1> USE NobodyAssumption DEF lock, thread
  <1>1. pc[t] \in Inside
    BY DEF IInv, LockedOnce
  <1>2. CASE UNCHANGED <<lock, pc>>
    BY <1>2
  <1>3. CASE Lifecycle \/ UNCHANGED vars
    <2>1. ~Delete
      BY <1>1 DEF Delete, Inside
    <2> QED
      BY <1>2, <1>3, <2>1 DEF Lifecycle, AllocStorage, AllocInstance, InitBuffer, vars
  <1>4. CASE Step(t)
    BY <1>1, <1>4 DEF Step, Call, Lock, Inside
  <1>5. ASSUME NEW u \in Threads \ {t}, Step(u) PROVE pc'[t] = pc[t] /\ owner' = t
    <2>1. ~Body(u)
      <3>1. pc[u] \in {"idle", "lock"}
        BY <1>1, Alone
      <3> QED
        BY <3>1 DEF Body, Test, Look, Write, AdvanceWrite, CountUp, Read, AdvanceRead,
                    CountDown, Unlock
    <2>2. ~Lock(u)
      BY DEF Lock, Acquire
    <2> QED
      BY <1>5, <2>1, <2>2 DEF Step, Call, Goto, IInv, TypeOK
  <1> QED
    BY <1>3, <1>4, <1>5 DEF Next

(* Why LockFreed holds as soon as the thread that has the lock goes on     *)
(* with its call: at most six statements lead to the unlock, no other      *)
(* thread adds any, and the lock is never passed on unreleased.            *)
THEOREM LockIsFreed == Spec => []OwnerGoesOn /\ LockRunsOut
  <1>1. IInv => OwnerGoesOn
    <2> SUFFICES ASSUME IInv PROVE OwnerGoesOn
      OBVIOUS
    <2>1. \A t \in Threads : StepsInside(t) > 0 <=> pc[t] \in Inside
      BY DEF StepsInside, Inside
    <2> QED
      BY <2>1 DEF OwnerGoesOn, IInv, TypeOK, LockedOnce
  <1>2. IInv /\ [Next]_vars =>
          [/\ \A t \in Threads : Body(t) => StepsInside(t)' < StepsInside(t)
           /\ \A t \in Threads : owner = t => StepsInside(t)' <= StepsInside(t)
           /\ owner # Nobody => owner' \in {owner, Nobody}]_vars
    <2> SUFFICES ASSUME IInv, [Next]_vars
                 PROVE  /\ \A t \in Threads : Body(t) => StepsInside(t)' < StepsInside(t)
                        /\ \A t \in Threads : owner = t => StepsInside(t)' <= StepsInside(t)
                        /\ owner # Nobody => owner' \in {owner, Nobody}
      OBVIOUS
    <2>1. \A t \in Threads : Body(t) => StepsInside(t)' < StepsInside(t)
      BY BodyUses DEF IInv
    <2>2. \A t \in Threads : owner = t => StepsInside(t)' <= StepsInside(t)
      <3> SUFFICES ASSUME NEW t \in Threads, owner = t PROVE StepsInside(t)' <= StepsInside(t)
        OBVIOUS
      <3>1. StepsInside(t) \in Int /\ StepsInside(t)' \in Int
        BY DEF StepsInside
      <3>2. pc'[t] = pc[t] => StepsInside(t)' = StepsInside(t)
        BY DEF StepsInside
      <3>3. Body(t) \/ pc'[t] = pc[t]
        BY InsideKept
      <3> HIDE DEF StepsInside
      <3> QED
        BY <2>1, <3>1, <3>2, <3>3
    <2>3. owner # Nobody => owner' \in {owner, Nobody}
      <3> SUFFICES ASSUME owner # Nobody PROVE owner' \in {owner, Nobody}
        OBVIOUS
      <3>1. owner \in Threads
        BY DEF IInv, TypeOK
      <3>2. Body(owner) => owner' \in {owner, Nobody}
        BY DEF Body, Test, Look, Write, AdvanceWrite, CountUp, Read, AdvanceRead, CountDown,
               Unlock, Acquire, Release, lock
      <3> QED
        BY <3>1, <3>2, InsideKept
    <2> QED
      BY <2>1, <2>2, <2>3
  <1> QED
    BY <1>1, <1>2, StrengthenedInvariant, PTL DEF Spec, LockRunsOut

-----------------------------------------------------------------------------
(* What is allocated follows from how far the buffer's life has come.      *)
LEMMA AllocatedKept == ASSUME Allocated, [Next]_vars PROVE Allocated'
  <1> USE DEF Allocated
  <1>1. CASE Lifecycle
    BY <1>1 DEF Lifecycle, AllocStorage, AllocInstance, InitBuffer, Delete
  <1>2. ASSUME NEW t \in Threads, Step(t) PROVE UNCHANGED <<life, held>>
    BY <1>2 DEF Step, Call, Lock, Body, Test, Look, Write, AdvanceWrite, CountUp,
                Read, AdvanceRead, CountDown, Unlock
  <1>3. CASE UNCHANGED vars
    BY <1>3 DEF vars
  <1> QED
    BY <1>1, <1>2, <1>3 DEF Next

(* Whichever allocation fails, and after deletion, nothing is left behind. *)
THEOREM NothingLeaks == Spec => []NoLeak
  <1>1. Init => Allocated
    BY DEF Init, Allocated
  <1>2. Allocated => NoLeak
    BY DEF Allocated, NoLeak
  <1> QED
    BY <1>1, <1>2, AllocatedKept, PTL DEF Spec

-----------------------------------------------------------------------------
(* The refinement.                                                         *)

Stored == Elements \cup {NoElement}

(* The contents are a sequence as long as the buffer is full.              *)
LEMMA ContentsSequence ==
  ASSUME IInv
  PROVE  /\ Live \in 0 .. Size /\ Live \in Nat
         /\ \A k \in 1 .. Live : At(k) \in Slots
         /\ Contents \in Seq(Stored) /\ Len(Contents) = Live
         /\ \A k \in 1 .. Live : Contents[k] = storage[At(k)]
         /\ Contents = <<>> <=> Live = 0
  <1>1. Live \in 0 .. Size /\ Live \in Nat /\ Size \in Nat
    BY SizeAssumption DEF IInv, RingOK
  <1>2. \A k \in 1 .. Live : At(k) \in Slots
    BY <1>1, SizeAssumption DEF IInv, RingOK, At, Slots
  <1>3. \A k \in 1 .. Live : storage[At(k)] \in Stored
    BY <1>2 DEF IInv, TypeOK, Stored
  <1>4. Contents \in Seq(Stored) /\ Len(Contents) = Live
    BY <1>1, <1>3 DEF Contents
  <1>5. Contents = <<>> <=> Live = 0
    BY <1>1, <1>4, EmptySeq
  <1> QED
    BY <1>1, <1>2, <1>4, <1>5 DEF Contents

(* The contents stay when the elements between the indices do.             *)
LEMMA ContentsSame ==
  ASSUME IInv, IInv', Live' = Live, \A k \in 1 .. Live : storage'[At(k)'] = storage[At(k)]
  PROVE  Contents' = Contents
  BY DEF Contents

(* CountUp appends the argument of push.                                   *)
LEMMA ContentsPushed ==
  ASSUME IInv, IInv', NEW t \in Threads, CountUp(t)
  PROVE  /\ Contents' = Append(Contents, arg[t]) /\ arg[t] \in Elements
         /\ Len(Contents) < Size
  <1>1. pc[t] = "wcount" /\ UNCHANGED <<storage, indexr>> /\ count' = count + 1
        /\ pc' = [pc EXCEPT ![t] = "unlock"]
    BY DEF CountUp, Goto
  <1>2. Lag("rcount") = 0
    BY <1>1, Alone DEF Inside
  <1>3. Lag("rcount")' = 0
    <2>1. \A p \in Inside : Lag(p)' = IF "unlock" = p THEN 1 ELSE 0
      BY <1>1, LagAfter DEF Inside
    <2> QED
      BY <2>1 DEF Inside
  <1>4. count < Size /\ count \in Int /\ storage[At(Live + 1)] = arg[t] /\ arg[t] \in Elements
    BY <1>1, SizeAssumption DEF IInv, TypeOK, Progress
  <1>5. Live' = Live + 1 /\ Live < Size /\ Live \in Nat
    BY <1>1, <1>2, <1>3, <1>4, ContentsSequence DEF Live
  <1>6. /\ Contents \in Seq(Stored) /\ Len(Contents) = Live
        /\ \A k \in 1 .. Live : Contents[k] = storage[At(k)]
    BY ContentsSequence
  <1>7. /\ Contents' \in Seq(Stored) /\ Len(Contents') = Live + 1
        /\ \A k \in 1 .. Live + 1 : Contents'[k] = storage[At(k)]
    <2>1. Contents' = [k \in 1 .. Live + 1 |-> storage[At(k)]]
      BY <1>1, <1>5 DEF Contents, At
    <2>2. \A k \in 1 .. Live + 1 : storage[At(k)] \in Stored
      BY <1>4, <1>5, ContentsSequence DEF IInv, TypeOK, Stored
    <2> QED
      BY <2>1, <2>2, <1>5
  <1>8. arg[t] \in Stored
    BY <1>4 DEF Stored
  <1>9. /\ Append(Contents, arg[t]) \in Seq(Stored) /\ Len(Append(Contents, arg[t])) = Live + 1
        /\ \A k \in 1 .. Live : Append(Contents, arg[t])[k] = Contents[k]
        /\ Append(Contents, arg[t])[Live + 1] = arg[t]
    BY <1>6, <1>8, AppendProperties
  <1>10. \A k \in 1 .. Live + 1 : Contents'[k] = Append(Contents, arg[t])[k]
    BY <1>4, <1>5, <1>6, <1>7, <1>9
  <1> QED
    BY <1>4, <1>5, <1>6, <1>7, <1>9, <1>10, SeqEqual

(* AdvanceRead takes the first element away, the one that was read.        *)
LEMMA ContentsPopped ==
  ASSUME IInv, IInv', NEW t \in Threads, AdvanceRead(t)
  PROVE  Contents # <<>> /\ Contents' = Tail(Contents) /\ elem[t] = Head(Contents)
  <1>1. pc[t] = "rindex" /\ UNCHANGED <<storage, count>> /\ indexr' = Wrap(indexr + 1)
        /\ pc' = [pc EXCEPT ![t] = "rcount"]
    BY DEF AdvanceRead, Goto
  <1>2. Lag("rcount") = 0
    BY <1>1, Alone DEF Inside
  <1>3. Lag("rcount")' = 1
    <2>1. \A p \in Inside : Lag(p)' = IF "rcount" = p THEN 1 ELSE 0
      BY <1>1, LagAfter DEF Inside
    <2> QED
      BY <2>1 DEF Inside
  <1>4. count > 0 /\ count \in Int /\ elem[t] = storage[indexr] /\ Size \in Nat /\ Size # 0
    BY <1>1, SizeAssumption DEF IInv, TypeOK, Progress
  <1>5. indexr \in Slots /\ indexr \in Int
    BY <1>4, InRing DEF Slots
  <1>6. /\ Contents \in Seq(Stored) /\ Len(Contents) = Live /\ Live \in 0 .. Size
        /\ \A k \in 1 .. Live : Contents[k] = storage[At(k)]
        /\ Contents = <<>> <=> Live = 0
    BY ContentsSequence
  <1>7. Live' = Live - 1 /\ Live > 0
    BY <1>1, <1>2, <1>3, <1>4 DEF Live
  <1>8. /\ Contents' \in Seq(Stored) /\ Len(Contents') = Live - 1
        /\ \A k \in 1 .. Live - 1 : Contents'[k] = storage'[At(k)']
    <2>1. IInv' => /\ (Contents \in Seq(Stored))' /\ (Len(Contents) = Live)'
                   /\ (\A k \in 1 .. Live : Contents[k] = storage[At(k)])'
      BY ContentsSequence, PTL
    <2> QED
      BY <2>1, <1>7
  <1>9. ASSUME NEW k \in 1 .. Live - 1 PROVE At(k)' = At(k + 1)
    <2>1. /\ Size \in Nat /\ Size # 0 /\ indexr \in 0 .. Size - 1 /\ k \in 1 .. Size - 1
          /\ indexr' = IF indexr + 1 = Size THEN 0 ELSE indexr + 1
      BY <1>1, <1>4, <1>5, <1>6, <1>7 DEF Slots, Wrap
    <2>2. CASE indexr + 1 = Size
      BY <2>1, <2>2 DEF At
    <2>3. CASE indexr + 1 # Size
      BY <2>1, <2>3 DEF At
    <2> QED
      BY <2>2, <2>3
  <1>10. Contents # <<>> /\ At(1) = indexr
    BY <1>4, <1>5, <1>6, <1>7 DEF At, Slots
  <1>11. /\ Tail(Contents) \in Seq(Stored) /\ Len(Tail(Contents)) = Live - 1
         /\ \A k \in 1 .. Live - 1 : Tail(Contents)[k] = Contents[k + 1]
    BY <1>6, <1>10, HeadTailProperties
  <1>12. \A k \in 1 .. Live - 1 : Contents'[k] = Tail(Contents)[k]
    BY <1>1, <1>6, <1>7, <1>8, <1>9, <1>11
  <1>13. elem[t] = Head(Contents)
    <2>1. Head(Contents) = Contents[1]
      BY <1>6, <1>10
    <2> QED
      BY <2>1, <1>4, <1>6, <1>7, <1>10
  <1> QED
    BY <1>8, <1>10, <1>11, <1>12, <1>13, SeqEqual

(* A step of a call is a step of the queue, or leaves it alone.            *)
LEMMA StepRefines ==
  ASSUME IInv, IInv', NEW t \in Threads, Step(t)
  PROVE  Queue!Next \/ UNCHANGED <<Contents, ret>>
  <1> USE DEF ring, lock, thread
  <1>1. ASSUME UNCHANGED <<storage, indexr, count>>, NEW place,
               pc' = [pc EXCEPT ![t] = place], pc[t] # "rcount", place # "rcount"
        PROVE  Contents' = Contents
    <2>1. \A u \in Threads : pc'[u] = "rcount" <=> pc[u] = "rcount"
      BY <1>1 DEF IInv, TypeOK
    <2>2. Live' = Live
      BY <1>1, <2>1 DEF Live, Lag
    <2> QED
      BY <1>1, <2>2, ContentsSame DEF At
  <1>2. CASE \E e \in Elements : Call(t, "push", e)
    <2>1. Contents' = Contents /\ ret' = [ret EXCEPT ![t] = Nothing]
      BY <1>2, <1>1 DEF Call, Goto, Answer
    <2> QED
      BY <2>1 DEF Queue!Next, Queue!Begin, Queue!Answer, Queue!Nothing, Nothing
  <1>3. CASE \E c \in Calls \ {"push"} : Call(t, c, NoElement)
    <2>1. Contents' = Contents /\ ret' = [ret EXCEPT ![t] = Nothing]
      BY <1>3, <1>1 DEF Call, Goto, Answer
    <2> QED
      BY <2>1 DEF Queue!Next, Queue!Begin, Queue!Answer, Queue!Nothing, Nothing
  <1>4. CASE Lock(t)
    BY <1>4, <1>1 DEF Lock, Goto
  <1>5. CASE Test(t)
    BY <1>5, <1>1 DEF Test, Goto
  <1>6. CASE Look(t)
    <2>1. Contents' = Contents
      <3>1. PICK place \in {"unlock", "write", "read", "idle"} : pc' = [pc EXCEPT ![t] = place]
        BY <1>6 DEF Look, Goto
      <3>2. UNCHANGED <<storage, indexr, count>> /\ pc[t] = "look"
        BY <1>6 DEF Look
      <3> QED
        BY <3>1, <3>2, <1>1
    <2>2. Live = count
      <3>1. Lag("rcount") = 0
        BY <1>6, Alone DEF Look, Inside
      <3> QED
        BY <3>1 DEF Live, IInv, TypeOK
    <2>3. /\ Live \in 0 .. Size /\ Len(Contents) = Live /\ (Contents = <<>> <=> Live = 0)
          /\ Size \in Nat
      BY ContentsSequence, SizeAssumption
    <2>4. indexw = At(Live + 1) /\ (Size # 0 => indexr \in Slots) /\ indexr \in 0 .. Size
      <3>1. Lag("wcount") = 0
        BY <1>6, Alone DEF Look, Inside
      <3> QED
        BY <3>1, <2>3 DEF IInv, RingOK, TypeOK
    <2>5. Full <=> Len(Contents) = Size
      BY <2>2, <2>3, <2>4 DEF Full, At, Slots
    <2>6. IsEmpty <=> Contents = <<>>
      BY <2>2, <2>3, <2>4 DEF IsEmpty, At, Slots
    <2>7. Full = (Len(Contents) = Size) /\ IsEmpty = (Contents = <<>>) /\ count = Len(Contents)
      BY <2>2, <2>3, <2>5, <2>6 DEF Full, IsEmpty
    <2>8. \/ UNCHANGED ret
          \/ Full /\ ret' = [ret EXCEPT ![t] = [op |-> "push", ok |-> FALSE]]
             /\ op[t] = "push"
          \/ IsEmpty /\ ret' = [ret EXCEPT ![t] = [op |-> "pop", ok |-> FALSE]]
          \/ ret' = [ret EXCEPT ![t] = [op |-> "isEmpty", yes |-> IsEmpty]]
          \/ ret' = [ret EXCEPT ![t] = [op |-> "isFull", yes |-> Full]]
          \/ ret' = [ret EXCEPT ![t] = [op |-> "getCount", count |-> count]]
      BY <1>6 DEF Look, Answer
    <2>9. CASE UNCHANGED ret
      BY <2>1, <2>9
    <2>10. CASE Full /\ ret' = [ret EXCEPT ![t] = [op |-> "push", ok |-> FALSE]] /\ op[t] = "push"
      <3>1. arg[t] \in Elements
        BY <1>6, <2>10 DEF Look, IInv, Progress
      <3>2. Queue!Push(t, arg[t])
        BY <2>1, <2>5, <2>10 DEF Queue!Push, Queue!Answer
      <3> QED
        BY <3>1, <3>2 DEF Queue!Next
    <2>11. CASE IsEmpty /\ ret' = [ret EXCEPT ![t] = [op |-> "pop", ok |-> FALSE]]
      BY <2>1, <2>6, <2>11 DEF Queue!Next, Queue!Pop, Queue!Answer
    <2>12. CASE ret' = [ret EXCEPT ![t] = [op |-> "isEmpty", yes |-> IsEmpty]]
      <3>1. ret' = [ret EXCEPT ![t] = [op |-> "isEmpty", yes |-> Contents = <<>>]]
        BY <2>7, <2>12, Zenon
      <3> QED
        BY <2>1, <3>1 DEF Queue!Next, Queue!Ask, Queue!Answer
    <2>13. CASE ret' = [ret EXCEPT ![t] = [op |-> "isFull", yes |-> Full]]
      <3>1. ret' = [ret EXCEPT ![t] = [op |-> "isFull", yes |-> Len(Contents) = Size]]
        BY <2>7, <2>13, Zenon
      <3> QED
        BY <2>1, <3>1 DEF Queue!Next, Queue!Ask, Queue!Answer
    <2>14. CASE ret' = [ret EXCEPT ![t] = [op |-> "getCount", count |-> count]]
      <3>1. ret' = [ret EXCEPT ![t] = [op |-> "getCount", count |-> Len(Contents)]]
        BY <2>7, <2>14
      <3> QED
        BY <2>1, <3>1 DEF Queue!Next, Queue!Ask, Queue!Answer
    <2> QED
      BY <2>8, <2>9, <2>10, <2>11, <2>12, <2>13, <2>14
  <1>7. CASE Write(t)
    <2>1. pc[t] = "write" /\ UNCHANGED <<indexr, indexw, count, ret>> /\ pc' = [pc EXCEPT ![t] = "windex"]
          /\ storage' = [storage EXCEPT ![indexw] = arg[t]]
      BY <1>7 DEF Write, Goto
    <2>2. Live' = Live
      <3>1. \A u \in Threads : pc'[u] = "rcount" <=> pc[u] = "rcount"
        BY <2>1 DEF IInv, TypeOK
      <3> QED
        BY <2>1, <3>1 DEF Live, Lag
    <2>3. Lag("rcount") = 0 /\ Lag("wcount") = 0 /\ count < Size /\ count \in Int
      BY <2>1, Alone, SizeAssumption DEF Inside, IInv, Progress, TypeOK
    <2>4. Live = count /\ indexw = At(Live + 1) /\ Size \in Nat /\ Size # 0 /\ Live \in Nat
      BY <2>3, SizeAssumption, ContentsSequence DEF Live, IInv, RingOK
    <2>5. indexr \in Slots
      BY <2>4, InRing
    <2>6. \A k \in 1 .. Live : At(k) # indexw /\ At(k) \in Slots
      BY <2>3, <2>4, <2>5 DEF At, Slots
    <2>7. \A k \in 1 .. Live : storage'[At(k)'] = storage[At(k)]
      BY <2>1, <2>6 DEF At, IInv, TypeOK
    <2> QED
      BY <2>1, <2>2, <2>7, ContentsSame
  <1>8. CASE AdvanceWrite(t)
    BY <1>8, <1>1 DEF AdvanceWrite, Goto
  <1>9. CASE CountUp(t)
    <2>1. Queue!Push(t, arg[t]) /\ arg[t] \in Elements
      BY <1>9, ContentsPushed DEF CountUp, Answer, Queue!Push, Queue!Answer
    <2> QED
      BY <2>1 DEF Queue!Next
  <1>10. CASE Read(t)
    BY <1>10, <1>1 DEF Read, Goto
  <1>11. CASE AdvanceRead(t)
    <2>1. Queue!Pop(t)
      BY <1>11, ContentsPopped DEF AdvanceRead, Answer, Queue!Pop, Queue!Answer
    <2> QED
      BY <2>1 DEF Queue!Next
  <1>12. CASE CountDown(t)
    <2>1. pc[t] = "rcount" /\ UNCHANGED <<storage, indexr, ret>> /\ count' = count - 1
          /\ pc' = [pc EXCEPT ![t] = "unlock"]
      BY <1>12 DEF CountDown, Goto
    <2>2. Lag("rcount") = 1
      BY <2>1, Alone DEF Inside
    <2>3. \A p \in Inside : Lag(p)' = IF "unlock" = p THEN 1 ELSE 0
      BY <2>1, LagAfter DEF Inside
    <2>4. Lag("rcount")' = 0
      BY <2>3 DEF Inside
    <2>5. Live' = Live
      BY <2>1, <2>2, <2>4, SizeAssumption DEF Live, IInv, TypeOK
    <2> QED
      BY <2>1, <2>5, ContentsSame DEF At
  <1>13. CASE Unlock(t)
    BY <1>13, <1>1 DEF Unlock, Goto
  <1> QED
    BY <1>2, <1>3, <1>4, <1>5, <1>6, <1>7, <1>8, <1>9, <1>10, <1>11, <1>12, <1>13 DEF Step, Body

(* Every behaviour of the buffer is one of the queue of BoundedQueue.      *)
THEOREM ImplementsQueue == Spec => IsQueue
  <1>1. Init => Queue!Init
    <2> SUFFICES ASSUME Init PROVE Queue!Init
      OBVIOUS
    <2>1. Lag("rcount") = 0
      BY DEF Init, Lag
    <2>2. count = 0 /\ ret = [t \in Threads |-> Nothing]
      BY DEF Init
    <2>3. Live = 0
      BY <2>1, <2>2 DEF Live
    <2>4. Contents = <<>>
      BY <2>3 DEF Contents
    <2> QED
      BY <2>2, <2>4 DEF Queue!Init, Queue!Nothing, Nothing
  <1>2. IInv /\ IInv' /\ [Next]_vars => [Queue!Next]_(Queue!vars)
    <2> SUFFICES ASSUME IInv, IInv', [Next]_vars
                 PROVE  Queue!Next \/ UNCHANGED <<Contents, ret>>
      BY DEF Queue!vars
    <2> USE DEF ring, lock, thread
    <2>1. CASE UNCHANGED vars
      BY <2>1 DEF vars, Contents, Live, Lag, At
    <2>2. CASE AllocStorage \/ AllocInstance \/ InitBuffer
      BY <2>2 DEF AllocStorage, AllocInstance, InitBuffer, Contents, Live, Lag, At
    <2>3. CASE Delete
      <3>1. Lag("rcount")' = 0 /\ count' = 0 /\ ret' = [t \in Threads |-> Nothing]
        BY <2>3 DEF Delete, Lag
      <3>2. Live' = 0
        BY <3>1 DEF Live
      <3>3. Contents' = <<>>
        BY <3>2 DEF Contents
      <3> QED
        BY <3>1, <3>3 DEF Queue!Next, Queue!Renew, Queue!Nothing, Nothing
    <2> QED
      BY <2>1, <2>2, <2>3, StepRefines DEF Next, Lifecycle
  <1> QED
    BY <1>1, <1>2, StrengthenedInvariant, PTL DEF Spec, IsQueue, Queue!Spec

-----------------------------------------------------------------------------
(* EVector.                                                                *)

LEMMA ReserveShape ==
  ASSUME NEW num, NEW mul, NEW mem \in Vec!reserve(num, mul)
  PROVE  mem = [ptr |-> mem.ptr, rsvd |-> mem.rsvd, block |-> mem.block, live |-> mem.live]
  BY DEF Vec!reserve, Vec!Grown, Vec!Memory

(* What reserve may leave behind: room for num elements unless memory was  *)
(* refused, one block, and the elements that were there.                   *)
LEMMA ReserveGives ==
  ASSUME Vec!IInv, NEW num \in Nat \ {0}, NEW mul \in Factors, NEW mem \in Vec!reserve(num, mul)
  PROVE  /\ mem.ptr \in Blocks \cup {Null} /\ mem.rsvd \in Nat /\ mem.rsvd >= rsvd
         /\ mem.block \in Seq(Items \cup {Junk}) /\ Len(mem.block) = mem.rsvd
         /\ mem.rsvd = 0 <=> mem.ptr = Null
         /\ mem.live = {mem.ptr} \ {Null}
         /\ \A k \in 1 .. Len(block) : mem.block[k] = block[k]
         /\ mem.rsvd >= num \/ mem = Vec!Memory
  <1> USE DEF Vec!IInv, Vec!TypeOK, Vec!BlockSound, Vec!RoomIsReal, Vec!NoBlockLost
  <1>1. CASE mem = Vec!Memory
    BY <1>1 DEF Vec!Memory
  <1>2. CASE rsvd < num /\ mem \in Vec!Grown(mul * num)
    <2>1. mul * num \in Nat /\ mul * num >= num
      BY FactorsAssumption
    <2> DEFINE n == mul * num
               fresh == [k \in 1 .. n |-> IF k <= Len(block) THEN block[k] ELSE Junk]
    <2> HIDE DEF n
    <2>2. PICK b \in (Blocks \ live) \cup (live \cap {ptr}) :
             mem = [ptr |-> b, rsvd |-> n, live |-> (live \ {ptr}) \cup {b}, block |-> fresh]
      BY <1>2 DEF Vec!Grown, n
    <2>3. n \in Nat /\ n >= num /\ num > 0 /\ n > Len(block)
      BY <2>1, <1>2 DEF n
    <2>4. fresh \in Seq(Items \cup {Junk}) /\ Len(fresh) = n
      BY <2>3
    <2>5. b \in Blocks /\ b # Null /\ (live \ {ptr}) \cup {b} = {b} \ {Null}
      BY BlocksAssumption
    <2> QED
      BY <2>2, <2>3, <2>4, <2>5
  <1> QED
    BY <1>1, <1>2 DEF Vec!reserve

LEMMA VectorStep == ASSUME Vec!IInv, [Vec!Next]_(Vec!vars) PROVE Vec!IInv'
  <1> USE DEF Vec!IInv, Vec!TypeOK, Vec!BlockSound, Vec!RoomIsReal, Vec!NoBlockLost
  <1>1. ASSUME NEW num \in 1 .. MaxReserve, NEW mul \in Factors, Vec!Reserve(num, mul)
        PROVE  Vec!IInv'
    <2>1. PICK mem \in Vec!reserve(num, mul) : Vec!Use(mem) /\ cnt' = cnt
      BY <1>1 DEF Vec!Reserve
    <2>2. num \in Nat \ {0}
      BY FactorsAssumption
    <2> QED
      BY <2>1, <2>2, ReserveGives DEF Vec!Use
  <1>2. ASSUME NEW e \in Items, NEW mul \in Factors, Vec!PushBack(e, mul) PROVE Vec!IInv'
    <2>1. PICK mem \in Vec!reserve(cnt + 1, mul) :
             IF mem.rsvd > cnt
               THEN Vec!Use([mem EXCEPT !.block[cnt + 1] = e]) /\ cnt' = cnt + 1
               ELSE Vec!Use(mem) /\ cnt' = cnt
      BY <1>2 DEF Vec!PushBack
    <2>2. /\ mem.ptr \in Blocks \cup {Null} /\ mem.rsvd \in Nat /\ mem.rsvd >= rsvd
          /\ mem.block \in Seq(Items \cup {Junk}) /\ Len(mem.block) = mem.rsvd
          /\ mem.rsvd = 0 <=> mem.ptr = Null
          /\ mem.live = {mem.ptr} \ {Null}
          /\ \A k \in 1 .. Len(block) : mem.block[k] = block[k]
      BY ReserveGives
    <2>3. CASE mem.rsvd > cnt
      <3>1. /\ ptr' = mem.ptr /\ rsvd' = mem.rsvd /\ live' = mem.live /\ cnt' = cnt + 1
            /\ block' = [mem.block EXCEPT ![cnt + 1] = e]
        BY <2>1, <2>3, ReserveShape DEF Vec!Use
      <3>2. cnt + 1 \in 1 .. Len(mem.block)
        BY <2>2, <2>3
      <3>3. /\ block' \in Seq(Items \cup {Junk}) /\ Len(block') = mem.rsvd
            /\ \A k \in 1 .. mem.rsvd : block'[k] = IF k = cnt + 1 THEN e ELSE mem.block[k]
        BY <3>1, <3>2, <2>2, ExceptSeq
      <3> QED
        BY <2>2, <2>3, <3>1, <3>3
    <2>4. CASE ~(mem.rsvd > cnt)
      BY <2>1, <2>2, <2>4 DEF Vec!Use
    <2> QED
      BY <2>3, <2>4
  <1>3. ASSUME NEW k \in DOMAIN block, NEW free \in BOOLEAN, Vec!Erase(k, free) PROVE Vec!IInv'
    <2>1. k \in 1 .. cnt /\ cnt <= Len(block) /\ cnt' = cnt - 1
      BY <1>3 DEF Vec!Erase
    <2>2. CASE free /\ cnt = 1
      BY <1>3, <2>1, <2>2, BlocksAssumption DEF Vec!Erase, Vec!Free
    <2>3. CASE ~(free /\ cnt = 1)
      <3>1. /\ UNCHANGED <<ptr, rsvd, live>>
            /\ block' = [i \in DOMAIN block |-> IF i \in k .. cnt - 1 THEN block[i + 1] ELSE block[i]]
        BY <1>3, <2>3 DEF Vec!Erase
      <3>2. \A i \in 1 .. Len(block) :
               (IF i \in k .. cnt - 1 THEN block[i + 1] ELSE block[i]) \in Items \cup {Junk}
        BY <2>1
      <3>3. block' \in Seq(Items \cup {Junk}) /\ Len(block') = Len(block)
        BY <3>1, <3>2
      <3> QED
        BY <2>1, <3>1, <3>3
    <2> QED
      BY <2>2, <2>3
  <1>4. CASE Vec!Deinit
    BY <1>4, BlocksAssumption DEF Vec!Deinit, Vec!Free
  <1>5. CASE UNCHANGED Vec!vars
    BY <1>5 DEF Vec!vars
  <1> QED
    BY <1>1, <1>2, <1>3, <1>4, <1>5 DEF Vec!Next

(* No way a reserve, a push, an erase or deinit ends loses a block or lets *)
(* cnt or rsvd disagree with the memory there is.                          *)
THEOREM BlockStaysSound == Vec!Spec => []BlockSound
  <1>1. Vec!Init => Vec!IInv
    BY DEF Vec!Init, Vec!IInv, Vec!TypeOK, Vec!BlockSound, Vec!RoomIsReal, Vec!NoBlockLost
  <1>2. Vec!IInv => BlockSound
    BY DEF Vec!IInv, BlockSound
  <1> QED
    BY <1>1, <1>2, VectorStep, PTL DEF Vec!Spec

LEMMA Prefix ==
  ASSUME NEW b, NEW n \in Nat, \A k \in 1 .. n : b[k] \in Items
  PROVE  /\ SubSeq(b, 1, n) \in Seq(Items) /\ Len(SubSeq(b, 1, n)) = n
         /\ \A k \in 1 .. n : SubSeq(b, 1, n)[k] = b[k]
  BY SubSeqProperties

(* The elements in use are a sequence.                                     *)
LEMMA VectorContents ==
  ASSUME Vec!IInv
  PROVE  /\ Vec!Contents \in Seq(Items) /\ Len(Vec!Contents) = cnt
         /\ \A k \in 1 .. cnt : Vec!Contents[k] = block[k]
  <1>1. cnt \in Nat /\ \A k \in 1 .. cnt : block[k] \in Items
    BY DEF Vec!IInv, Vec!TypeOK, Vec!BlockSound, Vec!RoomIsReal
  <1> QED
    BY <1>1, Prefix DEF Vec!Contents

LEMMA VectorContentsAfter ==
  ASSUME Vec!IInv'
  PROVE  /\ Vec!Contents' \in Seq(Items) /\ Len(Vec!Contents') = cnt'
         /\ \A k \in 1 .. cnt' : Vec!Contents'[k] = block'[k]
  <1>1. cnt' \in Nat /\ \A k \in 1 .. cnt' : block'[k] \in Items
    BY DEF Vec!IInv, Vec!TypeOK, Vec!BlockSound, Vec!RoomIsReal
  <1>2. Vec!Contents' = SubSeq(block', 1, cnt')
    BY DEF Vec!Contents
  <1> QED
    BY <1>1, <1>2, Prefix

(* The list stays while the elements and their number do.                  *)
LEMMA VectorSame ==
  ASSUME Vec!IInv, Vec!IInv', cnt' = cnt, \A k \in 1 .. cnt : block'[k] = block[k]
  PROVE  Vec!Contents' = Vec!Contents
  BY VectorContents, VectorContentsAfter, SeqEqual

LEMMA VectorPushed ==
  ASSUME Vec!IInv, Vec!IInv', NEW e \in Items, cnt' = cnt + 1, block'[cnt + 1] = e,
         \A k \in 1 .. cnt : block'[k] = block[k]
  PROVE  Vec!Contents' = Append(Vec!Contents, e)
  <1>1. cnt \in Nat
    BY DEF Vec!IInv, Vec!TypeOK
  <1>2. /\ Append(Vec!Contents, e) \in Seq(Items) /\ Len(Append(Vec!Contents, e)) = cnt + 1
        /\ \A k \in 1 .. cnt : Append(Vec!Contents, e)[k] = block[k]
        /\ Append(Vec!Contents, e)[cnt + 1] = e
    BY VectorContents, AppendProperties
  <1>3. \A k \in 1 .. cnt + 1 : Vec!Contents'[k] = Append(Vec!Contents, e)[k]
    BY <1>1, <1>2, VectorContentsAfter
  <1> QED
    BY <1>2, <1>3, VectorContentsAfter, SeqEqual

(* Moving the elements behind the one erased is RemoveAt.                  *)
LEMMA VectorErased ==
  ASSUME Vec!IInv, Vec!IInv', NEW k \in 1 .. cnt, cnt' = cnt - 1,
         \A i \in 1 .. cnt - 1 : block'[i] = IF i >= k THEN block[i + 1] ELSE block[i]
  PROVE  Vec!Contents' = Vec!List!RemoveAt(Vec!Contents, k)
  <1> DEFINE s == Vec!Contents
             front == SubSeq(s, 1, k - 1)
             back == SubSeq(s, k + 1, Len(s))
  <1>1. cnt \in Nat /\ k \in Nat /\ k >= 1 /\ k <= cnt
    BY DEF Vec!IInv, Vec!TypeOK
  <1>2. s \in Seq(Items) /\ Len(s) = cnt /\ \A i \in 1 .. cnt : s[i] = block[i] /\ s[i] \in Items
    BY VectorContents, ElementOfSeq
  <1>3. /\ front \in Seq(Items) /\ Len(front) = k - 1
        /\ \A i \in 1 .. k - 1 : front[i] = s[i]
    BY <1>1, <1>2, SubSeqProperties
  <1>4. /\ back \in Seq(Items) /\ Len(back) = cnt - k
        /\ \A i \in 1 .. cnt - k : back[i] = s[k + i]
    BY <1>1, <1>2, SubSeqProperties
  <1> HIDE DEF s, front, back
  <1>5. /\ front \o back \in Seq(Items) /\ Len(front \o back) = cnt - 1
        /\ \A i \in 1 .. cnt - 1 :
             (front \o back)[i] = IF i <= k - 1 THEN front[i] ELSE back[i - (k - 1)]
    <2>1. /\ front \o back \in Seq(Items) /\ Len(front \o back) = Len(front) + Len(back)
          /\ \A i \in 1 .. Len(front) + Len(back) :
               (front \o back)[i] = IF i <= Len(front) THEN front[i] ELSE back[i - Len(front)]
      BY <1>3, <1>4, ConcatProperties
    <2>2. Len(front) + Len(back) = cnt - 1
      BY <1>1, <1>3, <1>4
    <2> QED
      BY <1>3, <2>1, <2>2
  <1>6. ASSUME NEW i \in 1 .. cnt - 1 PROVE (front \o back)[i] = block'[i]
    <2>1. CASE i <= k - 1
      <3>1. i \in 1 .. k - 1 /\ i \in 1 .. cnt /\ ~(i >= k)
        BY <1>1, <2>1
      <3>2. (front \o back)[i] = block[i]
        BY <1>2, <1>3, <1>5, <2>1, <3>1
      <3> QED
        BY <3>1, <3>2
    <2>2. CASE ~(i <= k - 1)
      <3>1. i - (k - 1) \in 1 .. cnt - k /\ k + (i - (k - 1)) = i + 1 /\ i + 1 \in 1 .. cnt /\ i >= k
        BY <1>1, <2>2
      <3>2. (front \o back)[i] = back[i - (k - 1)]
        BY <1>5, <2>2
      <3>3. back[i - (k - 1)] = s[i + 1]
        BY <1>4, <3>1
      <3>4. s[i + 1] = block[i + 1]
        BY <1>2, <3>1
      <3> QED
        BY <3>1, <3>2, <3>3, <3>4
    <2> QED
      BY <2>1, <2>2
  <1>7. Vec!Contents' = front \o back
    BY <1>5, <1>6, VectorContentsAfter, SeqEqual
  <1> QED
    BY <1>7 DEF Vec!List!RemoveAt, s, front, back

(* A call is a step of the list that owns its elements, or none.           *)
LEMMA VectorRefines ==
  ASSUME Vec!IInv, Vec!IInv', [Vec!Next]_(Vec!vars)
  PROVE  Vec!List!Next \/ UNCHANGED <<Vec!Contents, deleted>>
  <1>0. /\ cnt \in Nat /\ cnt <= Len(block) /\ block \in Seq(Items \cup {Junk})
        /\ \A k \in 1 .. cnt : block[k] \in Items
    BY DEF Vec!IInv, Vec!TypeOK, Vec!BlockSound, Vec!RoomIsReal
  <1>1. ASSUME NEW num \in 1 .. MaxReserve, NEW mul \in Factors, Vec!Reserve(num, mul)
        PROVE  UNCHANGED <<Vec!Contents, deleted>>
    <2>1. PICK mem \in Vec!reserve(num, mul) : Vec!Use(mem) /\ UNCHANGED <<cnt, deleted>>
      BY <1>1 DEF Vec!Reserve
    <2>2. num \in Nat \ {0}
      BY FactorsAssumption
    <2>3. \A k \in 1 .. Len(block) : block'[k] = block[k]
      BY <2>1, <2>2, ReserveGives DEF Vec!Use
    <2> QED
      BY <1>0, <2>1, <2>3, VectorSame
  <1>2. ASSUME NEW e \in Items, NEW mul \in Factors, Vec!PushBack(e, mul)
        PROVE  Vec!List!Push(e) \/ UNCHANGED <<Vec!Contents, deleted>>
    <2>1. PICK mem \in Vec!reserve(cnt + 1, mul) :
             IF mem.rsvd > cnt
               THEN /\ Vec!Use([mem EXCEPT !.block[cnt + 1] = e]) /\ cnt' = cnt + 1
                    /\ deleted' = [deleted EXCEPT ![e] = 0]
               ELSE Vec!Use(mem) /\ UNCHANGED <<cnt, deleted>>
      BY <1>2 DEF Vec!PushBack
    <2>2. /\ mem.rsvd \in Nat /\ mem.block \in Seq(Items \cup {Junk}) /\ Len(mem.block) = mem.rsvd
          /\ \A k \in 1 .. Len(block) : mem.block[k] = block[k]
      <3>1. cnt + 1 \in Nat \ {0}
        BY <1>0
      <3> QED
        BY <3>1, ReserveGives
    <2>3. CASE mem.rsvd > cnt
      <3>1. /\ cnt' = cnt + 1 /\ deleted' = [deleted EXCEPT ![e] = 0]
            /\ block' = [mem.block EXCEPT ![cnt + 1] = e]
        BY <2>1, <2>3, ReserveShape DEF Vec!Use
      <3>2. cnt + 1 \in 1 .. Len(mem.block)
        BY <1>0, <2>2, <2>3
      <3>3. block'[cnt + 1] = e /\ \A k \in 1 .. cnt : block'[k] = block[k]
        BY <1>0, <2>2, <3>1, <3>2, ExceptSeq
      <3>4. Vec!Contents' = Append(Vec!Contents, e)
        BY <3>1, <3>3, VectorPushed
      <3>5. \A k \in DOMAIN Vec!Contents : Vec!Contents[k] # e
        BY <1>2 DEF Vec!PushBack, Vec!ToSet
      <3> QED
        BY <3>1, <3>4, <3>5 DEF Vec!List!Push
    <2>4. CASE ~(mem.rsvd > cnt)
      \* no memory: the element stays the caller's
      <3>1. UNCHANGED <<cnt, deleted>> /\ \A k \in 1 .. cnt : block'[k] = block[k]
        BY <1>0, <2>1, <2>2, <2>4 DEF Vec!Use
      <3> QED
        BY <3>1, VectorSame
    <2> QED
      BY <2>3, <2>4
  <1>3. ASSUME NEW k \in DOMAIN block, NEW free \in BOOLEAN, Vec!Erase(k, free)
        PROVE  k \in DOMAIN Vec!Contents /\ Vec!List!Erase(k)
    <2>1. k \in 1 .. cnt /\ cnt' = cnt - 1 /\ Vec!Delete({block[k]})
      BY <1>0, <1>3 DEF Vec!Erase
    <2>2. DOMAIN Vec!Contents = 1 .. cnt /\ Vec!Contents[k] = block[k]
      BY <2>1, VectorContents, LenProperties
    <2>3. \A i \in 1 .. cnt - 1 : block'[i] = IF i >= k THEN block[i + 1] ELSE block[i]
      <3>1. CASE free /\ cnt = 1
        BY <3>1
      <3>2. CASE ~(free /\ cnt = 1)
        BY <1>0, <1>3, <2>1, <3>2 DEF Vec!Erase
      <3> QED
        BY <3>1, <3>2
    <2>4. Vec!Contents' = Vec!List!RemoveAt(Vec!Contents, k)
      BY <2>1, <2>3, VectorErased
    <2> QED
      BY <2>1, <2>2, <2>4 DEF Vec!List!Erase, Vec!List!Delete, Vec!Delete
  <1>4. CASE Vec!Deinit
    <2>1. cnt' = 0 /\ Vec!Delete(Vec!ToSet(Vec!Contents))
      BY <1>4 DEF Vec!Deinit
    <2>2. Vec!Contents' = <<>>
      BY <2>1, VectorContentsAfter, EmptySeq
    <2> QED
      BY <2>1, <2>2
      DEF Vec!List!Next, Vec!List!Clear, Vec!List!Delete, Vec!Delete, Vec!List!ToSet, Vec!ToSet
  <1>5. CASE UNCHANGED Vec!vars
    BY <1>5 DEF Vec!vars, Vec!Contents
  <1> QED
    BY <1>1, <1>2, <1>3, <1>4, <1>5 DEF Vec!Next, Vec!List!Next

(* evector is such a list, whatever kern_os_realloc does and wherever its  *)
(* block moves.                                                            *)
THEOREM ImplementsList == Vec!Spec => IsList
  <1>1. Vec!Init => Vec!IInv /\ Vec!List!Init
    BY SubSeqEmpty DEF Vec!Init, Vec!IInv, Vec!TypeOK, Vec!BlockSound, Vec!RoomIsReal,
       Vec!NoBlockLost, Vec!List!Init, Vec!Contents
  <1>2. Vec!IInv /\ Vec!IInv' /\ [Vec!Next]_(Vec!vars) => [Vec!List!Next]_(Vec!List!vars)
    BY VectorRefines DEF Vec!List!vars
  <1> QED
    BY <1>1, <1>2, VectorStep, PTL DEF Vec!Spec, IsList, Vec!IsList, Vec!List!Spec

-----------------------------------------------------------------------------
(* Induction over the naturals.                                            *)

(* Every set of naturals that is not empty has a least member.             *)
LEMMA Least ==
  ASSUME NEW S \in SUBSET Nat, S # {}
  PROVE  \E m \in S : \A n \in S : m <= n
<1>1. PICK m \in S : \A n \in S : <<n, m>> \notin OpToRel(<, Nat)
  BY WFMin, NatLessThanWellFounded, Zenon
<1>2. \A n \in S : ~(n < m)
  BY <1>1, Zenon DEF OpToRel
<1> QED
  BY <1>2

(* Induction over the naturals, for the members of a set.                  *)
LEMMA NatSetInduction ==
  ASSUME NEW S, 0 \in S, \A n \in Nat : n \in S => n + 1 \in S
  PROVE  Nat \subseteq S
<1> SUFFICES ASSUME Nat \ S # {} PROVE FALSE
  OBVIOUS
<1>1. Nat \ S \in SUBSET Nat
  OBVIOUS
<1>2. PICK m \in Nat \ S : \A n \in Nat \ S : m <= n
  BY <1>1, Least
<1>3. m \in Nat /\ m # 0 /\ m - 1 \in Nat /\ m - 1 < m
  BY <1>2
<1>4. m - 1 \in S
  BY <1>2, <1>3
<1>5. (m - 1) + 1 \in S
  BY <1>3, <1>4
<1> QED
  BY <1>2, <1>3, <1>5

-----------------------------------------------------------------------------
(* Functions defined by recursion exist.                                   *)

(* A function of the naturals may be defined by what it is at zero and how *)
(* it goes on: step gives its value at n from n and its value at n - 1.    *)
Goes(g, base, step, m) ==
  \A n \in 0 .. m : g[n] = IF n = 0 THEN base ELSE step[<<n, g[n - 1]>>]

(* There is such a function up to any number.                              *)
LEMMA GoesFar ==
  ASSUME NEW base, NEW step
  PROVE  \A m \in Nat : \E g : Goes(g, base, step, m)
<1> DEFINE S == {m \in Nat : \E g : Goes(g, base, step, m)}
<1>1. 0 \in S
  <2>1. Goes([n \in 0 .. 0 |-> base], base, step, 0)
    BY DEF Goes
  <2> QED
    BY <2>1
<1>2. ASSUME NEW m \in Nat, m \in S PROVE m + 1 \in S
  <2>1. PICK g : Goes(g, base, step, m)
    BY <1>2
  <2> DEFINE h == [n \in 0 .. m + 1 |-> IF n = m + 1 THEN step[<<m + 1, g[m]>>] ELSE g[n]]
  <2>2. ASSUME NEW n \in 0 .. m + 1
        PROVE  h[n] = IF n = 0 THEN base ELSE step[<<n, h[n - 1]>>]
    <3>1. CASE n = m + 1
      BY <3>1
    <3>2. CASE n # m + 1
      <4>1. n \in 0 .. m /\ h[n] = g[n]
        BY <3>2
      <4>2. n # 0 => h[n - 1] = g[n - 1]
        BY <4>1
      <4>3. g[n] = IF n = 0 THEN base ELSE step[<<n, g[n - 1]>>]
        BY <2>1, <4>1 DEF Goes
      <4> QED
        BY <4>1, <4>2, <4>3
    <3> QED
      BY <3>1, <3>2
  <2>3. Goes(h, base, step, m + 1)
    BY <2>2 DEF Goes
  <2> HIDE DEF h
  <2> QED
    BY <2>3
<1>3. Nat \subseteq S
  <2> HIDE DEF S
  <2> QED
    BY <1>1, <1>2, NatSetInduction
<1> QED
  BY <1>3

(* Two of them agree as far as both go.                                    *)
LEMMA GoesOneWay ==
  ASSUME NEW base, NEW step, NEW m \in Nat, NEW n \in Nat, m <= n, NEW g, NEW h,
         Goes(g, base, step, m), Goes(h, base, step, n)
  PROVE  \A k \in 0 .. m : g[k] = h[k]
<1> DEFINE T == {k \in Nat : k <= m => g[k] = h[k]}
<1>1. 0 \in T
  <2>1. 0 \in 0 .. m /\ 0 \in 0 .. n
    OBVIOUS
  <2>2. g[0] = base /\ h[0] = base
    BY <2>1 DEF Goes
  <2> QED
    BY <2>2
<1>2. ASSUME NEW k \in Nat, k \in T PROVE k + 1 \in T
  <2> SUFFICES ASSUME k + 1 <= m PROVE g[k + 1] = h[k + 1]
    OBVIOUS
  <2>1. /\ k + 1 \in 0 .. m /\ k + 1 \in 0 .. n /\ k + 1 # 0 /\ (k + 1) - 1 = k
        /\ g[k] = h[k]
    BY <1>2
  <2>2. g[k + 1] = step[<<k + 1, g[k]>>] /\ h[k + 1] = step[<<k + 1, h[k]>>]
    BY <2>1 DEF Goes
  <2> QED
    BY <2>1, <2>2
<1>3. Nat \subseteq T
  <2> HIDE DEF T
  <2> QED
    BY <1>1, <1>2, NatSetInduction
<1> QED
  BY <1>3

Iterated(base, step) == [n \in Nat |-> (CHOOSE g : Goes(g, base, step, n))[n]]

(* It exists for all naturals at once.                                     *)
LEMMA IteratedIs ==
  ASSUME NEW base, NEW step, NEW n \in Nat
  PROVE  Iterated(base, step)[n]
           = IF n = 0 THEN base ELSE step[<<n, Iterated(base, step)[n - 1]>>]
<1> DEFINE G(m) == CHOOSE g : Goes(g, base, step, m)
<1>1. \A m \in Nat : Goes(G(m), base, step, m)
  BY GoesFar
<1>2. \A m \in Nat : Iterated(base, step)[m] = G(m)[m]
  BY DEF Iterated
<1> HIDE DEF G
<1>3. G(n)[n] = IF n = 0 THEN base ELSE step[<<n, G(n)[n - 1]>>]
  BY <1>1 DEF Goes
<1>4. ASSUME n # 0 PROVE n - 1 \in Nat /\ G(n)[n - 1] = G(n - 1)[n - 1]
  <2>1. n - 1 \in Nat /\ n - 1 <= n /\ n - 1 \in 0 .. n - 1
    BY <1>4
  <2>2. Goes(G(n - 1), base, step, n - 1) /\ Goes(G(n), base, step, n)
    BY <1>1, <2>1
  <2> QED
    BY <2>1, <2>2, GoesOneWay
<1> QED
  BY <1>2, <1>3, <1>4

(* Pow2 is the function its definition asks for, of naturals.              *)
LEMMA Pow2Is == /\ Arith!Pow2[0] = 1
                /\ \A n \in Nat : Arith!Pow2[n] \in Nat /\ Arith!Pow2[n + 1] = 2 * Arith!Pow2[n]
<1> DEFINE step == [p \in Nat \X Nat |-> 2 * p[2]]
           one == 1
           f == Iterated(one, step)
<1>1. \A n \in Nat : f[n] = IF n = 0 THEN one ELSE step[<<n, f[n - 1]>>]
  <2> HIDE DEF one, step
  <2> QED
    BY IteratedIs
<1>d. f = [n \in Nat |-> f[n]]
  BY DEF Iterated
<1> HIDE DEF f
<1>2. f[0] = 1 /\ \A n \in Nat : f[n] \in Nat => f[n + 1] \in Nat /\ f[n + 1] = 2 * f[n]
  <2>1. f[0] = 1
    BY <1>1
  <2>2. ASSUME NEW n \in Nat, f[n] \in Nat PROVE f[n + 1] \in Nat /\ f[n + 1] = 2 * f[n]
    <3> HIDE DEF step
    <3>1. f[n + 1] = step[<<n + 1, f[(n + 1) - 1]>>]
      BY <1>1
    <3>2. step[<<n + 1, f[n]>>] = 2 * f[n]
      BY <2>2 DEF step
    <3> QED
      BY <2>2, <3>1, <3>2
  <2> QED
    BY <2>1, <2>2
<1>3. \A n \in Nat : f[n] \in Nat
  <2> DEFINE S == {n \in Nat : f[n] \in Nat}
  <2>1. 0 \in S /\ \A n \in Nat : n \in S => n + 1 \in S
    BY <1>2
  <2> HIDE DEF S
  <2>2. Nat \subseteq S
    BY <2>1, NatSetInduction
  <2> QED
    BY <2>2 DEF S
<1>4. f = [n \in Nat |-> IF n = 0 THEN 1 ELSE 2 * f[n - 1]]
  <2>1. ASSUME NEW n \in Nat PROVE f[n] = IF n = 0 THEN 1 ELSE 2 * f[n - 1]
    <3>1. CASE n = 0
      BY <1>2, <3>1
    <3>2. CASE n # 0
      <4>1. n - 1 \in Nat /\ (n - 1) + 1 = n
        BY <3>2
      <4> QED
        BY <1>2, <1>3, <4>1, <3>2
    <3> QED
      BY <3>1, <3>2
  <2> QED
    BY <2>1, <1>d
<1>5. Arith!Pow2 = [n \in Nat |-> IF n = 0 THEN 1 ELSE 2 * Arith!Pow2[n - 1]]
  BY <1>4 DEF Arith!Pow2
<1> HIDE DEF Arith!Pow2
<1> DEFINE T == {n \in Nat : Arith!Pow2[n] \in Nat}
<1>6. Arith!Pow2[0] = 1 /\ \A n \in Nat : Arith!Pow2[n + 1] = 2 * Arith!Pow2[n]
  BY <1>5
<1>7. 0 \in T /\ \A n \in Nat : n \in T => n + 1 \in T
  BY <1>6
<1>8. Nat \subseteq T
  <2> HIDE DEF T
  <2> QED
    BY <1>7, NatSetInduction
<1> QED
  BY <1>6, <1>8

-----------------------------------------------------------------------------
(* Division, and the powers of two.                                        *)

(* Quotient and rest are the only ones there are.                          *)
LEMMA DivIs ==
  ASSUME NEW a \in Int, NEW d \in Nat \ {0}, NEW q \in Int, NEW r \in 0 .. d - 1, a = q * d + r
  PROVE  a \div d = q /\ a % d = r
<1> DEFINE p == a \div d
           s == a % d
<1>1. p \in Int /\ s \in 0 .. d - 1 /\ a = d * p + s
  OBVIOUS
<1> HIDE DEF p, s
<1>2. p = q
  <2>1. CASE p < q
    <3>1. d * (q - p) >= d
      BY <1>1, <2>1
    <3> QED
      BY <1>1, <3>1
  <2>2. CASE p > q
    <3>1. d * (p - q) >= d
      BY <1>1, <2>2
    <3> QED
      BY <1>1, <3>1
  <2> QED
    BY <1>1, <2>1, <2>2
<1>3. s = r
  BY <1>1, <1>2
<1> QED
  BY <1>2, <1>3 DEF p, s

(* Every integer has a quotient and a rest.                                *)
LEMMA DivHas ==
  ASSUME NEW a \in Int, NEW d \in Nat \ {0}
  PROVE  a \div d \in Int /\ a % d \in 0 .. d - 1 /\ a = (a \div d) * d + (a % d)
<1> DEFINE q == a \div d
           r == a % d
<1>1. q \in Int /\ r \in 0 .. d - 1 /\ a = d * q + r
  OBVIOUS
<1> HIDE DEF q, r
<1>2. a = q * d + r
  BY <1>1
<1> QED
  BY <1>1, <1>2, Zenon DEF q, r

(* The quotient of a natural is one.                                       *)
LEMMA DivNat ==
  ASSUME NEW a \in Nat, NEW d \in Nat \ {0}
  PROVE  a \div d \in Nat
<1> DEFINE p == a \div d
<1>1. p \in Int /\ a % d \in 0 .. d - 1 /\ a = p * d + (a % d)
  BY DivHas
<1> HIDE DEF p
<1>2. CASE p < 0
  <2>1. (-p) * d >= d
    BY <1>1, <1>2
  <2> QED
    BY <2>1, <1>1
<1> QED
  BY <1>1, <1>2 DEF p

(* To divide twice is to divide by the product.                            *)
LEMMA DivDiv ==
  ASSUME NEW a \in Int, NEW c \in Nat \ {0}, NEW d \in Nat \ {0}
  PROVE  (a \div c) \div d = a \div (c * d)
<1> DEFINE q == a \div c
           p == q \div d
           r == a % c
           s == q % d
<1>1. /\ q \in Int /\ r \in 0 .. c - 1 /\ a = q * c + r
      /\ p \in Int /\ s \in 0 .. d - 1 /\ q = p * d + s
  BY DivHas
<1> HIDE DEF q, p, r, s
<1>2. c * d \in Nat \ {0}
  OBVIOUS
<1>3. a = p * (c * d) + (s * c + r)
  <2>1. q * c = p * (c * d) + s * c
    BY <1>1
  <2> QED
    BY <1>1, <2>1
<1>4. s * c + r \in 0 .. c * d - 1
  <2>1. s * c <= (d - 1) * c
    BY <1>1
  <2>2. (d - 1) * c = c * d - c /\ s * c \in Nat
    BY <1>1
  <2> QED
    BY <1>1, <2>1, <2>2
<1>5. a \div (c * d) = p
  <2> DEFINE D == c * d
             R == s * c + r
  <2>1. D \in Nat \ {0} /\ R \in 0 .. D - 1 /\ a = p * D + R
    BY <1>2, <1>3, <1>4
  <2> HIDE DEF D, R
  <2>2. a \div D = p
    BY <1>1, <2>1, DivIs
  <2> QED
    BY <2>2 DEF D
<1> QED
  BY <1>5 DEF p, q

(* No power of two is zero.                                                *)
LEMMA PowPositive == \A n \in Nat : Arith!Pow2[n] \in Nat \ {0}
<1> DEFINE S == {n \in Nat : Arith!Pow2[n] \in Nat \ {0}}
<1>1. 0 \in S /\ \A n \in Nat : n \in S => n + 1 \in S
  BY Pow2Is
<1>2. Nat \subseteq S
  <2> HIDE DEF S
  <2> QED
    BY <1>1, NatSetInduction
<1> QED
  BY <1>2

(* The powers of two turn sums into products.                              *)
LEMMA PowSum ==
  ASSUME NEW m \in Nat
  PROVE  \A n \in Nat : Arith!Pow2[m + n] = Arith!Pow2[m] * Arith!Pow2[n]
<1> DEFINE S == {n \in Nat : Arith!Pow2[m + n] = Arith!Pow2[m] * Arith!Pow2[n]}
<1>1. 0 \in S
  BY Pow2Is
<1>2. ASSUME NEW n \in Nat, n \in S PROVE n + 1 \in S
  <2>1. m + n \in Nat /\ m + (n + 1) = (m + n) + 1
    OBVIOUS
  <2>2. Arith!Pow2[(m + n) + 1] = 2 * Arith!Pow2[m + n] /\ Arith!Pow2[n + 1] = 2 * Arith!Pow2[n]
    BY <2>1, Pow2Is
  <2>3. Arith!Pow2[m] \in Nat /\ Arith!Pow2[n] \in Nat
    BY Pow2Is
  <2>4. \A b, c \in Nat : 2 * (b * c) = b * (2 * c)
    OBVIOUS
  <2> QED
    BY <1>2, <2>1, <2>2, <2>3, <2>4
<1>3. Nat \subseteq S
  <2> HIDE DEF S
  <2> QED
    BY <1>1, <1>2, NatSetInduction
<1> QED
  BY <1>3

-----------------------------------------------------------------------------
(* Bits: what shifts, rests and the operators of C++ do to each of them.   *)

(* The bits of a natural are the lowest one and those of its half.         *)
LEMMA BitIs ==
  ASSUME NEW a \in Nat, NEW i \in Nat
  PROVE  /\ Arith!bit(a, i) \in {0, 1}
         /\ Arith!bit(a, 0) = a % 2
         /\ a \div 2 \in Nat
         /\ Arith!bit(a, i + 1) = Arith!bit(a \div 2, i)
<1>1. Arith!Pow2[0] = 1 /\ Arith!Pow2[i + 1] = 2 * Arith!Pow2[i] /\ Arith!Pow2[i] \in Nat \ {0}
  BY Pow2Is, PowPositive
<1>2. Arith!bit(a, i) \in {0, 1}
  <2>1. a \div Arith!Pow2[i] \in Nat
    BY <1>1, DivNat
  <2>2. \A q \in Nat : q % 2 \in {0, 1}
    OBVIOUS
  <2> QED
    BY <2>1, <2>2 DEF Arith!bit
<1>3. Arith!bit(a, 0) = a % 2
  <2>1. a \div 1 = a
    OBVIOUS
  <2> QED
    BY <1>1, <2>1 DEF Arith!bit
<1>4. (a \div 2) \div Arith!Pow2[i] = a \div (2 * Arith!Pow2[i])
  BY <1>1, DivDiv
<1> QED
  BY <1>1, <1>2, <1>3, <1>4 DEF Arith!bit

(* A shift to the right moves the bits down.                               *)
LEMMA BitShiftRight ==
  ASSUME NEW a \in Nat, NEW k \in Nat, NEW i \in Nat
  PROVE  Arith!bit(a \div Arith!Pow2[k], i) = Arith!bit(a, k + i)
<1>1. Arith!Pow2[k] \in Nat \ {0} /\ Arith!Pow2[i] \in Nat \ {0}
  BY PowPositive
<1>2. (a \div Arith!Pow2[k]) \div Arith!Pow2[i] = a \div (Arith!Pow2[k] * Arith!Pow2[i])
  BY <1>1, DivDiv
<1>3. Arith!Pow2[k + i] = Arith!Pow2[k] * Arith!Pow2[i]
  BY PowSum
<1> QED
  BY <1>2, <1>3 DEF Arith!bit

(* A power of two is an even multiple of every smaller one.                *)
LEMMA PowBetween ==
  ASSUME NEW k \in Nat, NEW i \in Nat, i < k
  PROVE  \E c \in Nat : Arith!Pow2[k] = (2 * c) * Arith!Pow2[i]
<1> DEFINE m == k - i - 1
<1>1. m \in Nat /\ k = (i + m) + 1 /\ i + m \in Nat
  OBVIOUS
<1> HIDE DEF m
<1>2. Arith!Pow2[(i + m) + 1] = 2 * Arith!Pow2[i + m] /\ Arith!Pow2[i + m] = Arith!Pow2[i] * Arith!Pow2[m]
  BY <1>1, Pow2Is, PowSum
<1>3. Arith!Pow2[i] \in Nat /\ Arith!Pow2[m] \in Nat
  BY <1>1, Pow2Is
<1>4. \A b, c \in Nat : 2 * (b * c) = (2 * c) * b
  OBVIOUS
<1>5. Arith!Pow2[k] = (2 * Arith!Pow2[m]) * Arith!Pow2[i]
  BY <1>1, <1>2, <1>3, <1>4
<1> QED
  BY <1>3, <1>5

(* A number below a power of two has no bit from there on.                 *)
LEMMA BelowPow ==
  ASSUME NEW i \in Nat, NEW k \in 0 .. i, NEW a \in 0 .. Arith!Pow2[k] - 1
  PROVE  Arith!bit(a, i) = 0
<1>1. Arith!Pow2[k] \in Nat \ {0} /\ Arith!Pow2[i] \in Nat \ {0}
  BY PowPositive
<1>2. Arith!Pow2[k] <= Arith!Pow2[i]
  <2>1. CASE k = i
    BY <1>1, <2>1
  <2>2. CASE k # i
    <3>0. k \in Nat /\ k < i
      BY <2>2
    <3>1. PICK c \in Nat : Arith!Pow2[i] = (2 * c) * Arith!Pow2[k]
      BY <3>0, PowBetween
    <3>2. c # 0
      BY <1>1, <3>1
    <3>3. \A p \in Nat \ {0}, e \in Nat \ {0} : p <= (2 * e) * p
      <4> TAKE p \in Nat \ {0}, e \in Nat \ {0}
      <4>1. (2 * e - 1) * p \in Nat /\ (2 * e) * p = (2 * e - 1) * p + p
        OBVIOUS
      <4> QED
        BY <4>1
    <3> QED
      BY <1>1, <3>1, <3>2, <3>3
  <2> QED
    BY <2>1, <2>2
<1>3. a \div Arith!Pow2[i] = 0
  <2> DEFINE d == Arith!Pow2[i]
  <2>1. d \in Nat \ {0} /\ a \in Int /\ 0 \in Int /\ a \in 0 .. d - 1 /\ a = 0 * d + a
    BY <1>1, <1>2
  <2> HIDE DEF d
  <2>2. a \div d = 0
    BY <2>1, DivIs
  <2> QED
    BY <2>2 DEF d
<1> QED
  BY <1>3 DEF Arith!bit

(* The rest by a power of two keeps the bits below it.                     *)
LEMMA BitMod ==
  ASSUME NEW a \in Nat, NEW k \in Nat, NEW i \in Nat
  PROVE  Arith!bit(a % Arith!Pow2[k], i) = IF i < k THEN Arith!bit(a, i) ELSE 0
<1> DEFINE P == Arith!Pow2[k]
           p == Arith!Pow2[i]
           r == a % P
<1>1. P \in Nat \ {0} /\ p \in Nat \ {0}
  BY PowPositive
<1>2. a \div P \in Nat /\ r \in 0 .. P - 1 /\ a = (a \div P) * P + r
  <2> HIDE DEF P
  <2>1. a \div P \in Nat
    BY <1>1, DivNat
  <2>2. r \in 0 .. P - 1 /\ a = (a \div P) * P + r
    BY <1>1, DivHas
  <2> QED
    BY <2>1, <2>2
<1>3. CASE i >= k
  <2>1. k \in 0 .. i
    BY <1>3
  <2>2. Arith!bit(r, i) = 0
    BY <1>2, <2>1, BelowPow
  <2> QED
    BY <1>3, <2>2
<1>4. CASE i < k
  <2>1. PICK c \in Nat : P = (2 * c) * p
    BY <1>4, PowBetween
  <2> DEFINE Q == a \div P
             q == r \div p
             s == r % p
             n == 2 * (Q * c) + q
  <2>2. q \in Nat /\ s \in 0 .. p - 1 /\ r = q * p + s /\ Q \in Nat
    <3>1. r \in Nat
      BY <1>1, <1>2
    <3> HIDE DEF P, p, r
    <3>2. q \in Nat
      BY <1>1, <3>1, DivNat
    <3>3. s \in 0 .. p - 1 /\ r = q * p + s
      BY <1>1, <3>1, DivHas
    <3> QED
      BY <1>2, <3>2, <3>3
  <2>3. a = Q * P + r
    BY <1>2
  <2>4. a \div p = n /\ n \in Int
    <3> HIDE DEF P, p, r, Q, q, s
    <3>1. Q * P = (2 * (Q * c)) * p
      <4>1. \A b, e, f \in Nat : b * ((2 * e) * f) = (2 * (b * e)) * f
        OBVIOUS
      <4> QED
        BY <1>1, <2>1, <2>2, <4>1
    <3>2. Q * c \in Nat
      BY <2>2
    <3> DEFINE e == 2 * (Q * c)
    <3>3. e \in Nat
      BY <3>2
    <3>4. a = e * p + (q * p + s)
      BY <2>2, <2>3, <3>1
    <3> HIDE DEF e
    <3>5. e * p + (q * p + s) = (e + q) * p + s
      <4>1. \A k1, k2, k3 \in Nat : k1 * k3 + k2 * k3 = (k1 + k2) * k3
        OBVIOUS
      <4>2. e * p + q * p = (e + q) * p /\ e * p \in Nat /\ q * p \in Nat /\ s \in Nat
        BY <1>1, <2>2, <3>3, <4>1
      <4> QED
        BY <4>2
    <3>6. a = (e + q) * p + s /\ e + q \in Int
      BY <3>3, <3>4, <3>5, <2>2
    <3>7. a \div p = e + q
      <4> DEFINE total == e + q
      <4>1. a \in Int /\ total \in Int /\ a = total * p + s /\ p \in Nat \ {0} /\ s \in 0 .. p - 1
        BY <1>1, <2>2, <3>6
      <4> HIDE DEF total
      <4>2. a \div p = total
        BY <4>1, DivIs
      <4> QED
        BY <4>2 DEF total
    <3> QED
      BY <3>6, <3>7 DEF e
  <2>5. n % 2 = q % 2
    <3>1. Q * c \in Nat
      BY <2>2
    <3> HIDE DEF P, p, r, Q, q
    <3>2. \A f, g \in Nat : (2 * f + g) % 2 = g % 2
      OBVIOUS
    <3> QED
      BY <2>2, <3>1, <3>2
  <2>6. Arith!bit(a, i) = (a \div p) % 2 /\ Arith!bit(r, i) = (r \div p) % 2
    BY DEF Arith!bit
  <2> HIDE DEF p, r, n
  <2> QED
    BY <1>4, <2>4, <2>5, <2>6 DEF r
<1> QED
  BY <1>3, <1>4

(* A shift to the left moves the bits up.                                  *)
LEMMA BitShiftLeft ==
  ASSUME NEW a \in Nat, NEW k \in Nat, NEW i \in Nat
  PROVE  Arith!bit(a * Arith!Pow2[k], i) = IF i < k THEN 0 ELSE Arith!bit(a, i - k)
<1> DEFINE P == Arith!Pow2[k]
           p == Arith!Pow2[i]
           b == a * P
<1>1. P \in Nat \ {0} /\ p \in Nat \ {0} /\ b \in Nat
  BY PowPositive
<1>2. CASE i >= k
  <2>1. i - k \in Nat /\ k + (i - k) = i
    BY <1>2
  <2>2. Arith!bit(b \div P, i - k) = Arith!bit(b, i)
    <3> HIDE DEF b
    <3> QED
      BY <1>1, <2>1, BitShiftRight
  <2>3. b \div P = a
    <3>1. 0 \in 0 .. P - 1 /\ b = a * P + 0 /\ b \in Int
      BY <1>1
    <3> HIDE DEF P, b
    <3> QED
      BY <1>1, <3>1, DivIs
  <2> HIDE DEF b
  <2>4. Arith!bit(b, i) = Arith!bit(a, i - k)
    BY <2>2, <2>3
  <2> QED
    BY <1>2, <2>4 DEF b
<1>3. CASE i < k
  <2>1. PICK c \in Nat : P = (2 * c) * p
    BY <1>3, PowBetween
  <2>2. b \div p = 2 * (a * c) /\ a * c \in Nat
    <3>0. b = a * P
      OBVIOUS
    <3> HIDE DEF P, p, b
    <3>1. \A e, f, g \in Nat : e * ((2 * f) * g) = (2 * (e * f)) * g
      OBVIOUS
    <3>2. b = (2 * (a * c)) * p
      BY <1>1, <2>1, <3>0, <3>1
    <3>3. a * c \in Nat
      OBVIOUS
    <3> DEFINE n == 2 * (a * c)
    <3>4. n \in Int /\ b = n * p + 0 /\ 0 \in 0 .. p - 1 /\ b \in Int
      BY <1>1, <3>2, <3>3
    <3> HIDE DEF n
    <3>5. b \div p = n
      BY <1>1, <3>4, DivIs
    <3> QED
      BY <3>3, <3>5 DEF n
  <2>3. (b \div p) % 2 = 0
    <3> HIDE DEF b, p
    <3>1. \A f \in Nat : (2 * f) % 2 = 0
      OBVIOUS
    <3> QED
      BY <2>2, <3>1
  <2> QED
    BY <1>3, <2>3 DEF Arith!bit
<1> QED
  BY <1>2, <1>3

(* Numbers of n bits with the same bits are the same.                      *)
LEMMA BitsDiffer ==
  \A n \in Nat : \A a, b \in 0 .. Arith!Pow2[n] - 1 :
    (\A i \in 0 .. n - 1 : Arith!bit(a, i) = Arith!bit(b, i)) => a = b
<1> DEFINE Same(n, a, b) == \A i \in 0 .. n - 1 : Arith!bit(a, i) = Arith!bit(b, i)
           S == {n \in Nat : \A a, b \in 0 .. Arith!Pow2[n] - 1 : Same(n, a, b) => a = b}
<1>1. 0 \in S
  <2>1. \A a \in 0 .. Arith!Pow2[0] - 1 : a = 0
    BY Pow2Is
  <2> QED
    BY <2>1
<1>2. ASSUME NEW n \in Nat, n \in S PROVE n + 1 \in S
  <2> SUFFICES ASSUME NEW a \in 0 .. Arith!Pow2[n + 1] - 1, NEW b \in 0 .. Arith!Pow2[n + 1] - 1,
                      Same(n + 1, a, b)
               PROVE  a = b
    OBVIOUS
  <2>1. Arith!Pow2[n + 1] = 2 * Arith!Pow2[n] /\ Arith!Pow2[n] \in Nat
    BY Pow2Is
  <2>2. a \in Nat /\ b \in Nat /\ a \div 2 \in 0 .. Arith!Pow2[n] - 1 /\ b \div 2 \in 0 .. Arith!Pow2[n] - 1
    BY <2>1
  <2>3. a % 2 = b % 2
    <3>1. 0 \in 0 .. (n + 1) - 1
      OBVIOUS
    <3> QED
      BY <2>2, <3>1, BitIs
  <2>4. Same(n, a \div 2, b \div 2)
    <3> TAKE i \in 0 .. n - 1
    <3>1. i \in Nat /\ i + 1 \in 0 .. (n + 1) - 1
      OBVIOUS
    <3>2. Arith!bit(a, i + 1) = Arith!bit(b, i + 1)
      BY <3>1
    <3> QED
      BY <2>2, <3>1, <3>2, BitIs
  <2>5. a \div 2 = b \div 2
    <3> HIDE DEF Same
    <3> QED
      BY <1>2, <2>2, <2>4
  <2> QED
    BY <2>2, <2>3, <2>5
<1>3. Nat \subseteq S
  <2> HIDE DEF S
  <2> QED
    BY <1>1, <1>2, NatSetInduction
<1> QED
  BY <1>3

(* Whatever n bits are asked for, some number of n bits has them.          *)
LEMMA BitsGiven ==
  \A n \in Nat : \A bits \in [Nat -> {0, 1}] :
    \E r \in 0 .. Arith!Pow2[n] - 1 : \A i \in 0 .. n - 1 : Arith!bit(r, i) = bits[i]
<1> DEFINE Given(n, r, bits) == \A i \in 0 .. n - 1 : Arith!bit(r, i) = bits[i]
           S == {n \in Nat : \A bits \in [Nat -> {0, 1}] : \E r \in 0 .. Arith!Pow2[n] - 1 : Given(n, r, bits)}
<1>1. 0 \in S
  <2>1. 0 \in 0 .. Arith!Pow2[0] - 1 /\ \A bits \in [Nat -> {0, 1}] : Given(0, 0, bits)
    BY Pow2Is
  <2> QED
    BY <2>1
<1>2. ASSUME NEW n \in Nat, n \in S PROVE n + 1 \in S
  <2> SUFFICES ASSUME NEW bits \in [Nat -> {0, 1}]
               PROVE  \E r \in 0 .. Arith!Pow2[n + 1] - 1 : Given(n + 1, r, bits)
    OBVIOUS
  <2> DEFINE up == [i \in Nat |-> bits[i + 1]]
  <2>1. PICK q \in 0 .. Arith!Pow2[n] - 1 : Given(n, q, up)
    <3>1. up \in [Nat -> {0, 1}]
      OBVIOUS
    <3> HIDE DEF up, Given
    <3> QED
      BY <1>2, <3>1
  <2> DEFINE r == 2 * q + bits[0]
  <2>2. Arith!Pow2[n + 1] = 2 * Arith!Pow2[n] /\ Arith!Pow2[n] \in Nat
    BY Pow2Is
  <2>3. q \in Nat /\ bits[0] \in {0, 1}
    BY <2>2
  <2>4. r \in 0 .. Arith!Pow2[n + 1] - 1 /\ r \in Nat
    BY <2>2, <2>3
  <2>5. r % 2 = bits[0] /\ r \div 2 = q
    BY <2>3
  <2> HIDE DEF r
  <2>6. Given(n + 1, r, bits)
    <3> TAKE i \in 0 .. (n + 1) - 1
    <3>1. CASE i = 0
      BY <2>4, <2>5, <3>1, BitIs
    <3>2. CASE i # 0
      <4>1. i - 1 \in 0 .. n - 1 /\ i - 1 \in Nat /\ (i - 1) + 1 = i
        BY <3>2
      <4>2. Arith!bit(r, (i - 1) + 1) = Arith!bit(q, i - 1)
        BY <2>4, <2>5, <4>1, BitIs
      <4>3. Arith!bit(q, i - 1) = up[i - 1]
        BY <2>1, <4>1
      <4>4. up[i - 1] = bits[i]
        BY <4>1
      <4> QED
        BY <4>1, <4>2, <4>3, <4>4
    <3> QED
      BY <3>1, <3>2
  <2> HIDE DEF Given
  <2> QED
    BY <2>4, <2>6
<1>3. Nat \subseteq S
  <2> HIDE DEF S
  <2> QED
    BY <1>1, <1>2, NatSetInduction
<1> QED
  BY <1>3

(* Words, bits and their bounds are naturals.                              *)
LEMMA WordIs ==
  /\ Arith!Word = 0 .. Arith!Pow2[W] - 1 /\ Arith!Word \subseteq Nat
  /\ Arith!Bit = 0 .. W - 1 /\ Arith!Bit \subseteq Nat /\ 0 \in Arith!Bit
  /\ Arith!Pow2[W] \in Nat \ {0} /\ W \in Nat
BY BoundsAssumption, PowPositive DEF Arith!Word, Arith!Bit

(* OfBits finds the word it is asked for.                                  *)
LEMMA OfBitsIs ==
  ASSUME NEW bits \in [Arith!Bit -> {0, 1}]
  PROVE  /\ Arith!OfBits(bits) \in Arith!Word
         /\ \A i \in Arith!Bit : Arith!bit(Arith!OfBits(bits), i) = bits[i]
<1> DEFINE all == [i \in Nat |-> IF i \in Arith!Bit THEN bits[i] ELSE 0]
<1>1. all \in [Nat -> {0, 1}]
  OBVIOUS
<1>2. \A i \in Arith!Bit : all[i] = bits[i]
  BY WordIs
<1> HIDE DEF all
<1>3. PICK r \in 0 .. Arith!Pow2[W] - 1 : \A i \in 0 .. W - 1 : Arith!bit(r, i) = all[i]
  BY <1>1, BitsGiven, WordIs
<1>4. \E s \in Arith!Word : \A i \in Arith!Bit : Arith!bit(s, i) = bits[i]
  BY <1>2, <1>3, WordIs
<1> QED
  BY <1>4 DEF Arith!OfBits

(* Words with the same bits are the same.                                  *)
LEMMA WordBits ==
  ASSUME NEW a \in Arith!Word, NEW b \in Arith!Word,
         \A i \in Arith!Bit : Arith!bit(a, i) = Arith!bit(b, i)
  PROVE  a = b
BY BitsDiffer, WordIs

(* & keeps the bits of one word that the other has set.                    *)
LEMMA AndIs ==
  ASSUME NEW a \in Arith!Word, NEW b \in Arith!Word
  PROVE  /\ Arith!And(a, b) \in Arith!Word
         /\ \A i \in Arith!Bit : Arith!bit(Arith!And(a, b), i)
                                   = IF Arith!bit(b, i) = 1 THEN Arith!bit(a, i) ELSE 0
<1> DEFINE bits == [i \in Arith!Bit |-> Arith!bit(a, i) * Arith!bit(b, i)]
<1>1. \A i \in Arith!Bit : Arith!bit(a, i) \in {0, 1} /\ Arith!bit(b, i) \in {0, 1}
  BY BitIs, WordIs
<1>2. \A i \in Arith!Bit : bits[i] = IF Arith!bit(b, i) = 1 THEN Arith!bit(a, i) ELSE 0
  BY <1>1
<1>3. bits \in [Arith!Bit -> {0, 1}]
  BY <1>1, <1>2
<1>4. Arith!And(a, b) = Arith!OfBits(bits)
  BY DEF Arith!And
<1> HIDE DEF bits
<1> QED
  BY <1>2, <1>3, <1>4, OfBitsIs

(* | sets the bits that either word has set.                               *)
LEMMA OrIs ==
  ASSUME NEW a \in Arith!Word, NEW b \in Arith!Word
  PROVE  /\ Arith!Or(a, b) \in Arith!Word
         /\ \A i \in Arith!Bit : Arith!bit(Arith!Or(a, b), i)
                                   = IF Arith!bit(a, i) = 1 THEN 1 ELSE Arith!bit(b, i)
<1> DEFINE bits == [i \in Arith!Bit |-> IF Arith!bit(a, i) = 1 THEN 1 ELSE Arith!bit(b, i)]
<1>1. bits \in [Arith!Bit -> {0, 1}]
  BY BitIs, WordIs
<1>2. Arith!Or(a, b) = Arith!OfBits(bits)
  BY DEF Arith!Or
<1>3. \A i \in Arith!Bit : bits[i] = IF Arith!bit(a, i) = 1 THEN 1 ELSE Arith!bit(b, i)
  OBVIOUS
<1> HIDE DEF bits
<1> QED
  BY <1>1, <1>2, <1>3, OfBitsIs

(* ~ turns every bit over.                                                 *)
LEMMA ComplementIs ==
  ASSUME NEW a \in Arith!Word
  PROVE  /\ Arith!Complement(a) \in Arith!Word
         /\ \A i \in Arith!Bit : Arith!bit(Arith!Complement(a), i) = 1 - Arith!bit(a, i)
<1> DEFINE bits == [i \in Arith!Bit |-> 1 - Arith!bit(a, i)]
<1>1. \A i \in Arith!Bit : Arith!bit(a, i) \in {0, 1}
  BY BitIs, WordIs
<1>2. bits \in [Arith!Bit -> {0, 1}]
  BY <1>1
<1>3. Arith!Complement(a) = Arith!OfBits(bits)
  BY DEF Arith!Complement
<1>4. \A i \in Arith!Bit : bits[i] = 1 - Arith!bit(a, i)
  OBVIOUS
<1> HIDE DEF bits
<1> QED
  BY <1>2, <1>3, <1>4, OfBitsIs

(* Zero has no bit set.                                                    *)
LEMMA ZeroBits == \A i \in Nat : Arith!bit(0, i) = 0
<1> TAKE i \in Nat
<1>1. 0 \in 0 .. i /\ 0 \in 0 .. Arith!Pow2[0] - 1
  BY Pow2Is
<1> QED
  BY <1>1, BelowPow

(* A power of two has one bit set.                                         *)
LEMMA PowBits ==
  ASSUME NEW h \in Nat, NEW i \in Nat
  PROVE  Arith!bit(Arith!Pow2[h], i) = IF i = h THEN 1 ELSE 0
<1>1. 1 * Arith!Pow2[h] = Arith!Pow2[h]
  BY Pow2Is
<1>2. Arith!bit(1 * Arith!Pow2[h], i) = IF i < h THEN 0 ELSE Arith!bit(1, i - h)
  BY BitShiftLeft
<1>3. Arith!bit(1, 0) = 1
  BY BitIs
<1>4. ASSUME i > h PROVE Arith!bit(1, i - h) = 0
  <2>1. i - h - 1 \in Nat /\ (i - h - 1) + 1 = i - h /\ 1 \div 2 = 0
    BY <1>4
  <2>2. Arith!bit(1, (i - h - 1) + 1) = Arith!bit(1 \div 2, i - h - 1)
    BY <2>1, BitIs
  <2> QED
    BY <2>1, <2>2, ZeroBits
<1>5. CASE i < h
  BY <1>1, <1>2, <1>5
<1>6. CASE i = h
  <2>1. i - h = 0
    BY <1>6
  <2> QED
    BY <1>1, <1>2, <1>3, <1>6, <2>1
<1>7. CASE i > h
  BY <1>1, <1>2, <1>4, <1>7
<1> QED
  BY <1>5, <1>6, <1>7

(* The number before it has all bits below that one set.                   *)
LEMMA AllOnes ==
  \A h \in Nat : \A i \in Nat : Arith!bit(Arith!Pow2[h] - 1, i) = IF i < h THEN 1 ELSE 0
<1> DEFINE S == {h \in Nat : \A i \in Nat : Arith!bit(Arith!Pow2[h] - 1, i) = IF i < h THEN 1 ELSE 0}
<1>1. 0 \in S
  <2>1. Arith!Pow2[0] - 1 = 0
    BY Pow2Is
  <2> QED
    BY <2>1, ZeroBits
<1>2. ASSUME NEW h \in Nat, h \in S PROVE h + 1 \in S
  <2> DEFINE a == Arith!Pow2[h + 1] - 1
             b == Arith!Pow2[h] - 1
  <2>1. a \in Nat /\ b \in Nat /\ a % 2 = 1 /\ a \div 2 = b
    <3>1. Arith!Pow2[h + 1] = 2 * Arith!Pow2[h] /\ Arith!Pow2[h] \in Nat \ {0}
      BY Pow2Is, PowPositive
    <3>2. \A p \in Nat \ {0} : 2 * p - 1 \in Nat /\ p - 1 \in Nat /\ (2 * p - 1) % 2 = 1 /\ (2 * p - 1) \div 2 = p - 1
      OBVIOUS
    <3> QED
      BY <3>1, <3>2
  <2>2. \A i \in Nat : Arith!bit(b, i) = IF i < h THEN 1 ELSE 0
    BY <1>2
  <2> HIDE DEF a, b
  <2>3. ASSUME NEW i \in Nat PROVE Arith!bit(a, i) = IF i < h + 1 THEN 1 ELSE 0
    <3>1. CASE i = 0
      <4>1. Arith!bit(a, 0) = a % 2
        BY <2>1, BitIs
      <4> QED
        BY <2>1, <3>1, <4>1
    <3>2. CASE i # 0
      <4>1. i - 1 \in Nat /\ (i - 1) + 1 = i
        BY <3>2
      <4>2. Arith!bit(a, (i - 1) + 1) = Arith!bit(b, i - 1)
        BY <2>1, <4>1, BitIs
      <4>3. Arith!bit(b, i - 1) = IF i - 1 < h THEN 1 ELSE 0
        BY <2>2, <4>1
      <4> QED
        BY <4>1, <4>2, <4>3
    <3> QED
      BY <3>1, <3>2
  <2> QED
    BY <2>3 DEF a
<1>3. Nat \subseteq S
  <2> HIDE DEF S
  <2> QED
    BY <1>1, <1>2, NatSetInduction
<1> QED
  BY <1>3

-----------------------------------------------------------------------------
(* The helpers of kern_util.hpp and kern_time.hpp.                         *)

(* getBit shifts no bit of the type out of it.                             *)
LEMMA PowWord ==
  ASSUME NEW n \in Arith!Bit
  PROVE  /\ Arith!Pow2[n] \in Arith!Word /\ Arith!Pow2[n] - 1 \in Arith!Word
         /\ Arith!Pow2[n] \in Nat \ {0} /\ n \in Nat
         /\ Arith!getBit(n) = Arith!Pow2[n]
<1>1. n \in Nat /\ n < W
  BY WordIs
<1>2. PICK c \in Nat : Arith!Pow2[W] = (2 * c) * Arith!Pow2[n]
  BY <1>1, WordIs, PowBetween
<1>3. Arith!Pow2[n] \in Nat \ {0}
  BY <1>1, PowPositive
<1>4. Arith!Pow2[n] < Arith!Pow2[W]
  <2>1. c # 0
    <3>1. \A p \in Nat : (2 * 0) * p = 0
      OBVIOUS
    <3> QED
      BY <1>2, <1>3, <3>1, WordIs
  <2>2. \A p \in Nat \ {0}, e \in Nat \ {0} : p < (2 * e) * p
    <3> TAKE p \in Nat \ {0}, e \in Nat \ {0}
    <3>1. (2 * e - 2) * p \in Nat /\ (2 * e) * p = (2 * e - 2) * p + (p + p)
      OBVIOUS
    <3> QED
      BY <3>1
  <2> QED
    BY <1>2, <1>3, <2>1, <2>2
<1>5. Arith!Pow2[n] % Arith!Pow2[W] = Arith!Pow2[n]
  <2> DEFINE p == Arith!Pow2[n]
             P == Arith!Pow2[W]
  <2>1. p \in Int /\ p \in 0 .. P - 1 /\ p = 0 * P + p /\ P \in Nat \ {0}
    BY <1>3, <1>4, WordIs
  <2> HIDE DEF p, P
  <2>2. p % P = p
    BY <2>1, DivIs
  <2> QED
    BY <2>2, Zenon DEF p, P
<1>6. Arith!getBit(n) = Arith!Pow2[n]
  BY <1>5, Zenon DEF Arith!getBit, Arith!Wrap
<1> QED
  BY <1>1, <1>3, <1>4, <1>6, WordIs

(* getBitMask sets the bits from lo to hi and no other.                    *)
LEMMA MaskIs ==
  ASSUME NEW lo \in Arith!Bit, NEW hi \in lo .. W - 1
  PROVE  /\ Arith!getBitMask(hi, lo) \in Arith!Word
         /\ \A i \in Arith!Bit : Arith!bit(Arith!getBitMask(hi, lo), i)
                                   = IF lo <= i /\ i <= hi THEN 1 ELSE 0
<1> DEFINE h == Arith!Pow2[hi]
           l == Arith!Pow2[lo]
           up == Arith!Or(h, h - 1)
           down == Arith!Complement(l - 1)
<1>1. hi \in Arith!Bit /\ hi \in Nat /\ lo \in Nat
  BY WordIs
<1>2. /\ h \in Arith!Word /\ h - 1 \in Arith!Word /\ l - 1 \in Arith!Word
      /\ Arith!getBitMask(hi, lo) = Arith!And(up, down)
  BY <1>1, PowWord DEF Arith!getBitMask
<1>3. \A i \in Arith!Bit : /\ Arith!bit(h, i) = IF i = hi THEN 1 ELSE 0
                           /\ Arith!bit(h - 1, i) = IF i < hi THEN 1 ELSE 0
                           /\ Arith!bit(l - 1, i) = IF i < lo THEN 1 ELSE 0
  <2> TAKE i \in Arith!Bit
  <2>0. i \in Nat
    BY WordIs
  <2>1. Arith!bit(h, i) = IF i = hi THEN 1 ELSE 0
    BY <1>1, <2>0, PowBits
  <2>2. Arith!bit(h - 1, i) = IF i < hi THEN 1 ELSE 0
    BY <1>1, <2>0, AllOnes
  <2>3. Arith!bit(l - 1, i) = IF i < lo THEN 1 ELSE 0
    BY <1>1, <2>0, AllOnes
  <2> QED
    BY <2>1, <2>2, <2>3
<1> HIDE DEF h, l
<1>4. up \in Arith!Word /\ \A i \in Arith!Bit : Arith!bit(up, i) = IF i <= hi THEN 1 ELSE 0
  <2>1. up \in Arith!Word
        /\ \A i \in Arith!Bit : Arith!bit(up, i) = IF Arith!bit(h, i) = 1 THEN 1 ELSE Arith!bit(h - 1, i)
    BY <1>2, OrIs
  <2> QED
    BY <1>1, <1>3, <2>1, WordIs
<1>5. down \in Arith!Word /\ \A i \in Arith!Bit : Arith!bit(down, i) = IF lo <= i THEN 1 ELSE 0
  <2>1. down \in Arith!Word
        /\ \A i \in Arith!Bit : Arith!bit(down, i) = 1 - Arith!bit(l - 1, i)
    BY <1>2, ComplementIs
  <2> QED
    BY <1>1, <1>3, <2>1, WordIs
<1> HIDE DEF up, down
<1>6. Arith!And(up, down) \in Arith!Word
      /\ \A i \in Arith!Bit : Arith!bit(Arith!And(up, down), i)
                                = IF Arith!bit(down, i) = 1 THEN Arith!bit(up, i) ELSE 0
  BY <1>4, <1>5, AndIs
<1>7. \A i \in Arith!Bit : Arith!bit(Arith!And(up, down), i) = IF lo <= i /\ i <= hi THEN 1 ELSE 0
  BY <1>1, <1>4, <1>5, <1>6, WordIs
<1> QED
  BY <1>2, <1>6, <1>7

(* getBitField moves the bits from lo to hi down to the lowest ones.       *)
LEMMA FieldIs ==
  ASSUME NEW so \in Arith!Word, NEW lo \in Arith!Bit, NEW hi \in lo .. W - 1
  PROVE  /\ Arith!getBitField(so, hi, lo) \in Arith!Word
         /\ \A i \in Arith!Bit : Arith!bit(Arith!getBitField(so, hi, lo), i)
                                   = IF lo + i <= hi THEN Arith!bit(so, lo + i) ELSE 0
<1> DEFINE mask == Arith!getBitMask(hi, lo)
           cut == Arith!And(so, mask)
           p == Arith!Pow2[lo]
<1>1. p \in Nat \ {0} /\ lo \in Nat /\ hi \in Nat /\ hi < W
  BY PowWord, WordIs
<1>2. cut \in Arith!Word
      /\ \A i \in Arith!Bit : Arith!bit(cut, i) = IF lo <= i /\ i <= hi THEN Arith!bit(so, i) ELSE 0
  <2>1. /\ mask \in Arith!Word
        /\ \A i \in Arith!Bit : Arith!bit(mask, i) = IF lo <= i /\ i <= hi THEN 1 ELSE 0
    BY MaskIs
  <2> HIDE DEF mask
  <2>2. cut \in Arith!Word
        /\ \A i \in Arith!Bit : Arith!bit(cut, i) = IF Arith!bit(mask, i) = 1 THEN Arith!bit(so, i) ELSE 0
    BY <2>1, AndIs
  <2> HIDE DEF cut
  <2>3. \A i \in Arith!Bit : Arith!bit(mask, i) = 1 <=> lo <= i /\ i <= hi
    BY <2>1
  <2> QED
    BY <2>2, <2>3
<1>3. Arith!getBitField(so, hi, lo) = cut \div p
  BY DEF Arith!getBitField
<1> HIDE DEF cut
<1>4. cut \div p \in Arith!Word
  <2>1. cut \in Nat /\ cut < Arith!Pow2[W]
    BY <1>2, WordIs
  <2>2. cut \div p \in Nat
    BY <1>1, <2>1, DivNat
  <2>3. cut \div p <= cut
    <3> HIDE DEF p
    <3> DEFINE q == cut \div p
               r == cut % p
    <3>1. q \in Nat /\ r \in 0 .. p - 1 /\ cut = q * p + r
      BY <1>1, <2>1, <2>2, DivHas
    <3> HIDE DEF q, r
    <3>2. q * (p - 1) \in Nat /\ q * p = q * (p - 1) + q
      BY <1>1, <3>1
    <3>3. q <= cut
      BY <1>1, <3>1, <3>2
    <3> QED
      BY <3>3 DEF q
  <2> QED
    BY <2>1, <2>2, <2>3, WordIs
<1>5. ASSUME NEW i \in Arith!Bit
      PROVE  Arith!bit(cut \div p, i) = IF lo + i <= hi THEN Arith!bit(so, lo + i) ELSE 0
  <2>1. i \in Nat /\ cut \in Nat /\ cut \in 0 .. Arith!Pow2[W] - 1
    BY <1>2, WordIs
  <2>2. Arith!bit(cut \div p, i) = Arith!bit(cut, lo + i)
    BY <1>1, <2>1, BitShiftRight
  <2>3. CASE lo + i \in Arith!Bit
    <3>1. lo <= lo + i
      BY <1>1, <2>1
    <3> QED
      BY <1>2, <2>2, <2>3, <3>1
  <2>4. CASE lo + i \notin Arith!Bit
    <3>1. W \in 0 .. lo + i /\ lo + i \in Nat /\ lo + i > hi
      BY <1>1, <2>1, <2>4, WordIs
    <3>2. Arith!bit(cut, lo + i) = 0
      BY <2>1, <3>1, BelowPow
    <3> QED
      BY <1>1, <2>1, <2>2, <3>1, <3>2
  <2> QED
    BY <2>3, <2>4
<1> QED
  BY <1>3, <1>4, <1>5

(* setBitField moves as many bits as fit to where the field is.            *)
LEMMA SetFieldIs ==
  ASSUME NEW so \in Arith!Word, NEW lo \in Arith!Bit, NEW hi \in lo .. W - 1
  PROVE  /\ Arith!setBitField(so, hi, lo) \in Arith!Word
         /\ \A i \in Arith!Bit : Arith!bit(Arith!setBitField(so, hi, lo), i)
                                   = IF lo <= i /\ i <= hi THEN Arith!bit(so, i - lo) ELSE 0
<1> DEFINE mask == Arith!getBitMask(hi, lo)
           moved == so * Arith!Pow2[lo]
           kept == moved % Arith!Pow2[W]
<1>1. lo \in Nat /\ so \in Nat /\ moved \in Nat
  BY PowWord, WordIs
<1>2. /\ mask \in Arith!Word
      /\ \A i \in Arith!Bit : Arith!bit(mask, i) = 1 <=> lo <= i /\ i <= hi
  BY MaskIs
<1>3. Arith!setBitField(so, hi, lo) = Arith!And(kept, mask)
  BY DEF Arith!setBitField, Arith!Wrap
<1>4. \A i \in Arith!Bit : Arith!bit(moved, i) = IF i < lo THEN 0 ELSE Arith!bit(so, i - lo)
  BY <1>1, WordIs, BitShiftLeft
<1> HIDE DEF moved, mask
<1>5. kept \in Arith!Word
  <2>1. kept \in 0 .. Arith!Pow2[W] - 1
    <3> DEFINE P == Arith!Pow2[W]
    <3>1. P \in Nat \ {0}
      BY WordIs
    <3> HIDE DEF P
    <3>2. moved % P \in 0 .. P - 1
      BY <1>1, <3>1, DivHas
    <3> QED
      BY <3>2 DEF P
  <2> QED
    BY <2>1, WordIs
<1>6. \A i \in Arith!Bit : Arith!bit(kept, i) = Arith!bit(moved, i)
  BY <1>1, WordIs, BitMod
<1> HIDE DEF kept
<1>7. Arith!And(kept, mask) \in Arith!Word
      /\ \A i \in Arith!Bit : Arith!bit(Arith!And(kept, mask), i)
                                = IF Arith!bit(mask, i) = 1 THEN Arith!bit(kept, i) ELSE 0
  BY <1>2, <1>5, AndIs
<1>8. ASSUME NEW i \in Arith!Bit
      PROVE  Arith!bit(Arith!And(kept, mask), i)
               = IF lo <= i /\ i <= hi THEN Arith!bit(so, i - lo) ELSE 0
  <2>1. CASE lo <= i /\ i <= hi
    <3>1. ~(i < lo)
      BY <1>1, <2>1, WordIs
    <3> QED
      BY <1>2, <1>4, <1>6, <1>7, <2>1, <3>1
  <2>2. CASE ~(lo <= i /\ i <= hi)
    BY <1>2, <1>7, <2>2
  <2> QED
    BY <2>1, <2>2
<1> QED
  BY <1>3, <1>7, <1>8

(* The lowest bits of a word, as a word.                                   *)
LEMMA ModBits ==
  ASSUME NEW a \in Arith!Word, NEW k \in 0 .. W
  PROVE  /\ a % Arith!Pow2[k] \in Arith!Word
         /\ \A i \in Arith!Bit : Arith!bit(a % Arith!Pow2[k], i) = IF i < k THEN Arith!bit(a, i) ELSE 0
<1> DEFINE p == Arith!Pow2[k]
           r == a % p
<1>1. k \in Nat /\ a \in Nat /\ a < Arith!Pow2[W] /\ p \in Nat \ {0}
  BY WordIs, PowPositive
<1>2. r \in Arith!Word
  <2> DEFINE q == a \div p
  <2>1. q \in Nat /\ r \in 0 .. p - 1 /\ a = q * p + r
    <3> HIDE DEF p
    <3>1. q \in Nat
      BY <1>1, DivNat
    <3> QED
      BY <1>1, <3>1, DivHas
  <2> HIDE DEF q, r, p
  <2>2. q * p \in Nat
    BY <1>1, <2>1
  <2> QED
    BY <1>1, <2>1, <2>2, WordIs
<1>3. \A i \in Arith!Bit : Arith!bit(r, i) = IF i < k THEN Arith!bit(a, i) ELSE 0
  BY <1>1, WordIs, BitMod
<1> QED
  BY <1>2, <1>3

(* A word moved to the right, as a word.                                   *)
LEMMA DivBits ==
  ASSUME NEW a \in Arith!Word, NEW k \in Arith!Bit
  PROVE  /\ a \div Arith!Pow2[k] \in Arith!Word
         /\ \A i \in Arith!Bit : Arith!bit(a \div Arith!Pow2[k], i)
                                   = IF k + i \in Arith!Bit THEN Arith!bit(a, k + i) ELSE 0
<1> DEFINE p == Arith!Pow2[k]
<1>1. k \in Nat /\ a \in Nat /\ a \in 0 .. Arith!Pow2[W] - 1 /\ p \in Nat \ {0}
  BY WordIs, PowPositive
<1>2. a \div p \in Arith!Word
  <2> DEFINE q == a \div p
             r == a % p
  <2> HIDE DEF p
  <2>1. q \in Nat
    BY <1>1, DivNat
  <2>2. r \in 0 .. p - 1 /\ a = q * p + r
    BY <1>1, DivHas
  <2> HIDE DEF q, r
  <2>3. q * (p - 1) \in Nat /\ q * p = q * (p - 1) + q
    BY <1>1, <2>1
  <2>4. q <= a
    BY <1>1, <2>1, <2>2, <2>3
  <2>5. q \in Arith!Word
    BY <1>1, <2>1, <2>4, WordIs
  <2> QED
    BY <2>5 DEF q
<1>3. ASSUME NEW i \in Arith!Bit
      PROVE  Arith!bit(a \div p, i) = IF k + i \in Arith!Bit THEN Arith!bit(a, k + i) ELSE 0
  <2>1. i \in Nat
    BY WordIs
  <2>2. Arith!bit(a \div p, i) = Arith!bit(a, k + i)
    BY <1>1, <2>1, BitShiftRight
  <2>3. ASSUME k + i \notin Arith!Bit PROVE Arith!bit(a, k + i) = 0
    <3>1. W \in 0 .. k + i /\ k + i \in Nat
      BY <1>1, <2>1, <2>3, WordIs
    <3> QED
      BY <1>1, <3>1, BelowPow
  <2> QED
    BY <2>2, <2>3
<1> QED
  BY <1>2, <1>3

(* A field put into a word is there, and the other bits are as before.     *)
LEMMA FieldInWord ==
  ASSUME NEW a \in Arith!Word, NEW b \in Arith!Word, NEW lo \in Arith!Bit, NEW hi \in lo .. W - 1
  PROVE  LET word == Arith!Or(Arith!And(a, Arith!Complement(Arith!getBitMask(hi, lo))), Arith!setBitField(b, hi, lo))
         IN /\ word \in Arith!Word
            /\ \A i \in Arith!Bit : Arith!bit(word, i)
                                      = IF lo <= i /\ i <= hi THEN Arith!bit(b, i - lo) ELSE Arith!bit(a, i)
<1> DEFINE mask == Arith!getBitMask(hi, lo)
           rest == Arith!Complement(mask)
           cut == Arith!And(a, rest)
           field == Arith!setBitField(b, hi, lo)
           word == Arith!Or(cut, field)
<1>1. mask \in Arith!Word
      /\ \A i \in Arith!Bit : Arith!bit(mask, i) = IF lo <= i /\ i <= hi THEN 1 ELSE 0
  BY MaskIs
<1>2. field \in Arith!Word
      /\ \A i \in Arith!Bit : Arith!bit(field, i) = IF lo <= i /\ i <= hi THEN Arith!bit(b, i - lo) ELSE 0
  BY SetFieldIs
<1> HIDE DEF mask, field
<1>3. rest \in Arith!Word
      /\ \A i \in Arith!Bit : Arith!bit(rest, i) = 1 - Arith!bit(mask, i)
  BY <1>1, ComplementIs
<1> HIDE DEF rest
<1>4. cut \in Arith!Word
      /\ \A i \in Arith!Bit : Arith!bit(cut, i) = IF Arith!bit(rest, i) = 1 THEN Arith!bit(a, i) ELSE 0
  BY <1>3, AndIs
<1> HIDE DEF cut
<1>5. word \in Arith!Word
      /\ \A i \in Arith!Bit : Arith!bit(word, i) = IF Arith!bit(cut, i) = 1 THEN 1 ELSE Arith!bit(field, i)
  BY <1>2, <1>4, OrIs
<1>6. ASSUME NEW i \in Arith!Bit
      PROVE  Arith!bit(word, i) = IF lo <= i /\ i <= hi THEN Arith!bit(b, i - lo) ELSE Arith!bit(a, i)
  <2> HIDE DEF word
  <2>1. CASE lo <= i /\ i <= hi
    <3>1. Arith!bit(rest, i) = 0
      BY <1>1, <1>3, <2>1
    <3>2. Arith!bit(cut, i) = 0
      BY <1>4, <3>1
    <3> QED
      BY <1>2, <1>5, <2>1, <3>2
  <2>2. CASE ~(lo <= i /\ i <= hi)
    <3>1. Arith!bit(rest, i) = 1
      BY <1>1, <1>3, <2>2
    <3>2. Arith!bit(cut, i) = Arith!bit(a, i) /\ Arith!bit(field, i) = 0
      BY <1>2, <1>4, <2>2, <3>1
    <3>3. Arith!bit(a, i) \in {0, 1}
      BY WordIs, BitIs
    <3> QED
      BY <1>5, <2>2, <3>2, <3>3
  <2> QED
    BY <2>1, <2>2
<1> QED
  BY <1>5, <1>6 DEF mask, rest, cut, field

(* setBitField and getBitField of kern_util.hpp: a field put into a word   *)
(* reads back, as much of it as fits, and every other field reads as       *)
(* before.                                                                 *)
LEMMA FieldsAreIndependent ==
  ASSUME Arith!TypeOK
  PROVE  Arith!FieldsIndependent
<1> SUFFICES ASSUME NEW lo \in Arith!Bit, NEW hi \in lo .. W - 1
             PROVE  LET word == Arith!Or(Arith!And(x, Arith!Complement(Arith!getBitMask(hi, lo))), Arith!setBitField(y, hi, lo))
                    IN /\ Arith!getBitField(word, hi, lo) = y % Arith!Pow2[hi - lo + 1]
                       /\ hi < W - 1 => Arith!getBitField(word, W - 1, hi + 1) = x \div Arith!Pow2[hi + 1]
                       /\ lo > 0 => Arith!getBitField(word, lo - 1, 0) = x % Arith!Pow2[lo]
  BY DEF Arith!FieldsIndependent
<1> DEFINE word == Arith!Or(Arith!And(x, Arith!Complement(Arith!getBitMask(hi, lo))), Arith!setBitField(y, hi, lo))
<1>0. x \in Arith!Word /\ y \in Arith!Word /\ lo \in Nat /\ hi \in Nat /\ W \in Nat /\ hi < W /\ lo <= hi
  BY WordIs DEF Arith!TypeOK
<1>1. /\ word \in Arith!Word
      /\ \A i \in Arith!Bit : Arith!bit(word, i)
                                = IF lo <= i /\ i <= hi THEN Arith!bit(y, i - lo) ELSE Arith!bit(x, i)
  BY <1>0, FieldInWord
<1> HIDE DEF word
<1>2. Arith!getBitField(word, hi, lo) = y % Arith!Pow2[hi - lo + 1]
  <2> DEFINE a == Arith!getBitField(word, hi, lo)
             k == hi - lo + 1
             b == y % Arith!Pow2[k]
  <2>1. k \in 0 .. W
    BY <1>0
  <2>2. a \in Arith!Word
        /\ \A i \in Arith!Bit : Arith!bit(a, i) = IF lo + i <= hi THEN Arith!bit(word, lo + i) ELSE 0
    BY <1>1, FieldIs
  <2>3. b \in Arith!Word
        /\ \A i \in Arith!Bit : Arith!bit(b, i) = IF i < k THEN Arith!bit(y, i) ELSE 0
    <3> HIDE DEF k
    <3> QED
      BY <1>0, <2>1, ModBits
  <2> HIDE DEF a, b
  <2>4. ASSUME NEW i \in Arith!Bit PROVE Arith!bit(a, i) = Arith!bit(b, i)
    <3>1. i \in Nat
      BY WordIs
    <3>2. CASE lo + i <= hi
      <4>1. lo + i \in Arith!Bit /\ lo <= lo + i /\ (lo + i) - lo = i /\ i < k
        BY <1>0, <3>1, <3>2, WordIs
      <4>2. Arith!bit(a, i) = Arith!bit(word, lo + i) /\ Arith!bit(b, i) = Arith!bit(y, i)
        BY <2>2, <2>3, <3>2, <4>1
      <4>3. Arith!bit(word, lo + i) = Arith!bit(y, (lo + i) - lo)
        BY <1>1, <3>2, <4>1
      <4> QED
        BY <4>1, <4>2, <4>3
    <3>3. CASE ~(lo + i <= hi)
      <4>1. ~(i < k)
        BY <1>0, <3>1, <3>3
      <4> QED
        BY <2>2, <2>3, <3>3, <4>1
    <3> QED
      BY <3>2, <3>3
  <2>5. a = b
    BY <2>2, <2>3, <2>4, WordBits
  <2> QED
    BY <2>5 DEF a, b
<1>3. ASSUME hi < W - 1 PROVE Arith!getBitField(word, W - 1, hi + 1) = x \div Arith!Pow2[hi + 1]
  <2> DEFINE k == hi + 1
             a == Arith!getBitField(word, W - 1, k)
             b == x \div Arith!Pow2[k]
  <2>1. k \in Arith!Bit /\ W - 1 \in k .. W - 1 /\ k \in Nat /\ k > hi
    BY <1>0, <1>3, WordIs
  <2> HIDE DEF k
  <2>2. a \in Arith!Word
        /\ \A i \in Arith!Bit : Arith!bit(a, i) = IF k + i <= W - 1 THEN Arith!bit(word, k + i) ELSE 0
    BY <1>1, <2>1, FieldIs
  <2>3. b \in Arith!Word
        /\ \A i \in Arith!Bit : Arith!bit(b, i) = IF k + i \in Arith!Bit THEN Arith!bit(x, k + i) ELSE 0
    BY <1>0, <2>1, DivBits
  <2> HIDE DEF a, b
  <2>4. ASSUME NEW i \in Arith!Bit PROVE Arith!bit(a, i) = Arith!bit(b, i)
    <3>1. i \in Nat /\ (k + i \in Arith!Bit <=> k + i <= W - 1) /\ ~(k + i <= hi)
      BY <1>0, <2>1, WordIs
    <3>2. CASE k + i <= W - 1
      <4>1. Arith!bit(word, k + i) = Arith!bit(x, k + i)
        BY <1>1, <3>1, <3>2
      <4> QED
        BY <2>2, <2>3, <3>1, <3>2, <4>1
    <3>3. CASE ~(k + i <= W - 1)
      BY <2>2, <2>3, <3>1, <3>3
    <3> QED
      BY <3>2, <3>3
  <2>5. a = b
    BY <2>2, <2>3, <2>4, WordBits
  <2> QED
    BY <2>5 DEF a, b, k
<1>4. ASSUME lo > 0 PROVE Arith!getBitField(word, lo - 1, 0) = x % Arith!Pow2[lo]
  <2> DEFINE a == Arith!getBitField(word, lo - 1, 0)
             b == x % Arith!Pow2[lo]
  <2>1. 0 \in Arith!Bit /\ lo - 1 \in 0 .. W - 1 /\ lo \in 0 .. W
    BY <1>0, <1>4, WordIs
  <2>2. a \in Arith!Word
        /\ \A i \in Arith!Bit : Arith!bit(a, i) = IF 0 + i <= lo - 1 THEN Arith!bit(word, 0 + i) ELSE 0
    BY <1>1, <2>1, FieldIs
  <2>3. b \in Arith!Word
        /\ \A i \in Arith!Bit : Arith!bit(b, i) = IF i < lo THEN Arith!bit(x, i) ELSE 0
    BY <1>0, <2>1, ModBits
  <2> HIDE DEF a, b
  <2>4. ASSUME NEW i \in Arith!Bit PROVE Arith!bit(a, i) = Arith!bit(b, i)
    <3>1. i \in Nat /\ 0 + i = i /\ (i < lo <=> i <= lo - 1) /\ (i < lo <=> ~(lo <= i))
      BY <1>0, WordIs
    <3>2. CASE i < lo
      <4>1. Arith!bit(word, i) = Arith!bit(x, i)
        BY <1>1, <3>1, <3>2
      <4> QED
        BY <2>2, <2>3, <3>1, <3>2, <4>1
    <3>3. CASE ~(i < lo)
      BY <2>2, <2>3, <3>1, <3>3
    <3> QED
      BY <3>2, <3>3
  <2>5. a = b
    BY <2>2, <2>3, <2>4, WordBits
  <2> QED
    BY <2>5 DEF a, b
<1> QED
  BY <1>2, <1>3, <1>4 DEF word

(* What the type cannot hold comes back less its modulus.                  *)
LEMMA WrapIs ==
  ASSUME NEW a \in Nat
  PROVE  /\ Arith!Wrap(a) \in Arith!Word
         /\ a < Arith!Pow2[W] => Arith!Wrap(a) = a
         /\ a >= Arith!Pow2[W] /\ a - Arith!Pow2[W] < Arith!Pow2[W] => Arith!Wrap(a) = a - Arith!Pow2[W]
<1> DEFINE P == Arith!Pow2[W]
<1>1. P \in Nat \ {0} /\ Arith!Word = 0 .. P - 1
  BY WordIs
<1>2. Arith!Wrap(a) = a % P
  BY DEF Arith!Wrap
<1> HIDE DEF P
<1>3. a % P \in 0 .. P - 1
  BY <1>1, DivHas
<1>4. ASSUME a < P PROVE a % P = a
  <2>1. a = 0 * P + a /\ a \in 0 .. P - 1 /\ a \in Int
    BY <1>1, <1>4
  <2> QED
    BY <1>1, <2>1, DivIs
<1>5. ASSUME a >= P, a - P < P PROVE a % P = a - P
  <2> DEFINE r == a - P
  <2>1. a = 1 * P + r /\ r \in 0 .. P - 1 /\ a \in Int
    BY <1>1, <1>5
  <2> HIDE DEF r
  <2>2. a % P = r
    BY <1>1, <2>1, DivIs
  <2> QED
    BY <2>2 DEF r
<1> QED
  BY <1>1, <1>2, <1>3, <1>4, <1>5 DEF P

(* The mask of alignValue cuts a word down to a multiple.                  *)
LEMMA AlignIs ==
  ASSUME NEW s \in Arith!Word, NEW n \in Arith!Bit
  PROVE  Arith!And(s, Arith!Complement(Arith!Pow2[n] - 1)) = (s \div Arith!Pow2[n]) * Arith!Pow2[n]
<1> DEFINE p == Arith!Pow2[n]
           q == s \div p
           a == Arith!And(s, Arith!Complement(p - 1))
           b == q * p
<1>1. p \in Nat \ {0} /\ p - 1 \in Arith!Word /\ s \in Nat /\ n \in Nat
  BY PowWord, WordIs
<1>2. q \in Nat /\ b \in Arith!Word
  <2> HIDE DEF p
  <2>1. q \in Nat
    BY <1>1, DivNat
  <2> DEFINE t == s % p
  <2>2. t \in 0 .. p - 1 /\ s = q * p + t
    BY <1>1, DivHas
  <2> HIDE DEF q, t
  <2>3. q * p \in Nat
    BY <1>1, <2>1
  <2> QED
    BY <1>1, <2>1, <2>2, <2>3, WordIs
<1>3. ASSUME NEW i \in Arith!Bit PROVE Arith!bit(b, i) = IF i < n THEN 0 ELSE Arith!bit(s, i)
  <2>1. i \in Nat
    BY WordIs
  <2>2. Arith!bit(b, i) = IF i < n THEN 0 ELSE Arith!bit(q, i - n)
    <3> HIDE DEF q
    <3> QED
      BY <1>1, <1>2, <2>1, BitShiftLeft
  <2>3. ASSUME ~(i < n) PROVE Arith!bit(q, i - n) = Arith!bit(s, i)
    <3>1. i - n \in Nat /\ n + (i - n) = i
      BY <1>1, <2>1, <2>3
    <3>2. Arith!bit(q, i - n) = Arith!bit(s, n + (i - n))
      BY <1>1, <3>1, BitShiftRight
    <3> QED
      BY <3>1, <3>2
  <2> HIDE DEF b, q
  <2> QED
    BY <2>2, <2>3
<1>4. a \in Arith!Word
      /\ \A i \in Arith!Bit : Arith!bit(a, i) = IF i < n THEN 0 ELSE Arith!bit(s, i)
  <2> DEFINE low == p - 1
             c == Arith!Complement(low)
  <2>1. \A i \in Arith!Bit : Arith!bit(low, i) = IF i < n THEN 1 ELSE 0
    <3> TAKE i \in Arith!Bit
    <3>1. i \in Nat
      BY WordIs
    <3> QED
      BY <1>1, <3>1, AllOnes
  <2>2. low \in Arith!Word
    BY <1>1
  <2> HIDE DEF low
  <2>3. c \in Arith!Word /\ \A i \in Arith!Bit : Arith!bit(c, i) = 1 - Arith!bit(low, i)
    BY <2>2, ComplementIs
  <2> HIDE DEF c
  <2>4. Arith!And(s, c) \in Arith!Word
        /\ \A i \in Arith!Bit : Arith!bit(Arith!And(s, c), i) = IF Arith!bit(c, i) = 1 THEN Arith!bit(s, i) ELSE 0
    BY <2>3, AndIs
  <2>5. a = Arith!And(s, c)
    BY DEF c, low
  <2> HIDE DEF a
  <2>6. \A i \in Arith!Bit : Arith!bit(c, i) = IF i < n THEN 0 ELSE 1
    BY <2>1, <2>3
  <2>7. ASSUME NEW i \in Arith!Bit PROVE Arith!bit(a, i) = IF i < n THEN 0 ELSE Arith!bit(s, i)
    <3>1. CASE i < n
      BY <2>4, <2>5, <2>6, <3>1
    <3>2. CASE ~(i < n)
      BY <2>4, <2>5, <2>6, <3>2
    <3> QED
      BY <3>1, <3>2
  <2> QED
    BY <2>4, <2>5, <2>7
<1> HIDE DEF a, b
<1>5. a = b
  BY <1>2, <1>3, <1>4, WordBits
<1> QED
  BY <1>5 DEF a, b, q, p

(* alignValue of kern_util.hpp: the least multiple not below the value, or *)
(* zero where the type cannot hold that one.                               *)
LEMMA AlignmentIsLeast ==
  ASSUME Arith!TypeOK
  PROVE  Arith!AlignedLeast
<1> SUFFICES ASSUME NEW n \in Arith!Bit
             PROVE  LET r == Arith!alignValue(x, Arith!Pow2[n])
                    IN \/ r % Arith!Pow2[n] = 0 /\ r >= x /\ r - x < Arith!Pow2[n]
                       \/ r = 0 /\ x > Arith!Pow2[W] - Arith!Pow2[n]
  BY DEF Arith!AlignedLeast
<1> DEFINE P == Arith!Pow2[W]
           p == Arith!Pow2[n]
           sum == x + p - 1
           s == Arith!Wrap(sum)
           q == s \div p
           t == s % p
           r == Arith!alignValue(x, p)
<1>1. /\ P \in Nat \ {0} /\ p \in Nat \ {0} /\ p < P /\ x \in 0 .. P - 1 /\ sum \in Nat
  BY PowWord, WordIs DEF Arith!TypeOK
<1>2. s \in Arith!Word /\ s \in Nat
      /\ (sum < P => s = sum) /\ (sum >= P /\ sum - P < P => s = sum - P)
  <2> HIDE DEF sum
  <2> QED
    BY <1>1, WrapIs, WordIs
<1>3. r = q * p
  <2>1. r = Arith!And(s, Arith!Complement(p - 1))
    BY DEF Arith!alignValue
  <2> HIDE DEF s
  <2> QED
    BY <1>2, <2>1, AlignIs
<1>4. q \in Nat /\ t \in 0 .. p - 1 /\ s = q * p + t
  <2> HIDE DEF p, s
  <2>1. q \in Nat
    BY <1>1, <1>2, DivNat
  <2>2. p \in Nat \ {0} /\ s \in Int
    BY <1>1, <1>2
  <2>3. t \in 0 .. p - 1 /\ s = q * p + t
    BY <2>2, DivHas
  <2> QED
    BY <2>1, <2>3
<1> DEFINE m == q * p
<1>5. r = m /\ s = m + t /\ m \in Nat
  <2> HIDE DEF p, q, r, s, t
  <2> QED
    BY <1>1, <1>3, <1>4
<1>6. m % p = 0
  <2>0. m = q * p
    OBVIOUS
  <2> HIDE DEF p, q, m
  <2>1. p \in Nat \ {0} /\ q \in Int /\ m \in Int
    BY <1>1, <1>4, <1>5
  <2>2. m = q * p + 0
    BY <2>0, <2>1
  <2>3. 0 \in 0 .. p - 1
    BY <2>1
  <2> QED
    BY <2>1, <2>2, <2>3, DivIs
<1>7. CASE sum < P
  <2>1. m + t = x + p - 1
    BY <1>2, <1>5, <1>7
  <2> HIDE DEF P, p, q, r, s, t, m, sum
  <2>2. r % p = 0 /\ r >= x /\ r - x < p
    BY <1>1, <1>4, <1>5, <1>6, <2>1
  <2> QED
    BY <2>2 DEF r, p
<1>8. CASE sum >= P
  <2>1. s = x + p - 1 - P /\ x > P - p
    BY <1>1, <1>2, <1>8
  <2>2. s < p
    BY <1>1, <2>1
  <2>3. q = 0
    <3> HIDE DEF P, p, s, q, t, sum
    <3>1. q # 0 => (q - 1) * p \in Nat /\ q * p = (q - 1) * p + p
      BY <1>1, <1>4
    <3> QED
      BY <1>1, <1>4, <2>2, <3>1
  <2>4. r = 0
    <3> HIDE DEF q, p, r
    <3> QED
      BY <1>1, <1>3, <2>3
  <2> QED
    BY <2>1, <2>4
<1> QED
  BY <1>1, <1>7, <1>8

(* getTimeSinceNs and getTimeLeftNs of kern_time.hpp: what is left of a    *)
(* timeout is the timeout less what has passed.                            *)
LEMMA TimersDoAgree ==
  ASSUME Arith!TypeOK
  PROVE  Arith!TimersAgree
<1>1. x \in Nat /\ y \in Nat /\ x < Arith!Pow2[W] /\ Arith!Pow2[W] \in Nat
  BY WordIs DEF Arith!TypeOK
<1>2. \A timeout \in 0 .. Arith!Pow2[W] - 1 - x :
        timeout \in Nat /\ Arith!Wrap(x + timeout) = x + timeout
  BY <1>1, WrapIs
<1> QED
  BY <1>1, <1>2 DEF Arith!TimersAgree, Arith!getTimeSinceNs, Arith!getTimeLeftNs

-----------------------------------------------------------------------------
(* The numbering of cores of kern_cpu.hpp.                                 *)

(* LiluArith counts as this module does.                                   *)
LEMMA ArithCardinality == ASSUME NEW S PROVE Arith!Cardinality(S) = Cardinality(S)
BY DEF Arith!Cardinality, Cardinality

(* There is a function that adds the sizes of packages up, each sum        *)
(* wrapped.                                                                *)
LEMMA CountedExists ==
  ASSUME NEW sizes
  PROVE  sizes \in [0 .. Packages - 1 -> Nat]
           => \E f : f = [n \in 0 .. Packages |->
                            IF n = 0 THEN 0 ELSE Arith!Wrap(f[n - 1] + sizes[n - 1])]
<1> DEFINE step == [p \in (1 .. Packages) \X Nat |-> Arith!Wrap(p[2] + sizes[p[1] - 1])]
           none == 0
           g == Iterated(none, step)
           f == [n \in 0 .. Packages |-> g[n]]
<1>0. Packages \in Nat
  BY BoundsAssumption
<1>1. \A n \in Nat : g[n] = IF n = 0 THEN none ELSE step[<<n, g[n - 1]>>]
  <2> HIDE DEF none, step
  <2> QED
    BY IteratedIs
<1> HIDE DEF g
<1> SUFFICES ASSUME sizes \in [0 .. Packages - 1 -> Nat]
             PROVE  \E h : h = [n \in 0 .. Packages |->
                                IF n = 0 THEN 0 ELSE Arith!Wrap(h[n - 1] + sizes[n - 1])]
  OBVIOUS
<1>8. g[0] = 0
  BY <1>1
<1>2. ASSUME NEW n \in 0 .. Packages - 1, g[n] \in Nat
      PROVE  g[n + 1] \in Nat /\ g[n + 1] = Arith!Wrap(g[n] + sizes[n])
  <2>1. /\ n + 1 \in Nat /\ n + 1 # 0 /\ (n + 1) - 1 = n /\ n + 1 \in 1 .. Packages
        /\ sizes[n] \in Nat
    BY <1>0
  <2>2. step[<<n + 1, g[n]>>] = Arith!Wrap(g[n] + sizes[n])
    BY <1>2, <2>1
  <2>3. g[n + 1] = step[<<n + 1, g[n]>>]
    <3> HIDE DEF step
    <3> QED
      BY <1>1, <2>1
  <2>4. Arith!Wrap(g[n] + sizes[n]) \in Nat
    <3>1. g[n] + sizes[n] \in Nat
      BY <1>2, <2>1
    <3>2. Arith!Wrap(g[n] + sizes[n]) \in Arith!Word
      BY <3>1, WrapIs
    <3> QED
      BY <3>2, WordIs
  <2> HIDE DEF step
  <2> QED
    BY <2>2, <2>3, <2>4
<1>3. \A n \in 0 .. Packages : g[n] \in Nat
  <2> DEFINE S == {n \in Nat : n <= Packages => g[n] \in Nat}
  <2>1. 0 \in S
    BY <1>8
  <2>2. ASSUME NEW n \in Nat, n \in S PROVE n + 1 \in S
    BY <1>0, <1>2, <2>2
  <2>3. Nat \subseteq S
    <3> HIDE DEF S
    <3> QED
      BY <2>1, <2>2, NatSetInduction
  <2> QED
    BY <1>0, <2>3
<1>4. f = [n \in 0 .. Packages |-> IF n = 0 THEN 0 ELSE Arith!Wrap(f[n - 1] + sizes[n - 1])]
  <2>1. ASSUME NEW n \in 0 .. Packages
        PROVE  f[n] = IF n = 0 THEN 0 ELSE Arith!Wrap(f[n - 1] + sizes[n - 1])
    <3>1. CASE n = 0
      BY <1>8, <3>1
    <3>2. CASE n # 0
      <4>1. n - 1 \in 0 .. Packages - 1 /\ n - 1 \in 0 .. Packages /\ (n - 1) + 1 = n
        BY <1>0, <3>2
      <4>2. g[(n - 1) + 1] = Arith!Wrap(g[n - 1] + sizes[n - 1])
        BY <1>2, <1>3, <4>1
      <4>3. f[n] = g[n] /\ f[n - 1] = g[n - 1]
        BY <4>1
      <4> HIDE DEF f
      <4> QED
        BY <3>2, <4>1, <4>2, <4>3
    <3> QED
      BY <3>1, <3>2
  <2> QED
    BY <2>1
<1> HIDE DEF f
<1> QED
  BY <1>4

(* Counted is that function.                                               *)
LEMMA CountedIs ==
  ASSUME Arith!TypeOK
  PROVE  /\ Arith!Counted[0] = 0
         /\ \A n \in 0 .. Packages - 1 :
              Arith!Counted[n + 1] = Arith!Wrap(Arith!Counted[n] + physicalCount[n])
<1>0. Packages \in Nat /\ physicalCount \in [0 .. Packages - 1 -> Nat]
  BY BoundsAssumption DEF Arith!TypeOK
<1>4. \E f : f = [n \in 0 .. Packages |->
                   IF n = 0 THEN 0 ELSE Arith!Wrap(f[n - 1] + physicalCount[n - 1])]
  BY <1>0, CountedExists
<1>5. Arith!Counted = [n \in 0 .. Packages |->
                         IF n = 0 THEN 0 ELSE Arith!Wrap(Arith!Counted[n - 1] + physicalCount[n - 1])]
  BY <1>4 DEF Arith!Counted
<1> HIDE DEF Arith!Counted
<1>6. Arith!Counted[0] = 0
  BY <1>0, <1>5
<1>7. ASSUME NEW n \in 0 .. Packages - 1
      PROVE  Arith!Counted[n + 1] = Arith!Wrap(Arith!Counted[n] + physicalCount[n])
  <2>1. n + 1 \in 0 .. Packages /\ n + 1 # 0 /\ (n + 1) - 1 = n
    BY <1>0
  <2>2. Arith!Counted[n + 1] = Arith!Wrap(Arith!Counted[(n + 1) - 1] + physicalCount[(n + 1) - 1])
    BY <1>5, <2>1
  <2> QED
    BY <2>1, <2>2
<1> QED
  BY <1>6, <1>7

(* The cores of the packages before package n.                             *)
Below(n) == {k \in Arith!CoresOf(physicalCount) : k[1] < n}

(* The numbers the cores of a set have.                                    *)
Numbers(cores) == {Arith!numberToPhysicalUnique(k[1], k[2]) : k \in cores}

(* The cores of a machine are finitely many, and as many as the type can   *)
(* count.                                                                  *)
LEMMA CoresAre ==
  ASSUME Arith!TypeOK
  PROVE  /\ Packages \in Nat \ {0} /\ Cores \in Nat
         /\ packageCount \in 0 .. Packages
         /\ physicalCount \in [0 .. Packages - 1 -> 0 .. Cores]
         /\ IsFiniteSet(Arith!CoresOf(physicalCount))
         /\ Cardinality(Arith!CoresOf(physicalCount)) \in Arith!Word
         /\ \A k : k \in Arith!CoresOf(physicalCount) <=>
              \E i \in 0 .. Packages - 1, j \in Nat : j < physicalCount[i] /\ k = <<i, j>>
<1>1. /\ Packages \in Nat \ {0} /\ Cores \in Nat
      /\ packageCount \in 0 .. Packages
      /\ physicalCount \in [0 .. Packages - 1 -> 0 .. Cores]
  BY BoundsAssumption DEF Arith!TypeOK
<1>2. Cardinality(Arith!CoresOf(physicalCount)) \in Arith!Word
  BY ArithCardinality DEF Arith!TypeOK
<1>3. DOMAIN physicalCount = 0 .. Packages - 1
  BY <1>1
<1>4. IsFiniteSet(Arith!CoresOf(physicalCount))
  <2>1. IsFiniteSet(0 .. Packages - 1) /\ IsFiniteSet(0 .. Cores - 1)
    BY <1>1, FS_Interval
  <2>2. IsFiniteSet((0 .. Packages - 1) \X (0 .. Cores - 1))
    BY <2>1, FS_Product
  <2>3. Arith!CoresOf(physicalCount) \in SUBSET ((0 .. Packages - 1) \X (0 .. Cores - 1))
    BY <1>3 DEF Arith!CoresOf
  <2> QED
    BY <2>2, <2>3, FS_Subset
<1>5. ASSUME NEW k, k \in Arith!CoresOf(physicalCount)
      PROVE  \E i \in 0 .. Packages - 1, j \in Nat : j < physicalCount[i] /\ k = <<i, j>>
  <2>1. PICK i \in 0 .. Packages - 1, j \in 0 .. Cores - 1 : k = <<i, j>> /\ j < physicalCount[i]
    BY <1>3, <1>5 DEF Arith!CoresOf
  <2> QED
    BY <2>1
<1>6. ASSUME NEW i \in 0 .. Packages - 1, NEW j \in Nat, j < physicalCount[i]
      PROVE  <<i, j>> \in Arith!CoresOf(physicalCount)
  <2>1. physicalCount[i] \in 0 .. Cores
    BY <1>1
  <2>2. j \in 0 .. Cores - 1 /\ j < physicalCount[i]
    BY <1>1, <1>6, <2>1
  <2> QED
    BY <1>3, <2>2 DEF Arith!CoresOf
<1> QED
  BY <1>1, <1>2, <1>4, <1>5, <1>6

(* Up to any package, the loop has counted the cores before it, and they   *)
(* have the numbers from zero to there.                                    *)
LEMMA BelowNumbered ==
  ASSUME Arith!TypeOK
  PROVE  \A n \in 0 .. Packages :
           /\ Arith!Counted[n] \in Nat /\ Arith!Counted[n] < Arith!Pow2[W]
           /\ IsFiniteSet(Below(n)) /\ Cardinality(Below(n)) = Arith!Counted[n]
           /\ Numbers(Below(n)) = 0 .. Arith!Counted[n] - 1
<1> DEFINE Good(n) == /\ Arith!Counted[n] \in Nat /\ Arith!Counted[n] < Arith!Pow2[W]
                      /\ IsFiniteSet(Below(n)) /\ Cardinality(Below(n)) = Arith!Counted[n]
                      /\ Numbers(Below(n)) = 0 .. Arith!Counted[n] - 1
           S == {n \in Nat : n <= Packages => Good(n)}
<1>0. Arith!Pow2[W] \in Nat \ {0} /\ Packages \in Nat
  BY CoresAre, WordIs
<1>1. Good(0)
  <2>1. Below(0) = {}
    <3> SUFFICES ASSUME NEW k \in Below(0) PROVE FALSE
      OBVIOUS
    <3>1. k \in Arith!CoresOf(physicalCount) /\ k[1] < 0
      BY DEF Below
    <3>2. PICK i \in 0 .. Packages - 1, j \in Nat : j < physicalCount[i] /\ k = <<i, j>>
      BY <3>1, CoresAre
    <3> QED
      BY <3>1, <3>2
  <2>2. Arith!Counted[0] = 0
    BY CountedIs
  <2>3. Numbers({}) = {}
    BY DEF Numbers
  <2>4. 0 .. 0 - 1 = {}
    OBVIOUS
  <2> QED
    BY <1>0, <2>1, <2>2, <2>3, <2>4, FS_EmptySet
<1>2. ASSUME NEW n \in Nat, n + 1 <= Packages, Good(n) PROVE Good(n + 1)
  <2> DEFINE c == Arith!Counted[n]
             m == physicalCount[n]
             B == Below(n)
             T == {n} \X (0 .. m - 1)
  <2>1. n \in 0 .. Packages - 1 /\ m \in Nat /\ c \in Nat
    BY <1>2, CoresAre
  <2>2. Below(n + 1) = B \cup T /\ B \cap T = {}
    <3>1. ASSUME NEW k \in Below(n + 1) PROVE k \in B \cup T
      <4>1. k \in Arith!CoresOf(physicalCount) /\ k[1] < n + 1
        BY DEF Below
      <4>2. PICK i \in 0 .. Packages - 1, j \in Nat : j < physicalCount[i] /\ k = <<i, j>>
        BY <4>1, CoresAre
      <4>3. CASE i = n
        <5>1. j \in 0 .. m - 1
          BY <2>1, <4>2, <4>3
        <5> QED
          BY <4>2, <4>3, <5>1
      <4>4. CASE i # n
        <5>1. k[1] < n
          BY <4>1, <4>2, <4>4
        <5> QED
          BY <4>1, <5>1 DEF Below
      <4> QED
        BY <4>3, <4>4
    <3>2. ASSUME NEW k \in B PROVE k \in Below(n + 1) /\ k \notin T
      <4>1. k \in Arith!CoresOf(physicalCount) /\ k[1] < n
        BY DEF Below
      <4>2. PICK i \in 0 .. Packages - 1, j \in Nat : j < physicalCount[i] /\ k = <<i, j>>
        BY <4>1, CoresAre
      <4>3. i < n /\ k[1] < n + 1
        BY <4>1, <4>2
      <4> QED
        BY <4>1, <4>2, <4>3 DEF Below
    <3>3. ASSUME NEW k \in T PROVE k \in Below(n + 1)
      <4>1. PICK j \in 0 .. m - 1 : k = <<n, j>>
        OBVIOUS
      <4>2. k \in Arith!CoresOf(physicalCount)
        BY <2>1, <4>1, CoresAre
      <4> QED
        BY <4>1, <4>2 DEF Below
    <3> HIDE DEF B, T
    <3> QED
      BY <3>1, <3>2, <3>3
  <2>3. IsFiniteSet(T) /\ Cardinality(T) = m
    <3>1. IsFiniteSet({n}) /\ Cardinality({n}) = 1
      BY FS_Singleton
    <3>2. IsFiniteSet(0 .. m - 1) /\ Cardinality(0 .. m - 1) = m
      <4>1. 0 \in Int /\ m - 1 \in Int
        BY <2>1
      <4>2. IsFiniteSet(0 .. m - 1) /\ Cardinality(0 .. m - 1) = IF 0 > m - 1 THEN 0 ELSE (m - 1) - 0 + 1
        <5> HIDE DEF m
        <5> QED
          BY <4>1, FS_Interval
      <4> HIDE DEF m
      <4> QED
        BY <2>1, <4>2
    <3>3. IsFiniteSet(T) /\ Cardinality(T) = Cardinality({n}) * Cardinality(0 .. m - 1)
      <4> HIDE DEF m
      <4> QED
        BY <3>1, <3>2, FS_Product
    <3>4. 1 * m = m
      BY <2>1
    <3> HIDE DEF T, m
    <3> QED
      BY <3>1, <3>2, <3>3, <3>4
  <2>4. IsFiniteSet(Below(n + 1)) /\ Cardinality(Below(n + 1)) = c + m
    <3>1. IsFiniteSet(B) /\ Cardinality(B) = c
      BY <1>2
    <3> HIDE DEF B, T, c, m
    <3>2. IsFiniteSet(B \cup T) /\ Cardinality(B \cup T) = Cardinality(B) + Cardinality(T) - Cardinality(B \cap T)
      BY <2>3, <3>1, FS_Union
    <3>3. Cardinality(B \cap T) = 0
      BY <2>2, FS_EmptySet
    <3>4. c + m - 0 = c + m
      BY <2>1
    <3>5. Cardinality(B \cup T) = c + m - 0
      BY <2>3, <3>1, <3>2, <3>3
    <3> QED
      BY <2>2, <3>2, <3>4, <3>5
  <2>5. c + m < Arith!Pow2[W]
    <3>1. Below(n + 1) \in SUBSET Arith!CoresOf(physicalCount)
      BY DEF Below
    <3>2. Cardinality(Below(n + 1)) <= Cardinality(Arith!CoresOf(physicalCount))
      BY <3>1, CoresAre, FS_Subset
    <3>3. Cardinality(Arith!CoresOf(physicalCount)) \in 0 .. Arith!Pow2[W] - 1
      BY CoresAre, WordIs
    <3> HIDE DEF c, m
    <3> QED
      BY <1>0, <2>1, <2>4, <3>2, <3>3
  <2>6. Arith!Counted[n + 1] = c + m
    <3>1. Arith!Counted[n + 1] = Arith!Wrap(c + m)
      BY <2>1, CountedIs
    <3>2. c + m \in Nat
      BY <2>1
    <3> HIDE DEF c, m
    <3> QED
      BY <2>5, <3>1, <3>2, WrapIs
  <2>7. Numbers(Below(n + 1)) = Numbers(B) \cup Numbers(T)
    <3> HIDE DEF B, T
    <3> QED
      BY <2>2 DEF Numbers
  <2>8. Numbers(T) = c .. (c + m) - 1
    <3>1. ASSUME NEW j \in 0 .. m - 1 PROVE Arith!numberToPhysicalUnique(n, j) = c + j
      <4>1. c + j \in Nat /\ c + j < Arith!Pow2[W]
        <5> HIDE DEF c, m
        <5> QED
          BY <1>0, <2>1, <2>5
      <4>2. Arith!Wrap(c + j) = c + j
        <5> HIDE DEF c
        <5> QED
          BY <4>1, WrapIs
      <4> QED
        BY <4>2 DEF Arith!numberToPhysicalUnique
    <3>2. Numbers(T) = {Arith!numberToPhysicalUnique(n, j) : j \in 0 .. m - 1}
      <4>1. ASSUME NEW j \in 0 .. m - 1 PROVE Arith!numberToPhysicalUnique(n, j) \in Numbers(T)
        <5>1. <<n, j>> \in T /\ <<n, j>>[1] = n /\ <<n, j>>[2] = j
          OBVIOUS
        <5> QED
          BY <5>1, Zenon DEF Numbers
      <4>2. ASSUME NEW e \in Numbers(T)
            PROVE  e \in {Arith!numberToPhysicalUnique(n, j) : j \in 0 .. m - 1}
        <5>1. PICK k \in T : e = Arith!numberToPhysicalUnique(k[1], k[2])
          BY Zenon DEF Numbers
        <5>2. k[1] = n /\ k[2] \in 0 .. m - 1
          OBVIOUS
        <5> HIDE DEF T, m
        <5> QED
          BY <5>1, <5>2
      <4> HIDE DEF T, m
      <4> QED
        BY <4>1, <4>2
    <3>3. Numbers(T) = {c + j : j \in 0 .. m - 1}
      <4> HIDE DEF T, c, m
      <4> QED
        BY <3>1, <3>2
    <3>4. {c + j : j \in 0 .. m - 1} = c .. (c + m) - 1
      <4> HIDE DEF c, m
      <4>1. ASSUME NEW e \in c .. (c + m) - 1 PROVE \E j \in 0 .. m - 1 : e = c + j
        <5>1. e - c \in 0 .. m - 1 /\ e = c + (e - c)
          BY <2>1
        <5> QED
          BY <5>1
      <4>2. ASSUME NEW j \in 0 .. m - 1 PROVE c + j \in c .. (c + m) - 1
        BY <2>1
      <4> QED
        BY <4>1, <4>2
    <3> QED
      BY <3>3, <3>4
  <2>9. (0 .. c - 1) \cup (c .. (c + m) - 1) = 0 .. (c + m) - 1
    <3> HIDE DEF c, m
    <3> QED
      BY <2>1
  <2>10. Numbers(B) = 0 .. c - 1
    BY <1>2
  <2>11. Numbers(Below(n + 1)) = 0 .. (c + m) - 1
    BY <2>7, <2>8, <2>9, <2>10
  <2> DEFINE e == c + m
  <2>12. e \in Nat
    BY <2>1
  <2>13. /\ Arith!Counted[n + 1] = e /\ e < Arith!Pow2[W]
         /\ IsFiniteSet(Below(n + 1)) /\ Cardinality(Below(n + 1)) = e
         /\ Numbers(Below(n + 1)) = 0 .. e - 1
    BY <2>4, <2>5, <2>6, <2>11
  <2> HIDE DEF e
  <2> QED
    BY <2>12, <2>13
<1>3. 0 \in S
  BY <1>1
<1>4. ASSUME NEW n \in Nat, n \in S PROVE n + 1 \in S
  <2>1. n + 1 <= Packages => n <= Packages
    BY <1>0
  <2> HIDE DEF Good
  <2> QED
    BY <1>2, <1>4, <2>1
<1>5. Nat \subseteq S
  <2> HIDE DEF S
  <2> QED
    BY <1>3, <1>4, NatSetInduction
<1>6. \A n \in 0 .. Packages : Good(n)
  <2> HIDE DEF Good
  <2> QED
    BY <1>0, <1>5
<1> QED
  BY <1>6

(* numberToPhysicalUnique and totalPhysical of kern_cpu.hpp: the numbers   *)
(* of all cores are those from zero to how many there are.                 *)
LEMMA CoresAreNumbered ==
  ASSUME Arith!TypeOK
  PROVE  Arith!CoresNumbered
<1> DEFINE C == Arith!CoresOf(physicalCount)
<1>1. Below(packageCount) = C
  <2>1. ASSUME NEW k \in C PROVE k[1] < packageCount
    <3>1. PICK i \in 0 .. Packages - 1, j \in Nat : j < physicalCount[i] /\ k = <<i, j>>
      BY CoresAre
    <3>2. physicalCount[i] # 0
      BY <3>1, CoresAre
    <3>3. ~(i >= packageCount)
      BY <3>2, CoresAre DEF Arith!TypeOK
    <3> QED
      BY <3>1, <3>3, CoresAre
  <2> QED
    BY <2>1 DEF Below
<1>2. Arith!totalPhysical = Arith!Counted[packageCount]
  <2>1. CASE packageCount = 0
    <3>1. 0 \in DOMAIN physicalCount /\ 0 >= packageCount
      BY <2>1, CoresAre
    <3>2. physicalCount[0] = 0
      BY <3>1 DEF Arith!TypeOK
    <3> QED
      BY <2>1, <3>2, CountedIs DEF Arith!totalPhysical
  <2>2. CASE packageCount # 0
    BY <2>2 DEF Arith!totalPhysical
  <2> QED
    BY <2>1, <2>2
<1>3. packageCount \in 0 .. Packages
  BY CoresAre
<1>4. Cardinality(C) = Arith!totalPhysical /\ Numbers(C) = 0 .. Arith!totalPhysical - 1
  BY <1>1, <1>2, <1>3, BelowNumbered
<1> QED
  BY <1>4, ArithCardinality DEF Arith!CoresNumbered, Numbers

(* The machine there is before a caller has picked one has no cores.       *)
LEMMA NoCores ==
  ASSUME NEW f, f = [i \in 0 .. Packages - 1 |-> 0]
  PROVE  /\ f \in [0 .. Packages - 1 -> 0 .. Cores]
         /\ \A i \in DOMAIN f : f[i] = 0 <=> i >= 0
         /\ Arith!Cardinality(Arith!CoresOf(f)) \in Arith!Word
<1>1. Arith!CoresOf(f) = {}
  BY DEF Arith!CoresOf
<1>2. Arith!Cardinality(Arith!CoresOf(f)) = 0
  BY <1>1, ArithCardinality, FS_EmptySet
<1>3. f \in [0 .. Packages - 1 -> 0 .. Cores] /\ \A i \in DOMAIN f : f[i] = 0 <=> i >= 0
  BY BoundsAssumption
<1> QED
  BY <1>2, <1>3, WordIs

(* The arguments a caller gives stay what the helpers are meant for.       *)
LEMMA ArithTypes == Arith!Spec => []Arith!TypeOK
<1>0. Packages \in Nat \ {0} /\ Cores \in Nat /\ 0 \in Arith!Word
  BY BoundsAssumption, WordIs
<1>1. Arith!Init => Arith!TypeOK
  <2> SUFFICES ASSUME Arith!Init PROVE Arith!TypeOK
    OBVIOUS
  <2>1. /\ x = 0 /\ y = 0 /\ packageCount = 0 /\ picked = FALSE
        /\ physicalCount = [i \in 0 .. Packages - 1 |-> 0]
    BY DEF Arith!Init
  <2>2. /\ physicalCount \in [0 .. Packages - 1 -> 0 .. Cores]
        /\ \A i \in DOMAIN physicalCount : physicalCount[i] = 0 <=> i >= 0
        /\ Arith!Cardinality(Arith!CoresOf(physicalCount)) \in Arith!Word
    BY <2>1, NoCores
  <2>3. \A i \in DOMAIN physicalCount : physicalCount[i] = 0 <=> i >= packageCount
    BY <2>1, <2>2, Zenon
  <2>4. packageCount \in 0 .. Packages /\ x \in Arith!Word /\ y \in Arith!Word
    BY <1>0, <2>1
  <2>5. picked \in BOOLEAN
    BY <2>1
  <2> QED
    BY <2>2, <2>3, <2>4, <2>5, Zenon DEF Arith!TypeOK
<1>2. Arith!TypeOK /\ [Arith!Next]_Arith!vars => Arith!TypeOK'
  <2> SUFFICES ASSUME Arith!TypeOK, [Arith!Next]_Arith!vars PROVE Arith!TypeOK'
    OBVIOUS
  <2>1. CASE Arith!Pick
    <3>1. CASE x' \in Arith!Word /\ y' \in Arith!Word /\ UNCHANGED <<packageCount, physicalCount>>
      BY <2>1, <3>1 DEF Arith!Pick, Arith!TypeOK
    <3>2. CASE /\ packageCount' \in 1 .. Packages
               /\ physicalCount' \in
                    {f \in [0 .. Packages - 1 -> 0 .. Cores] :
                       /\ \A i \in DOMAIN f : f[i] = 0 <=> i >= packageCount'
                       /\ Arith!Cardinality(Arith!CoresOf(f)) \in Arith!Word}
               /\ UNCHANGED <<x, y>>
      BY <2>1, <3>2 DEF Arith!Pick, Arith!TypeOK
    <3> QED
      BY <2>1, <3>1, <3>2 DEF Arith!Pick
  <2>2. CASE Arith!Done
    <3>1. /\ x' = 0 /\ y' = 0 /\ packageCount' = 0 /\ picked' = FALSE
          /\ physicalCount' = [i \in 0 .. Packages - 1 |-> 0]
      BY <2>2 DEF Arith!Done
    <3>2. /\ physicalCount' \in [0 .. Packages - 1 -> 0 .. Cores]
          /\ \A i \in DOMAIN physicalCount' : physicalCount'[i] = 0 <=> i >= 0
          /\ Arith!Cardinality(Arith!CoresOf(physicalCount')) \in Arith!Word
      BY <3>1, NoCores
    <3>3. \A i \in DOMAIN physicalCount' : physicalCount'[i] = 0 <=> i >= packageCount'
      BY <3>1, <3>2, Zenon
    <3>4. packageCount' \in 0 .. Packages /\ x' \in Arith!Word /\ y' \in Arith!Word
      BY <1>0, <3>1
    <3>5. picked' \in BOOLEAN
      BY <3>1
    <3> QED
      BY <3>2, <3>3, <3>4, <3>5, Zenon DEF Arith!TypeOK
  <2>3. CASE UNCHANGED Arith!vars
    BY <2>3 DEF Arith!vars, Arith!TypeOK
  <2> QED
    BY <2>1, <2>2, <2>3 DEF Arith!Next
<1> QED
  BY <1>1, <1>2, PTL DEF Arith!Spec

(* The arithmetic helpers of the Lilu headers do what they are for,        *)
(* whatever a caller passes them: for integers of any width, machines of   *)
(* any number of packages, and packages of any number of cores, as long as *)
(* the type can count them.                                                *)
THEOREM HelpersAlwaysAgree == Arith!Spec => []HelpersAgree
<1>1. Arith!TypeOK => HelpersAgree
  BY FieldsAreIndependent, AlignmentIsLeast, TimersDoAgree, CoresAreNumbered
  DEF HelpersAgree, Arith!HelpersAgree
<1> QED
  BY <1>1, ArithTypes, PTL
=============================================================================
