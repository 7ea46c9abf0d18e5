--------------------------- MODULE ThreadLocalProofs ---------------------------
(***************************************************************************)
(* Theorems about ThreadLocal, for any number of threads, slots and        *)
(* values.                                                                 *)
(***************************************************************************)
EXTENDS ThreadLocal, FiniteSetTheorems, TLAPS

(* Goto changes the place and the index of one thread only.                *)
LEMMA GotoOne ==
  ASSUME TypeOK, NEW t \in Threads, NEW place \in Places, NEW index \in 0 .. N,
         Goto(t, place, index)
  PROVE  /\ pc' \in [Threads -> Places] /\ i' \in [Threads -> 0 .. N]
         /\ pc'[t] = place /\ i'[t] = index
         /\ \A u \in Threads \ {t} : pc'[u] = pc[u] /\ i'[u] = i[u]
  BY DEF TypeOK, Goto

(* Sets of threads are finite, and a subset has no more members.           *)
LEMMA Fewer ==
  ASSUME NEW A \in SUBSET Threads, NEW B \in SUBSET A
  PROVE  /\ IsFiniteSet(A) /\ IsFiniteSet(B)
         /\ Cardinality(A) \in Nat /\ Cardinality(B) \in Nat
         /\ Cardinality(B) <= Cardinality(A)
  <1>1. IsFiniteSet(A)
    BY ThreadsAssumption, FS_Subset
  <1>2. IsFiniteSet(B) /\ Cardinality(B) <= Cardinality(A)
    BY <1>1, FS_Subset
  <1> QED
    BY <1>1, <1>2, FS_CardinalityType

(* A step after which no thread has reached further keeps the ladder.      *)
LEMMA LadderShrinks ==
  ASSUME Ladder, \A s \in 0 .. N : Beyond(s)' \subseteq Beyond(s)
  PROVE  Ladder'
  <1> SUFFICES ASSUME NEW s \in 0 .. N, Beyond(s)' # {}
               PROVE  Cardinality(Beyond(s)') + s <= Cardinality(Threads)
    BY DEF Ladder
  <1>1. Beyond(s) \in SUBSET Threads /\ Beyond(s)' \in SUBSET Beyond(s)
    BY DEF Beyond
  <1>2. Beyond(s) # {}
    BY <1>1
  <1>3. Cardinality(Beyond(s)) + s <= Cardinality(Threads)
    BY <1>2 DEF Ladder
  <1>4. Cardinality(Threads) \in Nat
    BY ThreadsAssumption, FS_CardinalityType
  <1>5. /\ Cardinality(Beyond(s)) \in Nat /\ Cardinality(Beyond(s)') \in Nat
        /\ Cardinality(Beyond(s)') <= Cardinality(Beyond(s))
    BY <1>1, Fewer
  <1>6. s \in Int
    BY SlotsAssumption
  <1> QED
    BY <1>3, <1>4, <1>5, <1>6

(* A thread that goes on past a slot leaves the slot's owner behind.       *)
LEMMA LadderPasses ==
  ASSUME IInv, NEW t \in Threads, pc[t] = "claim", i[t] < N, threads[i[t]] # NoThread,
         Goto(t, "claim", i[t] + 1), UNCHANGED threads
  PROVE  Ladder'
  <1>0. i[t] \in Slots
    BY SlotsAssumption DEF IInv, TypeOK, Slots
  <1>k. PICK k \in Slots : k = i[t]
    BY <1>0
  <1>1. k \in Slots /\ k + 1 \in 0 .. N /\ k \in 0 .. N /\ k \in Int
    BY SlotsAssumption DEF Slots
  <1>2. PICK u \in Threads : u = threads[k] /\ u # t
    BY <1>k DEF IInv, TypeOK, Located, Owns
  <1>3. /\ pc' \in [Threads -> Places] /\ i' \in [Threads -> 0 .. N]
        /\ pc'[t] = "claim" /\ i'[t] = k + 1
        /\ \A w \in Threads \ {t} : pc'[w] = pc[w] /\ i'[w] = i[w]
    BY <1>1, <1>k, GotoOne DEF IInv, Places
  <1>4. \A w \in Threads \ {t} : \A s \in 0 .. N : Reached(w, s)' <=> Reached(w, s)
    BY <1>3 DEF Reached, Owns
  <1>5. \A s \in 0 .. N : s # k + 1 => Beyond(s)' \subseteq Beyond(s)
    <2> SUFFICES ASSUME NEW s \in 0 .. N, s # k + 1, Reached(t, s)'
                 PROVE  Reached(t, s)
      BY <1>4 DEF Beyond
    <2> QED
      BY <1>1, <1>3, <1>k, SlotsAssumption DEF Reached, Owns
  <1>6. Beyond(k + 1)' \subseteq Beyond(k) \ {u}
    <2>1. ~Reached(u, k + 1)
      <3>1. \A r \in Slots : Owns(u, r) => r = k
        BY <1>1, <1>2, ThreadsAssumption DEF IInv, OneSlot, Owns
      <3>2. pc[u] \notin {"claim", "full"}
        BY <1>1, <1>2 DEF IInv, Located, Owns
      <3> QED
        BY <3>1, <3>2, <1>1 DEF Reached, Slots
    <2>2. \A w \in Threads \ {t} : Reached(w, k + 1) => Reached(w, k)
      BY <1>1, SlotsAssumption DEF Reached, Slots, IInv, TypeOK
    <2>3. Reached(t, k)
      BY <1>1, <1>k DEF Reached
    <2> SUFFICES ASSUME NEW w \in Threads, Reached(w, k + 1)'
                 PROVE  Reached(w, k) /\ w # u
      BY DEF Beyond
    <2>4. CASE w = t
      BY <2>3, <2>4, <1>2
    <2>5. CASE w # t
      BY <2>1, <2>2, <2>5, <1>1, <1>4
    <2> QED
      BY <2>4, <2>5
  <1>7. ASSUME NEW s \in 0 .. N, Beyond(s)' # {}
        PROVE  Cardinality(Beyond(s)') + s <= Cardinality(Threads)
    <2>1. Cardinality(Threads) \in Nat
      BY ThreadsAssumption, FS_CardinalityType
    <2>2. CASE s # k + 1
      <3>1. Beyond(s) # {} /\ Beyond(s) \in SUBSET Threads /\ Beyond(s)' \in SUBSET Beyond(s)
        BY <1>5, <1>7, <2>2 DEF Beyond
      <3>2. Cardinality(Beyond(s)) + s <= Cardinality(Threads)
        BY <3>1 DEF IInv, Ladder
      <3>3. s \in Int
        BY SlotsAssumption
      <3>4. /\ Cardinality(Beyond(s)) \in Nat /\ Cardinality(Beyond(s)') \in Nat
            /\ Cardinality(Beyond(s)') <= Cardinality(Beyond(s))
        BY <3>1, Fewer
      <3> QED
        BY <3>2, <3>3, <3>4, <2>1
    <2>3. CASE s = k + 1
      <3>1. u \in Beyond(k) /\ Beyond(k) \in SUBSET Threads
        BY <1>1, <1>2 DEF Beyond, Reached, Owns
      <3>2. Cardinality(Beyond(k)) + k <= Cardinality(Threads)
        BY <3>1, <1>1 DEF IInv, Ladder
      <3>3. IsFiniteSet(Beyond(k)) /\ Cardinality(Beyond(k)) \in Nat
        BY <3>1, Fewer
      <3>4. Cardinality(Beyond(k) \ {u}) = Cardinality(Beyond(k)) - 1
        BY <3>1, <3>3, FS_RemoveElement
      <3>5. Beyond(k) \ {u} \in SUBSET Threads
        BY <3>1
      <3>6. /\ Cardinality(Beyond(k + 1)') \in Nat /\ Cardinality(Beyond(k) \ {u}) \in Nat
            /\ Cardinality(Beyond(k + 1)') <= Cardinality(Beyond(k) \ {u})
        BY <1>6, <3>5, Fewer
      <3>7. Cardinality(Beyond(k + 1)') + (k + 1) <= Cardinality(Threads)
        BY <2>1, <3>2, <3>3, <3>4, <3>6, <1>1
      <3> QED
        BY <2>3, <3>7
    <2> QED
      BY <2>2, <2>3
  <1> QED
    BY <1>7 DEF Ladder

(* The steps that leave identifiers, values and the ladder alone.          *)
LEMMA Moves ==
  ASSUME IInv, NEW t \in Threads, NEW place \in Places, NEW index \in 0 .. N,
         Goto(t, place, index), UNCHANGED <<shared, last, down>>, down = -1,
         arg' \in [Threads -> Values \cup {Empty}],
         place \in OnSlot => index < N /\ Owns(t, index),
         place \in {"claim", "full"} => \A s \in Slots : ~Owns(t, s),
         place \in {"find", "get", "erase"} => \A s \in Slots : s < index => ~Owns(t, s),
         place # "release", place = "full" => index = N,
         \A s \in 0 .. N : Reached(t, s)' => Reached(t, s)
  PROVE  IInv'
  <1> USE DEF shared
  <1>1. /\ pc' \in [Threads -> Places] /\ i' \in [Threads -> 0 .. N]
        /\ pc'[t] = place /\ i'[t] = index
        /\ \A u \in Threads \ {t} : pc'[u] = pc[u] /\ i'[u] = i[u]
    BY GotoOne DEF IInv
  <1>2. TypeOK' /\ OneSlot' /\ CleanClaim' /\ Kept'
    BY <1>1 DEF IInv, TypeOK, OneSlot, CleanClaim, Kept
  <1>3. Located'
    BY <1>1 DEF IInv, Located, Owns
  <1>4. Stored' /\ Stopped'
    BY <1>1 DEF IInv, Stored, Stopped, Owns
  <1>5. Ladder'
    <2>1. \A w \in Threads, s \in 0 .. N : Reached(w, s)' => Reached(w, s)
      BY <1>1 DEF Reached, Owns
    <2> QED
      BY <2>1, LadderShrinks DEF IInv, Beyond
  <1> QED
    BY <1>2, <1>3, <1>4, <1>5 DEF IInv

(* IInv is inductive.                                                      *)
LEMMA Initially == Init => IInv
  <1> SUFFICES ASSUME Init PROVE IInv
    OBVIOUS
  <1>1. TypeOK
    BY SlotsAssumption DEF Init, TypeOK, Places, Slots
  <1>2. OneSlot /\ CleanClaim /\ Located /\ Stored /\ Stopped /\ Kept
    BY ThreadsAssumption
       DEF Init, OneSlot, CleanClaim, Located, Stored, Stopped, Kept, Owns, OnSlot, Slots
  <1>3. Ladder
    <2> SUFFICES ASSUME NEW s \in 0 .. N, Beyond(s) # {}
                 PROVE  Cardinality(Beyond(s)) + s <= Cardinality(Threads)
      BY DEF Ladder
    <2>1. s = 0
      BY ThreadsAssumption DEF Init, Beyond, Reached, Owns
    <2>2. Beyond(s) = Threads
      BY <2>1 DEF Beyond, Reached
    <2>3. Cardinality(Threads) \in Nat
      BY ThreadsAssumption, FS_CardinalityType
    <2>4. Cardinality(Beyond(s)) = Cardinality(Threads)
      BY <2>2
    <2> QED
      BY <2>1, <2>4, <2>3
  <1> QED
    BY <1>1, <1>2, <1>3 DEF IInv

LEMMA Steps ==
  ASSUME IInv, NEW t \in Threads, Step(t)
  PROVE  IInv'
  <1> USE DEF shared, local
  <1>d. down = -1
    BY DEF IInv, Stopped, TypeOK, Step, CallSet, Call, Search, Claim, Refuse, Store,
           Use, Wipe, Release
  <1>n. \A s \in Slots : s \in 0 .. N /\ s < N /\ s \in Int
    BY SlotsAssumption DEF Slots
  <1>i. i[t] \in 0 .. N /\ (i[t] < N => i[t] \in Slots) /\ i[t] \in Int /\ 0 \in 0 .. N
        /\ N \in 0 .. N
    BY SlotsAssumption DEF IInv, TypeOK, Slots
  <1>1. CASE \E v \in Values : CallSet(t, v)
    <2> PICK v \in Values : CallSet(t, v)
      BY <1>1
    <2>1. Goto(t, "find", 0) /\ UNCHANGED <<shared, last, down>>
          /\ arg' \in [Threads -> Values \cup {Empty}]
      BY DEF CallSet, IInv, TypeOK
    <2>2. pc'[t] = "find"
      BY <2>1, <1>i, GotoOne DEF IInv, Places
    <2>3. \A s \in 0 .. N : Reached(t, s)' => Reached(t, s)
      BY <2>1, <2>2 DEF Reached, Owns
    <2> QED
      BY <2>1, <2>3, <1>d, <1>i, <1>n, Moves DEF Places, OnSlot
  <1>2. CASE \E place \in {"get", "erase"} : Call(t, place)
    <2> PICK place \in {"get", "erase"} : Call(t, place)
      BY <1>2
    <2>1. Goto(t, place, 0) /\ UNCHANGED <<shared, last, down>>
          /\ arg' \in [Threads -> Values \cup {Empty}]
      BY DEF Call, IInv, TypeOK
    <2>2. pc'[t] = place
      BY <2>1, <1>i, GotoOne DEF IInv, Places
    <2>3. \A s \in 0 .. N : Reached(t, s)' => Reached(t, s)
      BY <2>1, <2>2 DEF Reached, Owns
    <2> QED
      BY <2>1, <2>3, <1>d, <1>i, <1>n, Moves DEF Places, OnSlot
  <1>3. CASE \E loop \in {"find", "get", "erase"} : Search(t, loop)
    <2> PICK loop \in {"find", "get", "erase"} : Search(t, loop)
      BY <1>3
    <2>1. UNCHANGED <<shared, last, down>> /\ arg' \in [Threads -> Values \cup {Empty}]
      BY DEF Search, IInv, TypeOK
    <2>2. pc[t] = loop /\ \A s \in Slots : s < i[t] => ~Owns(t, s)
      BY DEF Search, IInv, Located
    <2>3. CASE i[t] = N /\ Goto(t, Missed[loop], 0)
      <3>1. Missed[loop] \in {"claim", "idle"}
        BY DEF Missed
      <3>2. pc'[t] \in {"claim", "idle"} /\ i'[t] = 0
        BY <2>3, <3>1, <1>i, GotoOne DEF IInv, Places
      <3>3. \A s \in 0 .. N : Reached(t, s)' => Reached(t, s)
        BY <2>1, <3>2, SlotsAssumption DEF Reached, Owns
      <3> QED
        BY <2>1, <2>2, <2>3, <3>1, <3>3, <1>d, <1>i, <1>n, Moves DEF Places, OnSlot
    <2>4. CASE i[t] < N /\ threads[i[t]] = t /\ Goto(t, Found[loop], i[t])
      <3>1. Found[loop] \in {"store", "held", "wipe"}
        BY DEF Found
      <3>2. pc'[t] \in {"store", "held", "wipe"}
        BY <2>4, <3>1, <1>i, GotoOne DEF IInv, Places
      <3>3. \A s \in 0 .. N : Reached(t, s)' => Reached(t, s)
        BY <2>1, <3>2 DEF Reached, Owns
      <3> QED
        BY <2>1, <2>4, <3>1, <3>3, <1>d, <1>i, <1>n, Moves DEF Places, OnSlot, Owns
    <2>5. CASE i[t] < N /\ threads[i[t]] # t /\ Goto(t, loop, i[t] + 1)
      <3>1. i[t] + 1 \in 0 .. N
        BY <1>i, <2>5, SlotsAssumption
      <3>2. pc'[t] = loop
        BY <2>5, <3>1, GotoOne DEF IInv, Places
      <3>3. \A s \in 0 .. N : Reached(t, s)' => Reached(t, s)
        BY <2>1, <3>2 DEF Reached, Owns
      <3>4. \A s \in Slots : s < i[t] + 1 => ~Owns(t, s)
        BY <2>2, <2>5, <1>i, <1>n DEF Owns
      <3> QED
        BY <2>1, <2>5, <3>1, <3>3, <3>4, <1>d, Moves DEF Places, OnSlot
    <2> QED
      BY <2>3, <2>4, <2>5 DEF Search
  <1>4. CASE Claim(t)
    <2>1. UNCHANGED <<values, arg, last, down>> /\ pc[t] = "claim" /\ \A s \in Slots : ~Owns(t, s)
      BY <1>4 DEF Claim, IInv, Located
    <2>2. CASE i[t] = N /\ Goto(t, "full", N) /\ UNCHANGED threads
      <3>1. pc'[t] = "full" /\ i'[t] = i[t]
        BY <2>2, <1>i, GotoOne DEF IInv, Places
      <3>2. \A s \in 0 .. N : Reached(t, s)' => Reached(t, s)
        BY <2>1, <2>2, <3>1 DEF Reached, Owns
      <3>3. arg' \in [Threads -> Values \cup {Empty}]
        BY <2>1 DEF IInv, TypeOK
      <3> QED
        BY <2>1, <2>2, <3>2, <3>3, <1>d, <1>i, Moves DEF Places, OnSlot
    <2>3. CASE /\ i[t] < N /\ threads[i[t]] = NoThread
               /\ threads' = [threads EXCEPT ![i[t]] = t]
               /\ Goto(t, "store", i[t])
      <3>1. i[t] \in Slots /\ t # NoThread /\ "store" \in Places
        BY <2>3, <1>i, ThreadsAssumption DEF Places
      <3>2. /\ pc' \in [Threads -> Places] /\ i' \in [Threads -> 0 .. N]
            /\ pc'[t] = "store" /\ i'[t] = i[t]
            /\ \A u \in Threads \ {t} : pc'[u] = pc[u] /\ i'[u] = i[u]
        BY <2>3, <3>1, <1>i, GotoOne DEF IInv
      <3>3. /\ threads' \in [Slots -> Threads \cup {NoThread}] /\ threads'[i[t]] = t
            /\ \A s \in Slots : s # i[t] => threads'[s] = threads[s]
        BY <2>3, <3>1 DEF IInv, TypeOK
      <3>4. TypeOK' /\ OneSlot'
        BY <2>1, <3>1, <3>2, <3>3 DEF IInv, TypeOK, OneSlot, Owns
      <3>5. CleanClaim' /\ Kept' /\ Stopped'
        BY <2>1, <3>1, <3>2, <3>3, <1>d, <1>n DEF IInv, CleanClaim, Kept, Stopped, Slots
      <3>6. Located'
        <4>1. \A u \in Threads \ {t}, s \in Slots : Owns(u, s)' <=> Owns(u, s)
          BY <2>3, <3>3, ThreadsAssumption DEF Owns
        <4>2. \A u \in Threads \ {t} : i[u] \in Int /\ (pc[u] \in OnSlot => i[u] \in Slots)
          BY SlotsAssumption DEF IInv, TypeOK, Located, Slots
        <4>3. Owns(t, i[t])' /\ i'[t] < N
          BY <2>3, <3>2, <3>3 DEF Owns
        <4>4. \A u \in Threads \ {t} : pc[u] \in OnSlot => Owns(u, i[u])'
          BY <3>2, <4>1, <4>2 DEF IInv, Located, Owns
        <4> QED
          BY <3>2, <4>1, <4>2, <4>3, <4>4, <2>1 DEF IInv, Located, OnSlot, Owns
      <3>7. Stored'
        <4>1. last[t] = Empty /\ values[i[t]] = Empty
          BY <2>1, <2>3, <3>1, <1>d, <1>n DEF IInv, Stored, CleanClaim
        <4>2. \A u \in Threads, s \in Slots : s # i[t] => (Owns(u, s)' <=> Owns(u, s))
          BY <3>3 DEF Owns
        <4>3. \A u \in Threads \ {t} : ~Owns(u, i[t]) /\ ~(threads'[i[t]] = u)
          BY <2>3, <3>3, ThreadsAssumption DEF Owns
        <4> QED
          BY <4>1, <4>2, <4>3, <2>1, <3>1, <3>3 DEF IInv, Stored, Owns
      <3>8. Ladder'
        <4>1. \A w \in Threads, s \in 0 .. N : Reached(w, s)' => Reached(w, s)
          BY <2>1, <3>1, <3>2, <3>3 DEF Reached, Owns
        <4> QED
          BY <4>1, LadderShrinks DEF IInv, Beyond
      <3> QED
        BY <3>4, <3>5, <3>6, <3>7, <3>8 DEF IInv
    <2>4. CASE i[t] < N /\ threads[i[t]] # NoThread /\ Goto(t, "claim", i[t] + 1) /\ UNCHANGED threads
      <3>1. i[t] + 1 \in 0 .. N /\ "claim" \in Places
        BY <1>i, <2>4, SlotsAssumption DEF Places
      <3>2. /\ pc' \in [Threads -> Places] /\ i' \in [Threads -> 0 .. N]
            /\ pc'[t] = "claim"
            /\ \A u \in Threads \ {t} : pc'[u] = pc[u] /\ i'[u] = i[u]
        BY <2>4, <3>1, GotoOne DEF IInv
      <3>3. TypeOK' /\ OneSlot' /\ CleanClaim' /\ Kept' /\ Stored'
        BY <2>1, <2>4, <3>2 DEF IInv, TypeOK, OneSlot, CleanClaim, Kept, Stored, Owns
      <3>4. Located' /\ Stopped'
        BY <2>1, <2>4, <3>2, <1>d DEF IInv, Located, Stopped, Owns, OnSlot
      <3>5. Ladder'
        BY <2>1, <2>4, LadderPasses
      <3> QED
        BY <3>3, <3>4, <3>5 DEF IInv
    <2> QED
      BY <1>4, <2>1, <2>2, <2>3, <2>4 DEF Claim
  <1>5. CASE Refuse(t) \/ Use(t)
    <2>1. /\ Goto(t, "idle", 0) /\ UNCHANGED <<shared, last, down>>
          /\ arg' \in [Threads -> Values \cup {Empty}]
      BY <1>5 DEF Refuse, Use, IInv, TypeOK
    <2>2. pc'[t] = "idle"
      BY <2>1, <1>i, GotoOne DEF IInv, Places
    <2>3. \A s \in 0 .. N : Reached(t, s)' => Reached(t, s)
      BY <2>1, <2>2 DEF Reached, Owns
    <2> QED
      BY <2>1, <2>3, <1>d, <1>i, Moves DEF Places, OnSlot
  <1>6. CASE Store(t) \/ Wipe(t)
    <2>1. i[t] \in Slots /\ threads[i[t]] = t
      BY <1>6, <1>i DEF Store, Wipe, IInv, Located, Owns, OnSlot
    <2>2. PICK place \in {"idle", "release"}, index \in {0, i[t]}, v \in Values \cup {Empty} :
            /\ Goto(t, place, index) /\ (place = "release" => index = i[t] /\ v = Empty)
            /\ values' = [values EXCEPT ![i[t]] = v]
            /\ last' = [last EXCEPT ![t] = v]
            /\ UNCHANGED <<threads, arg, down>>
      BY <1>6 DEF Store, Wipe, IInv, TypeOK
    <2>3. /\ pc' \in [Threads -> Places] /\ i' \in [Threads -> 0 .. N]
          /\ pc'[t] = place /\ i'[t] = index
          /\ \A u \in Threads \ {t} : pc'[u] = pc[u] /\ i'[u] = i[u]
      BY <2>2, <1>i, GotoOne DEF IInv, Places
    <2>4. /\ values' \in [Slots -> Values \cup {Empty}] /\ values'[i[t]] = v
          /\ \A s \in Slots : s # i[t] => values'[s] = values[s]
      BY <2>1, <2>2 DEF IInv, TypeOK
    <2>5. /\ last' \in [Threads -> Values \cup {Empty}] /\ last'[t] = v
          /\ \A u \in Threads \ {t} : last'[u] = last[u]
      BY <2>2 DEF IInv, TypeOK
    <2>6. TypeOK' /\ OneSlot'
      BY <2>2, <2>3, <2>4, <2>5 DEF IInv, TypeOK, OneSlot
    <2>7. CleanClaim' /\ Kept' /\ Stopped'
      BY <2>1, <2>2, <2>3, <2>4, <1>d, <1>n, ThreadsAssumption
         DEF IInv, CleanClaim, Kept, Stopped, Slots
    <2>8. Located'
      <3>1. \A u \in Threads \ {t} : pc'[u] = pc[u] /\ i'[u] = i[u] /\ last'[u] = last[u]
        BY <2>3, <2>5
      <3>2. place = "release" => i'[t] = i[t] /\ last'[t] = Empty /\ i[t] < N
        BY <2>1, <2>2, <2>3, <2>5, <1>n
      <3> QED
        BY <2>1, <2>2, <2>3, <3>1, <3>2 DEF IInv, Located, Owns, OnSlot
    <2>9. Stored'
      <3>1. \A s \in Slots : Owns(t, s) => s = i[t]
        BY <2>1, ThreadsAssumption DEF IInv, OneSlot, Owns
      <3>2. \A u \in Threads \ {t} : ~Owns(u, i[t])
        BY <2>1 DEF Owns
      <3>3. \A u \in Threads \ {t}, s \in Slots : Owns(u, s) => values'[s] = values[s]
        BY <2>4, <3>2
      <3> QED
        BY <2>1, <2>2, <2>4, <2>5, <3>1, <3>3 DEF IInv, Stored, Owns
    <2>10. Ladder'
      <3>1. \A w \in Threads, s \in 0 .. N : Reached(w, s)' => Reached(w, s)
        BY <2>2, <2>3 DEF Reached, Owns
      <3> QED
        BY <3>1, LadderShrinks DEF IInv, Beyond
    <2> QED
      BY <2>6, <2>7, <2>8, <2>9, <2>10 DEF IInv
  <1>7. CASE Release(t)
    <2>1. i[t] \in Slots /\ threads[i[t]] = t /\ values[i[t]] = Empty /\ last[t] = Empty
      BY <1>7, <1>i, <1>d DEF Release, IInv, Located, Stored, Owns, OnSlot
    <2>2. /\ pc' \in [Threads -> Places] /\ i' \in [Threads -> 0 .. N]
          /\ pc'[t] = "idle" /\ i'[t] = 0
          /\ \A u \in Threads \ {t} : pc'[u] = pc[u] /\ i'[u] = i[u]
      BY <1>7, <1>i, GotoOne DEF Release, IInv, Places
    <2>3. /\ threads' \in [Slots -> Threads \cup {NoThread}] /\ threads'[i[t]] = NoThread
          /\ \A s \in Slots : s # i[t] => threads'[s] = threads[s]
      BY <1>7, <2>1 DEF Release, IInv, TypeOK
    <2>4. \A s \in Slots : s # i[t] => threads[s] # t
      BY <2>1, ThreadsAssumption DEF IInv, OneSlot
    <2>5. UNCHANGED <<values, arg, last, down>>
      BY <1>7 DEF Release
    <2>6. TypeOK' /\ OneSlot' /\ CleanClaim'
      BY <2>1, <2>2, <2>3, <2>5 DEF IInv, TypeOK, OneSlot, CleanClaim
    <2>7. Kept' /\ Stopped'
      BY <2>2, <2>3, <2>5, <1>d, <1>n DEF IInv, Kept, Stopped
    <2>11. \A u \in Threads \ {t}, s \in Slots : Owns(u, s)' <=> Owns(u, s)
      BY <2>1, <2>3, ThreadsAssumption DEF Owns
    <2>8. Located'
      <3>1. \A u \in Threads \ {t} : pc[u] \in OnSlot => i[u] \in Slots
        BY SlotsAssumption DEF IInv, TypeOK, Located, Slots
      <3>2. \A u \in Threads \ {t} : pc[u] \in OnSlot => Owns(u, i[u])'
        BY <2>2, <2>11, <3>1 DEF IInv, Located, Owns
      <3> QED
        BY <2>2, <2>5, <2>11, <3>1, <3>2 DEF IInv, Located, Owns, OnSlot
    <2>9. Stored'
      <3>1. \A u \in Threads \ {t}, s \in Slots : Owns(u, s)' <=> Owns(u, s)
        BY <2>11
      <3>2. \A s \in Slots : ~Owns(t, s)'
        BY <2>3, <2>4, ThreadsAssumption DEF Owns
      <3> QED
        BY <2>1, <2>5, <3>1, <3>2 DEF IInv, Stored
    <2>10. Ladder'
      <3>1. \A w \in Threads, s \in Slots : Owns(w, s)' => Owns(w, s)
        BY <2>3, ThreadsAssumption DEF Owns
      <3>2. \A w \in Threads, s \in 0 .. N : Reached(w, s)' => Reached(w, s)
        BY <2>2, <3>1 DEF Reached
      <3> QED
        BY <3>2, LadderShrinks DEF IInv, Beyond
    <2> QED
      BY <2>6, <2>7, <2>8, <2>9, <2>10 DEF IInv
  <1> QED
    BY <1>1, <1>2, <1>3, <1>4, <1>5, <1>6, <1>7 DEF Step

LEMMA Deinits ==
  ASSUME IInv, BeginDeinit \/ Deinit
  PROVE  IInv'
  <1> USE DEF shared, local
  <1> DEFINE k == IF down = -1 THEN 0 ELSE down + 1
  <1>1. /\ UNCHANGED local /\ \A t \in Threads : pc[t] = "idle"
        /\ last' = [t \in Threads |-> Empty]
    <2>1. CASE BeginDeinit
      BY <2>1 DEF BeginDeinit
    <2>2. CASE Deinit
      <3>1. down # -1
        BY <2>2 DEF Deinit, IInv, TypeOK
      <3>2. last' = last /\ \A t \in Threads : pc[t] = "idle" /\ last[t] = Empty
        BY <2>2, <3>1 DEF Deinit, IInv, Stopped
      <3> QED
        BY <2>2, <3>2 DEF Deinit, IInv, TypeOK
    <2> QED
      BY <2>1, <2>2
  <1>2. N \in Nat /\ down \in -1 .. N - 1
    BY SlotsAssumption DEF IInv, TypeOK
  <1>3. CASE k \in Slots /\ down' = k /\ threads' = [threads EXCEPT ![k] = NoThread]
             /\ values' = IF down = -1 THEN values ELSE [values EXCEPT ![down] = Empty]
    <2>1. /\ threads' \in [Slots -> Threads \cup {NoThread}] /\ threads'[k] = NoThread
          /\ \A s \in Slots : s # k => threads'[s] = threads[s]
      BY <1>3 DEF IInv, TypeOK
    <2>2. /\ values' \in [Slots -> Values \cup {Empty}]
          /\ \A s \in Slots : values'[s] = values[s] \/ values'[s] = Empty
          /\ down # -1 => values'[down] = Empty
      BY <1>2, <1>3 DEF IInv, TypeOK, Slots
    <2>3. TypeOK' /\ OneSlot'
      BY <1>1, <1>2, <1>3, <2>1, <2>2 DEF IInv, TypeOK, OneSlot, Slots
    <2>4. CleanClaim' /\ Kept'
      BY <1>2, <1>3, <2>1, <2>2 DEF IInv, CleanClaim, Kept, Slots
    <2>5. Located'
      BY <1>1 DEF Located, OnSlot
    <2>6. Stored'
      BY <1>1, <1>2, <1>3 DEF Stored, Slots
    <2>7. Stopped'
      BY <1>1, <1>2, <1>3, <2>1 DEF IInv, Stopped, Slots
    <2>8. Ladder'
      <3>1. \A w \in Threads, s \in Slots : Owns(w, s)' => Owns(w, s)
        BY <2>1, ThreadsAssumption DEF Owns
      <3>2. \A w \in Threads, s \in 0 .. N : Reached(w, s)' => Reached(w, s)
        BY <1>1, <3>1 DEF Reached
      <3> QED
        BY <3>2, LadderShrinks DEF IInv, Beyond
    <2> QED
      BY <2>3, <2>4, <2>5, <2>6, <2>7, <2>8 DEF IInv
  <1>4. CASE down = N - 1 /\ down # -1 /\ down' = -1 /\ UNCHANGED threads
             /\ values' = [values EXCEPT ![down] = Empty]
    <2>1. \A s \in Slots : threads[s] = NoThread
      BY <1>2, <1>4 DEF IInv, Stopped, Slots
    <2>2. values' \in [Slots -> Values \cup {Empty}] /\ \A s \in Slots : values'[s] = Empty
      BY <1>2, <1>4 DEF IInv, TypeOK, Kept, Slots
    <2>3. TypeOK' /\ OneSlot'
      BY <1>1, <1>2, <1>4, <2>2 DEF IInv, TypeOK, OneSlot
    <2>4. CleanClaim' /\ Kept'
      BY <2>2 DEF CleanClaim, Kept
    <2>5. Located' /\ Stored' /\ Stopped'
      BY <1>1, <1>2, <1>4, <2>1, ThreadsAssumption DEF Located, Stored, Stopped, Owns, OnSlot, Slots
    <2>8. Ladder'
      <3>1. \A w \in Threads, s \in 0 .. N : Reached(w, s)' => Reached(w, s)
        BY <1>1, <1>4 DEF Reached, Owns
      <3> QED
        BY <3>1, LadderShrinks DEF IInv, Beyond
    <2> QED
      BY <2>3, <2>4, <2>5, <2>8 DEF IInv
  <1> QED
    BY <1>2, <1>3, <1>4 DEF BeginDeinit, Deinit, Slots

(* The strengthened invariant holds for every set of threads and values    *)
(* and every number of slots, whatever the order of the accesses.          *)
THEOREM StrengthenedInvariant == Spec => []IInv
  <1>1. Init => IInv
    BY Initially
  <1>2. IInv /\ [Next]_vars => IInv'
    <2> SUFFICES ASSUME IInv, [Next]_vars PROVE IInv'
      OBVIOUS
    <2>1. CASE UNCHANGED vars
      <3>1. UNCHANGED <<threads, values, pc, i, arg, last, down>>
        BY <2>1 DEF vars, shared, local
      <3>2. TypeOK' /\ OneSlot' /\ CleanClaim' /\ Located' /\ Stored' /\ Stopped' /\ Kept'
        BY <3>1 DEF IInv, TypeOK, OneSlot, CleanClaim, Located, Stored, Stopped, Kept, Owns
      <3>3. \A s \in 0 .. N : Beyond(s)' \subseteq Beyond(s)
        BY <3>1 DEF Beyond, Reached, Owns
      <3> QED
        BY <3>2, <3>3, LadderShrinks DEF IInv
    <2> QED
      BY <2>1, Steps, Deinits DEF Next
  <1> QED
    BY <1>1, <1>2, PTL DEF Spec

(* No thread ever has two slots.                                           *)
THEOREM OneSlotEach == Spec => []OneSlot
  <1>1. IInv => OneSlot
    BY DEF IInv
  <1> QED
    BY <1>1, StrengthenedInvariant, PTL

(* get gives a thread what it stored last, and nothing only when it has    *)
(* nothing stored.                                                         *)
THEOREM GetsItsOwn == Spec => []GetsOwn
  <1>1. IInv => GetsOwn
    <2> SUFFICES ASSUME IInv, NEW t \in Threads
                 PROVE  /\ pc[t] = "held" => values[i[t]] = last[t]
                        /\ pc[t] = "get" /\ i[t] = N => last[t] = Empty
      BY DEF GetsOwn
    <2>1. ASSUME pc[t] = "held" PROVE values[i[t]] = last[t]
      <3>1. i[t] \in Slots /\ Owns(t, i[t])
        BY <2>1, SlotsAssumption DEF IInv, TypeOK, Located, OnSlot, Slots
      <3>2. down = -1
        BY <2>1 DEF IInv, Stopped
      <3> QED
        BY <3>1, <3>2 DEF IInv, Stored
    <2>2. ASSUME pc[t] = "get", i[t] = N PROVE last[t] = Empty
      <3>1. \A s \in Slots : ~Owns(t, s)
        BY <2>2, SlotsAssumption DEF IInv, Located, Slots
      <3> QED
        BY <3>1 DEF IInv, Stored
    <2> QED
      BY <2>1, <2>2
  <1> QED
    BY <1>1, StrengthenedInvariant, PTL

(* set refuses no more threads than there are too many.  The scan is not   *)
(* atomic, and slots may be freed behind it and taken ahead of it; but a   *)
(* thread that goes past s slots leaves s threads behind.                  *)
THEOREM SetRefusesFew == Spec => []RoomForAll
  <1>1. IInv => RoomForAll
    <2> SUFFICES ASSUME IInv, Refused # {}
                 PROVE  Cardinality(Refused) + N <= Cardinality(Threads)
      BY DEF RoomForAll
    <2>1. N \in 0 .. N
      BY SlotsAssumption
    <2>2. Refused \in SUBSET Beyond(N) /\ Beyond(N) \in SUBSET Threads
      BY SlotsAssumption DEF Refused, Beyond, Reached, IInv, Located
    <2>3. Cardinality(Beyond(N)) + N <= Cardinality(Threads)
      BY <2>1, <2>2 DEF IInv, Ladder
    <2>4. /\ Cardinality(Refused) \in Nat /\ Cardinality(Beyond(N)) \in Nat
          /\ Cardinality(Refused) <= Cardinality(Beyond(N))
      BY <2>2, Fewer
    <2>5. Cardinality(Threads) \in Nat
      BY ThreadsAssumption, FS_CardinalityType
    <2> QED
      BY <2>3, <2>4, <2>5, SlotsAssumption
  <1> QED
    BY <1>1, StrengthenedInvariant, PTL
================================================================================
