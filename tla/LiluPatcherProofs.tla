------------------------- MODULE LiluPatcherProofs -------------------------
(***************************************************************************)
(* Theorems about the three parts of MCLiluPatcher.                        *)
(* RouteVirtual, for any plugins and any number of threads that call the   *)
(* virtual function, while no plugin routes again over another (Orderly):  *)
(* the inductive invariant IInv numbers the routings; each orgFunc leads   *)
(* to a function of the number below its own, which is why a call passes   *)
(* all of them and comes to an end.                                        *)
(* SolveMultiple (Solve), for any requests, addresses and range; and       *)
(* LiluPlugin (Life), for any plugins.                                     *)
(***************************************************************************)
EXTENDS MCLiluPatcher, TLAPS

USE DEF Functions, Rank, Routed

LEMMA InitHolds == Init => IInv
  BY KeepingAssumption, NamesAssumption
  DEF Init, IInv, TypeOK, Ordered, Linked, Routing, Visits

-----------------------------------------------------------------------------
(* The steps of routeVirtual.                                              *)

LEMMA CallKeeps ==
  ASSUME Orderly, IInv, NEW p \in Plugins, Call(p)
  PROVE  IInv'
  BY NamesAssumption DEF IInv, TypeOK, Ordered, Linked, Routing, Visits, Call, calling

LEMMA NothingKeeps == ASSUME IInv, Nothing PROVE IInv'
  BY NamesAssumption DEF IInv, TypeOK, Ordered, Linked, Routing, Visits, Nothing, calling

LEMMA CompareKeeps == ASSUME IInv, Compare PROVE IInv'
  BY NamesAssumption DEF IInv, TypeOK, Ordered, Linked, Routing, Visits, Compare, calling

\* The orgFunc that changes belongs to a function that is not routed yet.
LEMMA SaveKeeps == ASSUME IInv, Save PROVE IInv'
<1> USE KeepingAssumption, NamesAssumption DEF IInv, Save, calling
<1>1. TypeOK'
  BY DEF TypeOK
<1>2. Ordered' /\ Visits'
  BY DEF Ordered, Visits
<1>3. Linked'
  BY DEF TypeOK, Linked, Routing
<1>4. Routing'
  BY DEF TypeOK, Routing
<1> QED
  BY <1>1, <1>2, <1>3, <1>4

LEMMA WriteKeeps == ASSUME IInv, Write PROVE IInv'
<1> USE KeepingAssumption, NamesAssumption DEF IInv, Write, calling
<1>1. TypeOK'
  BY DEF TypeOK
<1>2. /\ rank[who] = 0 /\ rank'[who] = routed + 1
      /\ \A p \in Plugins : p # who => rank'[p] = rank[p]
  BY DEF TypeOK, Routing
<1>3. Ordered'
  BY <1>1, <1>2 DEF TypeOK, Ordered
<1>5. Linked'
  <2> SUFFICES ASSUME NEW p \in Keeping, rank'[p] > 0
               PROVE  (Routed(org[p]) /\ Rank(org[p]) = rank[p] - 1)'
    BY DEF Linked
  <2>1. CASE p = who
    BY <2>1, <1>2 DEF TypeOK, Ordered, Routing
  <2>2. CASE p # who
    <3>1. Routed(org[p]) /\ Rank(org[p]) = rank[p] - 1 /\ rank'[p] = rank[p]
      BY <2>2, <1>2 DEF Linked
    <3>2. rank[p] \in Nat /\ org[p] # who
      \* nothing leads to a function that is not routed
      BY <3>1, <1>2 DEF TypeOK
    <3> QED
      BY <3>1, <3>2, <1>2
  <2> QED
    BY <2>1, <2>2
<1>6. Routing'
  BY DEF TypeOK, Routing
<1>7. Visits'
  BY <1>2 DEF TypeOK, Ordered, Visits
<1> QED
  BY <1>1, <1>3, <1>5, <1>6, <1>7

-----------------------------------------------------------------------------
(* The steps of a call.                                                    *)

LEMMA EnterKeeps ==
  ASSUME IInv, NEW c \in Callers, Enter(c)
  PROVE  IInv'
<1> USE KeepingAssumption, NamesAssumption DEF IInv, Enter, routing
<1>1. TypeOK'
  BY DEF TypeOK, Due
<1>2. Ordered' /\ Linked' /\ Routing'
  BY DEF Ordered, Linked, Routing
<1>3. \A p \in Due : p = slot \/ rank[p] < Rank(slot)
  <2> SUFFICES ASSUME NEW p \in Due, p # slot PROVE rank[p] < Rank(slot)
    OBVIOUS
  <2>1. p \in Plugins /\ rank[p] \in Nat /\ rank[p] > 0
    BY DEF TypeOK, Due
  <2>2. routed \in Nat /\ Rank(slot) = routed /\ rank[p] <= routed
    BY <2>1 DEF TypeOK, Ordered
  <2>3. rank[p] # routed
    <3>1. CASE slot = Original
      BY <3>1, <2>1, <2>2 DEF Rank
    <3>2. CASE slot # Original
      \* no two functions are routed at once
      BY <3>2, <2>1, <2>2 DEF Ordered, Routed, Rank
    <3> QED
      BY <3>1, <3>2
  <2> QED
    BY <2>1, <2>2, <2>3
<1>4. Visits'
  <2> SUFFICES ASSUME NEW d \in Callers
               PROVE  /\ at'[d] = Null => ~over'[d]
                      /\ (at[d] # Null => Routed(at[d]))'
                      /\ over'[d] => at'[d] \notin Keeping
                      /\ (at[d] # Null => \A p \in due[d] :
                           /\ rank[p] > 0
                           /\ p \in ran[d] \/ rank[p] < Rank(at[d])
                           /\ \A q \in Plugins \ Keeping :
                                0 < rank[q] /\ rank[q] <= Rank(at[d]) => rank[q] <= rank[p])'
    BY DEF Visits
  <2>1. CASE d # c
    BY <2>1 DEF TypeOK, Visits
  <2>2. CASE d = c
    <3>1. at'[c] = slot /\ ~over'[c] /\ due'[c] = Due /\ ran'[c] = {slot} \cap Plugins
      BY DEF TypeOK
    <3>2. \A p \in Due : /\ p \in Plugins /\ rank[p] > 0
                          /\ \A q \in Plugins \ Keeping : rank[q] <= rank[p]
      BY DEF Due
    <3> QED
      BY <2>2, <3>1, <3>2, <1>3 DEF Ordered
  <2> QED
    BY <2>1, <2>2
<1> QED
  BY <1>1, <1>2, <1>4

LEMMA ChainKeeps ==
  ASSUME IInv, NEW c \in Callers, Chain(c)
  PROVE  IInv'
<1> USE KeepingAssumption, NamesAssumption DEF IInv, Chain, routing
<1>1. /\ at[c] \in Plugins /\ rank[at[c]] > 0
      /\ Routed(org[at[c]]) /\ Rank(org[at[c]]) = rank[at[c]] - 1
  BY DEF Visits, Linked
<1>2. TypeOK'
  BY <1>1 DEF TypeOK
<1>3. Ordered' /\ Linked' /\ Routing'
  BY DEF Ordered, Linked, Routing
<1>4. Visits'
  BY <1>1 DEF TypeOK, Ordered, Visits
<1> QED
  BY <1>2, <1>3, <1>4

LEMMA ReturnKeeps ==
  ASSUME IInv, NEW c \in Callers, Return(c)
  PROVE  IInv'
  BY NamesAssumption DEF IInv, TypeOK, Ordered, Linked, Routing, Visits, Return, routing

-----------------------------------------------------------------------------
LEMMA InvariantStep == ASSUME Orderly, IInv, [Next]_vars PROVE IInv'
<1>1. CASE UNCHANGED vars
  BY <1>1 DEF IInv, TypeOK, Ordered, Linked, Routing, Visits, vars, routing, calling
<1>2. CASE Next
  BY <1>2, CallKeeps, NothingKeeps, CompareKeeps, SaveKeeps, WriteKeeps,
     EnterKeeps, ChainKeeps, ReturnKeeps
  DEF Next, Run
<1> QED
  BY <1>1, <1>2

(* The table and the saved originals list the routed functions, the last   *)
(* one first, each leading to the one before.                              *)
THEOREM StrengthenedInvariant == ASSUME Orderly PROVE Spec => []IInv
BY InitHolds, InvariantStep, PTL DEF Spec

(* A caller never jumps through an orgFunc that has not been filled,       *)
(* because routeVirtual fills it before it writes the table.               *)
THEOREM NeverNull == ASSUME Orderly PROVE Spec => []NoNullCall
<1>1. IInv => NoNullCall
  BY KeepingAssumption, NamesAssumption DEF IInv, TypeOK, Linked, Visits, NoNullCall
<1> QED
  BY <1>1, StrengthenedInvariant, PTL

(* A call runs the function of every plugin routed before it began, down   *)
(* to the first that keeps no original.                                    *)
THEOREM HooksRun == ASSUME Orderly PROVE Spec => []EveryHookRuns
<1>1. IInv => EveryHookRuns
  <2> SUFFICES ASSUME IInv, NEW c \in Callers, over[c], NEW p \in due[c]
               PROVE  p \in ran[c]
    BY DEF EveryHookRuns
  <2>1. at[c] # Null /\ at[c] \in Functions \ Keeping /\ p \in Plugins
    BY DEF IInv, TypeOK, Visits
  <2>2. rank[p] > 0 /\ (p \in ran[c] \/ rank[p] < Rank(at[c]))
    BY <2>1 DEF IInv, Visits
  <2>3. CASE at[c] = Original
    BY <2>1, <2>2, <2>3 DEF IInv, TypeOK
  <2>4. CASE at[c] \in Plugins \ Keeping
    <3>1. 0 < rank[at[c]] /\ rank[at[c]] <= rank[p]
      BY <2>1, <2>4, NamesAssumption DEF IInv, TypeOK, Visits
    <3> QED
      BY <3>1, <2>1, <2>2, <2>4, NamesAssumption DEF IInv, TypeOK
  <2> QED
    BY <2>1, <2>3, <2>4
<1> QED
  BY <1>1, StrengthenedInvariant, PTL

(* No function is put into the table a second time.                        *)
THEOREM RoutedOnce == ASSUME Orderly PROVE Spec => NeverTwice
<1>1. ASSUME IInv, [Next]_vars
      PROVE  [\A p \in Plugins : rank[p] > 0 => rank'[p] = rank[p]]_vars
  <2>1. CASE Write
    BY <1>1, <2>1 DEF IInv, TypeOK, Routing, Write
  <2>2. CASE ~Write
    <3>1. UNCHANGED rank \/ UNCHANGED vars
      BY <1>1, <2>2 DEF Next, Run, Call, Nothing, Compare, Save, Enter, Chain, Return,
         calling, routing, vars
    <3> QED
      BY <3>1
  <2> QED
    BY <2>1, <2>2
<1> QED
  BY <1>1, StrengthenedInvariant, PTL DEF Spec, NeverTwice

-----------------------------------------------------------------------------
(* A call of the virtual function ends.                                    *)

\* The functions a call has yet to leave, the one it runs included.
CallsLeft(c) == IF at[c] = Null \/ over[c] THEN 0 ELSE Rank(at[c]) + 1

(* A call that is not over is in a function that has been routed, or the   *)
(* class's, and never has more before it than have been routed.            *)
OnTheWay ==
  \A c \in Callers :
    /\ CallsLeft(c) \in 0 .. routed + 1
    /\ CallsLeft(c) > 0 <=> at[c] \in Functions /\ ~over[c]

(* Each step of a call leaves one; routing meanwhile adds none to it.      *)
CallsRunOut ==
  [][\A c \in Callers :
       /\ Run(c) => CallsLeft(c)' < CallsLeft(c)
       /\ CallsLeft(c) > 0 => CallsLeft(c)' <= CallsLeft(c)]_vars

LEMMA LeftNat == ASSUME IInv, NEW c \in Callers PROVE CallsLeft(c) \in 0 .. routed + 1
<1>1. at[c] # Null => Routed(at[c])
  BY DEF IInv, Visits
<1> QED
  BY <1>1, NamesAssumption DEF CallsLeft, IInv, TypeOK, Ordered

\* Each orgFunc leads to the function routed before.
LEMMA RunLeaves ==
  ASSUME IInv, NEW c \in Callers, Run(c)
  PROVE  CallsLeft(c)' < CallsLeft(c)
<1> USE KeepingAssumption, NamesAssumption
<1>1. CallsLeft(c) = Rank(at[c]) + 1 /\ Rank(at[c]) \in Nat
  <2>1. at[c] # Null /\ ~over[c] /\ at[c] \in Functions
    BY DEF Run, Chain, Return
  <2> QED
    BY <2>1 DEF CallsLeft, IInv, TypeOK
<1>2. CASE Chain(c)
  <2>1. /\ at[c] \in Plugins /\ rank[at[c]] > 0
        /\ Routed(org[at[c]]) /\ Rank(org[at[c]]) = rank[at[c]] - 1
    BY <1>2 DEF Chain, IInv, Visits, Linked
  <2>2. at'[c] = org[at[c]] /\ ~over'[c] /\ UNCHANGED rank
    BY <1>2 DEF Chain, routing, IInv, TypeOK
  <2>3. at'[c] # Null /\ CallsLeft(c)' = rank[at[c]]
    BY <2>1, <2>2 DEF CallsLeft, IInv, TypeOK
  <2> QED
    BY <1>1, <2>1, <2>3
<1>3. CASE Return(c)
  <2>1. over'[c]
    BY <1>3 DEF Return, IInv, TypeOK
  <2>2. CallsLeft(c)' = 0
    BY <2>1 DEF CallsLeft
  <2> QED
    BY <1>1, <2>2
<1> QED
  BY <1>2, <1>3 DEF Run

\* What is routed meanwhile has not been routed before, so it is not under
\* the call.
LEMMA OthersAddNone ==
  ASSUME IInv, [Next]_vars, NEW c \in Callers, CallsLeft(c) > 0, ~Run(c)
  PROVE  CallsLeft(c)' = CallsLeft(c)
<1> USE KeepingAssumption, NamesAssumption
<1>1. at[c] # Null /\ ~over[c] /\ Routed(at[c])
  BY DEF CallsLeft, IInv, Visits
<1>2. at'[c] = at[c] /\ over'[c] = over[c]
  BY <1>1 DEF Next, Run, Call, Nothing, Compare, Save, Write, Enter, Chain, Return, calling, vars,
     IInv, TypeOK
<1>3. Rank(at[c])' = Rank(at[c])
  <2>1. CASE Write
    BY <1>1, <1>2, <2>1 DEF Write, IInv, TypeOK, Routing
  <2>2. CASE ~Write
    <3>1. UNCHANGED rank
      BY <2>2 DEF Next, Run, Call, Nothing, Compare, Save, Enter, Chain, Return,
         calling, routing, vars
    <3> QED
      BY <1>2, <3>1
  <2> QED
    BY <2>1, <2>2
<1> QED
  BY <1>1, <1>2, <1>3 DEF CallsLeft

(* Why CallsEnd holds when a thread goes on running: the saved originals   *)
(* form no circle, so that a call passes at most routed + 1 functions,     *)
(* however much is routed before it ends.                                  *)
THEOREM CallsPassDown == ASSUME Orderly PROVE Spec => []OnTheWay /\ CallsRunOut
<1>1. IInv => OnTheWay
  <2> SUFFICES ASSUME IInv, NEW c \in Callers
               PROVE  /\ CallsLeft(c) \in 0 .. routed + 1
                      /\ CallsLeft(c) > 0 <=> at[c] \in Functions /\ ~over[c]
    BY DEF OnTheWay
  <2>1. CallsLeft(c) \in 0 .. routed + 1
    BY LeftNat
  <2>2. at[c] # Null <=> at[c] \in Functions
    BY NamesAssumption DEF IInv, TypeOK
  <2>3. at[c] # Null => Rank(at[c]) \in Nat
    BY <2>2 DEF IInv, TypeOK
  <2> QED
    BY <2>1, <2>2, <2>3 DEF CallsLeft
<1>2. IInv /\ [Next]_vars =>
        [\A c \in Callers :
           /\ Run(c) => CallsLeft(c)' < CallsLeft(c)
           /\ CallsLeft(c) > 0 => CallsLeft(c)' <= CallsLeft(c)]_vars
  <2> SUFFICES ASSUME IInv, [Next]_vars, NEW c \in Callers
               PROVE  /\ Run(c) => CallsLeft(c)' < CallsLeft(c)
                      /\ CallsLeft(c) > 0 => CallsLeft(c)' <= CallsLeft(c)
    OBVIOUS
  <2>1. CallsLeft(c) \in Int /\ CallsLeft(c)' \in Int
    <3>1. IInv'
      BY InvariantStep
    <3>2. \A d \in Callers : at'[d] # Null => at'[d] \in Functions
      BY <3>1 DEF IInv, TypeOK
    <3> QED
      BY <3>1, <3>2 DEF CallsLeft, IInv, TypeOK
  <2>2. Run(c) => CallsLeft(c)' < CallsLeft(c)
    BY RunLeaves
  <2>3. CallsLeft(c) > 0 /\ ~Run(c) => CallsLeft(c)' = CallsLeft(c)
    BY OthersAddNone
  <2> QED
    BY <2>1, <2>2, <2>3
<1> QED
  BY <1>1, <1>2, StrengthenedInvariant, PTL DEF Spec, CallsRunOut

-----------------------------------------------------------------------------
(* solveMultiple.                                                          *)

(* A request that is solved joins those before it.                         *)
LEMMA FoundKeeps == ASSUME Solve!IInv, Solve!Found PROVE Solve!IInv'
<1> USE DEF Solve!IInv, Solve!TypeOK, Solve!Found, Solve!Requests
<1>1. index \in 1 .. N /\ N \in Nat /\ UNCHANGED <<symbols, before, force>>
  BY RequestsAssumption
<1>2. cells' = [cells EXCEPT ![index] = symbols[index]]
  OBVIOUS
<1>3. \/ index = N /\ spc' = "idle" /\ index' = index
      \/ index # N /\ spc' = spc /\ index' = index + 1
  BY DEF Solve!Proceed, Solve!Return
<1>4. Solve!TypeOK'
  BY <1>1, <1>2, <1>3
<1>5. Solve!Progress'
  <2> SUFFICES ASSUME spc' = "solve", ~force'
               PROVE  /\ \A i \in 1 .. index' - 1 : Solve!Solved(i)'
                      /\ \A i \in index' .. N : cells'[i] = before'[i]
    BY DEF Solve!Progress
  <2>1. spc = "solve" /\ ~force /\ index' = index + 1
    BY <1>1, <1>3
  <2>2. /\ \A i \in 1 .. index - 1 : Solve!Solved(i)
        /\ \A i \in index .. N : cells[i] = before[i]
    BY <2>1 DEF Solve!Progress
  <2>3. \A i \in 1 .. index : Solve!Solved(i)'
    BY <1>1, <1>2, <2>2 DEF Solve!Solved, Solve!InRange
  <2> QED
    BY <1>1, <1>2, <2>1, <2>2, <2>3
<1> QED
  BY <1>4, <1>5

LEMMA SolvingStep == ASSUME Solve!IInv, [Solve!Next]_(Solve!vars) PROVE Solve!IInv'
<1> USE DEF Solve!IInv, Solve!TypeOK, Solve!Progress, Solve!Requests, Solve!Solved, Solve!InRange
<1>1. CASE Solve!Reload \/ Solve!Others
  BY <1>1 DEF Solve!Reload, Solve!Others
<1>2. CASE Solve!Call
  BY <1>2, RequestsAssumption DEF Solve!Call
<1>3. CASE Solve!NotFound \/ Solve!OutOfRange
  <2>1. UNCHANGED <<symbols, cells, before, force>>
    BY <1>3 DEF Solve!NotFound, Solve!OutOfRange, Solve!Fail
  <2>2. \/ force /\ index # N /\ index' = index + 1 /\ spc' = spc
        \/ index' = index /\ spc' = "idle"
    BY <1>3 DEF Solve!NotFound, Solve!OutOfRange, Solve!Fail, Solve!Proceed, Solve!Return
  <2> QED
    BY <2>1, <2>2, RequestsAssumption
<1>4. CASE Solve!Panic \/ Solve!Halted \/ UNCHANGED Solve!vars
  BY <1>4 DEF Solve!Panic, Solve!Halted, Solve!vars
<1> QED
  BY <1>1, <1>2, FoundKeeps, <1>3, <1>4 DEF Solve!Next

(* A call without force that returns has stored the address of every       *)
(* request, or of those before the first that cannot be solved.            *)
THEOREM AllOrPrefixStored == Solve!Spec => AllOrPrefix
<1>1. Solve!Init => Solve!IInv
  BY RequestsAssumption
  DEF Solve!Init, Solve!IInv, Solve!TypeOK, Solve!Progress, Solve!Requests
<1> DEFINE Whole == \A i \in Solve!Requests : Solve!Solved(i)'
           Prefix == \E k \in Solve!Requests :
                       /\ symbols[k] = 0 \/ ~Solve!InRange(symbols[k])
                       /\ \A i \in 1 .. k - 1 : Solve!Solved(i)'
                       /\ \A i \in k .. N : cells'[i] = before[i]
           Stored == IF result' THEN Whole ELSE Prefix
<1>2. ASSUME Solve!IInv, Solve!Next, Solve!Returns, ~force
      PROVE  Stored
  <2>0. /\ spc = "solve" /\ spc' = "idle" /\ index \in 1 .. N /\ N \in Nat
        /\ \A i \in 1 .. index - 1 : Solve!Solved(i)
        /\ \A i \in index .. N : cells[i] = before[i]
        /\ cells \in [1 .. N -> Addresses \cup {0}]
    BY <1>2, RequestsAssumption
    DEF Solve!Returns, Solve!IInv, Solve!TypeOK, Solve!Progress, Solve!Requests
  <2>1. CASE Solve!Found
    <3>1. /\ index = N /\ result' = TRUE /\ UNCHANGED symbols
          /\ cells' = [cells EXCEPT ![index] = symbols[index]]
          /\ symbols[index] # 0 /\ Solve!InRange(symbols[index])
      BY <2>0, <2>1 DEF Solve!Found, Solve!Proceed, Solve!Return
    <3>2. \A i \in 1 .. N : Solve!Solved(i)'
      BY <2>0, <3>1 DEF Solve!Solved, Solve!InRange
    <3> QED
      BY <3>1, <3>2 DEF Solve!Requests
  <2>2. CASE Solve!NotFound \/ Solve!OutOfRange
    <3>1. /\ result' = FALSE /\ UNCHANGED <<symbols, cells>>
          /\ symbols[index] = 0 \/ ~Solve!InRange(symbols[index])
      BY <1>2, <2>2 DEF Solve!NotFound, Solve!OutOfRange, Solve!Fail, Solve!Return
    <3>2. \A i \in 1 .. index - 1 : Solve!Solved(i)'
      BY <2>0, <3>1 DEF Solve!Solved, Solve!InRange
    <3>3. Prefix
      <4> SUFFICES /\ symbols[index] = 0 \/ ~Solve!InRange(symbols[index])
                   /\ \A i \in 1 .. index - 1 : Solve!Solved(i)'
                   /\ \A i \in index .. N : cells'[i] = before[i]
        BY <2>0 DEF Solve!Requests
      <4> QED
        BY <2>0, <3>1, <3>2
    <3> HIDE DEF Prefix, Whole
    <3> QED
      BY <3>1, <3>3
  <2>3. CASE Solve!Reload \/ Solve!Others \/ Solve!Call \/ Solve!Panic \/ Solve!Halted
    BY <2>0, <2>3 DEF Solve!Reload, Solve!Others, Solve!Call, Solve!Panic, Solve!Halted, Solve!vars
  <2> QED
    BY <1>2, <2>1, <2>2, <2>3 DEF Solve!Next
<1>3. Solve!IInv /\ [Solve!Next]_(Solve!vars) => [Solve!Returns /\ ~force => Stored]_(Solve!vars)
  BY <1>2
<1> QED
  BY <1>1, <1>3, SolvingStep, PTL DEF Solve!Spec, AllOrPrefix, Solve!AllOrPrefix

-----------------------------------------------------------------------------
(* The life of the plugins.                                                *)

(* The API lock keeps registration open while a plugin is between          *)
(* shouldLoad and the end of its pluginStart.                              *)
LEMMA LifeStep == ASSUME Life!IInv, [Life!Next]_(Life!vars) PROVE Life!IInv'
<1> USE DEF Life!IInv, Life!TypeOK, Life!Locked, Life!Told, Life!RegisteredStays, Life!NoPanic
<1>1. ASSUME NEW p \in Clients, Life!Load(p) PROVE Life!IInv'
  BY <1>1 DEF Life!Load, Life!At, Life!lilu
<1>2. ASSUME NEW p \in Clients, Life!RequestAccess(p) \/ Life!Unsupported(p) PROVE Life!IInv'
  BY <1>2, ClientsAssumption
  DEF Life!RequestAccess, Life!Unsupported, Life!At, Life!iokit, Life!lilu
<1>3. ASSUME NEW p \in Clients, Life!ShouldLoad(p) PROVE Life!IInv'
  BY <1>3 DEF Life!ShouldLoad, Life!At, Life!iokit, Life!lilu
<1>4. ASSUME NEW p \in Clients, Life!PluginStart(p) PROVE Life!IInv'
  BY <1>4 DEF Life!PluginStart, Life!At, Life!iokit
<1>5. ASSUME NEW p \in Clients, Life!ReleaseAccess(p) PROVE Life!IInv'
  BY <1>5 DEF Life!ReleaseAccess, Life!At, Life!iokit
<1>6. ASSUME NEW p \in Clients, Life!Match(p) PROVE Life!IInv'
  <2>1. UNCHANGED <<kext, startSuccess, registered, access, apiRequestsOver>>
    BY <1>6 DEF Life!Match, Life!Probe, Life!ProbeLost, Life!Start, Life!StartFails, Life!Stop,
                Life!Object, Life!lilu
  <2> QED
    BY <2>1
<1>7. ASSUME NEW p \in Clients, Life!KernStop(p) PROVE Life!IInv'
  BY <1>7 DEF Life!KernStop, Life!At, Life!iokit, Life!lilu
<1>8. CASE Life!FinaliseRequests
  BY <1>8, ClientsAssumption DEF Life!FinaliseRequests, Life!iokit
<1>9. CASE UNCHANGED Life!vars
  BY <1>9 DEF Life!vars, Life!lilu
<1> QED
  BY <1>1, <1>2, <1>3, <1>4, <1>5, <1>6, <1>7, <1>8, <1>9 DEF Life!Next, Life!Body

(* The states of the kexts, who has access to Lilu, what each was told when *)
(* it asked for it, and who is registered, together.                       *)
THEOREM LifeInvariant == Life!Spec => []Life!IInv
<1>1. Life!Init => Life!IInv
  BY DEF Life!Init, Life!IInv, Life!TypeOK, Life!Locked, Life!Told, Life!RegisteredStays, Life!NoPanic
<1> QED
  BY <1>1, LifeStep, PTL DEF Life!Spec

(* kern_stop never lets a kext go whose callbacks Lilu holds.              *)
THEOREM RegisteredStay == Life!Spec => []RegisteredStays
<1>1. Life!IInv => RegisteredStays
  BY DEF Life!IInv, RegisteredStays
<1> QED
  BY <1>1, LifeInvariant, PTL

(* Registration does not close between shouldLoad and pluginStart.         *)
THEOREM NobodyPanics == Life!Spec => []NoPanic
<1>1. Life!IInv => NoPanic
  BY DEF Life!IInv, NoPanic
<1> QED
  BY <1>1, LifeInvariant, PTL
=============================================================================
