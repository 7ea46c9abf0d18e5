---------------------------- MODULE RouteVirtual ----------------------------
(***************************************************************************)
(* KernelPatcher::routeVirtual, with which a plugin puts its own function  *)
(* into a virtual table and gets the function it replaces, to call it.     *)
(* All objects of a class share the table, so the plugin reaches the same  *)
(* entry through each of them.  Routing is done by one thread at a time,   *)
(* under Lilu's API lock; the threads that call the virtual function do    *)
(* not know of it and may be anywhere.  An action is one access to memory; *)
(* the stores may alias, so the compiler keeps their order.                *)
(***************************************************************************)
EXTENDS Integers, FiniteSets

CONSTANTS
  Plugins,    \* each has one function for the entry
  Keeping,    \* those that pass an orgFunc, and call what it holds
  Callers,    \* threads that call the virtual function
  Original,   \* the function of the class
  Null,       \* what an orgFunc holds before
  Orderly     \* a plugin does not route again once another has routed over it

ASSUME KeepingAssumption == Keeping \subseteq Plugins
ASSUME NamesAssumption ==
  Original \notin Plugins /\ Null \notin Plugins /\ Null # Original
ASSUME OrderlyAssumption == Orderly \in BOOLEAN

Functions == Plugins \cup {Original}

VARIABLES
  slot,     \* vt[off]
  org,      \* *orgFunc of each plugin
  pc,       \* where the thread that routes is
  who,      \* the plugin it routes for
  at,       \* the function each caller runs, or Null
  over,     \* the caller's call has ended there
  rank,     \* history: the number of the routing that answered true, 0 before
  routed,   \* history: how many there have been
  ran,      \* history: the plugins whose functions the call has run
  due       \* history: those it had to run

routing == <<slot, org, pc, who, rank, routed>>
calling == <<at, over, ran, due>>
vars    == <<routing, calling>>

Init ==
  /\ slot = Original
  /\ org = [p \in Plugins |-> Null]
  /\ pc = "idle" /\ who \in Plugins
  /\ at = [c \in Callers |-> Null] /\ over = [c \in Callers |-> FALSE]
  /\ rank = [p \in Plugins |-> 0] /\ routed = 0
  /\ ran = [c \in Callers |-> {}] /\ due = [c \in Callers |-> {}]

-----------------------------------------------------------------------------
(* routeVirtual.                                                           *)

Call(p) ==
  /\ pc = "idle"
  /\ Orderly => rank[p] = 0 \/ slot = p
  /\ who' = p /\ pc' = "compare"
  /\ UNCHANGED <<slot, org, rank, routed, calling>>

\* No object, or no table in it.
Nothing ==
  /\ pc = "compare"
  /\ pc' = "idle"
  /\ UNCHANGED <<slot, org, who, rank, routed, calling>>

\* Wrong variant: without the test.
CompareNot ==
  /\ pc = "compare"
  /\ pc' = IF who \in Keeping THEN "save" ELSE "write"
  /\ UNCHANGED <<slot, org, who, rank, routed, calling>>

Compare ==
  /\ pc = "compare"
  /\ pc' = IF slot = who THEN "idle" ELSE IF who \in Keeping THEN "save" ELSE "write"
  /\ UNCHANGED <<slot, org, who, rank, routed, calling>>

\* Wrong variants: what is saved is the class's function, or comes too late.
SaveOriginal ==
  /\ pc = "save"
  /\ org' = [org EXCEPT ![who] = Original]
  /\ pc' = "write"
  /\ UNCHANGED <<slot, who, rank, routed, calling>>

SaveLater ==
  /\ pc = "save"
  /\ pc' = "write"
  /\ UNCHANGED <<slot, org, who, rank, routed, calling>>

Save ==
  /\ pc = "save"
  /\ org' = [org EXCEPT ![who] = slot]
  /\ pc' = "write"
  /\ UNCHANGED <<slot, who, rank, routed, calling>>

Write ==
  /\ pc = "write"
  /\ slot' = who
  /\ rank' = [rank EXCEPT ![who] = routed + 1] /\ routed' = routed + 1
  /\ pc' = "idle"
  /\ UNCHANGED <<org, who, calling>>

-----------------------------------------------------------------------------
(* A call of the virtual function.                                         *)

\* The plugins routed with nobody over them who breaks the chain.
Due == {p \in Plugins : rank[p] > 0 /\ \A q \in Plugins \ Keeping : rank[q] <= rank[p]}

Enter(c) ==
  /\ at[c] = Null \/ over[c]
  /\ at' = [at EXCEPT ![c] = slot] /\ over' = [over EXCEPT ![c] = FALSE]
  /\ ran' = [ran EXCEPT ![c] = {slot} \cap Plugins] /\ due' = [due EXCEPT ![c] = Due]
  /\ UNCHANGED routing

\* A plugin's function goes on with the one its orgFunc holds.
Chain(c) ==
  /\ at[c] \in Keeping /\ ~over[c]
  /\ at' = [at EXCEPT ![c] = org[at[c]]]
  /\ ran' = [ran EXCEPT ![c] = @ \cup ({org[at[c]]} \cap Plugins)]
  /\ UNCHANGED <<over, due, routing>>

Return(c) ==
  /\ at[c] \in Functions \ Keeping /\ ~over[c]
  /\ over' = [over EXCEPT ![c] = TRUE]
  /\ UNCHANGED <<at, ran, due, routing>>

-----------------------------------------------------------------------------
Run(c) == Chain(c) \/ Return(c)
Next ==
  \/ \E p \in Plugins : Call(p)
  \/ Nothing \/ Compare \/ Save \/ Write
  \/ \E c \in Callers : Enter(c) \/ Run(c)

Spec == Init /\ [][Next]_vars

\* A thread that runs a function goes on running.
FairSpec == Spec /\ \A c \in Callers : WF_vars(Run(c))

-----------------------------------------------------------------------------
(* Properties.                                                             *)

(* A function that calls on always has where to: the caller never jumps    *)
(* through an orgFunc that has not been filled.                            *)
NoNullCall == \A c \in Callers : at[c] \in Keeping /\ ~over[c] => org[at[c]] # Null

(* A call that has ended has run the function of every plugin that was     *)
(* told "true" before it began, down to the first that keeps no original,  *)
(* whatever was routed meanwhile.                                          *)
EveryHookRuns == \A c \in Callers : over[c] => due[c] \subseteq ran[c]

(* No function is put into the table a second time (the comment "Do not    *)
(* try to replace twice!").                                                *)
NeverTwice == [][\A p \in Plugins : rank[p] > 0 => rank'[p] = rank[p]]_vars

(* Every call ends: the saved originals never form a circle.               *)
CallsEnd == \A c \in Callers : at[c] # Null ~> over[c]

\* The number of a function in the order of routing.
Rank(f) == IF f = Original THEN 0 ELSE rank[f]

\* The class's function, or a plugin's that has been routed.
Routed(f) == f = Original \/ (f \in Plugins /\ rank[f] > 0)

(* The inductive invariant: the entry holds the last plugin routed, and    *)
(* each orgFunc the one routed before.                                     *)
TypeOK ==
  /\ slot \in Functions
  /\ org \in [Plugins -> Functions \cup {Null}]
  /\ pc \in {"idle", "compare", "save", "write"} /\ who \in Plugins
  /\ at \in [Callers -> Functions \cup {Null}]
  /\ over \in [Callers -> BOOLEAN]
  /\ rank \in [Plugins -> Nat] /\ routed \in Nat
  /\ ran \in [Callers -> SUBSET Plugins] /\ due \in [Callers -> SUBSET Plugins]

Ordered ==
  /\ Routed(slot) /\ Rank(slot) = routed
  /\ \A p \in Plugins : rank[p] <= routed
  /\ \A p, q \in Plugins : rank[p] > 0 /\ rank[p] = rank[q] => p = q

Linked == \A p \in Keeping : rank[p] > 0 =>
  Routed(org[p]) /\ Rank(org[p]) = rank[p] - 1

Routing ==
  /\ pc = "compare" => rank[who] = 0 \/ slot = who
  /\ pc \in {"save", "write"} => rank[who] = 0
  /\ pc = "save" => who \in Keeping
  /\ pc = "write" /\ who \in Keeping => org[who] = slot

Visits == \A c \in Callers :
  /\ at[c] = Null => ~over[c]
  /\ at[c] # Null => Routed(at[c])
  /\ over[c] => at[c] \notin Keeping
  /\ at[c] # Null => \A p \in due[c] :
       /\ rank[p] > 0
       /\ p \in ran[c] \/ rank[p] < Rank(at[c])
       /\ \A q \in Plugins \ Keeping : 0 < rank[q] /\ rank[q] <= Rank(at[c]) => rank[q] <= rank[p]

IInv == TypeOK /\ Ordered /\ Linked /\ Routing /\ Visits
=============================================================================
