---------------------------- MODULE MCLiluPatcher ----------------------------
(* Three parts of a Lilu plugin that share nothing, side by side: a         *)
(* behaviour is one of the routing of a virtual function, of the solving of *)
(* a list of symbols or of the plugins' life, and the others stay as they   *)
(* are.                                                                     *)
EXTENDS RouteVirtual

CONSTANTS
  Clients,                      \* the plugins that are loaded
  N, Addresses, KextStart, Size, Forces

ASSUME RequestsAssumption == N \in Nat \ {0}
ASSUME ClientsAssumption == "free" \notin Clients

VARIABLES
  part,
  symbols, cells, code, spc, index, force, crash, result, before,
  kext, startSuccess, service, selfInstance, registered, access, apiRequestsOver

solving == <<symbols, cells, code, spc, index, force, crash, result, before>>
loading == <<kext, startSuccess, service, selfInstance, registered, access, apiRequestsOver>>

Solve == INSTANCE SolveMultiple WITH pc <- spc, Start <- KextStart, Force <- Forces
Life  == INSTANCE LiluPlugin WITH Plugins <- Clients

\* What the first two parts start with matters to themselves only.
MCInit ==
  /\ part \in {"route", "solve", "life"}
  /\ Init /\ Solve!Init /\ Life!Init
  /\ part # "route" => who = CHOOSE p \in Plugins : TRUE
  /\ part # "solve" => code = "NoError" /\ force /\ \A i \in DOMAIN symbols : symbols[i] = 0

RouteNext == part = "route" /\ Next /\ UNCHANGED <<part, solving, loading>>
SolveNext == part = "solve" /\ Solve!Next /\ UNCHANGED <<part, vars, loading>>
LifeNext  == part = "life" /\ Life!Next /\ UNCHANGED <<part, vars, solving>>

\* The fairness of RouteVirtual; the others have none.
MCSpec ==
  /\ MCInit /\ [][RouteNext \/ SolveNext \/ LifeNext]_<<part, vars, solving, loading>>
  /\ \A c \in Callers : WF_vars(Run(c))

-----------------------------------------------------------------------------
(* The properties, as their modules define and explain them.               *)

\* SolveMultiple: what a call has stored when it returns.
AllOrPrefix == Solve!AllOrPrefix

\* LiluPlugin: no unloading with callbacks registered, and no panic.
RegisteredStays == Life!RegisteredStays
NoPanic         == Life!NoPanic
=============================================================================
