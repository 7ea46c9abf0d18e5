----------------------------- MODULE MCLiluUtil -----------------------------
(* The containers of kern_util.hpp and the arithmetic of its neighbours,    *)
(* side by side: a behaviour is one of the circular buffer, of evector or   *)
(* of the arithmetic helpers, and the other two stay as they are.           *)
EXTENDS LiluContainers

CONSTANTS
  W, Packages, Cores

ASSUME BoundsAssumption == W \in Nat \ {0} /\ Packages \in Nat \ {0} /\ Cores \in Nat

VARIABLES
  part,
  x, y, packageCount, physicalCount, picked

arith == <<x, y, packageCount, physicalCount, picked>>

Arith == INSTANCE LiluArith

MCInit ==
  /\ part \in {"ring", "vector", "arith"}
  /\ Init /\ Vec!Init /\ Arith!Init

RingNext   == part = "ring" /\ Next /\ UNCHANGED <<part, vector, arith>>
VectorNext == part = "vector" /\ Vec!Next /\ UNCHANGED <<part, vars, arith>>
ArithNext  == part = "arith" /\ Arith!Next /\ UNCHANGED <<part, vars, vector>>

allvars == <<part, vars, vector, arith>>

\* The fairness of CircularBuffer; the others have none.
MCSpec ==
  /\ MCInit /\ [][RingNext \/ VectorNext \/ ArithNext]_allvars
  /\ \A t \in Threads : WF_vars(Body(t))

-----------------------------------------------------------------------------
(* The property of LiluArith, as it defines and explains it: the helpers   *)
(* compute what they are for.                                              *)
HelpersAgree == Arith!HelpersAgree
=============================================================================
