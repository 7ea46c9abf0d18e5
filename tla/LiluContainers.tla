--------------------------- MODULE LiluContainers ---------------------------
(* The two containers of kern_util.hpp, which share nothing: the circular   *)
(* buffer, whose names this module has, and evector under the name Vec.     *)
EXTENDS CircularBuffer

CONSTANTS
  Items,       \* the elements of evector
  Blocks, Null, Junk, Factors, MaxReserve

\* No block is the null pointer, and evector never asks for less than it needs.
ASSUME BlocksAssumption == Null \notin Blocks
ASSUME FactorsAssumption == Factors \subseteq Nat \ {0} /\ MaxReserve \in Nat

VARIABLES
  ptr, cnt, rsvd, block, live, deleted

vector == <<ptr, cnt, rsvd, block, live, deleted>>

Vec == INSTANCE EVector WITH Elements <- Items

\* The properties of evector, as EVector defines and explains them: its block
\* is what it counts on, and it is a list.
BlockSound == Vec!BlockSound
IsList     == Vec!IsList
=============================================================================
