--------------------------- MODULE MCCioMailbox ---------------------------
(* CioMailbox on two registers of two bits.  The calls are those of the    *)
(* source, whose data always equals the mask, and one that clears a bit.   *)
EXTENDS CioMailbox

CONSTANTS p1, p2, b1, b2

MCCalls == {[reg |-> p1, data |-> {b1}, mask |-> {b1}],
            [reg |-> p2, data |-> {},   mask |-> {b2}]}
MCPowerOn == {b2}
=============================================================================
