--------------------------- MODULE SolveMultiple ---------------------------
(***************************************************************************)
(* KernelPatcher::solveMultiple: a list of symbols is solved one by one    *)
(* and each address stored in the variable its request points to.  The     *)
(* patcher keeps one error code for all its operations.  A plugin calls    *)
(* again with the same requests when a kext that may be reloaded has been  *)
(* loaded again, at other addresses and perhaps with other symbols.        *)
(***************************************************************************)
EXTENDS Integers

CONSTANTS
  N,           \* the number of requests
  Addresses,   \* where a symbol may be found
  Start, Size, \* the range of the kext
  Force        \* the values of the parameter force the plugins use

Requests == 1 .. N
Codes == {"NoError", "NoSymbolFound", "InvalidSymbolFound", "another"}

VARIABLES
  symbols,  \* what the symbol table holds for each request, 0 for nothing
  cells,    \* *requests[index].address
  code,     \* KernelPatcher::code
  pc, index, force, crash,
  result,   \* what solveMultiple returns
  before    \* history: the cells when it was called

vars == <<symbols, cells, code, pc, index, force, crash, result, before>>

Init ==
  /\ symbols \in [Requests -> Addresses \cup {0}]
  /\ cells = [i \in Requests |-> 0] /\ before = cells
  /\ code \in {"NoError", "another"}
  /\ pc = "idle" /\ index = 1 /\ result = FALSE
  /\ force \in Force /\ crash = FALSE

\* The kext is loaded anew.
Reload ==
  /\ pc = "idle"
  /\ symbols' \in [Requests -> Addresses \cup {0}]
  /\ UNCHANGED <<cells, code, pc, index, force, crash, result, before>>

\* Another operation of the patcher fails, or the plugin clears the code.
Others ==
  /\ pc = "idle"
  /\ code' \in {"NoError", "another"}
  /\ UNCHANGED <<symbols, cells, pc, index, force, crash, result, before>>

Call ==
  /\ pc = "idle"
  /\ pc' = "solve" /\ index' = 1
  /\ force' \in Force /\ crash' \in BOOLEAN
  /\ before' = cells
  /\ UNCHANGED <<symbols, cells, code, result>>

InRange(addr) == addr >= Start /\ addr < Start + Size

Return(value) == pc' = "idle" /\ result' = value
Proceed ==
  IF index = N THEN Return(TRUE) /\ UNCHANGED index
               ELSE index' = index + 1 /\ UNCHANGED <<pc, result>>

\* Wrong variant: the comparison with the end takes the end in.
FoundAtEnd ==
  /\ pc = "solve" /\ symbols[index] # 0
  /\ symbols[index] >= Start /\ symbols[index] <= Start + Size
  /\ cells' = [cells EXCEPT ![index] = symbols[index]]
  /\ Proceed
  /\ UNCHANGED <<symbols, code, force, crash, before>>

Found ==
  /\ pc = "solve" /\ symbols[index] # 0 /\ InRange(symbols[index])
  /\ cells' = [cells EXCEPT ![index] = symbols[index]]
  /\ Proceed
  /\ UNCHANGED <<symbols, code, force, crash, before>>

\* The inner solveSymbol sets an error, which clearError wipes.
Fail(error) ==
  /\ code' = "NoError"
  /\ IF force THEN Proceed ELSE Return(FALSE) /\ UNCHANGED index
  /\ UNCHANGED <<symbols, cells, force, crash, before>>

NotFound ==
  /\ pc = "solve" /\ symbols[index] = 0
  /\ Fail("NoSymbolFound")

OutOfRange ==
  /\ pc = "solve" /\ symbols[index] # 0 /\ ~InRange(symbols[index])
  /\ ~crash
  /\ Fail("InvalidSymbolFound")

Panic ==
  /\ pc = "solve" /\ symbols[index] # 0 /\ ~InRange(symbols[index])
  /\ crash
  /\ pc' = "panic" /\ code' = "InvalidSymbolFound"
  /\ UNCHANGED <<symbols, cells, index, force, crash, result, before>>

\* The machine is down.
Halted == pc = "panic" /\ UNCHANGED vars

Next == Reload \/ Others \/ Call \/ Found \/ NotFound \/ OutOfRange \/ Panic \/ Halted
Spec == Init /\ [][Next]_vars

-----------------------------------------------------------------------------
(* Properties.                                                             *)

Solved(i) == symbols[i] # 0 /\ InRange(symbols[i]) /\ cells[i] = symbols[i]

\* The step in which a call returns.
Returns == pc = "solve" /\ pc' = "idle"

(* Without force, true means that every request holds the address its      *)
(* symbol has now, and false that those before the first that cannot be    *)
(* solved do and the rest are as before the call; no request of an earlier *)
(* load is half replaced without the plugin being told.                    *)
AllOrPrefix == [][Returns /\ ~force =>
  IF result' THEN \A i \in Requests : Solved(i)'
  ELSE \E k \in Requests : /\ symbols[k] = 0 \/ ~InRange(symbols[k])
                           /\ \A i \in 1 .. k - 1 : Solved(i)'
                           /\ \A i \in k .. N : cells'[i] = before[i]]_vars

\* The requests before the one at hand are solved, unless some were passed
\* over, and those from it on are as they were.
TypeOK ==
  /\ symbols \in [Requests -> Addresses \cup {0}]
  /\ cells \in [Requests -> Addresses \cup {0}]
  /\ pc \in {"idle", "solve", "panic"} /\ index \in Requests

Progress ==
  pc = "solve" /\ ~force =>
    /\ \A i \in 1 .. index - 1 : Solved(i)
    /\ \A i \in index .. N : cells[i] = before[i]

IInv == TypeOK /\ Progress

=============================================================================
