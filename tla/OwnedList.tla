------------------------------ MODULE OwnedList ------------------------------
(***************************************************************************)
(* What evector promises its users: a list of elements it owns.  An        *)
(* element that is pushed comes last or, if there is no memory, stays with *)
(* the caller; one that is erased, or still there at deinit, is deleted    *)
(* once, and the others keep their order.                                  *)
(***************************************************************************)
EXTENDS Integers, Sequences, SequencesExt

CONSTANT Elements

VARIABLES
  list,
  deleted   \* how often each element has been deleted since it was pushed

vars == <<list, deleted>>

Init == list = <<>> /\ deleted = [e \in Elements |-> 0]

Delete(gone) == deleted' = [e \in Elements |-> deleted[e] + IF e \in gone THEN 1 ELSE 0]

Push(e) ==
  /\ \A k \in DOMAIN list : list[k] # e
  /\ list' = Append(list, e)
  /\ deleted' = [deleted EXCEPT ![e] = 0]

Erase(k) == list' = RemoveAt(list, k) /\ Delete({list[k]})

Clear == list' = <<>> /\ Delete(ToSet(list))

Next ==
  \/ \E e \in Elements : Push(e)
  \/ \E k \in DOMAIN list : Erase(k)
  \/ Clear

Spec == Init /\ [][Next]_vars
=============================================================================
