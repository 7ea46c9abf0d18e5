----------------------------- MODULE BoundedQueue -----------------------------
(***************************************************************************)
(* What a CircularBuffer promises to the threads that use it: a first-in   *)
(* first-out queue of a fixed capacity.  Every call takes effect at one    *)
(* moment, and answers what the queue is at that moment.                   *)
(***************************************************************************)
EXTENDS Integers, Sequences

CONSTANTS Threads, Elements, Capacity

VARIABLES
  queue,
  ret      \* what the last call of each thread has answered, or is to answer

vars == <<queue, ret>>

Nothing == [op |-> "none"]

Init == queue = <<>> /\ ret = [t \in Threads |-> Nothing]

Answer(t, r) == ret' = [ret EXCEPT ![t] = r]

Begin(t) == Answer(t, Nothing) /\ UNCHANGED queue

Push(t, e) ==
  \/ /\ Len(queue) < Capacity
     /\ queue' = Append(queue, e)
     /\ Answer(t, [op |-> "push", ok |-> TRUE])
  \/ /\ Len(queue) = Capacity
     /\ Answer(t, [op |-> "push", ok |-> FALSE])
     /\ UNCHANGED queue

Pop(t) ==
  \/ /\ queue # <<>>
     /\ queue' = Tail(queue)
     /\ Answer(t, [op |-> "pop", ok |-> TRUE, element |-> Head(queue)])
  \/ /\ queue = <<>>
     /\ Answer(t, [op |-> "pop", ok |-> FALSE])
     /\ UNCHANGED queue

Ask(t) ==
  /\ \/ Answer(t, [op |-> "isEmpty", yes |-> queue = <<>>])
     \/ Answer(t, [op |-> "isFull", yes |-> Len(queue) = Capacity])
     \/ Answer(t, [op |-> "getCount", count |-> Len(queue)])
  /\ UNCHANGED queue

\* a buffer that is deleted and made again is empty
Renew == queue' = <<>> /\ ret' = [t \in Threads |-> Nothing]

Next ==
  \/ \E t \in Threads : (\E e \in Elements : Push(t, e)) \/ Pop(t) \/ Ask(t) \/ Begin(t)
  \/ Renew

Spec == Init /\ [][Next]_vars
================================================================================
