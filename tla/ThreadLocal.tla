------------------------------ MODULE ThreadLocal ------------------------------
(***************************************************************************)
(* ThreadLocal<T, N> of Lilu's kern_util.hpp: the values of up to N        *)
(* threads, kept without a lock.  A slot is a thread identifier, which is  *)
(* only read and written atomically, and a plain value beside it.          *)
(*                                                                         *)
(* An action is one atomic access to an identifier, or one access to a     *)
(* value.  Threads run set, get and erase at the same time; deinit is run  *)
(* while no thread is in a call, and the container is used again after it. *)
(***************************************************************************)
EXTENDS Integers, FiniteSets

CONSTANTS
  Threads,   \* the threads that use the container
  N,         \* the slots
  Values,    \* what threads store
  Empty,     \* T {}
  NoThread   \* nullptr

ASSUME ThreadsAssumption == IsFiniteSet(Threads) /\ NoThread \notin Threads
ASSUME SlotsAssumption == N \in Nat
ASSUME ValuesAssumption == Empty \notin Values

VARIABLES
  threads,   \* the identifier of each slot
  values,    \* the value of each slot
  pc,        \* where each thread is
  i,         \* its loop index
  arg,       \* the argument of its set
  last,      \* history: what its last set stored, Empty if it has erased it
  down       \* the index of deinit, or -1 when it does not run

shared == <<threads, values>>
local  == <<pc, i, arg>>
vars   == <<shared, local, last, down>>

Slots == 0 .. N - 1

\* "held" is after get has returned a pointer to the value
Places == {"idle", "find", "claim", "full", "store", "get", "held",
           "erase", "wipe", "release"}

TypeOK ==
  /\ threads \in [Slots -> Threads \cup {NoThread}]
  /\ values \in [Slots -> Values \cup {Empty}]
  /\ pc \in [Threads -> Places]
  /\ i \in [Threads -> 0 .. N]
  /\ arg \in [Threads -> Values \cup {Empty}]
  /\ last \in [Threads -> Values \cup {Empty}]
  /\ down \in -1 .. N - 1

Init ==
  /\ threads = [s \in Slots |-> NoThread]
  /\ values = [s \in Slots |-> Empty]
  /\ pc = [t \in Threads |-> "idle"]
  /\ i = [t \in Threads |-> 0]
  /\ arg = [t \in Threads |-> Empty]
  /\ last = [t \in Threads |-> Empty]
  /\ down = -1

Goto(t, place, index) ==
  /\ pc' = [pc EXCEPT ![t] = place]
  /\ i' = [i EXCEPT ![t] = index]

-----------------------------------------------------------------------------
(* set, get and erase are called.                                          *)

(* Wrong variant: set takes a null slot without looking for its own.       *)
CallSetUnsearched(t, v) ==
  /\ pc[t] = "idle" /\ down = -1
  /\ Goto(t, "claim", 0)
  /\ arg' = [arg EXCEPT ![t] = v]
  /\ UNCHANGED <<shared, last, down>>

CallSet(t, v) ==
  /\ pc[t] = "idle" /\ down = -1
  /\ Goto(t, "find", 0)
  /\ arg' = [arg EXCEPT ![t] = v]
  /\ UNCHANGED <<shared, last, down>>

Call(t, place) ==
  /\ pc[t] = "idle" /\ down = -1
  /\ Goto(t, place, 0)
  /\ UNCHANGED <<shared, arg, last, down>>

(* The three loops that compare each identifier with the caller's: the     *)
(* place a loop goes to when it finds it, and when it does not.            *)
Found == [find |-> "store", get |-> "held", erase |-> "wipe"]
Missed == [find |-> "claim", get |-> "idle", erase |-> "idle"]

Search(t, loop) ==
  /\ pc[t] = loop
  /\ \/ i[t] = N /\ Goto(t, Missed[loop], 0)
     \/ i[t] < N /\ threads[i[t]] = t /\ Goto(t, Found[loop], i[t])
     \/ i[t] < N /\ threads[i[t]] # t /\ Goto(t, loop, i[t] + 1)
  /\ UNCHANGED <<shared, arg, last, down>>

(* Wrong variant: the identifier is read, and written when it was null,    *)
(* in two steps; here, the write goes ahead whoever took the slot.         *)
ClaimBlindly(t) ==
  /\ pc[t] = "claim"
  /\ \/ i[t] = N /\ Goto(t, "full", N) /\ UNCHANGED threads
     \/ /\ i[t] < N
        /\ threads' = [threads EXCEPT ![i[t]] = t]
        /\ Goto(t, "store", i[t])
  /\ UNCHANGED <<values, arg, last, down>>

(* One compare-and-exchange of the second loop of set.                     *)
Claim(t) ==
  /\ pc[t] = "claim"
  /\ \/ i[t] = N /\ Goto(t, "full", N) /\ UNCHANGED threads
     \/ /\ i[t] < N /\ threads[i[t]] = NoThread
        /\ threads' = [threads EXCEPT ![i[t]] = t]
        /\ Goto(t, "store", i[t])
     \/ /\ i[t] < N /\ threads[i[t]] # NoThread
        /\ Goto(t, "claim", i[t] + 1)
        /\ UNCHANGED threads
  /\ UNCHANGED <<values, arg, last, down>>

(* set returns false.                                                      *)
Refuse(t) ==
  /\ pc[t] = "full"
  /\ Goto(t, "idle", 0)
  /\ UNCHANGED <<shared, arg, last, down>>

Store(t) ==
  /\ pc[t] = "store"
  /\ values' = [values EXCEPT ![i[t]] = arg[t]]
  /\ last' = [last EXCEPT ![t] = arg[t]]
  /\ Goto(t, "idle", 0)
  /\ UNCHANGED <<threads, arg, down>>

(* The caller of get is done with the pointer.                             *)
Use(t) ==
  /\ pc[t] = "held"
  /\ Goto(t, "idle", 0)
  /\ UNCHANGED <<shared, arg, last, down>>

Wipe(t) ==
  /\ pc[t] = "wipe"
  /\ values' = [values EXCEPT ![i[t]] = Empty]
  /\ last' = [last EXCEPT ![t] = Empty]
  /\ Goto(t, "release", i[t])
  /\ UNCHANGED <<threads, arg, down>>

(* The compare-and-exchange at the end of erase.                           *)
Release(t) ==
  /\ pc[t] = "release"
  /\ threads' = [threads EXCEPT ![i[t]] = IF @ = t THEN NoThread ELSE @]
  /\ Goto(t, "idle", 0)
  /\ UNCHANGED <<values, arg, last, down>>

-----------------------------------------------------------------------------
(* deinit: for each slot the identifier first, then the value.             *)

BeginDeinit ==
  /\ N > 0 /\ down = -1 /\ \A t \in Threads : pc[t] = "idle"
  /\ down' = 0
  /\ threads' = [threads EXCEPT ![0] = NoThread]
  /\ last' = [t \in Threads |-> Empty]
  /\ UNCHANGED <<values, local>>

Deinit ==
  /\ down >= 0
  /\ values' = [values EXCEPT ![down] = Empty]
  /\ IF down = N - 1
       THEN down' = -1 /\ UNCHANGED threads
       ELSE down' = down + 1 /\ threads' = [threads EXCEPT ![down + 1] = NoThread]
  /\ UNCHANGED <<local, last>>

-----------------------------------------------------------------------------
Step(t) ==
  \/ \E v \in Values : CallSet(t, v)
  \/ \E place \in {"get", "erase"} : Call(t, place)
  \/ \E loop \in {"find", "get", "erase"} : Search(t, loop)
  \/ Claim(t) \/ Refuse(t) \/ Store(t) \/ Use(t) \/ Wipe(t) \/ Release(t)

Next == (\E t \in Threads : Step(t)) \/ BeginDeinit \/ Deinit

Spec == Init /\ [][Next]_vars

-----------------------------------------------------------------------------
(* Properties.                                                             *)

(* A thread has one slot at most: set, get and erase all work on the first *)
(* they find, and a second one would be lost to everybody.                 *)
OneSlot == \A r, s \in Slots : threads[r] = threads[s] /\ threads[r] # NoThread => r = s

(* get answers with what this thread stored last, never with what another  *)
(* one stored in the slot, and gives nullptr only to a thread whose last   *)
(* set was erased or wiped by deinit.                                      *)
GetsOwn ==
  \A t \in Threads :
    /\ pc[t] = "held" => values[i[t]] = last[t]
    /\ pc[t] = "get" /\ i[t] = N => last[t] = Empty

(* "in up to N threads": set tries the slots one by one while others move  *)
(* about, and still refuses no more threads at a time than there are       *)
(* threads beyond the number of slots, so none when there is a slot each.  *)
Refused == {t \in Threads : pc[t] = "full"}

RoomForAll ==
  Refused # {} => Cardinality(Refused) + N <= Cardinality(Threads)

-----------------------------------------------------------------------------
(* The inductive invariant.                                                *)

Owns(t, s) == threads[s] = t

\* a thread in these places works on the slot it owns
OnSlot == {"store", "held", "wipe", "release"}

\* a null slot holds no value of its former owner
CleanClaim ==
  \A s \in Slots : threads[s] = NoThread => values[s] = Empty \/ down = s

Located ==
  \A t \in Threads :
    /\ pc[t] \in OnSlot => i[t] < N /\ Owns(t, i[t])
    /\ pc[t] \in {"claim", "full"} => \A s \in Slots : ~Owns(t, s)
    /\ pc[t] \in {"find", "get", "erase"} => \A s \in Slots : s < i[t] => ~Owns(t, s)
    /\ pc[t] = "release" => last[t] = Empty
    /\ pc[t] = "full" => i[t] = N

Stored ==
  \A t \in Threads :
    /\ \A s \in Slots : Owns(t, s) /\ down = -1 => values[s] = last[t]
    /\ (\A s \in Slots : ~Owns(t, s)) => last[t] = Empty

Stopped ==
  /\ down # -1 => \A t \in Threads : pc[t] = "idle" /\ last[t] = Empty
  /\ \A s \in Slots : s <= down => threads[s] = NoThread

Kept == \A s \in Slots : s < down => values[s] = Empty

\* The highest slot a thread has reached: it owns it, or it has seen every
\* slot below taken.
Reached(t, s) ==
  \/ pc[t] \in {"claim", "full"} /\ i[t] >= s
  \/ \E r \in Slots : r >= s /\ Owns(t, r)
  \/ s = 0

Beyond(s) == {t \in Threads : Reached(t, s)}

\* whoever goes past a slot leaves its owner behind
Ladder ==
  \A s \in 0 .. N : Beyond(s) # {} => Cardinality(Beyond(s)) + s <= Cardinality(Threads)

IInv ==
  /\ TypeOK /\ OneSlot /\ CleanClaim
  /\ Located /\ Stored /\ Stopped /\ Kept /\ Ladder
================================================================================
