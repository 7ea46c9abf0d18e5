----------------------------- MODULE CircularBuffer -----------------------------
(***************************************************************************)
(* CircularBuffer<T> of Lilu's kern_util.hpp: a ring of Size elements that *)
(* threads push to and pop from, each call under a recursive lock, which   *)
(* push and pop take a second time when they call isFull and isEmpty.      *)
(*                                                                         *)
(* An action is a statement of a call.  The buffer is made by withCapacity *)
(* and deleted while no thread is in a call.                               *)
(***************************************************************************)
EXTENDS Integers, Sequences

CONSTANTS
  Threads, Elements,
  Size,       \* the capacity withCapacity is asked for
  NoElement,  \* what the storage holds before it is written
  Nobody      \* the owner of a free lock

ASSUME SizeAssumption == Size \in Nat
ASSUME NobodyAssumption == Nobody \notin Threads

VARIABLES
  storage, indexr, indexw, count,
  owner, depth,  \* of the lock: its thread, and how often it has taken it
  pc, op, arg,   \* of each thread: its place, its call and push's argument
  elem,          \* what pop has read
  ret,           \* what the call answers, from the moment it is settled
  life, held     \* where the buffer is in its life; what is allocated for it

ring   == <<storage, indexr, indexw, count>>
lock   == <<owner, depth>>
thread == <<pc, op, arg, elem, ret>>
vars   == <<ring, lock, thread, life, held>>

Slots == 0 .. Size - 1
Nothing == [op |-> "none"]
Calls == {"push", "pop", "isEmpty", "isFull", "getCount"}

\* inside the outer lock: before, and after the buffer changes
Inside == {"test", "look", "write", "windex", "wcount", "read", "rindex", "rcount", "unlock"}

TypeOK ==
  /\ storage \in [Slots -> Elements \cup {NoElement}]
  /\ indexr \in 0 .. Size /\ indexw \in 0 .. Size /\ count \in 0 .. Size
  /\ owner \in Threads \cup {Nobody} /\ depth \in 0 .. 2
  /\ pc \in [Threads -> {"idle", "lock"} \cup Inside]
  /\ op \in [Threads -> Calls]
  /\ arg \in [Threads -> Elements \cup {NoElement}]
  /\ elem \in [Threads -> Elements \cup {NoElement}]
  /\ life \in {"none", "storage", "instance", "made"}
  /\ held \in SUBSET {"storage", "instance", "lock"}

Init ==
  /\ storage = [s \in Slots |-> NoElement]
  /\ indexr = 0 /\ indexw = 0 /\ count = 0
  /\ owner = Nobody /\ depth = 0
  /\ pc = [t \in Threads |-> "idle"]
  /\ op = [t \in Threads |-> "getCount"]
  /\ arg = [t \in Threads |-> NoElement]
  /\ elem = [t \in Threads |-> NoElement]
  /\ ret = [t \in Threads |-> Nothing]
  /\ life = "none" /\ held = {}

-----------------------------------------------------------------------------
(* withCapacity: storage, instance and lock are allocated in turn, and     *)
(* each may fail.                                                          *)

AllocStorage ==
  /\ life = "none" /\ life' = "storage" /\ held' = held \cup {"storage"}
  /\ UNCHANGED <<ring, lock, thread>>

AllocInstance ==
  /\ life = "storage"
  /\ \/ life' = "instance" /\ held' = held \cup {"instance"}
     \/ life' = "none" /\ held' = held \ {"storage"}
  /\ UNCHANGED <<ring, lock, thread>>

(* Wrong variant: the storage is kept when there is no lock.               *)
InitBufferLeaks ==
  /\ life = "instance"
  /\ \/ life' = "made" /\ held' = held \cup {"lock"}
     \/ life' = "none" /\ held' = held \ {"instance"}
  /\ UNCHANGED <<ring, lock, thread>>

(* init, and what withCapacity does when it fails.                         *)
InitBuffer ==
  /\ life = "instance"
  /\ \/ life' = "made" /\ held' = held \cup {"lock"}
     \/ life' = "none" /\ held' = held \ {"instance", "storage"}
  /\ UNCHANGED <<ring, lock, thread>>

(* deleter and deinit; the next buffer starts with the members' initial    *)
(* values.                                                                 *)
Delete ==
  /\ life = "made" /\ \A t \in Threads : pc[t] = "idle"
  /\ life' = "none" /\ held' = held \ {"storage", "lock", "instance"}
  /\ storage' = [s \in Slots |-> NoElement]
  /\ indexr' = 0 /\ indexw' = 0 /\ count' = 0
  /\ ret' = [t \in Threads |-> Nothing]
  /\ UNCHANGED <<lock, pc, op, arg, elem>>

-----------------------------------------------------------------------------
(* The calls.                                                              *)

Goto(t, place) == pc' = [pc EXCEPT ![t] = place]
Answer(t, r) == ret' = [ret EXCEPT ![t] = r]

Call(t, c, e) ==
  /\ life = "made" /\ pc[t] = "idle"
  /\ op' = [op EXCEPT ![t] = c]
  /\ arg' = [arg EXCEPT ![t] = e]
  /\ Answer(t, Nothing)
  /\ Goto(t, "lock")
  /\ UNCHANGED <<ring, lock, elem, life, held>>

(* IORecursiveLockLock.                                                    *)
Acquire(t) ==
  /\ owner \in {t, Nobody}
  /\ owner' = t /\ depth' = depth + 1

(* IORecursiveLockUnlock.                                                  *)
Release(t) ==
  /\ depth' = depth - 1
  /\ owner' = IF depth = 1 THEN Nobody ELSE owner

(* The lock at the start of a call.                                        *)
Lock(t) ==
  /\ pc[t] = "lock"
  /\ Acquire(t)
  /\ Goto(t, IF op[t] \in {"push", "pop"} THEN "test" ELSE "look")
  /\ UNCHANGED <<ring, op, arg, elem, ret, life, held>>

(* The lock isFull takes inside push, and isEmpty inside pop.              *)
Test(t) ==
  /\ pc[t] = "test"
  /\ Acquire(t)
  /\ Goto(t, "look")
  /\ UNCHANGED <<ring, op, arg, elem, ret, life, held>>

(* Wrong variant: fullness is told from the indices alone.                 *)
FullByIndex == indexr = indexw

Full == count = Size /\ indexr = indexw
IsEmpty == count = 0 /\ indexr = indexw

(* Wrong variant: a full push returns with the lock.                       *)
LookKeepsLock(t) ==
  /\ pc[t] = "look"
  /\ \/ op[t] = "push" /\ Full /\ Answer(t, [op |-> "push", ok |-> FALSE]) /\ Goto(t, "idle")
     \/ op[t] = "push" /\ ~Full /\ UNCHANGED ret /\ Goto(t, "write")
     \/ op[t] = "pop" /\ IsEmpty /\ Answer(t, [op |-> "pop", ok |-> FALSE]) /\ Goto(t, "unlock")
     \/ op[t] = "pop" /\ ~IsEmpty /\ UNCHANGED ret /\ Goto(t, "read")
     \/ /\ op[t] \notin {"push", "pop"}
        /\ Answer(t, [op |-> "getCount", count |-> count]) /\ Goto(t, "idle")
  /\ Release(t)
  /\ UNCHANGED <<ring, op, arg, elem, life, held>>

(* The body and the unlock of isEmpty, isFull and getCount, and the        *)
(* decision of push and pop on what it answers.                            *)
Look(t) ==
  /\ pc[t] = "look"
  /\ \/ op[t] = "push" /\ Full /\ Answer(t, [op |-> "push", ok |-> FALSE]) /\ Goto(t, "unlock")
     \/ op[t] = "push" /\ ~Full /\ UNCHANGED ret /\ Goto(t, "write")
     \/ op[t] = "pop" /\ IsEmpty /\ Answer(t, [op |-> "pop", ok |-> FALSE]) /\ Goto(t, "unlock")
     \/ op[t] = "pop" /\ ~IsEmpty /\ UNCHANGED ret /\ Goto(t, "read")
     \/ op[t] = "isEmpty" /\ Answer(t, [op |-> "isEmpty", yes |-> IsEmpty]) /\ Goto(t, "idle")
     \/ op[t] = "isFull" /\ Answer(t, [op |-> "isFull", yes |-> Full]) /\ Goto(t, "idle")
     \/ op[t] = "getCount" /\ Answer(t, [op |-> "getCount", count |-> count]) /\ Goto(t, "idle")
  /\ Release(t)
  /\ UNCHANGED <<ring, op, arg, elem, life, held>>

\* x % Size, for an index that was below Size and has been increased once
Wrap(x) == IF x = Size THEN 0 ELSE x

Write(t) ==
  /\ pc[t] = "write"
  /\ storage' = [storage EXCEPT ![indexw] = arg[t]]
  /\ Goto(t, "windex")
  /\ UNCHANGED <<indexr, indexw, count, lock, op, arg, elem, ret, life, held>>

AdvanceWrite(t) ==
  /\ pc[t] = "windex"
  /\ indexw' = Wrap(indexw + 1)
  /\ Goto(t, "wcount")
  /\ UNCHANGED <<storage, indexr, count, lock, op, arg, elem, ret, life, held>>

CountUp(t) ==
  /\ pc[t] = "wcount"
  /\ count' = count + 1
  /\ Answer(t, [op |-> "push", ok |-> TRUE])
  /\ Goto(t, "unlock")
  /\ UNCHANGED <<storage, indexr, indexw, lock, op, arg, elem, life, held>>

Read(t) ==
  /\ pc[t] = "read"
  /\ elem' = [elem EXCEPT ![t] = storage[indexr]]
  /\ Goto(t, "rindex")
  /\ UNCHANGED <<ring, lock, op, arg, ret, life, held>>

AdvanceRead(t) ==
  /\ pc[t] = "rindex"
  /\ indexr' = Wrap(indexr + 1)
  /\ Answer(t, [op |-> "pop", ok |-> TRUE, element |-> elem[t]])
  /\ Goto(t, "rcount")
  /\ UNCHANGED <<storage, indexw, count, lock, op, arg, elem, life, held>>

CountDown(t) ==
  /\ pc[t] = "rcount"
  /\ count' = count - 1
  /\ Goto(t, "unlock")
  /\ UNCHANGED <<storage, indexr, indexw, lock, op, arg, elem, ret, life, held>>

(* The end of push and pop; what the call has kept is gone with it.        *)
Unlock(t) ==
  /\ pc[t] = "unlock"
  /\ Release(t)
  /\ Goto(t, "idle")
  /\ op' = [op EXCEPT ![t] = "getCount"]
  /\ arg' = [arg EXCEPT ![t] = NoElement]
  /\ elem' = [elem EXCEPT ![t] = NoElement]
  /\ UNCHANGED <<ring, ret, life, held>>

-----------------------------------------------------------------------------
Body(t) ==
  \/ Test(t) \/ Look(t) \/ Write(t) \/ AdvanceWrite(t) \/ CountUp(t)
  \/ Read(t) \/ AdvanceRead(t) \/ CountDown(t) \/ Unlock(t)

Step(t) ==
  \/ \E e \in Elements : Call(t, "push", e)
  \/ \E c \in Calls \ {"push"} : Call(t, c, NoElement)
  \/ Lock(t) \/ Body(t)

Lifecycle == AllocStorage \/ AllocInstance \/ InitBuffer \/ Delete

Next == Lifecycle \/ \E t \in Threads : Step(t)

Spec == Init /\ [][Next]_vars

\* a thread that holds the lock goes on with its call
FairSpec == Spec /\ \A t \in Threads : WF_vars(Body(t))

-----------------------------------------------------------------------------
(* Properties.                                                             *)

\* the elements from indexr on; pop's count lags behind its index
Lag(place) == IF \E t \in Threads : pc[t] = place THEN 1 ELSE 0
Live == count - Lag("rcount")
At(k) == IF indexr + k - 1 < Size THEN indexr + k - 1 ELSE indexr + k - 1 - Size
Contents == [k \in 1 .. Live |-> storage[At(k)]]

(* push and pop are those of a queue: in order, nothing lost, nothing      *)
(* twice, refused only when it is full or empty, and each as if it had     *)
(* happened at once although it takes the lock twice and is four           *)
(* statements long.                                                        *)
Queue == INSTANCE BoundedQueue WITH queue <- Contents, Capacity <- Size
IsQueue == Queue!Spec

(* Two threads are never both between the lock and the unlock of a call,   *)
(* and the lock is taken exactly as often as the calls under way require.  *)
Nested(t) == pc[t] = "look" /\ op[t] \in {"push", "pop"}
LockedOnce ==
  \A t \in Threads :
    IF pc[t] \in Inside THEN owner = t /\ depth = (IF Nested(t) THEN 2 ELSE 1)
                        ELSE owner # t

(* withCapacity returns nullptr with nothing left allocated, and a buffer  *)
(* that is deleted gives everything back.                                  *)
NoLeak == life = "none" => held = {}

(* A lock that is taken is given back, on every path of every call.        *)
LockFreed == owner # Nobody ~> owner = Nobody

-----------------------------------------------------------------------------
(* The inductive invariant.                                                *)

\* the write index is Live elements ahead of the read index, and one more
\* when push has advanced it and not yet counted
RingOK ==
  /\ indexr \in Slots \/ Size = 0
  /\ indexw = At(Live + Lag("wcount") + 1)
  /\ Live \in 0 .. Size

\* what each place in push and pop has found out
Progress ==
  \A t \in Threads :
    /\ pc[t] \in {"write", "windex", "wcount"} => count < Size
    /\ pc[t] \in {"read", "rindex", "rcount"} => count > 0
    /\ op[t] = "push" /\ pc[t] # "idle" => arg[t] \in Elements
    /\ pc[t] \in {"write", "windex", "wcount"} => op[t] = "push"
    /\ pc[t] = "test" => op[t] \in {"push", "pop"}
    /\ pc[t] = "windex" => storage[indexw] = arg[t]
    /\ pc[t] = "wcount" => storage[At(Live + 1)] = arg[t]
    /\ pc[t] = "rindex" => elem[t] = storage[indexr]

\* a call is under way in a live buffer only
Alive == life # "made" => \A t \in Threads : pc[t] = "idle"

Unused == owner = Nobody => depth = 0

\* how far withCapacity has come is what is allocated
Allocated ==
  /\ life = "none" => held = {}
  /\ life = "storage" => held = {"storage"}
  /\ life = "instance" => held = {"storage", "instance"}
  /\ life = "made" => held = {"storage", "instance", "lock"}

IInv == TypeOK /\ LockedOnce /\ RingOK /\ Progress /\ Alive /\ Unused
================================================================================
