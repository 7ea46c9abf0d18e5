------------------------------- MODULE EVector -------------------------------
(***************************************************************************)
(* evector_base of Lilu's kern_util.hpp, the container of the kernel items *)
(* and patches of KernelPatcher and of the callbacks of LiluAPI.  It keeps *)
(* its elements in one block of memory, which kern_os_realloc may extend   *)
(* where it is, move, or refuse to extend.  Its users call it one at a     *)
(* time.  C counts the elements from 0, the block here from 1.             *)
(***************************************************************************)
EXTENDS Integers, Sequences, SequencesExt

CONSTANTS
  Elements,
  Blocks,      \* where memory may be
  Null, Junk,  \* no block; what fresh memory holds
  Factors,     \* the values MUL is instantiated with
  MaxReserve   \* bound: what callers reserve

VARIABLES
  ptr, cnt, rsvd,
  block,    \* what ptr points to, as many elements as have been allocated
  live,     \* the blocks allocated
  deleted   \* how often each element has been deleted since it was pushed

vars == <<ptr, cnt, rsvd, block, live, deleted>>

Init ==
  /\ ptr = Null /\ cnt = 0 /\ rsvd = 0 /\ block = <<>>
  /\ live = {}
  /\ deleted = [e \in Elements |-> 0]

Contents == SubSeq(block, 1, cnt)

Delete(gone) == deleted' = [e \in Elements |-> deleted[e] + IF e \in gone THEN 1 ELSE 0]

-----------------------------------------------------------------------------
(* reserve, as the set of what it may leave behind.                        *)

Memory == [ptr |-> ptr, rsvd |-> rsvd, block |-> block, live |-> live]

Grown(n) ==
  {[ptr |-> b, rsvd |-> n, live |-> (live \ {ptr}) \cup {b},
    block |-> [k \in 1 .. n |-> IF k <= Len(block) THEN block[k] ELSE Junk]] :
     b \in (Blocks \ live) \cup (live \cap {ptr})}

\* Wrong variant: ptr is overwritten with the null of a failed realloc.
reserveDropping(num, mul) ==
  IF rsvd >= num THEN {Memory}
  ELSE Grown(mul * num) \cup {[Memory EXCEPT !.ptr = Null, !.rsvd = 0, !.block = <<>>]}

reserve(num, mul) ==
  IF rsvd >= num THEN {Memory} ELSE Grown(mul * num) \cup {Memory}

Use(mem) == ptr' = mem.ptr /\ rsvd' = mem.rsvd /\ block' = mem.block /\ live' = mem.live

Free == ptr' = Null /\ rsvd' = 0 /\ block' = <<>> /\ live' = live \ {ptr}

-----------------------------------------------------------------------------
(* The calls.                                                              *)

Reserve(num, mul) ==
  /\ \E mem \in reserve(num, mul) : Use(mem)
  /\ UNCHANGED <<cnt, deleted>>

\* push_back of an element the vector does not hold: it goes behind the
\* others, or stays the caller's if there is no room for it.
PushBack(e, mul) ==
  /\ e \notin ToSet(Contents)
  /\ \E mem \in reserve(cnt + 1, mul) :
       IF mem.rsvd > cnt
         THEN /\ Use([mem EXCEPT !.block[cnt + 1] = e])
              /\ cnt' = cnt + 1
              /\ deleted' = [deleted EXCEPT ![e] = 0]
         ELSE Use(mem) /\ UNCHANGED <<cnt, deleted>>

\* Wrong variant: the last element fills the gap.
EraseSwapping(k, free) ==
  /\ k <= cnt
  /\ Delete({block[k]})
  /\ cnt' = cnt - 1
  /\ IF free /\ cnt = 1 THEN Free
     ELSE block' = [block EXCEPT ![k] = block[cnt]] /\ UNCHANGED <<ptr, rsvd, live>>

\* erase: the elements behind it move up; with the last one the block goes.
Erase(k, free) ==
  /\ k <= cnt
  /\ Delete({block[k]})
  /\ cnt' = cnt - 1
  /\ IF free /\ cnt = 1 THEN Free
     ELSE /\ block' = [i \in DOMAIN block |->
                         IF i \in k .. cnt - 1 THEN block[i + 1] ELSE block[i]]
          /\ UNCHANGED <<ptr, rsvd, live>>

Deinit == ptr # Null /\ Delete(ToSet(Contents)) /\ Free /\ cnt' = 0

Next ==
  \/ \E num \in 1 .. MaxReserve, mul \in Factors : Reserve(num, mul)
  \/ \E e \in Elements, mul \in Factors : PushBack(e, mul)
  \/ \E k \in DOMAIN block, free \in BOOLEAN : Erase(k, free)
  \/ Deinit

Spec == Init /\ [][Next]_vars

-----------------------------------------------------------------------------
(* Properties.                                                             *)

List == INSTANCE OwnedList WITH list <- Contents

\* Through growing, moving blocks, refused memory, erasing and deinit, the
\* vector is a list that owns its elements: it loses none, keeps their order
\* and deletes each once.
IsList == List!Spec

\* rsvd counts the elements ptr has room for, none without a block, and the
\* elements fit: no access through ptr[cnt] is beyond what was allocated.
RoomIsReal ==
  /\ cnt <= rsvd /\ rsvd = Len(block)
  /\ rsvd = 0 <=> ptr = Null

\* No block is lost, also not when kern_os_realloc refuses: what is allocated
\* is what ptr points to, and after deinit nothing is.
NoBlockLost == live = {ptr} \ {Null}

\* The block is what rsvd and ptr say it is, after every way a reserve, a push
\* or an erase can end.
BlockSound == RoomIsReal /\ NoBlockLost

\* What the elements in use and the memory behind them are.
TypeOK ==
  /\ ptr \in Blocks \cup {Null} /\ cnt \in Nat
  /\ block \in Seq(Elements \cup {Junk})
  /\ \A k \in 1 .. cnt : k <= Len(block) => block[k] \in Elements

IInv == TypeOK /\ BlockSound
=============================================================================
