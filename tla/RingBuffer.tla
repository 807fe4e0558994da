----------------------------- MODULE RingBuffer -----------------------------
(***************************************************************************)
(* The index arithmetic of Core::RingBuffer (core/ring_buffer.h).  A ring  *)
(* is a record [start, end, size]; its capacity never changes after the    *)
(* first Reset, so it is the constant Capacity.  The ring hands out slots  *)
(* 0 .. Capacity-1 in circular order and holds no data itself.             *)
(***************************************************************************)
EXTENDS Integers, Sequences

CONSTANT Capacity          \* RingBuffer::Capacity

ASSUME CapacityAssumption == Capacity \in Nat \ {0}

Slot == 0 .. Capacity - 1

Ring == [start : Slot, end : Slot, size : 0 .. Capacity]

\* Every index is advanced modulo the capacity.
Wrap(a) == a % Capacity

EmptyRing == [start |-> 0, end |-> 0, size |-> 0]

\* The tests of Reset: the four numbers a caller offers describe a ring.  A
\* full ring (size = Capacity) is refused although PushBack can produce it.
ResetOk(rb) ==
    /\ rb.size < Capacity
    /\ rb.start < Capacity
    /\ rb.end < Capacity
    /\ rb.size = IF rb.end >= rb.start THEN rb.end - rb.start
                                       ELSE rb.end + Capacity - rb.start

\* PushBack: TRUE when a slot is free, the slot it returns, the ring it leaves.
PushOk(rb) == rb.size # Capacity

PushBack(rb) ==
    [start |-> rb.start, end |-> Wrap(rb.end + 1), size |-> rb.size + 1]

\* PopFront: it returns rb.start.
PopOk(rb) == rb.size # 0

PopFront(rb) ==
    [start |-> Wrap(rb.start + 1), end |-> rb.end, size |-> rb.size - 1]

\* Mutant of PushMany: the end index does not wrap.
PushNoWrap(rb, n) == [start |-> rb.start, end |-> rb.end + n, size |-> rb.size + n]

\* n successive PushBacks (n <= Capacity - rb.size) and the slots they return.
Pushed(rb, n) == [k \in 1 .. n |-> Wrap(rb.end + k - 1)]

PushMany(rb, n) ==
    [start |-> rb.start, end |-> Wrap(rb.end + n), size |-> rb.size + n]

\* Mutant of EraseOk: the list is compared with the slots after the front.
EraseOffByOne(rb, list) ==
    /\ Len(list) <= rb.size
    /\ \A k \in 1 .. Len(list) : list[k] = Wrap(rb.start + k)

\* Erase(indexList): succeeds only when the list is exactly the next slots
\* from the front, in order; then the front moves past them.
EraseOk(rb, list) ==
    /\ Len(list) <= rb.size
    /\ \A k \in 1 .. Len(list) : list[k] = Wrap(rb.start + k - 1)

Erase(rb, list) ==
    [start |-> Wrap(rb.start + Len(list)),
     end   |-> rb.end,
     size  |-> rb.size - Len(list)]

\* The slots in use, front first.
Used(rb) == {Wrap(rb.start + k) : k \in 0 .. rb.size - 1}

\* end is start advanced by size.
RingOk(rb) == rb.end = Wrap(rb.start + rb.size)
=============================================================================
