------------------------------- MODULE Btree --------------------------------
(***************************************************************************)
(* Btree<K, V, T> of core/btree.h, and TestBtree of control_device.cpp.    *)
(*                                                                         *)
(* A node is a record of its entries (Key[i] and Value[i], which the code  *)
(* always moves together) and its children; a leaf has no children.  The   *)
(* slots past KeyCount are never read and are left out.  Positions count   *)
(* from 1.  Insert, Delete and Lookup run under Lock and are single steps; *)
(* Clear is one step per node it frees.                                    *)
(***************************************************************************)
EXTENDS Integers, FiniteSets, SequencesExt

CONSTANTS T,            \* minimum degree
          Keys,         \* a finite set of integers
          MaxAllocs,    \* bound: allocations an Insert gets before one fails
          Null          \* no node

ASSUME BtreeAssumption == T \in Nat \ {0, 1} /\ Keys \subseteq Int /\ MaxAllocs \in Nat

VARIABLES root,         \* Root
          ret,          \* what the last call returned
          phase         \* calls in any order, or Clear at work

vars == <<root, ret, phase>>

\* A value that tells whose it is.
ValueOf(k) == <<"value", k>>

-----------------------------------------------------------------------------
(* Nodes.                                                                  *)

EmptyLeaf == [ents |-> <<>>, kids |-> <<>>]
IsLeaf(n) == n.kids = <<>>
KeyCount(n) == Len(n.ents)
IsFull(n) == KeyCount(n) = 2 * T - 1
Key(n, i) == n.ents[i].key

\* Binary search of FindKeyIndex and GetKeyIndex between start and end.
RECURSIVE Search(_, _, _, _)
Search(n, k, start, end) ==
    LET mid == (start + end) \div 2 IN
    IF start >= end THEN end
    ELSE IF k = Key(n, mid) THEN mid
    ELSE IF k < Key(n, mid) THEN Search(n, k, start, mid)
    ELSE Search(n, k, mid + 1, end)

FindKeyIndex(n, k) ==
    IF KeyCount(n) = 0 \/ k < Key(n, 1) THEN 1
    ELSE IF k > Key(n, KeyCount(n)) THEN KeyCount(n) + 1
    ELSE Search(n, k, 1, KeyCount(n) + 1)

HasKey(n, k) ==
    LET i == FindKeyIndex(n, k) IN i <= KeyCount(n) /\ Key(n, i) = k

SetChild(n, i, c) == [n EXCEPT !.kids[i] = c]

PutKey(n, i, e) == [n EXCEPT !.ents = InsertAt(@, i, e)]

DeleteKey(n, i) == [n EXCEPT !.ents = RemoveAt(@, i)]

CopyKey(n, i, e) == [n EXCEPT !.ents[i] = e]

\* A leaf has no child to put or to delete.
PutChild(n, i, c) == [n EXCEPT !.kids = InsertAt(@, i, c)]

DeleteChild(n, i) == IF IsLeaf(n) THEN n ELSE [n EXCEPT !.kids = RemoveAt(@, i)]

\* The first c entries and the children before and between them; the rest.
LeftPart(n, c) ==
    [ents |-> SubSeq(n.ents, 1, c),
     kids |-> IF IsLeaf(n) THEN <<>> ELSE SubSeq(n.kids, 1, c + 1)]

RightPart(n, c) ==
    [ents |-> SubSeq(n.ents, c + 1, KeyCount(n)),
     kids |-> IF IsLeaf(n) THEN <<>> ELSE SubSeq(n.kids, c + 1, KeyCount(n) + 1)]

SplitChild(n, i) ==
    LET child == n.kids[i]
        up == PutKey(SetChild(n, i, LeftPart(child, T - 1)), i, child.ents[T])
    IN  PutChild(up, i + 1, RightPart(child, T))

Merge(n, e, src) == [ents |-> n.ents \o <<e>> \o src.ents, kids |-> n.kids \o src.kids]

-----------------------------------------------------------------------------
(* Lookup and Insert.                                                      *)

RECURSIVE LookupIn(_, _)
LookupIn(n, k) ==
    LET i == FindKeyIndex(n, k) IN
    IF KeyCount(n) = 0 THEN Null
    ELSE IF i <= KeyCount(n) /\ Key(n, i) = k THEN n.ents[i].val
    ELSE IF IsLeaf(n) THEN Null
    ELSE LookupIn(n.kids[i], k)

Lookup(r, k) == IF r = Null THEN Null ELSE LookupIn(r, k)

Result(n, ok) == [node |-> n, ok |-> ok]

\* A full child is split on the way down, and the search goes on in the node.
RECURSIVE InsertNonFull(_, _, _)
InsertNonFull(n, k, allocs) ==
    LET i == FindKeyIndex(n, k) IN
    IF HasKey(n, k) THEN Result(n, FALSE)
    ELSE IF IsLeaf(n)
    THEN Result(PutKey(n, i, [key |-> k, val |-> ValueOf(k)]), TRUE)
    ELSE IF IsFull(n.kids[i])
    THEN IF allocs = 0 THEN Result(n, FALSE)
         ELSE InsertNonFull(SplitChild(n, i), k, allocs - 1)
    ELSE LET r == InsertNonFull(n.kids[i], k, allocs)
         IN  Result(SetChild(n, i, r.node), r.ok)

\* allocs: how many allocations succeed.
InsertInto(r, k, allocs) ==
    IF Lookup(r, k) # Null THEN Result(r, FALSE)
    ELSE IF r = Null
    THEN IF allocs = 0 THEN Result(Null, FALSE)
         ELSE InsertNonFull(EmptyLeaf, k, allocs - 1)
    ELSE IF IsFull(r)
    THEN IF allocs < 2 THEN Result(r, FALSE)
         ELSE InsertNonFull(SplitChild([ents |-> <<>>, kids |-> <<r>>], 1), k, allocs - 2)
    ELSE InsertNonFull(r, k, allocs)

-----------------------------------------------------------------------------
(* Delete: on the way down every child that is entered is given T keys.    *)

ChildGiveKey(n, i, left) ==
    LET s == IF left THEN i - 1 ELSE i + 1
        sep == IF left THEN i - 1 ELSE i
        child == n.kids[i]
        sib == n.kids[s]
        c == IF left THEN KeyCount(sib) ELSE 1
        given == IF left THEN PutKey(child, 1, n.ents[sep])
                 ELSE PutKey(child, KeyCount(child) + 1, n.ents[sep])
        moved == IF IsLeaf(child) THEN given
                 ELSE IF left THEN PutChild(given, 1, sib.kids[c + 1])
                 ELSE PutChild(given, KeyCount(child) + 2, sib.kids[1])
        rest == DeleteChild(DeleteKey(sib, c), IF left THEN c + 1 ELSE 1)
    IN  SetChild(SetChild(CopyKey(n, sep, sib.ents[c]), i, moved), s, rest)

\* The node, and the child to go on in: 0 is the node itself, into which the
\* merged child was copied because no key was left.
To(n, at) == [node |-> n, at |-> at]

MergeAt(n, i) ==
    LET m == Merge(n.kids[i], n.ents[i], n.kids[i + 1])
        rest == DeleteChild(DeleteKey(SetChild(n, i, m), i), i + 1)
    IN  IF KeyCount(rest) = 0 THEN To(m, 0) ELSE To(rest, i)

ChildMerge(n, i, left) == MergeAt(n, IF left THEN i - 1 ELSE i)

\* A sibling that has a key to give is merged with.
ChildBalance_M(n, i) ==
    IF KeyCount(n.kids[i]) >= T THEN To(n, i)
    ELSE IF i > 1 THEN ChildMerge(n, i, TRUE) ELSE ChildMerge(n, i, FALSE)

ChildBalance(n, i) ==
    LET hasLeft == i > 1
        hasRight == i <= KeyCount(n)
    IN  CASE KeyCount(n.kids[i]) >= T -> To(n, i)
          [] KeyCount(n.kids[i]) < T /\ hasLeft /\ KeyCount(n.kids[i - 1]) >= T ->
                 To(ChildGiveKey(n, i, TRUE), i)
          [] KeyCount(n.kids[i]) < T /\ (hasLeft => KeyCount(n.kids[i - 1]) < T)
             /\ hasRight /\ KeyCount(n.kids[i + 1]) >= T ->
                 To(ChildGiveKey(n, i, FALSE), i)
          [] KeyCount(n.kids[i]) < T /\ (hasLeft => KeyCount(n.kids[i - 1]) < T)
             /\ (hasRight => KeyCount(n.kids[i + 1]) < T) /\ (hasLeft \/ hasRight) ->
                 ChildMerge(n, i, hasLeft)

\* FindLeftMost, and the deletion of what it finds: the last entry below n.
RECURSIVE TakeLast(_)
\* The predecessor is put in place of the key but not deleted below.
TakeLast_M(n) ==
    IF IsLeaf(n)
    THEN [node |-> n, ent |-> n.ents[KeyCount(n)]]
    ELSE LET b == ChildBalance(n, KeyCount(n) + 1)
             r == TakeLast(b.node.kids[b.at])
         IN  [node |-> SetChild(b.node, b.at, r.node), ent |-> r.ent]

TakeLast(n) ==
    IF IsLeaf(n)
    THEN [node |-> DeleteKey(n, KeyCount(n)), ent |-> n.ents[KeyCount(n)]]
    ELSE LET b == ChildBalance(n, KeyCount(n) + 1)
             r == TakeLast(b.node.kids[b.at])
         IN  [node |-> SetChild(b.node, b.at, r.node), ent |-> r.ent]

\* FindRightMost: the first entry.
RECURSIVE TakeFirst(_)
TakeFirst(n) ==
    IF IsLeaf(n)
    THEN [node |-> DeleteKey(n, 1), ent |-> n.ents[1]]
    ELSE LET b == ChildBalance(n, 1)
             r == TakeFirst(b.node.kids[b.at])
         IN  [node |-> SetChild(b.node, b.at, r.node), ent |-> r.ent]

RECURSIVE DeleteFrom(_, _)
DeleteFrom(n, k) ==
    LET i == FindKeyIndex(n, k)
        In(b) == IF b.at = 0 THEN DeleteFrom(b.node, k)
                 ELSE LET r == DeleteFrom(b.node.kids[b.at], k)
                      IN  Result(SetChild(b.node, b.at, r.node), r.ok)
    IN
    IF IsLeaf(n)
    THEN IF HasKey(n, k) THEN Result(DeleteKey(n, i), TRUE) ELSE Result(n, FALSE)
    ELSE IF ~HasKey(n, k) THEN In(ChildBalance(n, i))
    ELSE IF KeyCount(n.kids[i]) >= T
    THEN LET p == TakeLast(n.kids[i])
         IN  Result(CopyKey(SetChild(n, i, p.node), i, p.ent), TRUE)
    ELSE IF KeyCount(n.kids[i + 1]) >= T
    THEN LET s == TakeFirst(n.kids[i + 1])
         IN  Result(CopyKey(SetChild(n, i + 1, s.node), i, s.ent), TRUE)
    ELSE In(MergeAt(n, i))

-----------------------------------------------------------------------------
(* Check, MinDepth and MaxDepth, and a traversal in key order.             *)

RECURSIVE CheckNode(_, _)
CheckNode(n, isRoot) ==
    /\ KeyCount(n) <= 2 * T - 1
    /\ isRoot \/ KeyCount(n) >= T - 1
    /\ \A i \in 2 .. KeyCount(n) : Key(n, i - 1) < Key(n, i)
    /\ ~IsLeaf(n) => /\ Len(n.kids) = KeyCount(n) + 1
                     /\ \A i \in 1 .. Len(n.kids) : CheckNode(n.kids[i], FALSE)

Check(r) == r = Null \/ CheckNode(r, TRUE)

RECURSIVE Depths(_)
Depths(n) ==
    IF IsLeaf(n) THEN {1}
    ELSE {1 + d : d \in UNION {Depths(n.kids[i]) : i \in 1 .. Len(n.kids)}}

RECURSIVE InOrder(_)
InOrder(n) ==
    IF IsLeaf(n) THEN n.ents
    ELSE FoldLeft(LAMBDA acc, i : acc \o InOrder(n.kids[i])
                                      \o (IF i <= KeyCount(n) THEN <<n.ents[i]>> ELSE <<>>),
                  <<>>, [i \in 1 .. Len(n.kids) |-> i])

Entries == IF root = Null THEN <<>> ELSE InOrder(root)

\* The keys in the tree; Clear works on a tree that nobody looks into.
KeySet == IF phase = "clear" THEN {} ELSE {Entries[i].key : i \in 1 .. Len(Entries)}

-----------------------------------------------------------------------------
(* Calls in any order.                                                     *)

Init == root = Null /\ ret = TRUE /\ phase = "calls"

Insert(k, allocs) ==
    LET r == InsertInto(root, k, allocs)
    IN  root' = r.node /\ ret' = r.ok

Delete(k) ==
    LET r == IF root = Null THEN Result(Null, FALSE) ELSE DeleteFrom(root, k)
    IN  root' = r.node /\ ret' = r.ok

\* One restart of the loop in Clear: the leftmost leaf goes, its parent
\* becomes a leaf when it has lost all children (its keys stay).
RECURSIVE DropLeaf(_)
DropLeaf(n) ==
    IF IsLeaf(n.kids[1]) THEN DeleteChild(n, 1)
    ELSE SetChild(n, 1, DropLeaf(n.kids[1]))

Clear ==
    /\ phase = "calls" /\ root # Null
    /\ phase' = "clear" /\ ret' = TRUE
    /\ UNCHANGED root

ClearStep ==
    /\ phase = "clear"
    /\ IF IsLeaf(root) THEN root' = Null /\ phase' = "calls"
       ELSE root' = DropLeaf(root) /\ UNCHANGED phase
    /\ UNCHANGED ret

Next ==
    \/ /\ phase = "calls"
       /\ \E k \in Keys : Delete(k) \/ \E a \in 0 .. MaxAllocs : Insert(k, a)
       /\ UNCHANGED phase
    \/ Clear \/ ClearStep

Spec == Init /\ [][Next]_vars

-----------------------------------------------------------------------------
TypeOK ==
    /\ ret \in BOOLEAN
    /\ root # Null => \A i \in 1 .. Len(Entries) :
          Entries[i].key \in Keys /\ Entries[i].val = ValueOf(Entries[i].key)

\* The types, and: after every call the tree passes Check, all leaves are at
\* one depth (MinDepth = MaxDepth) and the entries of the whole tree are in
\* order, which Check, looking at one node at a time, does not test; and Lookup
\* finds every key with its value, and no other.  No call or failed allocation
\* breaks this.
SearchTree ==
    /\ TypeOK
    /\ phase # "clear" /\ root # Null =>
         /\ Check(root)
         /\ Cardinality(Depths(root)) = 1
         /\ \A i \in 2 .. Len(Entries) : Entries[i - 1].key < Entries[i].key
         /\ \A k \in Keys : Lookup(root, k) = IF k \in KeySet THEN ValueOf(k) ELSE Null

Map == INSTANCE KvMap WITH map <- KeySet

\* Insert and Delete change the tree by exactly the key they are given and
\* report whether they did; an Insert that runs out of memory half way leaves
\* every other key where it was: the tree implements KvMap.
IsMap == Map!Spec
=============================================================================
