--------------------------- MODULE BlockAllocator ---------------------------
(***************************************************************************)
(* The bitmap blocks of kstor/block_allocator.cpp over core/bitmap.cpp:    *)
(* threads look up or create the block of an index and take bits from it.  *)
(* A bitmap is changed by atomic bit operations without a lock, so the     *)
(* search for a zero bit is a walk, one operation at a time.               *)
(*                                                                         *)
(* BlockTree is the map that Btree implements; its Lock makes each use of  *)
(* it one step.  The page of a new block is not cleared.  The module has   *)
(* no caller yet: a caller is taken to give back only bits it has.         *)
(***************************************************************************)
EXTENDS Naturals

CONSTANTS Threads, Indexes,
          Blocks,       \* bound: bitmap blocks ever made; then memory is out
          Words,        \* whole words of a bitmap
          WordBits,     \* bits of a word
          RestBits,     \* bits behind the last whole word
          MaxFaults,    \* bound: failed allocations
          None

VARIABLES
    tree,       \* BlockTree
    bits,       \* the bits that are set, for each block
    pc, idx,    \* every thread: where it is, and the index it asked for
    ref,        \* the block it refers to
    word, bit,  \* how far its search has come
    own,        \* pairs of a block and a bit that it has taken
    made, deleted,      \* history: blocks made, blocks taken out of the tree
    junk,       \* history: pairs that were set in a new page, or by SetBit
    seen,       \* history: bits that its search has found set
    faults

treeVars == <<tree, made, deleted>>
bitVars == <<bits, own, junk>>
scan == <<word, bit, seen>>
vars == <<treeVars, bitVars, pc, idx, ref, scan, faults>>

BitSize == Words * WordBits + RestBits
Bits == 0 .. BitSize - 1
Size(w) == IF w < Words THEN WordBits ELSE RestBits
WordBitsOf(w) == {w * WordBits + i : i \in 0 .. Size(w) - 1}

At(t, from, to) == pc[t] = from /\ pc' = [pc EXCEPT ![t] = to]

Init ==
    /\ tree = [x \in Indexes |-> None] /\ made = {} /\ deleted = {}
    /\ bits = [b \in Blocks |-> {}] /\ own = [t \in Threads |-> {}] /\ junk = {}
    /\ pc = [t \in Threads |-> "idle"] /\ idx = [t \in Threads |-> None]
    /\ ref = [t \in Threads |-> None] /\ word = [t \in Threads |-> 0]
    /\ bit = [t \in Threads |-> 0] /\ seen = [t \in Threads |-> {}] /\ faults = 0

-----------------------------------------------------------------------------
(* The tree of blocks.                                                     *)

LookupBlock(t, x) ==
    /\ tree[x] # None /\ At(t, "idle", "ready")
    /\ idx' = [idx EXCEPT ![t] = x] /\ ref' = [ref EXCEPT ![t] = tree[x]]
    /\ UNCHANGED <<treeVars, bitVars, scan, faults>>

\* CreateBlock's look under the shared lock.
CreateLookup(t, x) ==
    /\ At(t, "idle", IF tree[x] = None THEN "create" ELSE "ready")
    /\ idx' = [idx EXCEPT ![t] = x] /\ ref' = [ref EXCEPT ![t] = tree[x]]
    /\ UNCHANGED <<treeVars, bitVars, scan, faults>>

\* The thread keeps the block it has made although Insert refused it.
CreateBlock_M(t) ==
    /\ At(t, "create", "ready")
    /\ \E b \in Blocks \ made, j \in SUBSET Bits :
         /\ made' = made \cup {b} /\ bits' = [bits EXCEPT ![b] = j]
         /\ junk' = junk \cup {b} \X j /\ ref' = [ref EXCEPT ![t] = b]
         /\ tree' = IF tree[idx[t]] = None THEN [tree EXCEPT ![idx[t]] = b] ELSE tree
    /\ UNCHANGED <<deleted, idx, own, scan, faults>>

\* Under the exclusive lock: a block with an uncleared page, and Insert, which
\* refuses an index that got a block meanwhile.  The block in the tree is then
\* the answer.  A failed allocation of the block answers null, one in Insert
\* what the tree has.
CreateBlock(t) ==
    /\ pc[t] = "create"
    /\ \/ \E b \in Blocks \ made, j \in SUBSET Bits :
            /\ made' = made \cup {b} /\ tree[idx[t]] = None
            /\ bits' = [bits EXCEPT ![b] = j] /\ junk' = junk \cup {b} \X j
            /\ tree' = [tree EXCEPT ![idx[t]] = b]
            /\ ref' = [ref EXCEPT ![t] = b]
            /\ At(t, "create", "ready") /\ UNCHANGED faults
       \/ /\ tree[idx[t]] # None
          /\ ref' = [ref EXCEPT ![t] = tree[idx[t]]]
          /\ At(t, "create", "ready")
          /\ UNCHANGED <<tree, made, bits, junk, faults>>
       \/ /\ \/ faults < MaxFaults /\ faults' = faults + 1
             \/ made = Blocks /\ UNCHANGED faults
          /\ At(t, "create", "idle")
          /\ UNCHANGED <<tree, made, bits, junk, ref>>
    /\ UNCHANGED <<deleted, idx, own, scan>>

DeleteBlock(x) ==
    /\ tree[x] # None
    /\ tree' = [tree EXCEPT ![x] = None] /\ deleted' = deleted \cup {tree[x]}
    /\ UNCHANGED <<made, bitVars, pc, idx, ref, scan, faults>>

\* The thread's SharedPtr goes.
Release(t) ==
    /\ At(t, "ready", "idle") /\ ref' = [ref EXCEPT ![t] = None]
    /\ UNCHANGED <<treeVars, bitVars, idx, scan, faults>>

-----------------------------------------------------------------------------
(* Single bits; a number that is too large changes nothing.                *)

\* The limit itself passes.
InRange_M(n) == n <= BitSize

InRange(n) == n < BitSize

SetBit(t, n) ==
    /\ pc[t] = "ready" /\ InRange(n)
    /\ bits' = [bits EXCEPT ![ref[t]] = @ \cup {n}]
    /\ junk' = IF n \in bits[ref[t]] THEN junk ELSE junk \cup {<<ref[t], n>>}
    /\ UNCHANGED <<treeVars, own, pc, idx, ref, scan, faults>>

\* The thread has the bit if the old value was zero.
TestAndSetBit(t, n) ==
    /\ pc[t] = "ready" /\ InRange(n)
    /\ bits' = [bits EXCEPT ![ref[t]] = @ \cup {n}]
    /\ own' = IF n \in bits[ref[t]] THEN own ELSE [own EXCEPT ![t] = @ \cup {<<ref[t], n>>}]
    /\ UNCHANGED <<treeVars, junk, pc, idx, ref, scan, faults>>

\* ClearBit and TestAndClearBit, by the thread that has the bit.
ClearBit(t, n) ==
    /\ pc[t] = "ready" /\ InRange(n) /\ <<ref[t], n>> \in own[t]
    /\ bits' = [bits EXCEPT ![ref[t]] = @ \ {n}]
    /\ own' = [own EXCEPT ![t] = @ \ {<<ref[t], n>>}]
    /\ UNCHANGED <<treeVars, junk, pc, idx, ref, scan, faults>>

-----------------------------------------------------------------------------
(* FindSetZeroBit.                                                         *)

FindSetZeroBit(t) ==
    /\ At(t, "ready", "look")
    /\ UNCHANGED <<treeVars, bitVars, idx, ref, scan, faults>>

\* The local variables of a search go with it.
ScanEnd(t) ==
    /\ word' = [word EXCEPT ![t] = 0] /\ bit' = [bit EXCEPT ![t] = 0]
    /\ seen' = [seen EXCEPT ![t] = {}]

\* NotFound in the word: on to the next one, and to the end behind the last.
NextWord(t) ==
    /\ pc' = [pc EXCEPT ![t] = IF word[t] < Words THEN "look" ELSE "notfound"]
    /\ word' = [word EXCEPT ![t] = IF word[t] < Words THEN @ + 1 ELSE @]
    /\ bit' = [bit EXCEPT ![t] = 0]

\* The word is compared with ~0.  What lies behind the last bit of the bitmap
\* belongs to somebody else and may have any value.
LookWord(t) ==
    /\ pc[t] = "look"
    /\ LET here == WordBitsOf(word[t]) \cap bits[ref[t]] IN
         /\ \/ /\ here = WordBitsOf(word[t]) /\ NextWord(t)
               /\ seen' = [seen EXCEPT ![t] = @ \cup here]
            \/ /\ here # WordBitsOf(word[t]) \/ word[t] = Words
               /\ At(t, "look", "test") /\ UNCHANGED <<word, bit, seen>>
    /\ UNCHANGED <<treeVars, bitVars, idx, ref, faults>>

\* The bit is looked at and set in two steps of which the second is modelled.
TestBit_M(t) ==
    /\ pc[t] = "test"
    /\ LET n == word[t] * WordBits + bit[t] IN
         IF bit[t] = Size(word[t]) THEN NextWord(t) /\ UNCHANGED <<bits, own, seen>>
         ELSE /\ own' = [own EXCEPT ![t] = @ \cup {<<ref[t], n>>}]
              /\ bits' = [bits EXCEPT ![ref[t]] = @ \cup {n}]
              /\ At(t, "test", "ready") /\ ScanEnd(t)
    /\ UNCHANGED <<treeVars, junk, idx, ref, faults>>

\* The walk ends one bit before the end of the word.
TestBit_M2(t) ==
    /\ pc[t] = "test"
    /\ LET n == word[t] * WordBits + bit[t] IN
         IF bit[t] + 1 >= Size(word[t]) THEN NextWord(t) /\ UNCHANGED <<bits, own, seen>>
         ELSE IF n \in bits[ref[t]]
         THEN /\ bit' = [bit EXCEPT ![t] = @ + 1]
              /\ seen' = [seen EXCEPT ![t] = @ \cup {n}]
              /\ UNCHANGED <<bits, own, pc, word>>
         ELSE /\ own' = [own EXCEPT ![t] = @ \cup {<<ref[t], n>>}]
              /\ bits' = [bits EXCEPT ![ref[t]] = @ \cup {n}]
              /\ At(t, "test", "ready") /\ ScanEnd(t)
    /\ UNCHANGED <<treeVars, junk, idx, ref, faults>>

\* TestAndSetBit on one bit of the word after the other.
TestBit(t) ==
    /\ pc[t] = "test"
    /\ LET n == word[t] * WordBits + bit[t] IN
         IF bit[t] = Size(word[t]) THEN NextWord(t) /\ UNCHANGED <<bits, own, seen>>
         ELSE IF n \in bits[ref[t]]
         THEN /\ bit' = [bit EXCEPT ![t] = @ + 1]
              /\ seen' = [seen EXCEPT ![t] = @ \cup {n}]
              /\ UNCHANGED <<bits, own, pc, word>>
         ELSE /\ own' = [own EXCEPT ![t] = @ \cup {<<ref[t], n>>}]
              /\ bits' = [bits EXCEPT ![ref[t]] = @ \cup {n}]
              /\ At(t, "test", "ready") /\ ScanEnd(t)
    /\ UNCHANGED <<treeVars, junk, idx, ref, faults>>

\* NotFound is returned.
NotFound(t) ==
    /\ At(t, "notfound", "ready") /\ ScanEnd(t)
    /\ UNCHANGED <<treeVars, bitVars, idx, ref, faults>>

Next ==
    \/ \E t \in Threads, x \in Indexes : LookupBlock(t, x) \/ CreateLookup(t, x)
    \/ \E t \in Threads, n \in 0 .. BitSize :
         SetBit(t, n) \/ TestAndSetBit(t, n) \/ ClearBit(t, n)
    \/ \E t \in Threads :
         \/ CreateBlock(t) \/ Release(t)
         \/ FindSetZeroBit(t) \/ LookWord(t) \/ TestBit(t) \/ NotFound(t)
    \/ \E x \in Indexes : DeleteBlock(x)

Spec == Init /\ [][Next]_vars

-----------------------------------------------------------------------------
TypeOK ==
    /\ tree \in [Indexes -> Blocks \cup {None}]
    /\ made \subseteq Blocks /\ deleted \subseteq Blocks
    /\ bits \in [Blocks -> SUBSET Bits] /\ own \in [Threads -> SUBSET (Blocks \X Bits)]
    /\ junk \subseteq Blocks \X Bits
    /\ pc \in [Threads -> {"idle", "create", "ready", "look", "test", "notfound"}]
    /\ idx \in [Threads -> Indexes \cup {None}] /\ ref \in [Threads -> Blocks \cup {None}]
    /\ word \in [Threads -> 0 .. Words] /\ bit \in [Threads -> 0 .. WordBits]
    /\ seen \in [Threads -> SUBSET Bits] /\ faults \in 0 .. MaxFaults

\* FindSetZeroBit and TestAndSetBit, racing without a lock, give a bit to one
\* thread, and a bit that is set belongs to the thread it was given to, or was
\* set in the new page or by SetBit: none is lost.
BitOneOwner ==
    /\ \A t, u \in Threads : t # u => own[t] \cap own[u] = {}
    /\ \A b \in made :
         {b} \X bits[b] = ({b} \X Bits) \cap ((UNION {own[t] : t \in Threads}) \cup junk)

\* FindSetZeroBit gives up only after it has found every bit set: it passes over
\* no bit, at the end of a word or in the incomplete last one.
NotFoundSawAll == \A t \in Threads : pc[t] = "notfound" => seen[t] = Bits

\* Threads that race to create the block of an index end up with one block: what
\* CreateBlock and LookupBlock return is what the tree holds, until DeleteBlock.
OneBlock ==
    \A t \in Threads : ref[t] # None => ref[t] \in deleted \/ tree[idx[t]] = ref[t]
=============================================================================
