----------------------------- MODULE CoreMemory -----------------------------
(***************************************************************************)
(* The three owners of memory and blocks that threads race for: shared     *)
(* pointers, the memory checkers of debug builds and the bitmap blocks of  *)
(* the block allocator.  They share no state, so a behaviour is one of one *)
(* of them, chosen at the start, and the variables of the others keep None *)
(* (a variable that two modules name belongs to the part that runs).       *)
(***************************************************************************)
EXTENDS Naturals, FiniteSets, TLC

CONSTANTS Threads, Addrs,
          Refs,                     \* of SharedPtr
          Pages, MaxAllocs,         \* of Checker
          Indexes, Blocks, Words, WordBits, RestBits,   \* of BlockAllocator
          MaxFaults, None

ASSUME CoreMemoryAssumption ==
    /\ MaxAllocs \in Nat /\ MaxFaults \in Nat /\ None \notin Blocks
    /\ IsFiniteSet(Threads) /\ IsFiniteSet(Addrs) /\ IsFiniteSet(Pages)
    /\ Addrs \cap Pages = {} /\ None \notin Addrs \cup Pages \cup Refs \cup Threads
    /\ "Shared" \notin Threads /\ None \notin [counter : Nat, object : Addrs \cup {None}]
    /\ Words \in Nat /\ WordBits \in Nat \ {0} /\ RestBits \in 0 .. WordBits - 1

VARIABLES
    part,       \* the part that runs
    debug, heap, writer, readers, op, tmp, panics,
    why, page, hold, live, plive, entries, raw, plist, nr_allocs, nr_frees, exit, leaks,
    tree, bits, idx, word, bit, own, made, deleted, junk, seen,
    ptr, keys, ref, pc, faults

S == INSTANCE SharedPtr
C == INSTANCE Checker
A == INSTANCE BlockAllocator

pointerOnly == <<debug, heap, writer, readers, op, tmp, panics>>
checkerOnly == <<why, page, hold, live, plive, entries, raw, plist, nr_allocs, nr_frees,
                 exit, leaks>>
allocatorOnly == <<tree, bits, idx, word, bit, own, made, deleted, junk, seen>>

vars == <<part, pointerOnly, checkerOnly, allocatorOnly, ptr, keys, ref, pc, faults>>

NoPointer ==
    /\ debug = None /\ heap = None /\ writer = None /\ readers = None /\ op = None
    /\ tmp = None /\ panics = None
NoChecker ==
    /\ why = None /\ page = None /\ hold = None /\ live = None /\ plive = None
    /\ entries = None /\ raw = None /\ plist = None /\ nr_allocs = None
    /\ nr_frees = None /\ exit = None /\ leaks = None
NoAllocator ==
    /\ tree = None /\ bits = None /\ idx = None /\ word = None /\ bit = None
    /\ own = None /\ made = None /\ deleted = None /\ junk = None /\ seen = None

Init ==
    \/ part = "pointer" /\ S!Init /\ NoChecker /\ NoAllocator
    \/ part = "checker" /\ C!Init /\ NoPointer /\ NoAllocator /\ ref = None
    \/ part = "allocator" /\ A!Init /\ NoPointer /\ NoChecker /\ ptr = None /\ keys = None

Pointer == part = "pointer" /\ S!Next /\ UNCHANGED <<part, checkerOnly, allocatorOnly>>
Checked == part = "checker" /\ C!Next /\ UNCHANGED <<part, pointerOnly, allocatorOnly, ref>>
Allocator == part = "allocator" /\ A!Next /\ UNCHANGED <<part, pointerOnly, checkerOnly, ptr, keys>>

Next == Pointer \/ Checked \/ Allocator

Spec == Init /\ [][Next]_vars

\* Threads, pages and blocks are interchangeable.
Symmetry == Permutations(Threads) \cup Permutations(Pages) \cup Permutations(Blocks)

-----------------------------------------------------------------------------
TypeOK ==
    /\ part \in {"pointer", "checker", "allocator"}
    /\ part = "pointer" => S!TypeOK
    /\ part = "checker" => C!TypeOK
    /\ part = "allocator" => A!TypeOK

\* SharedPtr: what a pointer leads to is alive, and the counter is the number
\* of pointers, up to the copies under way.
CountsOwners == part = "pointer" => S!CountsOwners

\* SharedPtr: every object and ObjectReference has an owner or a thread that
\* makes or destroys it, and its address is registered for it alone.
NothingLost == part = "pointer" => S!NothingLost

\* malloc_checker: a block in use has exactly one entry, and a thread gives
\* back to the kernel only what is nobody else's.
EntryExact == part = "checker" => C!EntryExact

\* kapi_deinit: the exit reports and releases all that the threads have kept,
\* and nothing that belongs to the checkers.
LeaksExact == part = "checker" => C!LeaksExact

\* Bitmap: a bit is given to one thread, and none is lost.
BitOneOwner == part = "allocator" => A!BitOneOwner

\* FindSetZeroBit gives up only after it has found every bit set.
NotFoundSawAll == part = "allocator" => A!NotFoundSawAll

\* CreateBlock: threads that race for an index end up with one block.
OneBlock == part = "allocator" => A!OneBlock
=============================================================================
