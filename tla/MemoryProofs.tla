---------------------------- MODULE MemoryProofs -----------------------------
(***************************************************************************)
(* Proofs about the memory checkers and the bitmap blocks of               *)
(* BlockAllocator, for any number of threads, addresses, pages, blocks,    *)
(* words and bits.  Checkers: the entries are those of the blocks in use,  *)
(* and the report at module exit counts what was leaked.  Bitmap blocks:   *)
(* who owns a bit, that a search that finds nothing has seen every bit     *)
(* taken, and that an index has one block.                                 *)
(***************************************************************************)
EXTENDS CoreMemory, FiniteSetTheorems, TLAPS

-----------------------------------------------------------------------------
(* The memory checkers                                                     *)

\* A thread works on a block that is neither in use nor free, ...
Owning == {"m_add", "p_add", "q_put", "f_del", "f_block"}
\* ... on one that the malloc checker knows, ...
Known == {"p_add", "q_put", "f_del"}
\* ... on a page that nobody has yet, or nobody any more, ...
Paging(t) == \/ pc[t] \in {"p_put", "p_add", "q_put"}
             \/ why[t] = "page" /\ pc[t] \in {"m_entry", "m_block", "m_add"}
\* ... holds a malloc_entry that is in no list, ...
Raw == {t \in Threads : pc[t] \in {"m_block", "m_add", "f_block", "f_entry"}}
\* ... has yet to count the page it freed.
Uncounted == {t \in Threads : pc[t] \in {"q_put", "q_count"} \/
                 (why[t] = "page" /\ pc[t] \in {"f_del", "f_block", "f_entry"})}

\* The pages that threads have.
HeldPages == {p \in Pages : \E t \in Threads : p \in hold[t]}

\* The addresses that have an entry.
Entered == {a \in Addrs : entries[a] = 1}

\* What belongs to one belongs to no other.
Apart ==
    /\ \A t, u \in Threads : t # u => hold[t] \cap hold[u] = {}
    /\ \A t \in Threads : hold[t] \cap keys = {}
    /\ \A e \in plist : e.at \notin keys /\ \A t \in Threads : e.at \notin hold[t]
    /\ \A e, f \in plist : e # f => e.at # f.at /\ e.page # f.page
    /\ \A t \in Threads : pc[t] \in Owning =>
         /\ ptr[t] \in Addrs /\ ptr[t] \in live /\ ptr[t] \notin keys
         /\ \A u \in Threads : ptr[t] \notin hold[u]
         /\ \A e \in plist : ptr[t] # e.at
         /\ \A u \in Threads : u # t /\ pc[u] \in Owning => ptr[t] # ptr[u]

\* The entries of the malloc checker are those of the blocks in use and of the
\* ones that a thread has entered or is about to take out.
EntriesOk ==
    /\ \A a \in Addrs : entries[a] \in {0, 1} /\ (entries[a] = 1 => a \in live)
    /\ \A t \in Threads : pc[t] \in Owning =>
         entries[ptr[t]] = IF pc[t] \in Known THEN 1 ELSE 0
    /\ \A a \in keys : entries[a] = 1
    /\ \A e \in plist : entries[e.at] = 1
    /\ \A t \in Threads : \A a \in hold[t] \cap Addrs : entries[a] = 1 \/ a \in leaks
    /\ \A a \in live :
         \/ a \in keys \/ \E e \in plist : e.at = a
         \/ \E t \in Threads : a \in hold[t]
         \/ \E t \in Threads : pc[t] \in Owning /\ ptr[t] = a
    /\ \A a \in live : entries[a] = 0 => \E t \in Threads : pc[t] \in Owning /\ ptr[t] = a

\* A page in a caller's hands has its entry in the page checker until it is
\* reported.
PagesOk ==
    /\ \A t \in Threads : \A p \in hold[t] \cap Pages :
         p \in leaks \/ \E e \in plist : e.page = p
    /\ \A e \in plist : e.page \notin leaks /\ \E t \in Threads : e.page \in hold[t]
    /\ \A t \in Threads : Paging(t) =>
         /\ page[t] \in Pages /\ page[t] \in plive
         /\ \A u \in Threads : page[t] \notin hold[u]
         /\ \A u \in Threads : u # t /\ Paging(u) => page[t] # page[u]
    /\ \A p \in plive : \/ \E e \in plist : e.page = p
                        \/ \E t \in Threads : Paging(t) /\ page[t] = p
    /\ \A e \in plist : e.page \in plive

\* The counters are the sizes of what they count.
CountsOk ==
    /\ raw = Cardinality(Entered) + Cardinality(Raw)
    /\ nr_allocs = nr_frees + Cardinality(HeldPages) + Cardinality(Uncounted)

\* The stages of the exit leave nothing behind.
ExitOk ==
    /\ exit # "no" => \A t \in Threads : pc[t] = "idle"
    /\ exit \in {"no", "keys"} => leaks = {}
    /\ exit \in {"pages", "blocks", "done"} => keys = {}
    /\ exit = "pages" => leaks \subseteq Pages
    /\ exit \in {"blocks", "done"} => plist = {}
    /\ exit = "done" => \A a \in Addrs : entries[a] = 0
    /\ \A x \in leaks : \E t \in Threads : x \in hold[t]
    /\ \A a \in leaks \cap Addrs : entries[a] = 0

\* What a thread's work is for.
WhyOk == \A t \in Threads :
    /\ pc[t] \in {"m_entry", "m_block", "m_add"} => why[t] \in {"user", "page", "key"}
    /\ pc[t] \in {"p_put", "p_add", "q_put", "q_count"} => why[t] = "page"

\* The inductive invariant, and the invariant of CoreMemory it makes.
CInv == C!TypeOK /\ WhyOk /\ Apart /\ EntriesOk /\ PagesOk /\ ExitOk /\ CountsOk
CheckerInv == part = "checker" => CInv

\* The sets that are counted are finite, before and after a step.
LEMMA Counted ==
    /\ IsFiniteSet(Entered) /\ IsFiniteSet(Raw) /\ IsFiniteSet(HeldPages) /\ IsFiniteSet(Uncounted)
    /\ Cardinality(Entered) \in Nat /\ Cardinality(Entered') \in Nat
    /\ Cardinality(Raw) \in Nat /\ Cardinality(Raw') \in Nat
    /\ Cardinality(HeldPages) \in Nat /\ Cardinality(Uncounted) \in Nat
<1>1. /\ Entered \subseteq Addrs /\ Entered' \subseteq Addrs
      /\ Raw \subseteq Threads /\ Raw' \subseteq Threads
      /\ HeldPages \subseteq Pages /\ Uncounted \subseteq Threads
    BY DEF Entered, Raw, HeldPages, Uncounted
<1> QED BY <1>1, FS_Subset, FS_CardinalityType, CoreMemoryAssumption

\* The size of a finite set with an element more or less.
LEMMA OneMore ==
    ASSUME NEW Z, IsFiniteSet(Z), NEW x
    PROVE  /\ x \notin Z => Cardinality(Z \cup {x}) = Cardinality(Z) + 1
           /\ x \in Z => Cardinality(Z \ {x}) = Cardinality(Z) - 1
BY FS_AddElement, FS_RemoveElement

\* Every step of an allocation, a release, or the exit of the module
\* preserves the invariant.
LEMMA CStep == CInv /\ C!Next => CInv'
<1> SUFFICES ASSUME CInv, C!Next PROVE CInv'
    OBVIOUS
<1> USE CoreMemoryAssumption
    DEF CInv, C!At, C!mem, C!pageVars, C!exitVars, C!Fault, C!MallocFailed,
        C!AfterFree, C!FreeNow, C!NextStage, Owning, Known, Paging
<1>1. ASSUME NEW t \in Threads, C!Kmalloc(t)
      PROVE  CInv'
    <2> USE <1>1 DEF C!Kmalloc
    <2>1. CountsOk'
        <3>1. Entered' = Entered
            BY DEF C!TypeOK, WhyOk, Apart, EntriesOk, PagesOk, ExitOk, Entered
        <3>2. Raw' = Raw
            BY DEF C!TypeOK, WhyOk, Apart, EntriesOk, PagesOk, ExitOk, Raw
        <3>3. HeldPages' = HeldPages
            BY DEF C!TypeOK, WhyOk, Apart, EntriesOk, PagesOk, ExitOk, HeldPages
        <3>4. Uncounted' = Uncounted
            BY DEF C!TypeOK, WhyOk, Apart, EntriesOk, PagesOk, ExitOk, Uncounted
        <3> QED BY <3>1, <3>2, <3>3, <3>4, Counted DEF C!TypeOK, CountsOk
    <2>2. C!TypeOK'
        <3>1. raw' \in Nat
            BY <2>1, Counted DEF CountsOk
        <3> QED BY <3>1 DEF C!TypeOK, Apart
    <2>3. WhyOk'
        BY DEF C!TypeOK, WhyOk
    <2>4. Apart'
        BY DEF C!TypeOK, WhyOk, Apart, EntriesOk, PagesOk, ExitOk
    <2>5. EntriesOk'
        BY DEF C!TypeOK, WhyOk, Apart, EntriesOk, ExitOk
    <2>6. PagesOk'
        BY DEF C!TypeOK, WhyOk, Apart, PagesOk, ExitOk
    <2>7. ExitOk'
        BY DEF C!TypeOK, ExitOk, EntriesOk, PagesOk
    <2> QED BY <2>1, <2>2, <2>3, <2>4, <2>5, <2>6, <2>7
<1>2. ASSUME NEW t \in Threads, C!MallocEntry(t)
      PROVE  CInv'
    <2> USE <1>2 DEF C!MallocEntry
    <2>1. CountsOk'
        <3>1. CASE pc' = [pc EXCEPT ![t] = "m_block"] /\ raw' = raw + 1
            <4>1. Entered' = Entered
                BY <3>1 DEF C!TypeOK, WhyOk, Apart, EntriesOk, PagesOk, ExitOk, Entered
            <4>2. t \notin Raw /\ Raw' = Raw \cup {t}
                BY <3>1 DEF C!TypeOK, WhyOk, Apart, EntriesOk, PagesOk, ExitOk, Raw
            <4>3. HeldPages' = HeldPages
                BY <3>1 DEF C!TypeOK, WhyOk, Apart, EntriesOk, PagesOk, ExitOk, HeldPages
            <4>4. Uncounted' = Uncounted
                BY <3>1 DEF C!TypeOK, WhyOk, Apart, EntriesOk, PagesOk, ExitOk, Uncounted
            <4>5. Cardinality(Raw') = Cardinality(Raw) + 1
                BY <4>2, Counted, OneMore
            <4> QED BY <3>1, <4>1, <4>2, <4>3, <4>4, <4>5, Counted DEF C!TypeOK, CountsOk
        <3>2. CASE C!MallocFailed(t) /\ UNCHANGED raw
            <4>1. Entered' = Entered
                BY <3>2 DEF C!TypeOK, WhyOk, Apart, EntriesOk, PagesOk, ExitOk, Entered
            <4>2. Raw' = Raw
                BY <3>2 DEF C!TypeOK, WhyOk, Apart, EntriesOk, PagesOk, ExitOk, Raw
            <4>3. HeldPages' = HeldPages
                BY <3>2 DEF C!TypeOK, WhyOk, Apart, EntriesOk, PagesOk, ExitOk, HeldPages
            <4>4. Uncounted' = Uncounted
                BY <3>2 DEF C!TypeOK, WhyOk, Apart, EntriesOk, PagesOk, ExitOk, Uncounted
            <4> QED BY <3>2, <4>1, <4>2, <4>3, <4>4, Counted DEF C!TypeOK, CountsOk
        <3> QED BY <3>1, <3>2
    <2>2. C!TypeOK'
        <3>1. raw' \in Nat
            BY <2>1, Counted DEF CountsOk
        <3> QED BY <3>1 DEF C!TypeOK, Apart
    <2>3. WhyOk'
        BY DEF C!TypeOK, WhyOk
    <2>4. Apart'
        BY DEF C!TypeOK, WhyOk, Apart, EntriesOk, PagesOk, ExitOk
    <2>5. EntriesOk'
        BY DEF C!TypeOK, WhyOk, Apart, EntriesOk, ExitOk
    <2>6. PagesOk'
        BY DEF C!TypeOK, WhyOk, Apart, PagesOk, ExitOk
    <2>7. ExitOk'
        BY DEF C!TypeOK, ExitOk, EntriesOk, PagesOk
    <2> QED BY <2>1, <2>2, <2>3, <2>4, <2>5, <2>6, <2>7
<1>3. ASSUME NEW t \in Threads, C!MallocBlock(t)
      PROVE  CInv'
    <2> USE <1>3 DEF C!MallocBlock
    <2>1. CountsOk'
        <3>1. CASE pc' = [pc EXCEPT ![t] = "m_add"] /\ UNCHANGED raw
            <4>1. Entered' = Entered
                BY <3>1 DEF C!TypeOK, WhyOk, Apart, EntriesOk, PagesOk, ExitOk, Entered
            <4>2. Raw' = Raw
                BY <3>1 DEF C!TypeOK, WhyOk, Apart, EntriesOk, PagesOk, ExitOk, Raw
            <4>3. HeldPages' = HeldPages
                BY <3>1 DEF C!TypeOK, WhyOk, Apart, EntriesOk, PagesOk, ExitOk, HeldPages
            <4>4. Uncounted' = Uncounted
                BY <3>1 DEF C!TypeOK, WhyOk, Apart, EntriesOk, PagesOk, ExitOk, Uncounted
            <4> QED BY <3>1, <4>1, <4>2, <4>3, <4>4, Counted DEF C!TypeOK, CountsOk
        <3>2. CASE C!MallocFailed(t) /\ raw' = raw - 1
            <4>1. Entered' = Entered
                BY <3>2 DEF C!TypeOK, WhyOk, Apart, EntriesOk, PagesOk, ExitOk, Entered
            <4>2. t \in Raw /\ Raw' = Raw \ {t}
                BY <3>2 DEF C!TypeOK, WhyOk, Apart, EntriesOk, PagesOk, ExitOk, Raw
            <4>3. HeldPages' = HeldPages
                BY <3>2 DEF C!TypeOK, WhyOk, Apart, EntriesOk, PagesOk, ExitOk, HeldPages
            <4>4. Uncounted' = Uncounted
                BY <3>2 DEF C!TypeOK, WhyOk, Apart, EntriesOk, PagesOk, ExitOk, Uncounted
            <4>5. Cardinality(Raw') = Cardinality(Raw) - 1
                BY <4>2, Counted, OneMore
            <4> QED BY <3>2, <4>1, <4>2, <4>3, <4>4, <4>5, Counted DEF C!TypeOK, CountsOk
        <3> QED BY <3>1, <3>2
    <2>2. C!TypeOK'
        <3>1. raw' \in Nat
            BY <2>1, Counted DEF CountsOk
        <3> QED BY <3>1 DEF C!TypeOK, Apart
    <2>3. WhyOk'
        BY DEF C!TypeOK, WhyOk
    <2>4. Apart'
        BY DEF C!TypeOK, WhyOk, Apart, EntriesOk, PagesOk, ExitOk
    <2>5. EntriesOk'
        BY DEF C!TypeOK, WhyOk, Apart, EntriesOk, ExitOk
    <2>6. PagesOk'
        BY DEF C!TypeOK, WhyOk, Apart, PagesOk, ExitOk
    <2>7. ExitOk'
        BY DEF C!TypeOK, ExitOk, EntriesOk, PagesOk
    <2> QED BY <2>1, <2>2, <2>3, <2>4, <2>5, <2>6, <2>7
<1>4. ASSUME NEW t \in Threads, C!MallocAdd(t)
      PROVE  CInv'
    <2> USE <1>4 DEF C!MallocAdd
    <2>1. CountsOk'
        <3>1. ptr[t] \notin Entered /\ Entered' = Entered \cup {ptr[t]}
            BY DEF C!TypeOK, WhyOk, Apart, EntriesOk, PagesOk, ExitOk, Entered
        <3>2. t \in Raw /\ Raw' = Raw \ {t}
            BY DEF C!TypeOK, WhyOk, Apart, EntriesOk, PagesOk, ExitOk, Raw
        <3>3. HeldPages' = HeldPages
            BY DEF C!TypeOK, WhyOk, Apart, EntriesOk, PagesOk, ExitOk, HeldPages
        <3>4. Uncounted' = Uncounted
            BY DEF C!TypeOK, WhyOk, Apart, EntriesOk, PagesOk, ExitOk, Uncounted
        <3>5. Cardinality(Entered') = Cardinality(Entered) + 1
            BY <3>1, Counted, OneMore
        <3>6. Cardinality(Raw') = Cardinality(Raw) - 1
            BY <3>2, Counted, OneMore
        <3> QED BY <3>1, <3>2, <3>3, <3>4, <3>5, <3>6, Counted DEF C!TypeOK, CountsOk
    <2>2. C!TypeOK'
        <3>1. raw' \in Nat
            BY <2>1, Counted DEF CountsOk
        <3> QED BY <3>1 DEF C!TypeOK, Apart
    <2>3. WhyOk'
        BY DEF C!TypeOK, WhyOk
    <2>4. Apart'
        BY DEF C!TypeOK, WhyOk, Apart, EntriesOk, PagesOk, ExitOk
    <2>5. EntriesOk'
        BY DEF C!TypeOK, WhyOk, Apart, EntriesOk, ExitOk
    <2>6. PagesOk'
        BY DEF C!TypeOK, WhyOk, Apart, PagesOk, ExitOk
    <2>7. ExitOk'
        BY DEF C!TypeOK, ExitOk, EntriesOk, PagesOk
    <2> QED BY <2>1, <2>2, <2>3, <2>4, <2>5, <2>6, <2>7
<1>5. ASSUME NEW t \in Threads, C!Kfree(t)
      PROVE  CInv'
    <2> USE <1>5 DEF C!Kfree
    <2>1. CountsOk'
        <3>1. Entered' = Entered
            BY DEF C!TypeOK, WhyOk, Apart, EntriesOk, PagesOk, ExitOk, Entered
        <3>2. Raw' = Raw
            BY DEF C!TypeOK, WhyOk, Apart, EntriesOk, PagesOk, ExitOk, Raw
        <3>3. HeldPages' = HeldPages
            BY DEF C!TypeOK, WhyOk, Apart, EntriesOk, PagesOk, ExitOk, HeldPages
        <3>4. Uncounted' = Uncounted
            BY DEF C!TypeOK, WhyOk, Apart, EntriesOk, PagesOk, ExitOk, Uncounted
        <3> QED BY <3>1, <3>2, <3>3, <3>4, Counted DEF C!TypeOK, CountsOk
    <2>2. C!TypeOK'
        <3>1. raw' \in Nat
            BY <2>1, Counted DEF CountsOk
        <3> QED BY <3>1 DEF C!TypeOK, Apart
    <2>3. WhyOk'
        BY DEF C!TypeOK, WhyOk
    <2>4. Apart'
        BY DEF C!TypeOK, WhyOk, Apart, EntriesOk, PagesOk, ExitOk
    <2>5. EntriesOk'
        BY SMTT(20) DEF C!TypeOK, WhyOk, Apart, EntriesOk, ExitOk
    <2>6. PagesOk'
        BY DEF C!TypeOK, WhyOk, Apart, PagesOk, ExitOk
    <2>7. ExitOk'
        BY DEF C!TypeOK, ExitOk, EntriesOk, PagesOk
    <2> QED BY <2>1, <2>2, <2>3, <2>4, <2>5, <2>6, <2>7
<1>6. ASSUME NEW t \in Threads, C!FreeDel(t)
      PROVE  CInv'
    <2> USE <1>6 DEF C!FreeDel
    <2>1. CountsOk'
        <3>1. ptr[t] \in Entered /\ Entered' = Entered \ {ptr[t]}
            BY DEF C!TypeOK, WhyOk, Apart, EntriesOk, PagesOk, ExitOk, Entered
        <3>2. t \notin Raw /\ Raw' = Raw \cup {t}
            BY DEF C!TypeOK, WhyOk, Apart, EntriesOk, PagesOk, ExitOk, Raw
        <3>3. HeldPages' = HeldPages
            BY DEF C!TypeOK, WhyOk, Apart, EntriesOk, PagesOk, ExitOk, HeldPages
        <3>4. Uncounted' = Uncounted
            BY DEF C!TypeOK, WhyOk, Apart, EntriesOk, PagesOk, ExitOk, Uncounted
        <3>5. Cardinality(Entered') = Cardinality(Entered) - 1
            BY <3>1, Counted, OneMore
        <3>6. Cardinality(Raw') = Cardinality(Raw) + 1
            BY <3>2, Counted, OneMore
        <3> QED BY <3>3, <3>4, <3>5, <3>6, Counted DEF C!TypeOK, CountsOk
    <2>2. C!TypeOK'
        <3>1. raw' \in Nat
            BY <2>1, Counted DEF CountsOk
        <3> QED BY <3>1 DEF C!TypeOK, Apart
    <2>3. WhyOk'
        BY DEF C!TypeOK, WhyOk
    <2>4. Apart'
        BY DEF C!TypeOK, WhyOk, Apart, EntriesOk, PagesOk, ExitOk
    <2>5. EntriesOk'
        BY DEF C!TypeOK, WhyOk, Apart, EntriesOk, ExitOk
    <2>6. PagesOk'
        BY DEF C!TypeOK, WhyOk, Apart, PagesOk, ExitOk
    <2>7. ExitOk'
        BY DEF C!TypeOK, ExitOk, EntriesOk, PagesOk
    <2> QED BY <2>1, <2>2, <2>3, <2>4, <2>5, <2>6, <2>7
<1>7. ASSUME NEW t \in Threads, C!FreeBlock(t)
      PROVE  CInv'
    <2> USE <1>7 DEF C!FreeBlock
    <2>1. CountsOk'
        <3>1. Entered' = Entered
            BY DEF C!TypeOK, WhyOk, Apart, EntriesOk, PagesOk, ExitOk, Entered
        <3>2. Raw' = Raw
            BY DEF C!TypeOK, WhyOk, Apart, EntriesOk, PagesOk, ExitOk, Raw
        <3>3. HeldPages' = HeldPages
            BY DEF C!TypeOK, WhyOk, Apart, EntriesOk, PagesOk, ExitOk, HeldPages
        <3>4. Uncounted' = Uncounted
            BY DEF C!TypeOK, WhyOk, Apart, EntriesOk, PagesOk, ExitOk, Uncounted
        <3> QED BY <3>1, <3>2, <3>3, <3>4, Counted DEF C!TypeOK, CountsOk
    <2>2. C!TypeOK'
        <3>1. raw' \in Nat
            BY <2>1, Counted DEF CountsOk
        <3> QED BY <3>1 DEF C!TypeOK, Apart
    <2>3. WhyOk'
        BY DEF C!TypeOK, WhyOk
    <2>4. Apart'
        BY DEF C!TypeOK, WhyOk, Apart, EntriesOk, PagesOk, ExitOk
    <2>5. EntriesOk'
        BY DEF C!TypeOK, WhyOk, Apart, EntriesOk, ExitOk
    <2>6. PagesOk'
        BY DEF C!TypeOK, WhyOk, Apart, PagesOk, ExitOk
    <2>7. ExitOk'
        BY DEF C!TypeOK, ExitOk, EntriesOk, PagesOk
    <2> QED BY <2>1, <2>2, <2>3, <2>4, <2>5, <2>6, <2>7
<1>8. ASSUME NEW t \in Threads, C!FreeEntry(t)
      PROVE  CInv'
    <2> USE <1>8 DEF C!FreeEntry
    <2>1. CountsOk'
        <3>1. Entered' = Entered
            BY DEF C!TypeOK, WhyOk, Apart, EntriesOk, PagesOk, ExitOk, Entered
        <3>2. t \in Raw /\ Raw' = Raw \ {t}
            BY DEF C!TypeOK, WhyOk, Apart, EntriesOk, PagesOk, ExitOk, Raw
        <3>3. HeldPages' = HeldPages
            BY DEF C!TypeOK, WhyOk, Apart, EntriesOk, PagesOk, ExitOk, HeldPages
        <3>4. Uncounted' = Uncounted
            BY DEF C!TypeOK, WhyOk, Apart, EntriesOk, PagesOk, ExitOk, Uncounted
        <3>5. Cardinality(Raw') = Cardinality(Raw) - 1
            BY <3>2, Counted, OneMore
        <3> QED BY <3>1, <3>2, <3>3, <3>4, <3>5, Counted DEF C!TypeOK, CountsOk
    <2>2. C!TypeOK'
        <3>1. raw' \in Nat
            BY <2>1, Counted DEF CountsOk
        <3> QED BY <3>1 DEF C!TypeOK, Apart
    <2>3. WhyOk'
        BY DEF C!TypeOK, WhyOk
    <2>4. Apart'
        BY DEF C!TypeOK, WhyOk, Apart, EntriesOk, PagesOk, ExitOk
    <2>5. EntriesOk'
        BY DEF C!TypeOK, WhyOk, Apart, EntriesOk, ExitOk
    <2>6. PagesOk'
        BY DEF C!TypeOK, WhyOk, Apart, PagesOk, ExitOk
    <2>7. ExitOk'
        BY DEF C!TypeOK, ExitOk, EntriesOk, PagesOk
    <2> QED BY <2>1, <2>2, <2>3, <2>4, <2>5, <2>6, <2>7
<1>9. ASSUME NEW t \in Threads, C!AllocPage(t)
      PROVE  CInv'
    <2> USE <1>9 DEF C!AllocPage
    <2>1. CountsOk'
        <3>1. Entered' = Entered
            BY DEF C!TypeOK, WhyOk, Apart, EntriesOk, PagesOk, ExitOk, Entered
        <3>2. Raw' = Raw
            BY DEF C!TypeOK, WhyOk, Apart, EntriesOk, PagesOk, ExitOk, Raw
        <3>3. HeldPages' = HeldPages
            BY DEF C!TypeOK, WhyOk, Apart, EntriesOk, PagesOk, ExitOk, HeldPages
        <3>4. Uncounted' = Uncounted
            BY DEF C!TypeOK, WhyOk, Apart, EntriesOk, PagesOk, ExitOk, Uncounted
        <3> QED BY <3>1, <3>2, <3>3, <3>4, Counted DEF C!TypeOK, CountsOk
    <2>2. C!TypeOK'
        <3>1. raw' \in Nat
            BY <2>1, Counted DEF CountsOk
        <3> QED BY <3>1 DEF C!TypeOK, Apart
    <2>3. WhyOk'
        BY DEF C!TypeOK, WhyOk
    <2>4. Apart'
        BY DEF C!TypeOK, WhyOk, Apart, EntriesOk, PagesOk, ExitOk
    <2>5. EntriesOk'
        BY DEF C!TypeOK, WhyOk, Apart, EntriesOk, ExitOk
    <2>6. PagesOk'
        BY DEF C!TypeOK, WhyOk, Apart, PagesOk, ExitOk
    <2>7. ExitOk'
        BY DEF C!TypeOK, ExitOk, EntriesOk, PagesOk
    <2> QED BY <2>1, <2>2, <2>3, <2>4, <2>5, <2>6, <2>7
<1>10. ASSUME NEW t \in Threads, C!PutPage(t)
      PROVE  CInv'
    <2> USE <1>10 DEF C!PutPage
    <2>1. CountsOk'
        <3>1. Entered' = Entered
            BY DEF C!TypeOK, WhyOk, Apart, EntriesOk, PagesOk, ExitOk, Entered
        <3>2. Raw' = Raw
            BY DEF C!TypeOK, WhyOk, Apart, EntriesOk, PagesOk, ExitOk, Raw
        <3>3. HeldPages' = HeldPages
            BY DEF C!TypeOK, WhyOk, Apart, EntriesOk, PagesOk, ExitOk, HeldPages
        <3>4. Uncounted' = Uncounted
            BY DEF C!TypeOK, WhyOk, Apart, EntriesOk, PagesOk, ExitOk, Uncounted
        <3> QED BY <3>1, <3>2, <3>3, <3>4, Counted DEF C!TypeOK, CountsOk
    <2>2. C!TypeOK'
        <3>1. raw' \in Nat
            BY <2>1, Counted DEF CountsOk
        <3> QED BY <3>1 DEF C!TypeOK, Apart
    <2>3. WhyOk'
        BY DEF C!TypeOK, WhyOk
    <2>4. Apart'
        BY DEF C!TypeOK, WhyOk, Apart, EntriesOk, PagesOk, ExitOk
    <2>5. EntriesOk'
        BY DEF C!TypeOK, WhyOk, Apart, EntriesOk, ExitOk
    <2>6. PagesOk'
        BY DEF C!TypeOK, WhyOk, Apart, PagesOk, ExitOk
    <2>7. ExitOk'
        BY DEF C!TypeOK, ExitOk, EntriesOk, PagesOk
    <2> QED BY <2>1, <2>2, <2>3, <2>4, <2>5, <2>6, <2>7
<1>11. ASSUME NEW t \in Threads, C!PageAdd(t)
      PROVE  CInv'
    <2> USE <1>11 DEF C!PageAdd
    <2>1. CountsOk'
        <3>1. Entered' = Entered
            BY DEF C!TypeOK, WhyOk, Apart, EntriesOk, PagesOk, ExitOk, Entered
        <3>2. Raw' = Raw
            BY DEF C!TypeOK, WhyOk, Apart, EntriesOk, PagesOk, ExitOk, Raw
        <3>3. page[t] \notin HeldPages /\ HeldPages' = HeldPages \cup {page[t]}
            BY DEF C!TypeOK, WhyOk, Apart, EntriesOk, PagesOk, ExitOk, HeldPages
        <3>4. Uncounted' = Uncounted
            BY DEF C!TypeOK, WhyOk, Apart, EntriesOk, PagesOk, ExitOk, Uncounted
        <3>5. Cardinality(HeldPages') = Cardinality(HeldPages) + 1
            BY <3>3, Counted, OneMore
        <3> QED BY <3>1, <3>2, <3>3, <3>4, <3>5, Counted DEF C!TypeOK, CountsOk
    <2>2. C!TypeOK'
        <3>1. raw' \in Nat
            BY <2>1, Counted DEF CountsOk
        <3> QED BY <3>1 DEF C!TypeOK, Apart, PagesOk
    <2>3. WhyOk'
        BY DEF C!TypeOK, WhyOk
    <2>4. Apart'
        BY DEF C!TypeOK, WhyOk, Apart, EntriesOk, PagesOk, ExitOk
    <2> DEFINE new == [page |-> page[t], at |-> ptr[t]]
    <2>a. /\ new.page = page[t] /\ new.at = ptr[t]
          /\ \A e : e \in plist' <=> e \in plist \/ e = new
        OBVIOUS
    <2>5. EntriesOk'
        <3> HIDE DEF new
        <3> QED BY <2>a DEF C!TypeOK, WhyOk, Apart, EntriesOk, ExitOk
    <2>6. PagesOk'
        <3> HIDE DEF new
        <3> QED BY <2>a DEF C!TypeOK, WhyOk, Apart, PagesOk, ExitOk
    <2>7. ExitOk'
        BY DEF C!TypeOK, ExitOk, EntriesOk, PagesOk
    <2> QED BY <2>1, <2>2, <2>3, <2>4, <2>5, <2>6, <2>7
<1>12. ASSUME NEW t \in Threads, C!FreePage(t)
      PROVE  CInv'
    <2> USE <1>12 DEF C!FreePage
    <2>1. CountsOk'
        <3>1. PICK e \in plist :
                  /\ e.page \in hold[t] /\ hold' = [hold EXCEPT ![t] = @ \ {e.page}]
            OBVIOUS
        <3>2. CountsOk'
            <4>1. Entered' = Entered
                BY <3>1 DEF C!TypeOK, WhyOk, Apart, EntriesOk, PagesOk, ExitOk, Entered
            <4>2. Raw' = Raw
                BY <3>1 DEF C!TypeOK, WhyOk, Apart, EntriesOk, PagesOk, ExitOk, Raw
            <4>3. e.page \in HeldPages /\ HeldPages' = HeldPages \ {e.page}
                BY <3>1 DEF C!TypeOK, WhyOk, Apart, EntriesOk, PagesOk, ExitOk, HeldPages
            <4>4. t \notin Uncounted /\ Uncounted' = Uncounted \cup {t}
                BY <3>1 DEF C!TypeOK, WhyOk, Apart, EntriesOk, PagesOk, ExitOk, Uncounted
            <4>5. Cardinality(HeldPages') = Cardinality(HeldPages) - 1
                BY <4>3, Counted, OneMore
            <4>6. Cardinality(Uncounted') = Cardinality(Uncounted) + 1
                BY <4>4, Counted, OneMore
            <4>7. UNCHANGED <<raw, nr_allocs, nr_frees>>
                OBVIOUS
            <4> HIDE <1>12
            <4> QED BY <4>1, <4>2, <4>5, <4>6, <4>7, Counted DEF C!TypeOK, CountsOk
        <3> QED BY <3>2
    <2>2. C!TypeOK'
        <3>1. raw' \in Nat
            BY <2>1, Counted DEF CountsOk
        <3> QED BY <3>1 DEF C!TypeOK, Apart
    <2>3. WhyOk'
        BY DEF C!TypeOK, WhyOk
    <2>4. Apart'
        BY DEF C!TypeOK, WhyOk, Apart, EntriesOk, PagesOk, ExitOk
    <2>5. EntriesOk'
        BY DEF C!TypeOK, WhyOk, Apart, EntriesOk, ExitOk
    <2>6. PagesOk'
        BY DEF C!TypeOK, WhyOk, Apart, PagesOk, ExitOk
    <2>7. ExitOk'
        BY DEF C!TypeOK, ExitOk, EntriesOk, PagesOk
    <2> QED BY <2>1, <2>2, <2>3, <2>4, <2>5, <2>6, <2>7
<1>13. ASSUME NEW t \in Threads, C!ReleasePage(t)
      PROVE  CInv'
    <2> USE <1>13 DEF C!ReleasePage
    <2>1. CountsOk'
        <3>1. Entered' = Entered
            BY DEF C!TypeOK, WhyOk, Apart, EntriesOk, PagesOk, ExitOk, Entered
        <3>2. Raw' = Raw
            BY DEF C!TypeOK, WhyOk, Apart, EntriesOk, PagesOk, ExitOk, Raw
        <3>3. HeldPages' = HeldPages
            BY DEF C!TypeOK, WhyOk, Apart, EntriesOk, PagesOk, ExitOk, HeldPages
        <3>4. Uncounted' = Uncounted
            BY DEF C!TypeOK, WhyOk, Apart, EntriesOk, PagesOk, ExitOk, Uncounted
        <3> QED BY <3>1, <3>2, <3>3, <3>4, Counted DEF C!TypeOK, CountsOk
    <2>2. C!TypeOK'
        <3>1. raw' \in Nat
            BY <2>1, Counted DEF CountsOk
        <3> QED BY <3>1 DEF C!TypeOK, Apart
    <2>3. WhyOk'
        BY DEF C!TypeOK, WhyOk
    <2>4. Apart'
        BY DEF C!TypeOK, WhyOk, Apart, EntriesOk, PagesOk, ExitOk
    <2>5. EntriesOk'
        BY DEF C!TypeOK, WhyOk, Apart, EntriesOk, ExitOk
    <2>6. PagesOk'
        BY DEF C!TypeOK, WhyOk, Apart, PagesOk, ExitOk
    <2>7. ExitOk'
        BY DEF C!TypeOK, ExitOk, EntriesOk, PagesOk
    <2> QED BY <2>1, <2>2, <2>3, <2>4, <2>5, <2>6, <2>7
<1>14. ASSUME NEW t \in Threads, C!PageCount(t)
      PROVE  CInv'
    <2> USE <1>14 DEF C!PageCount
    <2>1. CountsOk'
        <3>1. Entered' = Entered
            BY DEF C!TypeOK, WhyOk, Apart, EntriesOk, PagesOk, ExitOk, Entered
        <3>2. Raw' = Raw
            BY DEF C!TypeOK, WhyOk, Apart, EntriesOk, PagesOk, ExitOk, Raw
        <3>3. HeldPages' = HeldPages
            BY DEF C!TypeOK, WhyOk, Apart, EntriesOk, PagesOk, ExitOk, HeldPages
        <3>4. t \in Uncounted /\ Uncounted' = Uncounted \ {t}
            BY DEF C!TypeOK, WhyOk, Apart, EntriesOk, PagesOk, ExitOk, Uncounted
        <3>5. Cardinality(Uncounted') = Cardinality(Uncounted) - 1
            BY <3>4, Counted, OneMore
        <3> QED BY <3>1, <3>2, <3>3, <3>4, <3>5, Counted DEF C!TypeOK, CountsOk
    <2>2. C!TypeOK'
        <3>1. raw' \in Nat
            BY <2>1, Counted DEF CountsOk
        <3> QED BY <3>1 DEF C!TypeOK, Apart
    <2>3. WhyOk'
        BY DEF C!TypeOK, WhyOk
    <2>4. Apart'
        BY DEF C!TypeOK, WhyOk, Apart, EntriesOk, PagesOk, ExitOk
    <2>5. EntriesOk'
        BY DEF C!TypeOK, WhyOk, Apart, EntriesOk, ExitOk
    <2>6. PagesOk'
        BY DEF C!TypeOK, WhyOk, Apart, PagesOk, ExitOk
    <2>7. ExitOk'
        BY DEF C!TypeOK, ExitOk, EntriesOk, PagesOk
    <2> QED BY <2>1, <2>2, <2>3, <2>4, <2>5, <2>6, <2>7
<1>15. ASSUME C!ModuleExit
      PROVE  CInv'
    <2> USE <1>15 DEF C!ModuleExit
    <2>1. CountsOk'
        <3>1. Entered' = Entered
            BY DEF C!TypeOK, WhyOk, Apart, EntriesOk, PagesOk, ExitOk, Entered
        <3>2. Raw' = Raw
            BY DEF C!TypeOK, WhyOk, Apart, EntriesOk, PagesOk, ExitOk, Raw
        <3>3. HeldPages' = HeldPages
            BY DEF C!TypeOK, WhyOk, Apart, EntriesOk, PagesOk, ExitOk, HeldPages
        <3>4. Uncounted' = Uncounted
            BY DEF C!TypeOK, WhyOk, Apart, EntriesOk, PagesOk, ExitOk, Uncounted
        <3> QED BY <3>1, <3>2, <3>3, <3>4, Counted DEF C!TypeOK, CountsOk
    <2>2. C!TypeOK'
        <3>1. raw' \in Nat
            BY <2>1, Counted DEF CountsOk
        <3> QED BY <3>1 DEF C!TypeOK, Apart
    <2>3. WhyOk'
        BY DEF C!TypeOK, WhyOk
    <2>4. Apart'
        BY DEF C!TypeOK, WhyOk, Apart, EntriesOk, PagesOk, ExitOk
    <2>5. EntriesOk'
        BY DEF C!TypeOK, WhyOk, Apart, EntriesOk, ExitOk
    <2>6. PagesOk'
        BY DEF C!TypeOK, WhyOk, Apart, PagesOk, ExitOk
    <2>7. ExitOk'
        BY DEF C!TypeOK, ExitOk, EntriesOk, PagesOk
    <2> QED BY <2>1, <2>2, <2>3, <2>4, <2>5, <2>6, <2>7
<1>16. ASSUME C!KeyDeinit
      PROVE  CInv'
    <2> USE <1>16 DEF C!KeyDeinit
    <2>1. CountsOk'
        <3>1. CASE UNCHANGED <<raw, entries>>
            <4>1. Entered' = Entered
                BY <3>1 DEF C!TypeOK, WhyOk, Apart, EntriesOk, PagesOk, ExitOk, Entered
            <4>2. Raw' = Raw
                BY <3>1 DEF C!TypeOK, WhyOk, Apart, EntriesOk, PagesOk, ExitOk, Raw
            <4>3. HeldPages' = HeldPages
                BY <3>1 DEF C!TypeOK, WhyOk, Apart, EntriesOk, PagesOk, ExitOk, HeldPages
            <4>4. Uncounted' = Uncounted
                BY <3>1 DEF C!TypeOK, WhyOk, Apart, EntriesOk, PagesOk, ExitOk, Uncounted
            <4> QED BY <3>1, <4>1, <4>2, <4>3, <4>4, Counted DEF C!TypeOK, CountsOk
        <3>2. ASSUME NEW a \in keys, C!FreeNow(a),
                     UNCHANGED <<hold, pc, why, nr_allocs, nr_frees>>
              PROVE  CountsOk'
            <4>1. a \in Entered /\ Entered' = Entered \ {a}
                BY <3>2 DEF C!TypeOK, WhyOk, Apart, EntriesOk, PagesOk, ExitOk, Entered
            <4>2. Raw' = Raw
                BY <3>2 DEF C!TypeOK, WhyOk, Apart, EntriesOk, PagesOk, ExitOk, Raw
            <4>3. HeldPages' = HeldPages
                BY <3>2 DEF C!TypeOK, WhyOk, Apart, EntriesOk, PagesOk, ExitOk, HeldPages
            <4>4. Uncounted' = Uncounted
                BY <3>2 DEF C!TypeOK, WhyOk, Apart, EntriesOk, PagesOk, ExitOk, Uncounted
            <4>5. Cardinality(Entered') = Cardinality(Entered) - 1
                BY <4>1, Counted, OneMore
            <4>6. raw' = raw - 1
                BY <3>2, <4>1 DEF Entered
            <4> QED BY <3>2, <4>2, <4>3, <4>4, <4>5, <4>6, Counted DEF C!TypeOK, CountsOk
        <3> QED BY <3>1, <3>2
    <2>2. C!TypeOK'
        <3>1. raw' \in Nat
            BY <2>1, Counted DEF CountsOk
        <3> QED BY <3>1 DEF C!TypeOK, Apart
    <2>3. WhyOk'
        BY DEF C!TypeOK, WhyOk
    <2>4. Apart'
        BY DEF C!TypeOK, WhyOk, Apart, EntriesOk, PagesOk, ExitOk
    <2>5. EntriesOk'
        BY DEF C!TypeOK, WhyOk, Apart, EntriesOk, ExitOk
    <2>6. PagesOk'
        BY DEF C!TypeOK, WhyOk, Apart, PagesOk, ExitOk
    <2>7. ExitOk'
        BY DEF C!TypeOK, ExitOk, EntriesOk, PagesOk
    <2> QED BY <2>1, <2>2, <2>3, <2>4, <2>5, <2>6, <2>7
<1>17. ASSUME C!PageDeinit
      PROVE  CInv'
    <2> USE <1>17 DEF C!PageDeinit
    <2>1. CountsOk'
        <3>1. CASE UNCHANGED <<raw, entries>>
            <4>1. Entered' = Entered
                BY <3>1 DEF C!TypeOK, WhyOk, Apart, EntriesOk, PagesOk, ExitOk, Entered
            <4>2. Raw' = Raw
                BY <3>1 DEF C!TypeOK, WhyOk, Apart, EntriesOk, PagesOk, ExitOk, Raw
            <4>3. HeldPages' = HeldPages
                BY <3>1 DEF C!TypeOK, WhyOk, Apart, EntriesOk, PagesOk, ExitOk, HeldPages
            <4>4. Uncounted' = Uncounted
                BY <3>1 DEF C!TypeOK, WhyOk, Apart, EntriesOk, PagesOk, ExitOk, Uncounted
            <4> QED BY <3>1, <4>1, <4>2, <4>3, <4>4, Counted DEF C!TypeOK, CountsOk
        <3>2. ASSUME NEW e \in plist, C!FreeNow(e.at),
                     UNCHANGED <<hold, pc, why, nr_allocs, nr_frees>>
              PROVE  CountsOk'
            <4>1. e.at \in Entered /\ Entered' = Entered \ {e.at}
                BY <3>2 DEF C!TypeOK, WhyOk, Apart, EntriesOk, PagesOk, ExitOk, Entered
            <4>2. Raw' = Raw
                BY <3>2 DEF C!TypeOK, WhyOk, Apart, EntriesOk, PagesOk, ExitOk, Raw
            <4>3. HeldPages' = HeldPages
                BY <3>2 DEF C!TypeOK, WhyOk, Apart, EntriesOk, PagesOk, ExitOk, HeldPages
            <4>4. Uncounted' = Uncounted
                BY <3>2 DEF C!TypeOK, WhyOk, Apart, EntriesOk, PagesOk, ExitOk, Uncounted
            <4>5. Cardinality(Entered') = Cardinality(Entered) - 1
                BY <4>1, Counted, OneMore
            <4>6. raw' = raw - 1
                BY <3>2, <4>1 DEF Entered
            <4> QED BY <3>2, <4>2, <4>3, <4>4, <4>5, <4>6, Counted DEF C!TypeOK, CountsOk
        <3> QED BY <3>1, <3>2
    <2>2. C!TypeOK'
        <3>1. raw' \in Nat
            BY <2>1, Counted DEF CountsOk
        <3> QED BY <3>1 DEF C!TypeOK, Apart
    <2>3. WhyOk'
        BY DEF C!TypeOK, WhyOk
    <2>4. Apart'
        BY DEF C!TypeOK, WhyOk, Apart, EntriesOk, PagesOk, ExitOk
    <2>5. EntriesOk'
        BY DEF C!TypeOK, WhyOk, Apart, EntriesOk, ExitOk
    <2>6. PagesOk'
        BY DEF C!TypeOK, WhyOk, Apart, PagesOk, ExitOk
    <2>7. ExitOk'
        BY DEF C!TypeOK, ExitOk, EntriesOk, PagesOk
    <2> QED BY <2>1, <2>2, <2>3, <2>4, <2>5, <2>6, <2>7
<1>18. ASSUME C!MallocDeinit
      PROVE  CInv'
    <2> USE <1>18 DEF C!MallocDeinit
    <2>1. CountsOk'
        <3>1. CASE UNCHANGED <<raw, entries>>
            <4>1. Entered' = Entered
                BY <3>1 DEF C!TypeOK, WhyOk, Apart, EntriesOk, PagesOk, ExitOk, Entered
            <4>2. Raw' = Raw
                BY <3>1 DEF C!TypeOK, WhyOk, Apart, EntriesOk, PagesOk, ExitOk, Raw
            <4>3. HeldPages' = HeldPages
                BY <3>1 DEF C!TypeOK, WhyOk, Apart, EntriesOk, PagesOk, ExitOk, HeldPages
            <4>4. Uncounted' = Uncounted
                BY <3>1 DEF C!TypeOK, WhyOk, Apart, EntriesOk, PagesOk, ExitOk, Uncounted
            <4> QED BY <3>1, <4>1, <4>2, <4>3, <4>4, Counted DEF C!TypeOK, CountsOk
        <3>2. ASSUME NEW a \in Addrs, entries[a] > 0, C!FreeNow(a),
                     UNCHANGED <<hold, pc, why, nr_allocs, nr_frees>>
              PROVE  CountsOk'
            <4>1. a \in Entered /\ Entered' = Entered \ {a}
                BY <3>2 DEF C!TypeOK, WhyOk, Apart, EntriesOk, PagesOk, ExitOk, Entered
            <4>2. Raw' = Raw
                BY <3>2 DEF C!TypeOK, WhyOk, Apart, EntriesOk, PagesOk, ExitOk, Raw
            <4>3. HeldPages' = HeldPages
                BY <3>2 DEF C!TypeOK, WhyOk, Apart, EntriesOk, PagesOk, ExitOk, HeldPages
            <4>4. Uncounted' = Uncounted
                BY <3>2 DEF C!TypeOK, WhyOk, Apart, EntriesOk, PagesOk, ExitOk, Uncounted
            <4>5. Cardinality(Entered') = Cardinality(Entered) - 1
                BY <4>1, Counted, OneMore
            <4>6. raw' = raw - 1
                BY <3>2, <4>1 DEF Entered
            <4> QED BY <3>2, <4>2, <4>3, <4>4, <4>5, <4>6, Counted DEF C!TypeOK, CountsOk
        <3> QED BY <3>1, <3>2
    <2>2. C!TypeOK'
        <3>1. raw' \in Nat
            BY <2>1, Counted DEF CountsOk
        <3> QED BY <3>1 DEF C!TypeOK, Apart
    <2>3. WhyOk'
        BY DEF C!TypeOK, WhyOk
    <2>4. Apart'
        BY DEF C!TypeOK, WhyOk, Apart, EntriesOk, PagesOk, ExitOk
    <2>5. EntriesOk'
        BY DEF C!TypeOK, WhyOk, Apart, EntriesOk, ExitOk
    <2>6. PagesOk'
        BY DEF C!TypeOK, WhyOk, Apart, PagesOk, ExitOk
    <2>7. ExitOk'
        BY DEF C!TypeOK, ExitOk, EntriesOk, PagesOk
    <2> QED BY <2>1, <2>2, <2>3, <2>4, <2>5, <2>6, <2>7
<1> QED BY <1>1, <1>2, <1>3, <1>4, <1>5, <1>6, <1>7, <1>8, <1>9, <1>10, <1>11, <1>12,
           <1>13, <1>14, <1>15, <1>16, <1>17, <1>18 DEF C!Next, C!ThreadStep

\* The invariant holds as long as the checkers are what runs.
LEMMA CInductive == Spec => []CheckerInv
<1>1. Init => CheckerInv
    <2> SUFFICES ASSUME C!Init PROVE CInv
        BY DEF Init, CheckerInv
    <2> USE CoreMemoryAssumption DEF C!Init
    <2>1. C!TypeOK
        BY DEF C!TypeOK
    <2>2. WhyOk /\ Apart /\ EntriesOk /\ PagesOk /\ ExitOk
        BY DEF WhyOk, Apart, EntriesOk, PagesOk, ExitOk, Owning, Paging
    <2>3. Entered = {} /\ Raw = {} /\ HeldPages = {} /\ Uncounted = {}
        BY DEF Entered, Raw, HeldPages, Uncounted
    <2>4. CountsOk
        BY <2>3, FS_EmptySet DEF CountsOk
    <2> QED BY <2>1, <2>2, <2>4 DEF CInv
<1>2. CheckerInv /\ [Next]_vars => CheckerInv'
    <2> SUFFICES ASSUME CheckerInv, [Next]_vars, part' = "checker" PROVE CInv'
        BY DEF CheckerInv
    <2>1. CASE Next
        BY <2>1, CStep DEF Next, Pointer, Checked, Allocator, CheckerInv
    <2>2. CASE UNCHANGED vars
        BY <2>2 DEF vars, checkerOnly, CheckerInv, CInv, C!TypeOK, WhyOk, Apart, EntriesOk,
            PagesOk, ExitOk, CountsOk, Entered, Raw, HeldPages, Uncounted, Paging
    <2> QED BY <2>1, <2>2
<1> QED BY <1>1, <1>2, PTL DEF Spec

\* malloc_checker: every address in use has one entry and no other has any,
\* although the entry is made after the allocation and removed before the
\* release, by threads that are handed each other's addresses.
THEOREM EntriesExact == Spec => []EntryExact
<1>1. CheckerInv => EntryExact
    <2> SUFFICES ASSUME CInv PROVE C!EntryExact
        BY DEF CheckerInv, EntryExact
    <2> USE DEF CInv, Owning, Known
    <2>1. \A a : a \in C!InUse <=>
              \/ a \in keys \/ \E e \in plist : a = e.at
              \/ a \in Addrs /\ \E t \in Threads : a \in hold[t]
        BY DEF C!InUse
    <2>2. exit = "no" => \A a \in C!InUse : entries[a] = 1
        BY <2>1 DEF EntriesOk, ExitOk
    <2>3. \A a \in Addrs : entries[a] <= 1 /\ (entries[a] = 1 => a \in live)
        BY DEF EntriesOk
    <2>4. ASSUME NEW t \in Threads, pc[t] \in {"m_add", "f_del", "f_block"}
          PROVE  /\ ptr[t] \in live /\ ptr[t] \notin C!InUse
                 /\ \A u \in Threads \ {t} : pc[u] \in {"m_add", "p_add", "f_del", "f_block"} =>
                        ptr[u] # ptr[t]
        BY <2>1, <2>4 DEF Apart
    <2> QED BY <2>2, <2>3, <2>4 DEF C!EntryExact
<1> QED BY <1>1, CInductive, PTL

\* The exit of the module reports what the threads have kept, all of it and
\* nothing else, and gives everything back to the kernel.
THEOREM LeaksReported == Spec => []LeaksExact
<1>1. CheckerInv => LeaksExact
    <2> SUFFICES ASSUME CInv PROVE C!LeaksExact
        BY DEF CheckerInv, LeaksExact
    <2> USE CoreMemoryAssumption DEF CInv, Owning, Known
    <2> SUFFICES ASSUME exit = "done" PROVE C!LeaksExact
        BY DEF C!LeaksExact
    <2>0. \A t \in Threads : pc[t] = "idle"
        BY DEF ExitOk
    <2>1. \A t \in Threads : \A x \in hold[t] : x \in leaks
        BY DEF C!TypeOK, ExitOk, EntriesOk, PagesOk
    <2>2. \A x \in leaks : \E t \in Threads : x \in hold[t]
        BY DEF ExitOk
    <2>3. leaks = UNION {hold[t] : t \in Threads}
        BY <2>1, <2>2
    <2>4. live = {} /\ plive = {}
        BY <2>0 DEF C!TypeOK, ExitOk, EntriesOk, PagesOk, Paging
    <2>5. Entered = {} /\ Raw = {} /\ Uncounted = {} /\ HeldPages = leaks \cap Pages
        BY <2>0, <2>1, <2>2 DEF ExitOk, Entered, Raw, Uncounted, HeldPages
    <2>6. raw = 0 /\ nr_allocs = nr_frees + Cardinality(leaks \cap Pages)
        BY <2>5, Counted, FS_EmptySet DEF C!TypeOK, CountsOk
    <2>7. C!Cardinality(leaks \cap Pages) = Cardinality(leaks \cap Pages)
        BY DEF C!Cardinality, Cardinality
    <2> QED BY <2>3, <2>4, <2>6, <2>7 DEF C!LeaksExact
<1> QED BY <1>1, CInductive, PTL

-----------------------------------------------------------------------------
(* The bitmap blocks                                                       *)

USE CoreMemoryAssumption

\* Where a thread has a block, and how its block and the tree go together.
RefsOk ==
    /\ \A t \in Threads :
         /\ pc[t] \in {"idle", "create"} <=> ref[t] = None
         /\ pc[t] # "idle" => idx[t] \in Indexes
         /\ ref[t] # None => ref[t] \in made
    /\ \A x \in Indexes : tree[x] # None => tree[x] \in made
    /\ A!OneBlock

\* What is set is what threads have or what nobody was given, and these are apart.
BitsOk ==
    /\ junk \subseteq made \X A!Bits
    /\ \A t \in Threads : own[t] \subseteq made \X A!Bits /\ own[t] \cap junk = {}
    /\ \A t, u \in Threads : t # u => own[t] \cap own[u] = {}
    /\ \A b \in made : \A n \in A!Bits :
         n \in bits[b] <=> <<b, n>> \in junk \/ \E t \in Threads : <<b, n>> \in own[t]

\* A search has seen everything in front of the place where it is.
ScanOk ==
    \A t \in Threads :
        /\ pc[t] \in {"look", "test"} =>
             \A n \in A!Bits : n < word[t] * WordBits + bit[t] => n \in seen[t]
        /\ pc[t] = "test" => bit[t] <= A!Size(word[t])
        /\ pc[t] # "test" => bit[t] = 0
        /\ pc[t] \notin {"look", "test", "notfound"} => word[t] = 0
        /\ pc[t] = "notfound" => seen[t] = A!Bits

\* The inductive invariant, and the invariant of CoreMemory it makes.
AInv == A!TypeOK /\ RefsOk /\ BitsOk /\ ScanOk
AllocInv == part = "allocator" => AInv

\* The arithmetic of words and bits.
LEMMA WordArith ==
    /\ A!BitSize \in Nat
    /\ \A n : n \in A!Bits <=> n \in Nat /\ n < A!BitSize
    /\ \A w \in 0 .. Words :
         /\ w * WordBits \in Nat /\ A!Size(w) \in Nat /\ A!Size(w) <= WordBits
         /\ \A i \in Nat : i < A!Size(w) => w * WordBits + i \in A!Bits
         /\ w < Words => (w + 1) * WordBits = w * WordBits + A!Size(w)
    /\ Words * WordBits + A!Size(Words) = A!BitSize
<1>1. \A w \in Nat : w * WordBits \in Nat /\ (w + 1) * WordBits = w * WordBits + WordBits
    OBVIOUS
<1>2. \A v, w \in Nat : v < w => v * WordBits + WordBits <= w * WordBits
    <2> SUFFICES ASSUME NEW v \in Nat, NEW w \in Nat, v < w
                 PROVE  v * WordBits + WordBits <= w * WordBits
        OBVIOUS
    <2>1. PICK d \in Nat : w = v + 1 + d
        <3> WITNESS w - v - 1 \in Nat
        <3> QED OBVIOUS
    <2>2. d * WordBits \in Nat
        BY <1>1
    <2>3. w * WordBits = v * WordBits + WordBits + d * WordBits
        BY <2>1
    <2> QED BY <1>1, <2>2, <2>3
<1>3. A!BitSize \in Nat /\ \A n : n \in A!Bits <=> n \in Nat /\ n < A!BitSize
    BY <1>1 DEF A!BitSize, A!Bits
<1>4. ASSUME NEW w \in 0 .. Words
      PROVE  /\ w * WordBits \in Nat /\ A!Size(w) \in Nat /\ A!Size(w) <= WordBits
             /\ \A i \in Nat : i < A!Size(w) => w * WordBits + i < A!BitSize
             /\ w < Words => (w + 1) * WordBits = w * WordBits + A!Size(w)
    <2>1. CASE w < Words
        BY <1>1, <1>2, <2>1 DEF A!Size, A!BitSize
    <2>2. CASE w = Words
        BY <1>1, <2>2 DEF A!Size, A!BitSize
    <2> QED BY <2>1, <2>2
<1> QED BY <1>3, <1>4 DEF A!BitSize, A!Size

\* TestAndSetBit on a block in use, alone or as a step of a search.
LEMMA TakeBit ==
    ASSUME A!TypeOK, BitsOk, NEW t \in Threads, NEW b \in made, NEW n \in A!Bits,
           bits' = [bits EXCEPT ![b] = @ \cup {n}],
           own' = IF n \in bits[b] THEN own ELSE [own EXCEPT ![t] = @ \cup {<<b, n>>}],
           UNCHANGED <<made, junk>>
    PROVE  /\ bits' \in [Blocks -> SUBSET A!Bits]
           /\ own' \in [Threads -> SUBSET (Blocks \X A!Bits)]
           /\ BitsOk'
<1>1. b \in Blocks /\ <<b, n>> \in made \X A!Bits /\ <<b, n>> \in Blocks \X A!Bits
    BY DEF A!TypeOK
<1>2. bits' \in [Blocks -> SUBSET A!Bits] /\ own' \in [Threads -> SUBSET (Blocks \X A!Bits)]
    BY <1>1 DEF A!TypeOK
<1>3. \A u \in Threads : \A p : p \in own'[u] <=>
          p \in own[u] \/ (u = t /\ n \notin bits[b] /\ p = <<b, n>>)
    BY DEF A!TypeOK
<1>4. \A c \in Blocks : \A m : m \in bits'[c] <=> m \in bits[c] \/ (c = b /\ m = n)
    BY <1>1 DEF A!TypeOK
<1>5. n \notin bits[b] => <<b, n>> \notin junk /\ \A u \in Threads : <<b, n>> \notin own[u]
    BY DEF BitsOk
<1>6. \A u \in Threads : own'[u] \subseteq made \X A!Bits /\ own'[u] \cap junk = {}
    BY <1>1, <1>3, <1>5 DEF BitsOk
<1>7. \A u, v \in Threads : u # v => own'[u] \cap own'[v] = {}
    BY <1>3, <1>5 DEF BitsOk
<1>8. ASSUME NEW c \in made, NEW m \in A!Bits
      PROVE  m \in bits'[c] <=> <<c, m>> \in junk \/ \E u \in Threads : <<c, m>> \in own'[u]
    <2>1. c \in Blocks
        BY DEF A!TypeOK
    <2>2. CASE <<c, m>> = <<b, n>>
        BY <1>3, <1>4, <2>1, <2>2 DEF BitsOk
    <2>3. CASE <<c, m>> # <<b, n>>
        BY <1>3, <1>4, <2>1, <2>3 DEF BitsOk
    <2> QED BY <2>2, <2>3
<1> QED BY <1>2, <1>6, <1>7, <1>8 DEF BitsOk

\* Going on to the next word, or to the end behind the last one, when all of
\* this word has been seen.
LEMMA NextWordScan ==
    ASSUME A!TypeOK, ScanOk, NEW t \in Threads, pc[t] \in {"look", "test"}, A!NextWord(t),
           seen' \in [Threads -> SUBSET A!Bits],
           \A u \in Threads : u # t => seen'[u] = seen[u],
           \A n \in A!Bits : n < word[t] * WordBits + A!Size(word[t]) => n \in seen'[t]
    PROVE  ScanOk'
<1>1. word[t] \in 0 .. Words /\ word[t] \in Nat
    BY DEF A!TypeOK
<1>2. CASE word[t] < Words
    <2>1. word' = [word EXCEPT ![t] = word[t] + 1] /\ bit' = [bit EXCEPT ![t] = 0]
          /\ pc' = [pc EXCEPT ![t] = "look"]
        BY <1>2 DEF A!NextWord
    <2>2. \A n \in A!Bits : n < word'[t] * WordBits + bit'[t] => n \in seen'[t]
        BY <1>1, <1>2, <2>1, WordArith DEF A!TypeOK
    <2> QED BY <2>1, <2>2 DEF ScanOk, A!TypeOK
<1>3. CASE ~(word[t] < Words)
    <2>1. word[t] = Words /\ word' = [word EXCEPT ![t] = word[t]]
          /\ bit' = [bit EXCEPT ![t] = 0] /\ pc' = [pc EXCEPT ![t] = "notfound"]
        BY <1>1, <1>3 DEF A!NextWord
    <2>2. seen'[t] = A!Bits
        BY <2>1, WordArith
    <2> QED BY <2>1, <2>2 DEF ScanOk, A!TypeOK
<1> QED BY <1>2, <1>3

\* Every step of a thread in LookupBlock, CreateBlock, DeleteBlock,
\* FindSetZeroBit or on a single bit preserves the invariant.
LEMMA AStep == AInv /\ A!Next => AInv'
<1> SUFFICES ASSUME AInv, A!Next PROVE AInv'
    OBVIOUS
<1> USE DEF AInv, A!At, A!treeVars, A!bitVars, A!scan
<1>1. ASSUME NEW t \in Threads, NEW x \in Indexes, A!LookupBlock(t, x)
      PROVE  AInv'
    <2> USE <1>1 DEF A!LookupBlock
    <2>1. A!TypeOK'
        BY DEF A!TypeOK, RefsOk
    <2>2. RefsOk'
        BY DEF A!TypeOK, RefsOk, A!OneBlock
    <2>3. BitsOk'
        BY DEF A!TypeOK, RefsOk, BitsOk
    <2>4. ScanOk'
        BY DEF A!TypeOK, RefsOk, ScanOk
    <2> QED BY <2>1, <2>2, <2>3, <2>4
<1>2. ASSUME NEW t \in Threads, NEW x \in Indexes, A!CreateLookup(t, x)
      PROVE  AInv'
    <2> USE <1>2 DEF A!CreateLookup
    <2>1. A!TypeOK'
        BY DEF A!TypeOK, RefsOk
    <2>2. RefsOk'
        BY DEF A!TypeOK, RefsOk, A!OneBlock
    <2>3. BitsOk'
        BY DEF A!TypeOK, RefsOk, BitsOk
    <2>4. ScanOk'
        BY DEF A!TypeOK, RefsOk, ScanOk
    <2> QED BY <2>1, <2>2, <2>3, <2>4
<1>3. ASSUME NEW t \in Threads, A!CreateBlock(t)
      PROVE  AInv'
    <2> USE <1>3 DEF A!CreateBlock
    <2>0. pc[t] = "create" /\ idx[t] \in Indexes /\ ref[t] = None
        BY DEF RefsOk, A!TypeOK
    <2>1. ASSUME NEW b \in Blocks \ made, NEW j \in SUBSET A!Bits,
                 made' = made \cup {b}, tree[idx[t]] = None,
                 bits' = [bits EXCEPT ![b] = j], junk' = junk \cup {b} \X j,
                 tree' = [tree EXCEPT ![idx[t]] = b], ref' = [ref EXCEPT ![t] = b],
                 pc' = [pc EXCEPT ![t] = "ready"],
                 UNCHANGED <<deleted, idx, own, word, bit, seen, faults>>
          PROVE  AInv'
        <3>1. A!TypeOK'
            BY <2>0, <2>1 DEF A!TypeOK
        <3>2. RefsOk'
            BY <2>0, <2>1 DEF A!TypeOK, RefsOk, A!OneBlock
        <3>3. BitsOk'
            <4>1. \A p : p \in junk' <=> p \in junk \/ \E n \in j : p = <<b, n>>
                BY <2>1
            <4>2. \A p \in made \X A!Bits : \A n : p # <<b, n>>
                BY <2>1
            <4>3. junk' \subseteq made' \X A!Bits
                BY <2>1 DEF BitsOk
            <4>4. \A u \in Threads : own[u] \subseteq made' \X A!Bits /\ own[u] \cap junk' = {}
                BY <2>1, <4>1, <4>2 DEF BitsOk
            <4>5. ASSUME NEW c \in made', NEW n \in A!Bits
                  PROVE  n \in bits'[c] <=>
                             <<c, n>> \in junk' \/ \E u \in Threads : <<c, n>> \in own[u]
                <5>1. CASE c = b
                    BY <2>1, <4>1, <4>2, <5>1 DEF BitsOk, A!TypeOK
                <5>2. CASE c # b
                    BY <2>1, <4>1, <5>2 DEF BitsOk, A!TypeOK
                <5> QED BY <5>1, <5>2
            <4> QED BY <2>1, <4>3, <4>4, <4>5 DEF BitsOk
        <3>4. ScanOk'
            BY <2>0, <2>1 DEF A!TypeOK, ScanOk
        <3> QED BY <3>1, <3>2, <3>3, <3>4
    <2>2. CASE /\ tree[idx[t]] # None /\ ref' = [ref EXCEPT ![t] = tree[idx[t]]]
               /\ pc' = [pc EXCEPT ![t] = "ready"]
               /\ UNCHANGED <<tree, made, bits, junk, faults, deleted, idx, own, word, bit, seen>>
        <3>1. A!TypeOK'
            BY <2>0, <2>2 DEF A!TypeOK
        <3>2. RefsOk'
            BY <2>0, <2>2 DEF A!TypeOK, RefsOk, A!OneBlock
        <3>3. BitsOk' /\ ScanOk'
            BY <2>0, <2>2 DEF A!TypeOK, BitsOk, ScanOk
        <3> QED BY <3>1, <3>2, <3>3
    <2>3. CASE /\ pc' = [pc EXCEPT ![t] = "idle"] /\ faults' \in 0 .. MaxFaults
               /\ UNCHANGED <<tree, made, bits, junk, ref, deleted, idx, own, word, bit, seen>>
        <3>1. A!TypeOK' /\ RefsOk'
            BY <2>0, <2>3 DEF A!TypeOK, RefsOk, A!OneBlock
        <3>2. BitsOk' /\ ScanOk'
            BY <2>0, <2>3 DEF A!TypeOK, BitsOk, ScanOk
        <3> QED BY <3>1, <3>2
    <2>4. faults < MaxFaults => faults + 1 \in 0 .. MaxFaults
        BY DEF A!TypeOK
    <2> QED BY <2>1, <2>2, <2>3, <2>4 DEF A!CreateBlock, A!TypeOK
<1>4. ASSUME NEW x \in Indexes, A!DeleteBlock(x)
      PROVE  AInv'
    <2> USE <1>4 DEF A!DeleteBlock
    <2>1. A!TypeOK'
        BY DEF A!TypeOK, RefsOk
    <2>2. RefsOk'
        BY DEF A!TypeOK, RefsOk, A!OneBlock
    <2>3. BitsOk'
        BY DEF A!TypeOK, RefsOk, BitsOk
    <2>4. ScanOk'
        BY DEF A!TypeOK, RefsOk, ScanOk
    <2> QED BY <2>1, <2>2, <2>3, <2>4
<1>5. ASSUME NEW t \in Threads, A!Release(t)
      PROVE  AInv'
    <2> USE <1>5 DEF A!Release
    <2>1. A!TypeOK'
        BY DEF A!TypeOK, RefsOk
    <2>2. RefsOk'
        BY DEF A!TypeOK, RefsOk, A!OneBlock
    <2>3. BitsOk'
        BY DEF A!TypeOK, RefsOk, BitsOk
    <2>4. ScanOk'
        BY DEF A!TypeOK, RefsOk, ScanOk
    <2> QED BY <2>1, <2>2, <2>3, <2>4
<1>6. ASSUME NEW t \in Threads, NEW n \in 0 .. A!BitSize, A!SetBit(t, n)
      PROVE  AInv'
    <2> USE <1>6 DEF A!SetBit
    <2>0. n \in A!Bits /\ ref[t] \in made /\ ref[t] \in Blocks
        <3>1. n \in A!Bits
            BY WordArith DEF A!InRange
        <3>2. ref[t] \in made
            BY DEF A!TypeOK, RefsOk
        <3> QED BY <3>1, <3>2 DEF A!TypeOK
    <2>1. <<ref[t], n>> \in made \X A!Bits /\ <<ref[t], n>> \in Blocks \X A!Bits
        BY <2>0
    <2>2. A!TypeOK'
        BY <2>0, <2>1 DEF A!TypeOK
    <2>3. RefsOk' /\ ScanOk'
        BY DEF A!TypeOK, RefsOk, A!OneBlock, ScanOk
    <2>4. BitsOk'
        <3>1. \A c \in Blocks : \A m : m \in bits'[c] <=> m \in bits[c] \/ (c = ref[t] /\ m = n)
            BY <2>0 DEF A!TypeOK
        <3>2. \A p : p \in junk' <=> p \in junk \/ (n \notin bits[ref[t]] /\ p = <<ref[t], n>>)
            OBVIOUS
        <3>3. junk' \subseteq made \X A!Bits
            BY <2>1 DEF BitsOk
        <3>4. \A u \in Threads : own[u] \cap junk' = {}
            BY <2>0, <3>2 DEF BitsOk
        <3>5. ASSUME NEW c \in made, NEW m \in A!Bits
              PROVE  m \in bits'[c] <=>
                         <<c, m>> \in junk' \/ \E u \in Threads : <<c, m>> \in own[u]
            <4>1. c \in Blocks
                BY DEF A!TypeOK
            <4>2. CASE <<c, m>> = <<ref[t], n>>
                BY <2>0, <3>1, <3>2, <4>1, <4>2 DEF BitsOk
            <4>3. CASE <<c, m>> # <<ref[t], n>>
                BY <3>1, <3>2, <4>1, <4>3 DEF BitsOk
            <4> QED BY <4>2, <4>3
        <3> QED BY <3>3, <3>4, <3>5 DEF BitsOk
    <2> QED BY <2>2, <2>3, <2>4
<1>7. ASSUME NEW t \in Threads, NEW n \in 0 .. A!BitSize, A!TestAndSetBit(t, n)
      PROVE  AInv'
    <2> USE <1>7 DEF A!TestAndSetBit
    <2>0. n \in A!Bits /\ ref[t] \in made
        <3>1. n \in A!Bits
            BY WordArith DEF A!InRange
        <3> QED BY <3>1 DEF A!TypeOK, RefsOk
    <2>1. /\ bits' \in [Blocks -> SUBSET A!Bits]
          /\ own' \in [Threads -> SUBSET (Blocks \X A!Bits)] /\ BitsOk'
        BY <2>0, TakeBit
    <2>2. A!TypeOK' /\ RefsOk' /\ ScanOk'
        BY <2>1 DEF A!TypeOK, RefsOk, A!OneBlock, ScanOk
    <2> QED BY <2>1, <2>2
<1>8. ASSUME NEW t \in Threads, NEW n \in 0 .. A!BitSize, A!ClearBit(t, n)
      PROVE  AInv'
    <2> USE <1>8 DEF A!ClearBit
    <2>0. n \in A!Bits /\ ref[t] \in made /\ ref[t] \in Blocks
        <3>1. n \in A!Bits
            BY WordArith DEF A!InRange
        <3>2. ref[t] \in made
            BY DEF A!TypeOK, RefsOk
        <3> QED BY <3>1, <3>2 DEF A!TypeOK
    <2>1. A!TypeOK'
        BY <2>0 DEF A!TypeOK
    <2>2. RefsOk' /\ ScanOk'
        BY DEF A!TypeOK, RefsOk, A!OneBlock, ScanOk
    <2>3. BitsOk'
        <3>1. \A c \in Blocks : \A m : m \in bits'[c] <=> m \in bits[c] /\ ~(c = ref[t] /\ m = n)
            BY <2>0 DEF A!TypeOK
        <3>2. \A u \in Threads : \A p : p \in own'[u] <=>
                  p \in own[u] /\ ~(u = t /\ p = <<ref[t], n>>)
            BY DEF A!TypeOK
        <3>3. <<ref[t], n>> \notin junk /\ \A u \in Threads : <<ref[t], n>> \notin own'[u]
            BY <3>2 DEF BitsOk
        <3>4. ASSUME NEW c \in made, NEW m \in A!Bits
              PROVE  m \in bits'[c] <=>
                         <<c, m>> \in junk \/ \E u \in Threads : <<c, m>> \in own'[u]
            <4>1. c \in Blocks
                BY DEF A!TypeOK
            <4>2. CASE <<c, m>> = <<ref[t], n>>
                BY <3>1, <3>3, <4>1, <4>2
            <4>3. CASE <<c, m>> # <<ref[t], n>>
                BY <3>1, <3>2, <4>1, <4>3 DEF BitsOk
            <4> QED BY <4>2, <4>3
        <3>5. \A u \in Threads : own'[u] \subseteq own[u]
            BY <3>2
        <3> QED BY <3>4, <3>5 DEF BitsOk
    <2> QED BY <2>1, <2>2, <2>3
<1>9. ASSUME NEW t \in Threads, A!FindSetZeroBit(t)
      PROVE  AInv'
    <2> USE <1>9 DEF A!FindSetZeroBit
    <2>1. A!TypeOK'
        BY DEF A!TypeOK, RefsOk
    <2>2. RefsOk'
        BY DEF A!TypeOK, RefsOk, A!OneBlock
    <2>3. BitsOk'
        BY DEF A!TypeOK, RefsOk, BitsOk
    <2>4. ScanOk'
        BY WordArith DEF A!TypeOK, RefsOk, ScanOk
    <2> QED BY <2>1, <2>2, <2>3, <2>4
<1>10. ASSUME NEW t \in Threads, A!LookWord(t)
      PROVE  AInv'
    <2> USE <1>10 DEF A!LookWord
    <2> DEFINE w == word[t]
               here == A!WordBitsOf(w) \cap bits[ref[t]]
    <2>0. pc[t] = "look" /\ w \in 0 .. Words /\ w \in Nat /\ bit[t] = 0 /\ ref[t] \in Blocks
        <3>1. pc[t] = "look" /\ w \in 0 .. Words
            BY DEF A!TypeOK
        <3>2. bit[t] = 0
            BY <3>1 DEF ScanOk
        <3>3. ref[t] \in Blocks
            BY <3>1 DEF A!TypeOK, RefsOk
        <3> QED BY <3>1, <3>2, <3>3
    <2>1. RefsOk' /\ BitsOk'
        BY <2>0 DEF A!NextWord, A!TypeOK, RefsOk, A!OneBlock, BitsOk
    <2>2. CASE /\ here = A!WordBitsOf(w) /\ A!NextWord(t)
               /\ seen' = [seen EXCEPT ![t] = @ \cup here]
        <3>1. here \subseteq A!Bits /\ \A n \in A!Bits :
                  n >= w * WordBits /\ n < w * WordBits + A!Size(w) => n \in here
            <4>1. bits[ref[t]] \subseteq A!Bits
                BY <2>0 DEF A!TypeOK
            <4>2. \A n \in A!Bits : n >= w * WordBits /\ n < w * WordBits + A!Size(w) =>
                      n - w * WordBits \in 0 .. A!Size(w) - 1 /\ n = w * WordBits + (n - w * WordBits)
                BY <2>0, WordArith
            <4> QED BY <2>2, <4>1, <4>2 DEF A!WordBitsOf
        <3>2. \A n \in A!Bits : n < w * WordBits + A!Size(w) => n \in seen'[t]
            BY <2>0, <2>2, <3>1, WordArith DEF A!TypeOK, ScanOk
        <3>3. A!TypeOK'
            BY <2>0, <2>2, <3>1 DEF A!NextWord, A!TypeOK
        <3>4. ScanOk'
            <4>1. seen' \in [Threads -> SUBSET A!Bits]
                BY <3>3 DEF A!TypeOK
            <4>2. \A u \in Threads : u # t => seen'[u] = seen[u]
                BY <2>2 DEF A!TypeOK
            <4> QED BY <2>0, <2>2, <3>2, <4>1, <4>2, NextWordScan
        <3> QED BY <2>1, <3>3, <3>4
    <2>3. CASE /\ pc' = [pc EXCEPT ![t] = "test"] /\ UNCHANGED <<word, bit, seen>>
        BY <2>0, <2>1, <2>3, WordArith DEF A!TypeOK, ScanOk
    <2> QED BY <2>0, <2>2, <2>3
<1>11. ASSUME NEW t \in Threads, A!TestBit(t)
      PROVE  AInv'
    <2> USE <1>11 DEF A!TestBit
    <2> DEFINE w == word[t]
               n == w * WordBits + bit[t]
    <2>0. /\ pc[t] = "test" /\ w \in 0 .. Words /\ w \in Nat /\ bit[t] \in Nat
          /\ bit[t] <= A!Size(w) /\ ref[t] \in made
        BY DEF A!TypeOK, RefsOk, ScanOk
    <2>1. CASE bit[t] = A!Size(w) /\ A!NextWord(t) /\ UNCHANGED <<bits, own, seen>>
        <3>1. A!TypeOK'
            BY <2>0, <2>1 DEF A!NextWord, A!TypeOK
        <3>2. RefsOk' /\ BitsOk'
            BY <2>0, <2>1 DEF A!NextWord, A!TypeOK, RefsOk, A!OneBlock, BitsOk
        <3>3. ScanOk'
            <4>1. seen' \in [Threads -> SUBSET A!Bits]
                BY <3>1 DEF A!TypeOK
            <4>2. \A m \in A!Bits : m < w * WordBits + A!Size(w) => m \in seen'[t]
                BY <2>0, <2>1 DEF ScanOk
            <4>3. pc[t] \in {"look", "test"} /\ \A u \in Threads : u # t => seen'[u] = seen[u]
                BY <2>0, <2>1
            <4> HIDE <1>11
            <4> QED BY <2>1, <4>1, <4>2, <4>3, NextWordScan
        <3> QED BY <3>1, <3>2, <3>3
    <2>2. bit[t] # A!Size(w) => n \in A!Bits /\ n \in Nat /\ bit[t] + 1 <= A!Size(w)
        <3>1. A!Size(w) \in Nat /\ w * WordBits \in Nat
            BY <2>0, WordArith
        <3>2. bit[t] # A!Size(w) => bit[t] < A!Size(w)
            BY <2>0, <3>1
        <3>3. bit[t] < A!Size(w) => n \in A!Bits
            BY <2>0, WordArith
        <3> QED BY <2>0, <3>1, <3>2, <3>3
    <2>3. CASE /\ bit[t] # A!Size(w) /\ n \in bits[ref[t]]
               /\ bit' = [bit EXCEPT ![t] = @ + 1] /\ seen' = [seen EXCEPT ![t] = @ \cup {n}]
               /\ UNCHANGED <<bits, own, pc, word>>
        <3>1. A!TypeOK'
            BY <2>0, <2>2, <2>3, WordArith DEF A!TypeOK
        <3>2. RefsOk' /\ BitsOk'
            BY <2>3 DEF RefsOk, A!OneBlock, BitsOk
        <3>3. ASSUME NEW m \in A!Bits, m < w * WordBits + bit[t] + 1
              PROVE  m \in seen[t] \cup {n}
            <4>1. m \in Nat /\ w * WordBits \in Nat
                BY <2>0, WordArith
            <4>2. m < n \/ m = n
                BY <2>0, <3>3, <4>1
            <4>3. \A k \in A!Bits : k < n => k \in seen[t]
                BY <2>0 DEF ScanOk
            <4> QED BY <4>2, <4>3
        <3>4. ScanOk'
            BY <2>0, <2>2, <2>3, <3>3, WordArith DEF A!TypeOK, ScanOk
        <3> QED BY <3>1, <3>2, <3>4
    <2>4. CASE /\ bit[t] # A!Size(w) /\ n \notin bits[ref[t]]
               /\ own' = [own EXCEPT ![t] = @ \cup {<<ref[t], n>>}]
               /\ bits' = [bits EXCEPT ![ref[t]] = @ \cup {n}]
               /\ pc' = [pc EXCEPT ![t] = "ready"] /\ A!ScanEnd(t)
        <3>1. /\ bits' \in [Blocks -> SUBSET A!Bits]
              /\ own' \in [Threads -> SUBSET (Blocks \X A!Bits)] /\ BitsOk'
            BY <2>0, <2>2, <2>4, TakeBit
        <3>2. A!TypeOK'
            BY <2>4, <3>1 DEF A!TypeOK, A!ScanEnd
        <3>3. RefsOk' /\ ScanOk'
            BY <2>0, <2>4 DEF A!TypeOK, RefsOk, A!OneBlock, ScanOk, A!ScanEnd
        <3> QED BY <3>1, <3>2, <3>3
    <2> QED BY <2>0, <2>1, <2>3, <2>4
<1>12. ASSUME NEW t \in Threads, A!NotFound(t)
      PROVE  AInv'
    <2> USE <1>12 DEF A!NotFound
    <2>1. A!TypeOK' /\ RefsOk' /\ BitsOk'
        BY DEF A!ScanEnd, A!TypeOK, RefsOk, A!OneBlock, BitsOk
    <2>2. ScanOk'
        BY DEF A!ScanEnd, A!TypeOK, ScanOk
    <2> QED BY <2>1, <2>2
<1> QED BY <1>1, <1>2, <1>3, <1>4, <1>5, <1>6, <1>7, <1>8, <1>9, <1>10, <1>11, <1>12
           DEF A!Next

\* The invariant holds as long as the block allocator is what runs.
LEMMA AInductive == Spec => []AllocInv
<1>1. Init => AllocInv
    <2> SUFFICES ASSUME A!Init PROVE AInv
        BY DEF Init, AllocInv
    <2>1. A!TypeOK
        BY WordArith DEF A!Init, A!TypeOK
    <2>2. RefsOk /\ BitsOk /\ ScanOk
        BY WordArith DEF A!Init, RefsOk, A!OneBlock, BitsOk, ScanOk
    <2> QED BY <2>1, <2>2 DEF AInv
<1>2. AllocInv /\ [Next]_vars => AllocInv'
    <2> SUFFICES ASSUME AllocInv, [Next]_vars, part' = "allocator" PROVE AInv'
        BY DEF AllocInv
    <2>1. CASE Next
        BY <2>1, AStep DEF Next, Pointer, Checked, Allocator, AllocInv
    <2>2. CASE UNCHANGED vars
        BY <2>2 DEF vars, allocatorOnly, AllocInv, AInv, A!TypeOK, RefsOk, A!OneBlock,
           BitsOk, ScanOk
    <2> QED BY <2>1, <2>2
<1> QED BY <1>1, <1>2, PTL DEF Spec

\* FindSetZeroBit and TestAndSetBit, racing without a lock, give a bit to one
\* thread, and no bit that is set is without an origin.
THEOREM OneOwnerForABit == Spec => []BitOneOwner
<1>1. AllocInv => BitOneOwner
    <2> SUFFICES ASSUME AInv PROVE A!BitOneOwner
        BY DEF AllocInv, BitOneOwner
    <2>1. \A t, u \in Threads : t # u => own[t] \cap own[u] = {}
        BY DEF AInv, BitsOk
    <2> DEFINE taken == UNION {own[t] : t \in Threads}
    <2>2. \A p : p \in taken <=> \E t \in Threads : p \in own[t]
        OBVIOUS
    <2>3. ASSUME NEW b \in made
          PROVE  {b} \X bits[b] = ({b} \X A!Bits) \cap (taken \cup junk)
        <3> HIDE DEF taken
        <3>1. bits[b] \subseteq A!Bits
            BY DEF AInv, A!TypeOK
        <3>2. \A n \in A!Bits : n \in bits[b] <=> <<b, n>> \in taken \cup junk
            BY <2>2 DEF AInv, BitsOk
        <3> QED BY <3>1, <3>2
    <2> QED BY <2>1, <2>3 DEF A!BitOneOwner
<1> QED BY <1>1, AInductive, PTL

\* FindSetZeroBit reports that there is no zero bit only after it has seen
\* every bit of the block set.
THEOREM SearchIsComplete == Spec => []NotFoundSawAll
<1>1. AllocInv => NotFoundSawAll
    BY DEF AllocInv, AInv, ScanOk, NotFoundSawAll, A!NotFoundSawAll
<1> QED BY <1>1, AInductive, PTL

\* CreateBlock and LookupBlock return the block that the tree holds for the
\* index, until DeleteBlock takes it out.
THEOREM OneBlockForAnIndex == Spec => []OneBlock
<1>1. AllocInv => OneBlock
    BY DEF AllocInv, AInv, RefsOk, OneBlock
<1> QED BY <1>1, AInductive, PTL
=============================================================================
