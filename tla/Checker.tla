------------------------------ MODULE Checker -------------------------------
(***************************************************************************)
(* Memory of a debug build: kapi_kmalloc and kapi_kfree over               *)
(* system/malloc_checker.c, pages over system/page_checker.c, which keeps  *)
(* its own entries in checked memory, and the entries of                   *)
(* system/unique_key.c, which are checked memory too; then kstor_module_   *)
(* exit and kapi_deinit, which report and release what is left.            *)
(*                                                                         *)
(* The kernel reuses an address as soon as it is free.  A bucket's lock is *)
(* held for one look at one list, so every look is a step.  No makefile    *)
(* defines the DELAY_FREE options, and their code is left out; signatures  *)
(* and stack traces are data.                                              *)
(***************************************************************************)
EXTENDS Naturals, FiniteSets

CONSTANTS Threads, Addrs, Pages,
          MaxFaults,    \* bound: failed allocations
          MaxAllocs,    \* bound: pages allocated
          None

VARIABLES
    pc, why,    \* every thread: where it is, and what its block is for
    ptr, page,  \* the block and the page it works on
    hold,       \* every thread: its blocks and pages
    keys,       \* blocks that are entries of unique_key_table
    live, plive,        \* what the kernel has handed out
    entries,    \* malloc_checker: number of entries for each address
    raw,        \* malloc_entry structures that are allocated
    plist,      \* page_checker: entries, with the block each of them is
    nr_allocs, nr_frees,
    exit,       \* no, keys, pages, blocks, done: the stages of the module's exit
    leaks,      \* addresses and pages reported
    faults

mem == <<live, raw>>
pageVars == <<plive, plist, nr_allocs, nr_frees>>
exitVars == <<exit, leaks>>
vars == <<pc, why, ptr, page, hold, keys, mem, entries, pageVars, exitVars, faults>>

Fault == faults < MaxFaults /\ faults' = faults + 1

Init ==
    /\ pc = [t \in Threads |-> "idle"] /\ why = [t \in Threads |-> None]
    /\ ptr = [t \in Threads |-> None] /\ page = [t \in Threads |-> None]
    /\ hold = [t \in Threads |-> {}] /\ keys = {}
    /\ live = {} /\ plive = {} /\ entries = [a \in Addrs |-> 0] /\ raw = 0
    /\ plist = {} /\ nr_allocs = 0 /\ nr_frees = 0
    /\ exit = "no" /\ leaks = {} /\ faults = 0

At(t, from, to) == pc[t] = from /\ pc' = [pc EXCEPT ![t] = to]

-----------------------------------------------------------------------------
(* malloc_checker_kmalloc.                                                 *)

\* A block for the caller itself, or for an entry of the table of keys.
Kmalloc(t) ==
    /\ exit = "no" /\ At(t, "idle", "m_entry")
    /\ \E w \in {"user", "key"} : why' = [why EXCEPT ![t] = w]
    /\ UNCHANGED <<ptr, page, hold, keys, mem, entries, pageVars, exitVars, faults>>

\* What becomes of a failed kmalloc: a page without an entry is put back.
MallocFailed(t) ==
    /\ pc' = [pc EXCEPT ![t] = IF why[t] = "page" THEN "p_put" ELSE "idle"]
    /\ Fault

MallocEntry(t) ==
    /\ pc[t] = "m_entry"
    /\ \/ At(t, "m_entry", "m_block") /\ raw' = raw + 1 /\ UNCHANGED faults
       \/ MallocFailed(t) /\ UNCHANGED raw
    /\ UNCHANGED <<why, ptr, page, hold, keys, live, entries, pageVars, exitVars>>

MallocBlock(t) ==
    /\ pc[t] = "m_block"
    /\ \/ \E a \in Addrs \ live :
            /\ At(t, "m_block", "m_add")
            /\ live' = live \cup {a} /\ ptr' = [ptr EXCEPT ![t] = a]
            /\ UNCHANGED <<raw, faults>>
       \/ MallocFailed(t) /\ raw' = raw - 1 /\ UNCHANGED <<live, ptr>>
    /\ UNCHANGED <<why, page, hold, keys, entries, pageVars, exitVars>>

\* list_add under the lock of the bucket.
MallocAdd(t) ==
    /\ pc[t] = "m_add"
    /\ entries' = [entries EXCEPT ![ptr[t]] = @ + 1]
    /\ pc' = [pc EXCEPT ![t] = IF why[t] = "page" THEN "p_add" ELSE "idle"]
    /\ hold' = IF why[t] = "user" THEN [hold EXCEPT ![t] = @ \cup {ptr[t]}] ELSE hold
    /\ keys' = IF why[t] = "key" THEN keys \cup {ptr[t]} ELSE keys
    /\ ptr' = IF why[t] = "page" THEN ptr ELSE [ptr EXCEPT ![t] = None]
    /\ UNCHANGED <<why, page, mem, pageVars, exitVars, faults>>

-----------------------------------------------------------------------------
(* malloc_checker_kfree.                                                   *)

\* The caller's own block, or the entry of a key it has just unlinked.
Kfree(t) ==
    /\ exit = "no" /\ At(t, "idle", "f_del")
    /\ \/ \E a \in hold[t] \cap Addrs :
            /\ ptr' = [ptr EXCEPT ![t] = a] /\ why' = [why EXCEPT ![t] = "user"]
            /\ hold' = [hold EXCEPT ![t] = @ \ {a}] /\ UNCHANGED keys
       \/ \E a \in keys :
            /\ ptr' = [ptr EXCEPT ![t] = a] /\ why' = [why EXCEPT ![t] = "key"]
            /\ keys' = keys \ {a} /\ UNCHANGED hold
    /\ UNCHANGED <<page, mem, entries, pageVars, exitVars, faults>>

AfterFree(t) == IF why[t] = "page" THEN "q_count" ELSE "idle"

\* The entry stays in the list.
FreeDel_M(t) ==
    /\ pc[t] = "f_del"
    /\ pc' = [pc EXCEPT ![t] = IF entries[ptr[t]] = 0 THEN AfterFree(t) ELSE "f_block"]
    /\ UNCHANGED <<why, ptr, page, hold, keys, mem, entries, pageVars, exitVars, faults>>

\* The entries for the address leave the list under the lock of the bucket.
\* An address without an entry is ignored.
FreeDel(t) ==
    /\ pc[t] = "f_del"
    /\ pc' = [pc EXCEPT ![t] = IF entries[ptr[t]] = 0 THEN AfterFree(t) ELSE "f_block"]
    /\ entries' = [entries EXCEPT ![ptr[t]] = 0]
    /\ UNCHANGED <<why, ptr, page, hold, keys, mem, pageVars, exitVars, faults>>

\* check_and_release_entry, without a lock: the block, then its entry.
FreeBlock(t) ==
    /\ At(t, "f_block", "f_entry")
    /\ live' = live \ {ptr[t]}
    /\ UNCHANGED <<why, ptr, page, hold, keys, raw, entries, pageVars, exitVars, faults>>

FreeEntry(t) ==
    /\ At(t, "f_entry", AfterFree(t))
    /\ raw' = raw - 1 /\ ptr' = [ptr EXCEPT ![t] = None]
    /\ UNCHANGED <<why, page, hold, keys, live, entries, pageVars, exitVars, faults>>

-----------------------------------------------------------------------------
(* page_checker_alloc_page and page_checker_free_page.                     *)

AllocPage(t) ==
    /\ exit = "no" /\ nr_allocs < MaxAllocs
    /\ \E p \in Pages \ plive :
         /\ plive' = plive \cup {p} /\ page' = [page EXCEPT ![t] = p]
    /\ At(t, "idle", "m_entry") /\ why' = [why EXCEPT ![t] = "page"]
    /\ UNCHANGED <<ptr, hold, keys, mem, entries, plist, nr_allocs, nr_frees, exitVars, faults>>

\* No memory for the entry: the page goes back.
PutPage(t) ==
    /\ At(t, "p_put", "idle")
    /\ plive' = plive \ {page[t]} /\ page' = [page EXCEPT ![t] = None]
    /\ UNCHANGED <<why, ptr, hold, keys, mem, entries, plist, nr_allocs, nr_frees,
                   exitVars, faults>>

PageAdd(t) ==
    /\ At(t, "p_add", "idle")
    /\ plist' = plist \cup {[page |-> page[t], at |-> ptr[t]]}
    /\ hold' = [hold EXCEPT ![t] = @ \cup {page[t]}]
    /\ ptr' = [ptr EXCEPT ![t] = None] /\ page' = [page EXCEPT ![t] = None]
    /\ nr_allocs' = nr_allocs + 1
    /\ UNCHANGED <<why, keys, mem, entries, plive, nr_frees, exitVars, faults>>

\* The page's entry leaves the list; the page, the entry and the count follow.
FreePage(t) ==
    /\ exit = "no" /\ At(t, "idle", "q_put")
    /\ \E e \in plist :
         /\ e.page \in hold[t]
         /\ plist' = plist \ {e}
         /\ page' = [page EXCEPT ![t] = e.page] /\ ptr' = [ptr EXCEPT ![t] = e.at]
         /\ hold' = [hold EXCEPT ![t] = @ \ {e.page}]
    /\ why' = [why EXCEPT ![t] = "page"]
    /\ UNCHANGED <<keys, mem, entries, plive, nr_allocs, nr_frees, exitVars, faults>>

ReleasePage(t) ==
    /\ At(t, "q_put", "f_del")
    /\ plive' = plive \ {page[t]}
    /\ UNCHANGED <<why, ptr, page, hold, keys, mem, entries, plist, nr_allocs, nr_frees,
                   exitVars, faults>>

PageCount(t) ==
    /\ At(t, "q_count", "idle")
    /\ nr_frees' = nr_frees + 1 /\ page' = [page EXCEPT ![t] = None]
    /\ UNCHANGED <<why, ptr, hold, keys, mem, entries, plive, plist, nr_allocs, exitVars,
                   faults>>

ThreadStep(t) ==
    \/ Kmalloc(t) \/ MallocEntry(t) \/ MallocBlock(t) \/ MallocAdd(t)
    \/ Kfree(t) \/ FreeDel(t) \/ FreeBlock(t) \/ FreeEntry(t)
    \/ AllocPage(t) \/ PutPage(t) \/ PageAdd(t)
    \/ FreePage(t) \/ ReleasePage(t) \/ PageCount(t)

-----------------------------------------------------------------------------
(* kstor_module_exit: the threads are gone; then kapi_deinit.              *)

\* malloc_checker_kfree in the only thread that is left.
FreeNow(a) ==
    /\ entries' = [entries EXCEPT ![a] = 0]
    /\ live' = IF entries[a] = 0 THEN live ELSE live \ {a}
    /\ raw' = raw - entries[a]

ModuleExit ==
    /\ exit = "no" /\ \A t \in Threads : pc[t] = "idle"
    /\ exit' = "keys"
    /\ UNCHANGED <<pc, why, ptr, page, hold, keys, mem, entries, pageVars, leaks, faults>>

\* The malloc checker goes before the page checker, which still uses it.
NextStage_M == CASE exit = "keys" -> "blocks" [] exit = "blocks" -> "pages" [] OTHER -> "done"

\* unique_key_deinit, page_checker_deinit, malloc_checker_deinit, in this order.
NextStage == CASE exit = "keys" -> "pages" [] exit = "pages" -> "blocks" [] OTHER -> "done"

KeyDeinit ==
    /\ exit = "keys"
    /\ IF keys = {} THEN exit' = NextStage /\ UNCHANGED <<keys, mem, entries>>
       ELSE /\ \E a \in keys : FreeNow(a) /\ keys' = keys \ {a}
            /\ UNCHANGED exit
    /\ UNCHANGED <<pc, why, ptr, page, hold, pageVars, leaks, faults>>

PageDeinit ==
    /\ exit = "pages"
    /\ IF plist = {} THEN exit' = NextStage /\ UNCHANGED <<plist, plive, leaks, mem, entries>>
       ELSE /\ \E e \in plist :
                 /\ plist' = plist \ {e} /\ plive' = plive \ {e.page}
                 /\ leaks' = leaks \cup {e.page} /\ FreeNow(e.at)
            /\ UNCHANGED exit
    /\ UNCHANGED <<pc, why, ptr, page, hold, keys, nr_allocs, nr_frees, faults>>

MallocDeinit ==
    /\ exit = "blocks"
    /\ IF \A a \in Addrs : entries[a] = 0
       THEN exit' = NextStage /\ UNCHANGED <<mem, entries, leaks>>
       ELSE /\ \E a \in Addrs : entries[a] > 0 /\ FreeNow(a) /\ leaks' = leaks \cup {a}
            /\ UNCHANGED exit
    /\ UNCHANGED <<pc, why, ptr, page, hold, keys, pageVars, faults>>

Next ==
    \/ \E t \in Threads : ThreadStep(t)
    \/ ModuleExit \/ KeyDeinit \/ PageDeinit \/ MallocDeinit

Spec == Init /\ [][Next]_vars

-----------------------------------------------------------------------------
TypeOK ==
    /\ pc \in [Threads -> {"idle", "m_entry", "m_block", "m_add", "f_del", "f_block",
                           "f_entry", "p_put", "p_add", "q_put", "q_count"}]
    /\ why \in [Threads -> {None, "user", "page", "key"}]
    /\ ptr \in [Threads -> Addrs \cup {None}] /\ page \in [Threads -> Pages \cup {None}]
    /\ hold \in [Threads -> SUBSET (Addrs \cup Pages)] /\ keys \subseteq Addrs
    /\ live \subseteq Addrs /\ plive \subseteq Pages
    /\ entries \in [Addrs -> Nat] /\ raw \in Nat
    /\ plist \subseteq [page : Pages, at : Addrs]
    /\ nr_allocs \in Nat /\ nr_frees \in Nat
    /\ exit \in {"no", "keys", "pages", "blocks", "done"}
    /\ leaks \subseteq Addrs \cup Pages /\ faults \in 0 .. MaxFaults

\* Blocks whose owner may use them: the callers', the keys' and the page
\* checker's own.
InUse ==
    (UNION {hold[t] \cap Addrs : t \in Threads}) \cup keys \cup {e.at : e \in plist}

\* An address that is in use is known to the malloc checker, once, and is
\* allocated: an address that is freed and handed out again meanwhile never
\* has the entry of its former life, nor loses the one of its new life.  What
\* a thread is about to give back to the kernel is nobody else's.
EntryExact ==
    /\ exit = "no" => \A a \in InUse : entries[a] = 1
    /\ \A a \in Addrs : entries[a] <= 1 /\ (entries[a] = 1 => a \in live)
    /\ \A t \in Threads : pc[t] \in {"m_add", "f_del", "f_block"} =>
         /\ ptr[t] \in live /\ ptr[t] \notin InUse
         /\ \A u \in Threads \ {t} : pc[u] \in {"m_add", "p_add", "f_del", "f_block"} =>
               ptr[u] # ptr[t]

\* The exit reports what the threads have kept, all of it and nothing else (the
\* checkers' own entries are not taken for leaks), gives everything back to the
\* kernel, and the counters of the page checker differ by the pages reported.
LeaksExact ==
    exit = "done" =>
        /\ leaks = UNION {hold[t] : t \in Threads}
        /\ live = {} /\ plive = {} /\ raw = 0
        /\ nr_allocs = nr_frees + Cardinality(leaks \cap Pages)
=============================================================================
