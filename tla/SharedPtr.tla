----------------------------- MODULE SharedPtr ------------------------------
(***************************************************************************)
(* SharedPtr and ObjectReference (core/shared_ptr.h) with the table of     *)
(* owners that debug builds keep (system/unique_key.c).                    *)
(*                                                                         *)
(* Every thread has a pointer of its own; Shared is a pointer that threads *)
(* copy and assign under a read-write lock, as VolumeRef of ControlDevice  *)
(* is.  Memory of objects and of ObjectReferences is reused.               *)
(***************************************************************************)
EXTENDS Naturals, FiniteSets

CONSTANTS Threads,
          Addrs, Refs,      \* addresses of objects and of ObjectReferences
          MaxFaults,        \* bound: failed allocations
          None

Shared == "Shared"
Ptrs == Threads \cup {Shared}

VARIABLES
    debug,      \* the build: debug or release
    ptr,        \* ObjectRef of every SharedPtr
    ref,        \* ObjectReferences: None, or Counter and Object
    heap,       \* addresses of live objects
    keys,       \* unique_key_table: address -> value, None if not there
    writer, readers,    \* the lock of Shared
    pc, op,     \* where each thread is and what it does
    tmp,        \* the ObjectReference it is building or taking down
    panics,     \* assertions that failed
    faults

vars == <<debug, ptr, ref, heap, keys, writer, readers, pc, op, tmp, panics, faults>>

Fault == faults < MaxFaults /\ faults' = faults + 1

Init ==
    /\ debug \in BOOLEAN
    /\ ptr = [p \in Ptrs |-> None] /\ ref = [r \in Refs |-> None] /\ heap = {}
    /\ keys = [a \in Addrs |-> None] /\ writer = None /\ readers = {}
    /\ pc = [t \in Threads |-> "idle"] /\ op = [t \in Threads |-> "none"]
    /\ tmp = [t \in Threads |-> None] /\ panics = {} /\ faults = 0

Goto(t, l) == pc' = [pc EXCEPT ![t] = l]

\* panic(): a debug build stops the thread there, a release build goes on.
Panic(t, name, next) ==
    /\ panics' = panics \cup {name}
    /\ Goto(t, IF debug THEN "dead" ELSE next)

-----------------------------------------------------------------------------
(* MakeShared.                                                             *)

MakeShared(t) ==
    /\ pc[t] = "idle" /\ ptr[t] = None
    /\ \/ \E r \in Refs :
            /\ ref[r] = None
            /\ ref' = [ref EXCEPT ![r] = [counter |-> 1, object |-> None]]
            /\ tmp' = [tmp EXCEPT ![t] = r]
            /\ Goto(t, "object") /\ UNCHANGED faults
       \/ Fault /\ UNCHANGED <<ref, tmp, pc>>
    /\ UNCHANGED <<debug, ptr, heap, keys, writer, readers, op, panics>>

\* Without an object the reference is deleted, with its counter at one.
NewObject(t) ==
    /\ pc[t] = "object"
    /\ \/ \E a \in Addrs \ heap :
            /\ heap' = heap \cup {a}
            /\ ref' = [ref EXCEPT ![tmp[t]].object = a]
            /\ Goto(t, "register") /\ UNCHANGED <<tmp, panics, faults>>
       \/ /\ Fault
          /\ ref' = [ref EXCEPT ![tmp[t]] = None]
          /\ tmp' = [tmp EXCEPT ![t] = None]
          /\ Panic(t, "RefDtor", "idle") /\ UNCHANGED heap
    /\ UNCHANGED <<debug, ptr, keys, writer, readers, op>>

\* unique_key_register of debug builds.  It returns false, that is zero, when
\* it has no memory for the entry.
Register(t) ==
    LET a == ref[tmp[t]].object IN
    /\ pc[t] = "register"
    /\ \/ /\ keys' = IF debug /\ keys[a] = None THEN [keys EXCEPT ![a] = tmp[t]] ELSE keys
          /\ IF debug /\ keys[a] # None THEN Panic(t, "Register", "made")
             ELSE Goto(t, "made") /\ UNCHANGED panics
          /\ UNCHANGED faults
       \/ debug /\ Fault /\ Goto(t, "made") /\ UNCHANGED <<keys, panics>>
    /\ UNCHANGED <<debug, ptr, ref, heap, writer, readers, op, tmp>>

Made(t) ==
    /\ pc[t] = "made"
    /\ ptr' = [ptr EXCEPT ![t] = tmp[t]]
    /\ tmp' = [tmp EXCEPT ![t] = None] /\ Goto(t, "idle")
    /\ UNCHANGED <<debug, ref, heap, keys, writer, readers, op, panics, faults>>

-----------------------------------------------------------------------------
(* Reset, and the assignments, which begin with a Reset.                   *)

Target(t) == IF op[t] \in {"store", "move"} THEN Shared ELSE t
Source(t) == IF op[t] \in {"store", "move"} THEN t ELSE Shared

Begin(t, o) ==
    /\ pc[t] = "idle"
    /\ op' = [op EXCEPT ![t] = o]
    /\ Goto(t, "dec")
    /\ UNCHANGED <<debug, ptr, ref, heap, keys, tmp, panics, faults>>

Reset(t) == ptr[t] # None /\ Begin(t, "reset") /\ UNCHANGED <<writer, readers>>

\* local = shared, without taking the lock.
Load_M(t) == Begin(t, "load") /\ readers' = readers \cup {t} /\ UNCHANGED writer

\* local = shared, under the lock taken shared.
Load(t) ==
    /\ writer = None
    /\ Begin(t, "load") /\ readers' = readers \cup {t} /\ UNCHANGED writer

\* shared = local or shared = Move(local), under the lock taken exclusively.
Store(t) ==
    /\ writer = None /\ readers = {}
    /\ Begin(t, "store") \/ Begin(t, "move")
    /\ writer' = t /\ UNCHANGED readers

Unlock(t) ==
    /\ writer' = IF writer = t THEN None ELSE writer
    /\ readers' = readers \ {t}

\* Where a thread goes when the old object is off its hands.
AfterReset(t) == IF op[t] = "reset" THEN "idle" ELSE "assign"

\* DecAndTest.  Only the thread that brings the counter to zero goes on to
\* destroy the object.
Dec(t) ==
    LET p == Target(t)
        r == ptr[p]
    IN
    /\ pc[t] = "dec"
    /\ IF r = None
       THEN Goto(t, AfterReset(t)) /\ UNCHANGED <<ptr, ref, tmp>>
       ELSE /\ ptr' = [ptr EXCEPT ![p] = None]
            /\ ref' = [ref EXCEPT ![r].counter = @ - 1]
            /\ IF ref[r].counter = 1
               THEN tmp' = [tmp EXCEPT ![t] = r] /\ Goto(t, "unregister")
               ELSE UNCHANGED tmp /\ Goto(t, AfterReset(t))
    /\ UNCHANGED <<debug, heap, keys, writer, readers, op, panics, faults>>

\* The entry of the object stays in the table.
Unregister_M(t) ==
    /\ pc[t] = "unregister" /\ Goto(t, "object_dtor")
    /\ UNCHANGED <<debug, ptr, ref, heap, keys, writer, readers, op, tmp, panics, faults>>

\* unique_key_unregister looks for the address with this ObjectReference.
Unregister(t) ==
    LET a == ref[tmp[t]].object IN
    /\ pc[t] = "unregister"
    /\ \/ ~debug /\ Goto(t, "object_dtor") /\ UNCHANGED <<keys, panics>>
       \/ /\ debug /\ keys[a] = tmp[t] /\ keys' = [keys EXCEPT ![a] = None]
          /\ Goto(t, "object_dtor") /\ UNCHANGED panics
       \/ /\ debug /\ keys[a] # tmp[t] /\ Panic(t, "Unregister", "idle")
          /\ UNCHANGED keys
    /\ UNCHANGED <<debug, ptr, ref, heap, writer, readers, op, tmp, faults>>

DeleteObject(t) ==
    /\ pc[t] = "object_dtor"
    /\ heap' = heap \ {ref[tmp[t]].object}
    /\ ref' = [ref EXCEPT ![tmp[t]].object = None]
    /\ Goto(t, "ref_dtor")
    /\ UNCHANGED <<debug, ptr, keys, writer, readers, op, tmp, panics, faults>>

DeleteRef(t) ==
    /\ pc[t] = "ref_dtor"
    /\ ref' = [ref EXCEPT ![tmp[t]] = None]
    /\ tmp' = [tmp EXCEPT ![t] = None] /\ Goto(t, AfterReset(t))
    /\ UNCHANGED <<debug, ptr, heap, keys, writer, readers, op, panics, faults>>

\* ObjectRef = other.ObjectRef, and then IncCounter or other.ObjectRef = nullptr.
Assign(t) ==
    /\ pc[t] = "assign"
    /\ ptr' = [ptr EXCEPT ![Target(t)] = ptr[Source(t)]]
    /\ Goto(t, "count")
    /\ UNCHANGED <<debug, ref, heap, keys, writer, readers, op, tmp, panics, faults>>

Count(t) ==
    LET r == ptr[Target(t)] IN
    /\ pc[t] = "count"
    /\ IF op[t] = "move"
       THEN ptr' = [ptr EXCEPT ![t] = None] /\ UNCHANGED ref
       ELSE /\ ref' = IF r = None THEN ref ELSE [ref EXCEPT ![r].counter = @ + 1]
            /\ UNCHANGED ptr
    /\ Unlock(t) /\ Goto(t, "idle")
    /\ UNCHANGED <<debug, heap, keys, op, tmp, panics, faults>>

-----------------------------------------------------------------------------
Next ==
    \E t \in Threads :
        \/ MakeShared(t) \/ NewObject(t) \/ Register(t) \/ Made(t)
        \/ Reset(t) \/ Load(t) \/ Store(t)
        \/ Dec(t) \/ Unregister(t) \/ DeleteObject(t) \/ DeleteRef(t)
        \/ Assign(t) \/ Count(t)

Spec == Init /\ [][Next]_vars

-----------------------------------------------------------------------------
TypeOK ==
    /\ debug \in BOOLEAN /\ ptr \in [Ptrs -> Refs \cup {None}]
    /\ ref \in [Refs -> {None} \cup [counter : 0 .. Cardinality(Ptrs),
                                     object : Addrs \cup {None}]]
    /\ heap \subseteq Addrs /\ keys \in [Addrs -> Refs \cup {None}]
    /\ writer \in Threads \cup {None} /\ readers \subseteq Threads
    /\ tmp \in [Threads -> Refs \cup {None}]
    /\ panics \subseteq {"RefDtor", "Register", "Unregister"} /\ faults \in 0 .. MaxFaults
    /\ pc \in [Threads -> {"idle", "object", "register", "made", "dec", "unregister",
                           "object_dtor", "ref_dtor", "assign", "count", "dead"}]

\* Pointers that are in the middle of being copied: not counted yet, or, moved
\* from, still there.
Half == {t \in Threads : pc[t] = "count" /\ ptr[Target(t)] # None}

\* A pointer that is not null leads to a live object, and the counter of its
\* ObjectReference is the number of pointers to it, up to the copies under
\* way: nobody uses an object that somebody else destroyed.
CountsOwners ==
    \A p \in Ptrs : ptr[p] # None =>
        /\ ref[ptr[p]] # None /\ ref[ptr[p]].object \in heap
        /\ ref[ptr[p]].counter + Cardinality({t \in Half : ptr[Target(t)] = ptr[p]})
             = Cardinality({q \in Ptrs : ptr[q] = ptr[p]})

Dead == \E t \in Threads : pc[t] = "dead"

\* Every ObjectReference and every object has an owner, or one thread that is
\* making or destroying it: none is forgotten, none is destroyed twice.  In
\* debug builds registering a new object never meets an entry that an earlier
\* object has left at its address.
NothingLost ==
    /\ ~Dead =>
         /\ \A r \in Refs : ref[r] # None =>
              \/ \E p \in Ptrs : ptr[p] = r
              \/ \E t \in Threads : tmp[t] = r /\ \A u \in Threads \ {t} : tmp[u] # r
         /\ \A a \in heap : \E r \in Refs : ref[r] # None /\ ref[r].object = a
    /\ "Register" \notin panics
=============================================================================
