---------------------------- MODULE PointerProofs ----------------------------
(***************************************************************************)
(* Proofs about shared pointers for any number of threads, pointers and    *)
(* references, in the debug and in the release build: the counter of a     *)
(* reference is the number of its owners, and what nobody owns is gone.    *)
(* Here too is the type theorem of the three memory components together.   *)
(***************************************************************************)
EXTENDS MemoryProofs

\* The pointers to an ObjectReference, and the threads that have copied one to
\* it without having counted it, or moved one without having cleared it.
Owners(r) == {p \in S!Ptrs : ptr[p] = r}

\* Threads that have stored the reference and not yet counted themselves.
Halves(r) == {t \in Threads : pc[t] = "count" /\ ptr[S!Target(t)] = r}

\* MakeShared, an assignment and the release of the last owner, by stages.
Making == {"object", "register", "made"}
Breaking == {"unregister", "object_dtor", "ref_dtor"}
Assigning == {"dec", "assign", "count"} \cup Breaking

\* Shared is written by one thread, or read by several, and not both.
LockOk ==
    /\ writer # None => readers = {}
    /\ op \in [Threads -> {"none", "reset", "load", "store", "move"}]
    /\ \A t \in Threads : pc[t] \in Assigning =>
         /\ op[t] # "none"
         /\ op[t] = "load" => t \in readers
         /\ op[t] \in {"store", "move"} => writer = t
    /\ \A t \in Threads : pc[t] \in {"assign", "count"} => op[t] # "reset"

\* The pointers of a thread on its way.
PathOk == \A t \in Threads :
    /\ pc[t] \in Making => ptr[t] = None
    /\ pc[t] \in Breaking \cup {"assign"} => ptr[S!Target(t)] = None
    /\ pc[t] = "count" => ptr[S!Target(t)] = ptr[S!Source(t)]
    /\ pc[t] \in Making \cup Breaking => tmp[t] # None
    /\ pc[t] \in {"idle", "dec", "assign", "count"} => tmp[t] = None

\* An ObjectReference that a thread is making or taking down belongs to that
\* thread alone.
TmpOk == \A t \in Threads : tmp[t] # None =>
    /\ ref[tmp[t]] # None
    /\ \A p \in S!Ptrs : ptr[p] # tmp[t]
    /\ \A u \in Threads : u # t => tmp[u] # tmp[t]
    /\ pc[t] \in Making => ref[tmp[t]].counter = 1
    /\ pc[t] \in {"object", "ref_dtor"} <=> ref[tmp[t]].object = None

\* Every other one has owners, and their number is its counter, up to the
\* copies under way.
CounterOk == \A r \in Refs : ref[r] # None =>
    \/ \E t \in Threads : tmp[t] = r
    \/ /\ ref[r].counter >= 1 /\ ref[r].object # None
       /\ ref[r].counter + Cardinality(Halves(r)) = Cardinality(Owners(r))

\* A pointer that is not null leads to an ObjectReference.
PtrOk == \A p \in S!Ptrs : ptr[p] # None => ref[ptr[p]] # None

\* Objects and ObjectReferences are paired.
ObjectsOk ==
    /\ \A r \in Refs : ref[r] # None /\ ref[r].object # None => ref[r].object \in heap
    /\ \A r, s \in Refs :
         r # s /\ ref[r] # None /\ ref[s] # None /\ ref[r].object # None =>
             ref[r].object # ref[s].object
    /\ \A a \in heap : \E r \in Refs : ref[r] # None /\ ref[r].object = a

\* An entry in the table of keys is that of a live object, which was registered.
KeysOk ==
    /\ \A a \in Addrs : keys[a] # None =>
         debug /\ ref[keys[a]] # None /\ ref[keys[a]].object = a
    /\ \A t \in Threads : pc[t] \in {"register", "object_dtor"} =>
         \A a \in Addrs : keys[a] # tmp[t]
    /\ "Register" \notin panics

\* The inductive invariant, and the invariant of CoreMemory it makes.
SInv == S!TypeOK /\ LockOk /\ PathOk /\ TmpOk /\ CounterOk /\ PtrOk /\ ObjectsOk /\ KeysOk
PointerInv == part = "pointer" => SInv

\* The threads and the shared one are finitely many pointers.
LEMMA Finite ==
    /\ S!Cardinality(S!Ptrs) = Cardinality(S!Ptrs) /\ Cardinality(S!Ptrs) \in Nat \ {0}
    /\ \A r : /\ IsFiniteSet(Owners(r)) /\ Cardinality(Owners(r)) \in Nat
             /\ IsFiniteSet(Halves(r)) /\ Cardinality(Halves(r)) \in Nat
             /\ Cardinality(Owners(r)) <= Cardinality(S!Ptrs)
             /\ Cardinality(Owners(r)') <= Cardinality(S!Ptrs)
             /\ Cardinality(Owners(r)') \in Nat /\ Cardinality(Halves(r)') \in Nat
<1>1. IsFiniteSet(S!Ptrs) /\ S!Ptrs # {}
    BY FS_AddElement, CoreMemoryAssumption DEF S!Ptrs, S!Shared
<1>2. S!Cardinality(S!Ptrs) = Cardinality(S!Ptrs)
    BY DEF S!Cardinality, Cardinality
<1>3. Cardinality(S!Ptrs) \in Nat \ {0}
    BY <1>1, FS_CardinalityType, FS_EmptySet
<1>4. \A r : /\ Owners(r) \subseteq S!Ptrs /\ Halves(r) \subseteq Threads
            /\ Owners(r)' \subseteq S!Ptrs /\ Halves(r)' \subseteq Threads
    BY DEF Owners, Halves
<1> QED BY <1>1, <1>2, <1>3, <1>4, FS_Subset, FS_CardinalityType, CoreMemoryAssumption

\* Steps that copy no pointer leave owners and copies as they are.
LEMMA SameOwners ==
    ASSUME UNCHANGED ptr,
           \A t \in Threads : pc'[t] = "count" <=> pc[t] = "count",
           \A t \in Threads : pc[t] = "count" => op'[t] = op[t]
    PROVE  \A r : Owners(r)' = Owners(r) /\ Halves(r)' = Halves(r)
BY DEF Owners, Halves, S!Target

\* What the type invariant says of one ObjectReference.
LEMMA RefTypes ==
    ASSUME S!TypeOK, NEW r \in Refs, ref[r] # None
    PROVE  /\ ref[r] \in [counter : 0 .. Cardinality(S!Ptrs), object : Addrs \cup {None}]
           /\ ref[r].counter \in Nat /\ ref[r].object \in Addrs \cup {None}
BY Finite DEF S!TypeOK

\* A copy under way leaves its source, or its target, the shared pointer, to the
\* same ObjectReference: the counter, short of the copies, is still above zero.
LEMMA HalvesOwned ==
    ASSUME S!TypeOK, LockOk, PathOk, NEW r \in Refs, Halves(r) # {}
    PROVE  /\ Halves(r) \cup {"Shared"} \subseteq Owners(r) /\ "Shared" \notin Halves(r)
           /\ Cardinality(Halves(r)) >= 1
           /\ Cardinality(Owners(r)) >= Cardinality(Halves(r)) + 1
<1>1. Halves(r) \cup {"Shared"} \subseteq Owners(r) /\ "Shared" \notin Halves(r)
    BY CoreMemoryAssumption
    DEF LockOk, PathOk, Halves, Owners, Assigning, S!Target, S!Source, S!Ptrs, S!Shared, S!TypeOK
<1>2. Cardinality(Halves(r) \cup {"Shared"}) = Cardinality(Halves(r)) + 1
    BY <1>1, Finite, FS_AddElement
<1>3. Cardinality(Halves(r) \cup {"Shared"}) <= Cardinality(Owners(r))
    BY <1>1, Finite, FS_Subset
<1>4. Cardinality(Halves(r)) # 0
    BY Finite, FS_EmptySet
<1> QED BY <1>1, <1>2, <1>3, <1>4, Finite

\* An ObjectReference with an owner is nobody's to make or to take down.
LEMMA Owned ==
    ASSUME S!TypeOK, TmpOk, CounterOk, PtrOk, NEW p \in S!Ptrs, ptr[p] # None
    PROVE  LET r == ptr[p] IN
           /\ r \in Refs /\ ref[r] # None /\ ref[r].counter >= 1 /\ ref[r].object \in Addrs
           /\ ref[r].counter + Cardinality(Halves(r)) = Cardinality(Owners(r))
           /\ \A t \in Threads : tmp[t] # r
           /\ p \in Owners(r)
BY RefTypes DEF S!TypeOK, TmpOk, CounterOk, PtrOk, Owners

\* Every step of MakeShared, of copying, moving or resetting a pointer, and
\* of the destructors preserves the invariant.
LEMMA SStep == SInv /\ S!Next => SInv'
<1> SUFFICES ASSUME SInv, S!Next PROVE SInv'
    OBVIOUS
<1> USE CoreMemoryAssumption
    DEF SInv, S!Fault, S!Goto, S!Panic, S!Begin, S!Unlock, S!AfterReset, S!Ptrs,
        S!Shared, Making, Breaking, Assigning
<1>1. ASSUME NEW t \in Threads, S!MakeShared(t)
      PROVE  SInv'
    <2> USE <1>1 DEF S!MakeShared
    <2>1. S!TypeOK'
        <3>1. ref' \in [Refs -> {None} \cup [counter : 0 .. S!Cardinality(S!Ptrs), object : Addrs \cup {None}]]
            <4> DEFINE Rec == [counter : 0 .. S!Cardinality(S!Ptrs), object : Addrs \cup {None}]
            <4>1. [counter |-> 1, object |-> None] \in Rec
                BY Finite
            <4>2. ref \in [Refs -> {None} \cup Rec]
                BY DEF S!TypeOK
            <4> HIDE DEF Rec
            <4>3. ref' \in [Refs -> {None} \cup Rec]
                BY <4>1, <4>2
            <4> QED BY <4>3 DEF Rec
        <3>2. faults' \in 0 .. MaxFaults
            BY DEF S!TypeOK
        <3>3. pc' \in [Threads -> {"idle", "object", "register", "made", "dec", "unregister",
                                  "object_dtor", "ref_dtor", "assign", "count", "dead"}]
            BY DEF S!TypeOK
        <3>4. tmp' \in [Threads -> Refs \cup {None}]
            BY DEF S!TypeOK
        <3> QED BY <3>4, <3>1, <3>2, <3>3 DEF S!TypeOK
    <2>2. LockOk'
        BY DEF S!TypeOK, LockOk
    <2>3. PathOk'
        BY DEF S!TypeOK, LockOk, PathOk, S!Target, S!Source
    <2>4. TmpOk'
        BY DEF S!TypeOK, LockOk, PathOk, TmpOk, PtrOk, ObjectsOk, S!Target, S!Source
    <2>5. CounterOk'
        <3>1. \A r : Owners(r)' = Owners(r) /\ Halves(r)' = Halves(r)
            BY SameOwners DEF S!TypeOK
        <3> QED BY <3>1 DEF S!TypeOK, PathOk, TmpOk, CounterOk
    <2>6. PtrOk'
        BY DEF S!TypeOK, LockOk, PathOk, TmpOk, PtrOk, S!Target, S!Source
    <2>7. ObjectsOk'
        BY DEF S!TypeOK, PathOk, TmpOk, ObjectsOk
    <2>8. KeysOk'
        BY DEF S!TypeOK, PathOk, TmpOk, ObjectsOk, KeysOk
    <2> QED BY <2>1, <2>2, <2>3, <2>4, <2>5, <2>6, <2>7, <2>8
<1>2. ASSUME NEW t \in Threads, S!NewObject(t)
      PROVE  SInv'
    <2> USE <1>2 DEF S!NewObject
    <2>a. tmp[t] \in Refs /\ ref[tmp[t]] # None
        BY DEF S!TypeOK, PathOk, TmpOk
    <2>b. ref[tmp[t]].object = None /\ ref[tmp[t]].counter = 1
        BY <2>a DEF TmpOk
    <2>c. /\ ref[tmp[t]] \in [counter : 0 .. Cardinality(S!Ptrs), object : Addrs \cup {None}]
        BY <2>a, RefTypes
    <2>d. \A a \in Addrs : [ref[tmp[t]] EXCEPT !.object = a] \in
                 [counter : 0 .. S!Cardinality(S!Ptrs), object : Addrs \cup {None}]
        BY <2>c, Finite
    <2> USE <2>a, <2>b, <2>c
    <2>1. S!TypeOK'
        <3>1. ref' \in [Refs -> {None} \cup [counter : 0 .. S!Cardinality(S!Ptrs), object : Addrs \cup {None}]]
            <4> DEFINE Rec == [counter : 0 .. S!Cardinality(S!Ptrs), object : Addrs \cup {None}]
            <4>1. \A a \in Addrs : [ref[tmp[t]] EXCEPT !.object = a] \in Rec
                BY <2>d
            <4>2. ref \in [Refs -> {None} \cup Rec]
                BY DEF S!TypeOK
            <4> HIDE DEF Rec
            <4>3. ref' \in [Refs -> {None} \cup Rec]
                <5>1. CASE \E a \in Addrs : ref' = [ref EXCEPT ![tmp[t]].object = a]
                    BY <5>1, <4>1, <4>2
                <5>2. CASE ref' = [ref EXCEPT ![tmp[t]] = None]
                    BY <5>2, <4>2
                <5> QED BY <5>1, <5>2
            <4> QED BY <4>3 DEF Rec
        <3>2. faults' \in 0 .. MaxFaults
            BY DEF S!TypeOK
        <3>3. pc' \in [Threads -> {"idle", "object", "register", "made", "dec", "unregister",
                                  "object_dtor", "ref_dtor", "assign", "count", "dead"}]
            BY DEF S!TypeOK
        <3> QED BY <3>1, <3>2, <3>3, ZenonT(30) DEF S!TypeOK
    <2>2. LockOk'
        BY DEF S!TypeOK, LockOk
    <2>3. PathOk'
        BY DEF S!TypeOK, LockOk, PathOk, S!Target, S!Source
    <2>4. TmpOk'
        BY DEF S!TypeOK, LockOk, PathOk, TmpOk, PtrOk, ObjectsOk, S!Target, S!Source
    <2>5. CounterOk'
        <3>1. \A r : Owners(r)' = Owners(r) /\ Halves(r)' = Halves(r)
            BY SameOwners DEF S!TypeOK
        <3> QED BY <3>1 DEF S!TypeOK, PathOk, TmpOk, CounterOk
    <2>6. PtrOk'
        BY DEF S!TypeOK, LockOk, PathOk, TmpOk, PtrOk, S!Target, S!Source
    <2>7. ObjectsOk'
        <3>1. CASE \E a \in Addrs \ heap :
                     heap' = heap \cup {a} /\ ref' = [ref EXCEPT ![tmp[t]].object = a]
            BY <3>1 DEF S!TypeOK, ObjectsOk
        <3>2. CASE ref' = [ref EXCEPT ![tmp[t]] = None] /\ UNCHANGED heap
            BY <3>2 DEF S!TypeOK, ObjectsOk
        <3> QED BY <3>1, <3>2
    <2>8. KeysOk'
        <3>1. CASE \E a \in Addrs \ heap : ref' = [ref EXCEPT ![tmp[t]].object = a]
                                             /\ S!Goto(t, "register") /\ UNCHANGED <<tmp, panics>>
            BY <3>1 DEF S!TypeOK, TmpOk, ObjectsOk, KeysOk
        <3>2. CASE /\ ref' = [ref EXCEPT ![tmp[t]] = None] /\ tmp' = [tmp EXCEPT ![t] = None]
                   /\ S!Panic(t, "RefDtor", "idle")
            <4>1. \A a \in Addrs : keys[a] # tmp[t]
                BY DEF KeysOk
            <4>2. "Register" \notin panics'
                BY <3>2 DEF KeysOk
            <4>3. \A u \in Threads : pc'[u] \in {"register", "object_dtor"} =>
                     pc[u] = pc'[u] /\ tmp'[u] = tmp[u]
                BY <3>2 DEF S!TypeOK
            <4> QED BY <3>2, <4>1, <4>2, <4>3 DEF S!TypeOK, KeysOk
        <3> QED BY <3>1, <3>2
    <2> QED BY <2>1, <2>2, <2>3, <2>4, <2>5, <2>6, <2>7, <2>8
<1>3. ASSUME NEW t \in Threads, S!Register(t)
      PROVE  SInv'
    <2> USE <1>3 DEF S!Register
    <2>1. S!TypeOK'
        <3>1. tmp[t] \in Refs /\ ref[tmp[t]] # None /\ ref[tmp[t]].object \in Addrs
            BY RefTypes DEF S!TypeOK, PathOk, TmpOk
        <3>2. keys' \in [Addrs -> Refs \cup {None}]
            BY <3>1 DEF S!TypeOK
        <3>3. faults' \in 0 .. MaxFaults
            BY DEF S!TypeOK
        <3>4. pc' \in [Threads -> {"idle", "object", "register", "made", "dec", "unregister",
                                  "object_dtor", "ref_dtor", "assign", "count", "dead"}]
            BY DEF S!TypeOK
        <3> QED BY <3>2, <3>3, <3>4 DEF S!TypeOK
    <2>2. LockOk'
        BY DEF S!TypeOK, LockOk
    <2>3. PathOk'
        BY DEF S!TypeOK, LockOk, PathOk, S!Target, S!Source
    <2>4. TmpOk'
        BY DEF S!TypeOK, LockOk, PathOk, TmpOk, PtrOk, ObjectsOk, S!Target, S!Source
    <2>5. CounterOk'
        <3>1. \A r : Owners(r)' = Owners(r) /\ Halves(r)' = Halves(r)
            BY SameOwners DEF S!TypeOK
        <3> QED BY <3>1 DEF S!TypeOK, PathOk, TmpOk, CounterOk
    <2>6. PtrOk'
        BY DEF S!TypeOK, LockOk, PathOk, TmpOk, PtrOk, S!Target, S!Source
    <2>7. ObjectsOk'
        BY DEF S!TypeOK, PathOk, TmpOk, ObjectsOk
    <2>8. KeysOk'
        BY DEF S!TypeOK, PathOk, TmpOk, ObjectsOk, KeysOk
    <2> QED BY <2>1, <2>2, <2>3, <2>4, <2>5, <2>6, <2>7, <2>8
<1>4. ASSUME NEW t \in Threads, S!Made(t)
      PROVE  SInv'
    <2> USE <1>4 DEF S!Made
    <2>1. S!TypeOK'
        BY Finite DEF S!TypeOK, PathOk, TmpOk, S!Target, S!Source
    <2>2. LockOk'
        BY DEF S!TypeOK, LockOk
    <2>3. PathOk'
        BY DEF S!TypeOK, LockOk, PathOk, S!Target, S!Source
    <2>4. TmpOk'
        BY DEF S!TypeOK, LockOk, PathOk, TmpOk, PtrOk, ObjectsOk, S!Target, S!Source
    <2>5. CounterOk'
        <3>1. tmp[t] \in Refs /\ ptr[t] = None /\ ref[tmp[t]] # None
              /\ ref[tmp[t]].counter = 1 /\ ref[tmp[t]].object # None
            BY DEF S!TypeOK, PathOk, TmpOk
        <3>2. ASSUME NEW r \in Refs, r # tmp[t]
              PROVE  Owners(r)' = Owners(r) /\ Halves(r)' = Halves(r)
            BY <3>1, <3>2 DEF Owners, Halves, S!Target, S!TypeOK
        <3>a. \A p \in S!Ptrs : ptr'[p] = tmp[t] <=> p = t
            BY <3>1 DEF S!TypeOK, TmpOk
        <3>3. {p \in S!Ptrs : ptr'[p] = tmp[t]} = {t}
            BY <3>a
        <3>b. \A u \in Threads : pc'[u] = "count" => S!Target(u)' # t /\ S!Target(u)' \in S!Ptrs
            BY DEF S!Target, S!TypeOK
        <3>4. {u \in Threads : pc'[u] = "count" /\ ptr'[S!Target(u)'] = tmp[t]} = {}
            BY <3>a, <3>b
        <3>5. Cardinality({t}) = 1 /\ Cardinality({}) = 0
            BY FS_EmptySet, FS_Singleton
        <3>6. ASSUME NEW r \in Refs, ref'[r] # None, ~(\E u \in Threads : tmp'[u] = r)
              PROVE  /\ ref'[r].counter >= 1 /\ ref'[r].object # None
                     /\ ref'[r].counter + Cardinality(Halves(r)') = Cardinality(Owners(r)')
            <4>1. CASE r = tmp[t]
                <5>1. Owners(r)' = {t}
                    BY <4>1, <3>3 DEF Owners
                <5>2. Halves(r)' = {}
                    BY <4>1, <3>4 DEF Halves
                <5> QED BY <4>1, <5>1, <5>2, <3>1, <3>5
            <4>2. CASE r # tmp[t]
                <5>1. ~(\E u \in Threads : tmp[u] = r)
                    BY <4>2, <3>6 DEF S!TypeOK
                <5> QED BY <5>1, <3>6, <4>2, <3>2 DEF CounterOk
            <4> QED BY <4>1, <4>2
        <3> QED BY <3>6 DEF CounterOk
    <2>6. PtrOk'
        BY DEF S!TypeOK, LockOk, PathOk, TmpOk, PtrOk, S!Target, S!Source
    <2>7. ObjectsOk'
        BY DEF S!TypeOK, PathOk, TmpOk, ObjectsOk
    <2>8. KeysOk'
        BY DEF S!TypeOK, PathOk, TmpOk, ObjectsOk, KeysOk
    <2> QED BY <2>1, <2>2, <2>3, <2>4, <2>5, <2>6, <2>7, <2>8
<1>5. ASSUME NEW t \in Threads, S!Reset(t)
      PROVE  SInv'
    <2> USE <1>5 DEF S!Reset
    <2>1. S!TypeOK'
        BY Finite DEF S!TypeOK, PathOk, TmpOk, S!Target, S!Source
    <2>2. LockOk'
        BY DEF S!TypeOK, LockOk
    <2>3. PathOk'
        BY DEF S!TypeOK, LockOk, PathOk, S!Target, S!Source
    <2>4. TmpOk'
        BY DEF S!TypeOK, LockOk, PathOk, TmpOk, PtrOk, ObjectsOk, S!Target, S!Source
    <2>5. CounterOk'
        <3>1. \A r : Owners(r)' = Owners(r) /\ Halves(r)' = Halves(r)
            BY SameOwners DEF S!TypeOK
        <3> QED BY <3>1 DEF S!TypeOK, PathOk, TmpOk, CounterOk
    <2>6. PtrOk'
        BY DEF S!TypeOK, LockOk, PathOk, TmpOk, PtrOk, S!Target, S!Source
    <2>7. ObjectsOk'
        BY DEF S!TypeOK, PathOk, TmpOk, ObjectsOk
    <2>8. KeysOk'
        BY DEF S!TypeOK, PathOk, TmpOk, ObjectsOk, KeysOk
    <2> QED BY <2>1, <2>2, <2>3, <2>4, <2>5, <2>6, <2>7, <2>8
<1>6. ASSUME NEW t \in Threads, S!Load(t)
      PROVE  SInv'
    <2> USE <1>6 DEF S!Load
    <2>1. S!TypeOK'
        BY Finite DEF S!TypeOK, PathOk, TmpOk, S!Target, S!Source
    <2>2. LockOk'
        BY DEF S!TypeOK, LockOk
    <2>3. PathOk'
        BY DEF S!TypeOK, LockOk, PathOk, S!Target, S!Source
    <2>4. TmpOk'
        BY DEF S!TypeOK, LockOk, PathOk, TmpOk, PtrOk, ObjectsOk, S!Target, S!Source
    <2>5. CounterOk'
        <3>1. \A r : Owners(r)' = Owners(r) /\ Halves(r)' = Halves(r)
            BY SameOwners DEF S!TypeOK
        <3> QED BY <3>1 DEF S!TypeOK, PathOk, TmpOk, CounterOk
    <2>6. PtrOk'
        BY DEF S!TypeOK, LockOk, PathOk, TmpOk, PtrOk, S!Target, S!Source
    <2>7. ObjectsOk'
        BY DEF S!TypeOK, PathOk, TmpOk, ObjectsOk
    <2>8. KeysOk'
        BY DEF S!TypeOK, PathOk, TmpOk, ObjectsOk, KeysOk
    <2> QED BY <2>1, <2>2, <2>3, <2>4, <2>5, <2>6, <2>7, <2>8
<1>7. ASSUME NEW t \in Threads, S!Store(t)
      PROVE  SInv'
    <2> USE <1>7 DEF S!Store
    <2>1. S!TypeOK'
        <3>1. /\ op' = [op EXCEPT ![t] = "store"] \/ op' = [op EXCEPT ![t] = "move"]
              /\ S!Goto(t, "dec") /\ UNCHANGED <<debug, ptr, ref, heap, keys, tmp, panics, faults>>
            OBVIOUS
        <3> QED BY <3>1 DEF S!TypeOK
    <2>2. LockOk'
        BY DEF S!TypeOK, LockOk
    <2>3. PathOk'
        BY DEF S!TypeOK, LockOk, PathOk, S!Target, S!Source
    <2>4. TmpOk'
        BY DEF S!TypeOK, LockOk, PathOk, TmpOk, PtrOk, ObjectsOk, S!Target, S!Source
    <2>5. CounterOk'
        <3>1. \A r : Owners(r)' = Owners(r) /\ Halves(r)' = Halves(r)
            <4>1. CASE op' = [op EXCEPT ![t] = "store"]
                BY <4>1, SameOwners DEF S!TypeOK, LockOk
            <4>2. CASE op' = [op EXCEPT ![t] = "move"]
                BY <4>2, SameOwners DEF S!TypeOK, LockOk
            <4> QED BY <4>1, <4>2
        <3> QED BY <3>1 DEF S!TypeOK, PathOk, TmpOk, CounterOk
    <2>6. PtrOk'
        BY DEF S!TypeOK, LockOk, PathOk, TmpOk, PtrOk, S!Target, S!Source
    <2>7. ObjectsOk'
        BY DEF S!TypeOK, PathOk, TmpOk, ObjectsOk
    <2>8. KeysOk'
        BY DEF S!TypeOK, PathOk, TmpOk, ObjectsOk, KeysOk
    <2> QED BY <2>1, <2>2, <2>3, <2>4, <2>5, <2>6, <2>7, <2>8
<1>8. ASSUME NEW t \in Threads, S!Dec(t)
      PROVE  SInv'
    <2> USE <1>8 DEF S!Dec
    <2>1. CASE ptr[S!Target(t)] = None
        <3> USE <2>1
        <3>1. S!TypeOK'
            BY DEF S!TypeOK, LockOk, S!Target
        <3>2. LockOk'
            BY DEF S!TypeOK, LockOk
        <3>3. PathOk'
            BY DEF S!TypeOK, LockOk, PathOk, S!Target, S!Source
        <3>4. TmpOk'
            BY DEF S!TypeOK, LockOk, PathOk, TmpOk, S!Target
        <3>5. CounterOk'
            <4>1. \A r : Owners(r)' = Owners(r) /\ Halves(r)' = Halves(r)
                BY SameOwners DEF S!TypeOK
            <4> QED BY <4>1 DEF S!TypeOK, CounterOk
        <3>6. PtrOk' /\ ObjectsOk' /\ KeysOk'
            BY DEF S!TypeOK, LockOk, PtrOk, ObjectsOk, KeysOk
        <3> QED BY <3>1, <3>2, <3>3, <3>4, <3>5, <3>6
    <2>2. CASE ptr[S!Target(t)] # None
        <3>o. PICK p \in S!Ptrs : p = S!Target(t)
            BY DEF S!Target
        <3>p. PICK r \in Refs : r = ptr[p]
            BY <3>o, <2>2 DEF S!TypeOK
        <3>0. pc[t] = "dec" /\ op[t] # "none" /\ (op[t] \in {"store", "move"} => writer = t)
            BY DEF LockOk
        <3>a. p \in S!Ptrs /\ (p = t \/ (p = "Shared" /\ writer = t))
            BY <3>0, <3>o DEF S!Target, S!Ptrs
        <3>b. /\ r # None /\ r \in Refs /\ ref[r] # None
              /\ ref[r].counter >= 1 /\ ref[r].object \in Addrs
              /\ ref[r].counter + Cardinality(Halves(r)) = Cardinality(Owners(r))
              /\ \A u \in Threads : tmp[u] # r
              /\ p \in Owners(r)
            BY <2>2, <3>o, <3>p, Owned
        <3>c. /\ ptr' = [ptr EXCEPT ![p] = None] /\ ref' = [ref EXCEPT ![r].counter = @ - 1]
              /\ pc[t] = "dec"
              /\ \/ /\ ref[r].counter = 1
                    /\ tmp' = [tmp EXCEPT ![t] = r] /\ S!Goto(t, "unregister")
                 \/ ref[r].counter # 1 /\ tmp' = tmp /\ S!Goto(t, S!AfterReset(t))
              /\ UNCHANGED <<debug, heap, keys, writer, readers, op, panics, faults>>
            BY <2>2, <3>o, <3>p
        <3>d. ref[r] \in [counter : 0 .. Cardinality(S!Ptrs), object : Addrs \cup {None}]
            BY <3>b, RefTypes
        <3>e. p = "Shared" => Halves(r) = {}
            BY <3>a DEF LockOk, Halves, S!TypeOK
        <3>f. p \notin Halves(r)
            BY <3>e, <3>a DEF Halves
        <3>g. \A u \in Threads : S!Target(u)' = S!Target(u) /\ S!Source(u)' = S!Source(u)
            BY DEF S!Target, S!Source
        <3>h. ASSUME NEW u \in Threads, pc[u] = "count"
              PROVE  S!Target(u) # p /\ S!Source(u) # p
            BY <3>a, <3>h DEF LockOk, S!Target, S!Source, S!TypeOK
        <3> HIDE <1>8 DEF S!Dec
        <3>i. Owners(r)' = Owners(r) \ {p} /\ Halves(r)' = Halves(r)
            <4>1. \A q \in S!Ptrs : ptr'[q] = r <=> ptr[q] = r /\ q # p
                BY <3>a, <3>b, <3>c DEF S!TypeOK
            <4>2. \A u \in Threads : pc'[u] = "count" <=> pc[u] = "count"
                BY <3>c DEF S!TypeOK
            <4>3. \A u \in Threads : pc[u] = "count" =>
                     (ptr'[S!Target(u)] = r <=> ptr[S!Target(u)] = r)
                BY <4>1, <3>h, <3>b DEF S!Target
            <4> QED BY <4>1, <4>2, <4>3, <3>g DEF Owners, Halves
        <3>j. ASSUME NEW s \in Refs, s # r
              PROVE  Owners(s)' = Owners(s) /\ Halves(s)' = Halves(s)
            <4>1. \A q \in S!Ptrs : ptr'[q] = s <=> ptr[q] = s
                BY <3>a, <3>b, <3>c, <3>j, <3>p DEF S!TypeOK
            <4>2. \A u \in Threads : pc'[u] = "count" <=> pc[u] = "count"
                BY <3>c DEF S!TypeOK
            <4>3. \A u \in Threads : S!Target(u) \in S!Ptrs
                BY DEF S!Target
            <4> QED BY <4>1, <4>2, <4>3, <3>g DEF Owners, Halves
        <3>k. Cardinality(Owners(r)') = Cardinality(Owners(r)) - 1
            BY <3>b, <3>i, Finite, FS_RemoveElement, ZenonT(30)
        <3>l. ref[r].counter = 1 => Owners(r)' = {}
            <4>1. ASSUME ref[r].counter = 1, Halves(r) # {} PROVE FALSE
                <5>1. /\ Halves(r) \cup {"Shared"} \subseteq Owners(r) \ {p}
                      /\ "Shared" \notin Halves(r)
                    BY <4>1, <3>b, <3>e, <3>f, HalvesOwned
                <5>2. Cardinality(Halves(r) \cup {"Shared"}) = Cardinality(Halves(r)) + 1
                    BY <5>1, Finite, FS_AddElement
                <5>3. IsFiniteSet(Owners(r) \ {p})
                    BY Finite, FS_RemoveElement
                <5>4. Cardinality(Halves(r)) + 1 <= Cardinality(Owners(r)')
                    BY <5>1, <5>2, <5>3, <3>i, FS_Subset
                <5> QED BY <4>1, <5>4, <3>k, <3>b, Finite
            <4>2. ASSUME ref[r].counter = 1, Halves(r) = {} PROVE Owners(r)' = {}
                <5>1. Cardinality(Owners(r)') = 0
                    BY <4>2, <3>b, <3>k, Finite, FS_EmptySet
                <5>2. IsFiniteSet(Owners(r)')
                    BY <3>i, Finite, FS_RemoveElement
                <5> QED BY <5>1, <5>2, FS_EmptySet
            <4> QED BY <4>1, <4>2
        <3>m. /\ ref'[r] = [ref[r] EXCEPT !.counter = ref[r].counter - 1]
              /\ ref'[r] \in [counter : 0 .. Cardinality(S!Ptrs), object : Addrs \cup {None}]
              /\ ref'[r] # None /\ ref'[r].counter = ref[r].counter - 1
              /\ ref'[r].object = ref[r].object
              /\ \A s \in Refs : s # r => ref'[s] = ref[s]
            <4>1. ref'[r] = [ref[r] EXCEPT !.counter = ref[r].counter - 1]
                BY <3>b, <3>c DEF S!TypeOK
            <4>2. \A s \in Refs : s # r => ref'[s] = ref[s]
                BY <3>b, <3>c DEF S!TypeOK
            <4>3. ref'[r] \in [counter : 0 .. Cardinality(S!Ptrs), object : Addrs \cup {None}]
                BY <4>1, <3>b, <3>d, Finite
            <4>4. ref'[r] \in [counter : Nat, object : Addrs \cup {None}]
                BY <4>3, Finite
            <4> QED BY <4>1, <4>2, <4>3, <4>4, <3>d
        <3>1. S!TypeOK'
            <4> DEFINE Rec == [counter : 0 .. S!Cardinality(S!Ptrs), object : Addrs \cup {None}]
            <4>1. ref'[r] \in Rec
                BY <3>m, Finite
            <4>2. ref \in [Refs -> {None} \cup Rec] /\ DOMAIN ref' = Refs
                  /\ ref' = [s \in Refs |-> ref'[s]]
                BY <3>c DEF S!TypeOK
            <4> HIDE DEF Rec
            <4>3. ref' \in [Refs -> {None} \cup Rec]
                BY <4>1, <4>2, <3>m
            <4>4. ptr' \in [S!Ptrs -> Refs \cup {None}] /\ tmp' \in [Threads -> Refs \cup {None}]
                BY <3>a, <3>b, <3>c DEF S!TypeOK
            <4>5. pc' \in [Threads -> {"idle", "object", "register", "made", "dec", "unregister",
                                   "object_dtor", "ref_dtor", "assign", "count", "dead"}]
                BY <3>c DEF S!TypeOK
            <4> QED BY <4>3, <4>4, <4>5, <3>c DEF S!TypeOK, Rec
        <3>2. LockOk'
            BY <3>c DEF S!TypeOK, LockOk
        <3>3. PathOk'
            BY <3>o, <3>a, <3>b, <3>c, <3>g, <3>h DEF S!TypeOK, LockOk, PathOk, S!Target,
               S!Source
        <3>4. TmpOk'
            <4>1. \A u \in Threads : tmp'[u] # None =>
                     \/ u = t /\ tmp'[u] = r /\ Owners(r)' = {}
                     \/ tmp'[u] # r /\ tmp'[u] = tmp[u] /\ pc'[u] = pc[u] /\ tmp[t] = None
                BY <3>b, <3>c, <3>l DEF S!TypeOK, PathOk
            <4>2. \A q \in S!Ptrs : ptr'[q] = ptr[q] \/ ptr'[q] = None
                BY <3>a, <3>c DEF S!TypeOK
            <4> QED BY <4>1, <4>2, <3>b, <3>c, <3>m DEF S!TypeOK, TmpOk, Owners
        <3>5. CounterOk'
            <4>1. ASSUME NEW s \in Refs, s # r, ref'[s] # None, ~\E u \in Threads : tmp'[u] = s
                  PROVE  /\ ref'[s].counter >= 1 /\ ref'[s].object # None
                         /\ ref'[s].counter + Cardinality(Halves(s)') = Cardinality(Owners(s)')
                <5>1. ~\E u \in Threads : tmp[u] = s
                    BY <4>1, <3>c DEF S!TypeOK, PathOk
                <5> QED BY <5>1, <4>1, <3>j, <3>m DEF CounterOk
            <4>2. CASE ref[r].counter = 1
                <5>1. tmp'[t] = r
                    BY <4>2, <3>c DEF S!TypeOK
                <5> QED BY <5>1, <4>1 DEF CounterOk
            <4>3. CASE ref[r].counter # 1
                <5>1. ref[r].counter \in Nat
                    BY <3>d, Finite
                <5>2. /\ ref'[r].counter >= 1 /\ ref'[r].object # None
                      /\ ref'[r].counter + Cardinality(Halves(r)') = Cardinality(Owners(r)')
                    BY <5>1, <4>3, <3>b, <3>i, <3>k, <3>m, Finite
                <5> QED BY <5>2, <4>1 DEF CounterOk
            <4> QED BY <4>2, <4>3
        <3>6. PtrOk'
            BY <3>a, <3>b, <3>c, <3>m DEF S!TypeOK, PtrOk
        <3>7. ObjectsOk'
            <4>1. \A s \in Refs : (ref'[s] # None <=> ref[s] # None) /\ ref'[s].object = ref[s].object
                BY <3>b, <3>m
            <4> QED BY <4>1, <3>c DEF ObjectsOk
        <3>8. KeysOk'
            <4>1. \A s \in Refs : (ref'[s] # None <=> ref[s] # None) /\ ref'[s].object = ref[s].object
                BY <3>b, <3>m
            <4>2. \A u \in Threads : pc'[u] \in {"register", "object_dtor"} =>
                     pc[u] = pc'[u] /\ tmp'[u] = tmp[u]
                BY <3>c DEF S!TypeOK
            <4> QED BY <4>1, <4>2, <3>c DEF S!TypeOK, KeysOk
        <3> QED BY <3>1, <3>2, <3>3, <3>4, <3>5, <3>6, <3>7, <3>8
    <2> QED BY <2>1, <2>2
<1>9. ASSUME NEW t \in Threads, S!Unregister(t)
      PROVE  SInv'
    <2> USE <1>9 DEF S!Unregister
    <2>1. S!TypeOK'
        <3>1. tmp[t] \in Refs /\ ref[tmp[t]] # None /\ ref[tmp[t]].object \in Addrs
            BY RefTypes DEF S!TypeOK, PathOk, TmpOk
        <3>2. keys' \in [Addrs -> Refs \cup {None}]
            BY <3>1 DEF S!TypeOK
        <3>3. faults' \in 0 .. MaxFaults
            BY DEF S!TypeOK
        <3>4. pc' \in [Threads -> {"idle", "object", "register", "made", "dec", "unregister",
                                  "object_dtor", "ref_dtor", "assign", "count", "dead"}]
            BY DEF S!TypeOK
        <3> QED BY <3>2, <3>3, <3>4 DEF S!TypeOK
    <2>2. LockOk'
        BY DEF S!TypeOK, LockOk
    <2>3. PathOk'
        BY DEF S!TypeOK, LockOk, PathOk, S!Target, S!Source
    <2>4. TmpOk'
        BY DEF S!TypeOK, LockOk, PathOk, TmpOk, PtrOk, ObjectsOk, S!Target, S!Source
    <2>5. CounterOk'
        <3>1. \A r : Owners(r)' = Owners(r) /\ Halves(r)' = Halves(r)
            BY SameOwners DEF S!TypeOK
        <3> QED BY <3>1 DEF S!TypeOK, PathOk, TmpOk, CounterOk
    <2>6. PtrOk'
        BY DEF S!TypeOK, LockOk, PathOk, TmpOk, PtrOk, S!Target, S!Source
    <2>7. ObjectsOk'
        BY DEF S!TypeOK, PathOk, TmpOk, ObjectsOk
    <2>8. KeysOk'
        BY DEF S!TypeOK, PathOk, TmpOk, ObjectsOk, KeysOk
    <2> QED BY <2>1, <2>2, <2>3, <2>4, <2>5, <2>6, <2>7, <2>8
<1>10. ASSUME NEW t \in Threads, S!DeleteObject(t)
      PROVE  SInv'
    <2> USE <1>10 DEF S!DeleteObject
    <2>1. S!TypeOK'
        BY Finite DEF S!TypeOK, PathOk, TmpOk, S!Target, S!Source
    <2>2. LockOk'
        BY DEF S!TypeOK, LockOk
    <2>3. PathOk'
        BY DEF S!TypeOK, LockOk, PathOk, S!Target, S!Source
    <2>4. TmpOk'
        BY DEF S!TypeOK, LockOk, PathOk, TmpOk, PtrOk, ObjectsOk, S!Target, S!Source
    <2>5. CounterOk'
        <3>1. \A r : Owners(r)' = Owners(r) /\ Halves(r)' = Halves(r)
            BY SameOwners DEF S!TypeOK
        <3> QED BY <3>1 DEF S!TypeOK, PathOk, TmpOk, CounterOk
    <2>6. PtrOk'
        BY DEF S!TypeOK, LockOk, PathOk, TmpOk, PtrOk, S!Target, S!Source
    <2>7. ObjectsOk'
        BY DEF S!TypeOK, PathOk, TmpOk, ObjectsOk
    <2>8. KeysOk'
        BY DEF S!TypeOK, PathOk, TmpOk, ObjectsOk, KeysOk
    <2> QED BY <2>1, <2>2, <2>3, <2>4, <2>5, <2>6, <2>7, <2>8
<1>11. ASSUME NEW t \in Threads, S!DeleteRef(t)
      PROVE  SInv'
    <2> USE <1>11 DEF S!DeleteRef
    <2>1. S!TypeOK'
        BY Finite DEF S!TypeOK, PathOk, TmpOk, S!Target, S!Source
    <2>2. LockOk'
        BY DEF S!TypeOK, LockOk
    <2>3. PathOk'
        BY DEF S!TypeOK, LockOk, PathOk, S!Target, S!Source
    <2>4. TmpOk'
        BY DEF S!TypeOK, LockOk, PathOk, TmpOk, PtrOk, ObjectsOk, S!Target, S!Source
    <2>5. CounterOk'
        <3>1. \A r : Owners(r)' = Owners(r) /\ Halves(r)' = Halves(r)
            BY SameOwners DEF S!TypeOK
        <3> QED BY <3>1 DEF S!TypeOK, PathOk, TmpOk, CounterOk
    <2>6. PtrOk'
        BY DEF S!TypeOK, LockOk, PathOk, TmpOk, PtrOk, S!Target, S!Source
    <2>7. ObjectsOk'
        BY DEF S!TypeOK, PathOk, TmpOk, ObjectsOk
    <2>8. KeysOk'
        BY DEF S!TypeOK, PathOk, TmpOk, ObjectsOk, KeysOk
    <2> QED BY <2>1, <2>2, <2>3, <2>4, <2>5, <2>6, <2>7, <2>8
<1>12. ASSUME NEW t \in Threads, S!Assign(t)
      PROVE  SInv'
    <2> USE <1>12 DEF S!Assign
    <2>1. S!TypeOK'
        BY Finite DEF S!TypeOK, PathOk, TmpOk, S!Target, S!Source
    <2>2. LockOk'
        BY DEF S!TypeOK, LockOk
    <2>3. PathOk'
        BY DEF S!TypeOK, LockOk, PathOk, S!Target, S!Source
    <2>4. TmpOk'
        BY DEF S!TypeOK, LockOk, PathOk, TmpOk, PtrOk, ObjectsOk, S!Target, S!Source
    <2>5. CounterOk'
        <3>o. PICK p \in S!Ptrs : p = S!Target(t)
            BY DEF S!Target
        <3>p. PICK x \in Refs \cup {None} : x = ptr[S!Source(t)]
            BY DEF S!TypeOK, S!Source
        <3>0. /\ pc[t] = "assign" /\ ptr' = [ptr EXCEPT ![p] = x] /\ S!Goto(t, "count")
              /\ UNCHANGED <<ref, op, tmp>>
            BY <3>o, <3>p
        <3>a. /\ p \in S!Ptrs /\ ptr[p] = None /\ x \in Refs \cup {None}
              /\ (p = t \/ (p = "Shared" /\ writer = t))
            BY <3>0, <3>o, <3>p DEF LockOk, PathOk, S!TypeOK, S!Target, S!Source
        <3>b. \A u \in Threads : S!Target(u)' = S!Target(u)
            BY <3>0 DEF S!Target
        <3>c. ASSUME NEW u \in Threads, pc[u] = "count"
              PROVE  S!Target(u) # p
            BY <3>a, <3>c, <3>0 DEF LockOk, S!Target, S!TypeOK
        <3> HIDE <1>12 DEF S!Assign
        <3>d. \A u \in Threads : pc'[u] = "count" <=> pc[u] = "count" \/ u = t
            BY <3>0 DEF S!TypeOK
        <3>e. \A u \in Threads : S!Target(u) \in S!Ptrs
            BY DEF S!Target
        <3>1. ASSUME NEW s \in Refs, s # x
              PROVE  Owners(s)' = Owners(s) /\ Halves(s)' = Halves(s)
            <4>1. \A q \in S!Ptrs : ptr'[q] = s <=> ptr[q] = s
                BY <3>0, <3>a, <3>1 DEF S!TypeOK
            <4>2. ptr[S!Target(t)] # s
                BY <3>a, <3>o
            <4> QED BY <4>1, <4>2, <3>b, <3>d, <3>e DEF Owners, Halves
        <3>2. ASSUME x # None
              PROVE  /\ Owners(x)' = Owners(x) \cup {p} /\ p \notin Owners(x)
                     /\ Halves(x)' = Halves(x) \cup {t} /\ t \notin Halves(x)
            <4>1. \A q \in S!Ptrs : ptr'[q] = x <=> ptr[q] = x \/ q = p
                BY <3>0, <3>a DEF S!TypeOK
            <4>2. t \notin Halves(x)
                BY <3>0 DEF Halves
            <4>3. Halves(x)' = Halves(x) \cup {t}
                BY <4>1, <3>a, <3>o, <3>b, <3>c, <3>d, <3>e DEF Halves
            <4> QED BY <4>1, <4>2, <4>3, <3>2, <3>a DEF Owners
        <3>3. ASSUME x # None
              PROVE  /\ Cardinality(Owners(x)') = Cardinality(Owners(x)) + 1
                     /\ Cardinality(Halves(x)') = Cardinality(Halves(x)) + 1
            BY <3>2, <3>3, Finite, FS_AddElement
        <3>4. ASSUME NEW s \in Refs, ref[s] # None, ~\E u \in Threads : tmp[u] = s
              PROVE  /\ ref[s].counter >= 1 /\ ref[s].object # None
                     /\ ref[s].counter + Cardinality(Halves(s)') = Cardinality(Owners(s)')
            <4>1. /\ ref[s].counter >= 1 /\ ref[s].object # None /\ ref[s].counter \in Nat
                  /\ ref[s].counter + Cardinality(Halves(s)) = Cardinality(Owners(s))
                BY <3>4, RefTypes DEF CounterOk
            <4>2. CASE s # x
                BY <4>1, <4>2, <3>1
            <4>3. CASE s = x
                BY <4>1, <4>3, <3>3, Finite, CoreMemoryAssumption
            <4> QED BY <4>2, <4>3
        <3> QED BY <3>4, <3>0 DEF CounterOk
    <2>6. PtrOk'
        BY DEF S!TypeOK, LockOk, PathOk, TmpOk, PtrOk, S!Target, S!Source
    <2>7. ObjectsOk'
        BY DEF S!TypeOK, PathOk, TmpOk, ObjectsOk
    <2>8. KeysOk'
        BY DEF S!TypeOK, PathOk, TmpOk, ObjectsOk, KeysOk
    <2> QED BY <2>1, <2>2, <2>3, <2>4, <2>5, <2>6, <2>7, <2>8
<1>13. ASSUME NEW t \in Threads, S!Count(t)
      PROVE  SInv'
    <2>o. PICK p \in S!Ptrs : p = S!Target(t)
        BY DEF S!Target
    <2>p. PICK r \in Refs \cup {None} : r = ptr[p]
        BY DEF S!TypeOK
    <2>a. /\ pc[t] = "count" /\ S!Goto(t, "idle") /\ S!Unlock(t)
          /\ UNCHANGED <<debug, heap, keys, op, tmp, panics, faults>>
          /\ \/ op[t] = "move" /\ ptr' = [ptr EXCEPT ![t] = None] /\ ref' = ref
             \/ op[t] # "move" /\ r = None /\ ref' = ref /\ ptr' = ptr
             \/ /\ op[t] # "move" /\ r # None /\ ptr' = ptr
                /\ ref' = [ref EXCEPT ![r].counter = @ + 1]
        BY <1>13, <2>o, <2>p DEF S!Count
    <2>b. /\ p \in S!Ptrs /\ ptr[S!Source(t)] = r /\ tmp[t] = None /\ r \in Refs \cup {None}
          /\ op[t] = "move" => ptr[t] = r /\ ptr["Shared"] = r
        BY <2>a, <2>o, <2>p DEF LockOk, PathOk, S!TypeOK, S!Target, S!Source
    <2>c. ASSUME r # None
          PROVE  /\ r \in Refs /\ ref[r] # None
                 /\ ref[r].counter >= 1 /\ ref[r].object \in Addrs
                 /\ ref[r].counter + Cardinality(Halves(r)) = Cardinality(Owners(r))
                 /\ \A u \in Threads : tmp[u] # r
                 /\ t \in Halves(r)
        BY <2>a, <2>o, <2>p, <2>c, Owned DEF Halves
    <2>d. \A u \in Threads : S!Target(u)' = S!Target(u) /\ S!Source(u)' = S!Source(u)
        BY <2>a DEF S!Target, S!Source
    <2>e. \A u \in Threads : pc'[u] = "count" <=> pc[u] = "count" /\ u # t
        BY <2>a DEF S!TypeOK
    <2>f. \A u \in Threads : S!Target(u) \in S!Ptrs
        BY DEF S!Target
    <2>g. ASSUME NEW u \in Threads, pc[u] = "count", u # t, op[t] = "move"
          PROVE  S!Target(u) # t /\ S!Source(u) # t
        BY <2>g, <2>a DEF S!Target, S!Source
    <2>h. ASSUME NEW s \in Refs, s # r
          PROVE  Owners(s)' = Owners(s) /\ Halves(s)' = Halves(s)
        <3>1. \A q \in S!Ptrs : ptr'[q] = s <=> ptr[q] = s
            BY <2>a, <2>b, <2>h DEF S!TypeOK
        <3>2. ptr[S!Target(t)] # s
            BY <2>h, <2>o, <2>p
        <3> QED BY <3>1, <3>2, <2>d, <2>e, <2>f DEF Owners, Halves
    <2>i. ASSUME r # None
          PROVE  /\ Halves(r)' = Halves(r) \ {t}
                 /\ Owners(r)' = IF op[t] = "move" THEN Owners(r) \ {t} ELSE Owners(r)
                 /\ op[t] = "move" => t \in Owners(r)
        <3>1. \A q \in S!Ptrs : ptr'[q] = r <=> ptr[q] = r /\ ~(op[t] = "move" /\ q = t)
            BY <2>a, <2>b, <2>i DEF S!TypeOK
        <3>2. \A u \in Threads : pc[u] = "count" /\ u # t =>
                 (ptr'[S!Target(u)] = r <=> ptr[S!Target(u)] = r)
            BY <3>1, <2>f, <2>g
        <3>3. Halves(r)' = Halves(r) \ {t}
            BY <3>2, <2>d, <2>e DEF Halves
        <3>4. op[t] = "move" => t \in Owners(r)
            BY <2>b DEF Owners
        <3>5. Owners(r)' = IF op[t] = "move" THEN Owners(r) \ {t} ELSE Owners(r)
            BY <3>1 DEF Owners
        <3> QED BY <3>3, <3>4, <3>5
    <2>j. ASSUME r # None
          PROVE  /\ Cardinality(Halves(r)') = Cardinality(Halves(r)) - 1
                 /\ Cardinality(Owners(r)') = IF op[t] = "move" THEN Cardinality(Owners(r)) - 1
                                              ELSE Cardinality(Owners(r))
                 /\ Cardinality(Halves(r)) >= 1
        <3>1. Cardinality(Halves(r)) >= 1
            BY <2>c, <2>j, HalvesOwned
        <3>2. Cardinality(Halves(r)') = Cardinality(Halves(r)) - 1
            BY <2>c, <2>i, <2>j, Finite, FS_RemoveElement
        <3>3. Cardinality(Owners(r) \ {t}) = IF t \in Owners(r) THEN Cardinality(Owners(r)) - 1
                                             ELSE Cardinality(Owners(r))
            BY Finite, FS_RemoveElement
        <3> QED BY <3>1, <3>2, <3>3, <2>i, <2>j
    <2>k. ASSUME r # None, op[t] # "move"
          PROVE  /\ ref'[r] = [ref[r] EXCEPT !.counter = ref[r].counter + 1]
                 /\ ref'[r] \in [counter : 0 .. Cardinality(S!Ptrs), object : Addrs \cup {None}]
                 /\ ref'[r] # None /\ ref'[r].counter = ref[r].counter + 1
                 /\ ref'[r].object = ref[r].object
                 /\ \A s \in Refs : s # r => ref'[s] = ref[s]
        <3>1. ref'[r] = [ref[r] EXCEPT !.counter = ref[r].counter + 1]
            BY <2>k, <2>a, <2>c DEF S!TypeOK
        <3>2. \A s \in Refs : s # r => ref'[s] = ref[s]
            BY <2>k, <2>a, <2>c DEF S!TypeOK
        <3>3. ref[r] \in [counter : 0 .. Cardinality(S!Ptrs), object : Addrs \cup {None}]
            BY <2>k, <2>c, RefTypes
        <3>4. ref[r].counter \in Nat /\ ref[r].counter + 1 <= Cardinality(S!Ptrs)
            <4>1. ref[r].counter \in Nat
                BY <2>k, <2>c, RefTypes
            <4>2. /\ Cardinality(Halves(r)) \in Nat /\ Cardinality(S!Ptrs) \in Nat
                  /\ Cardinality(Owners(r)) \in Nat
                  /\ Cardinality(Owners(r)) <= Cardinality(S!Ptrs)
                BY Finite
            <4>3. /\ Cardinality(Halves(r)) >= 1
                  /\ ref[r].counter + Cardinality(Halves(r)) = Cardinality(Owners(r))
                BY <2>k, <2>c, <2>j
            <4> QED BY <4>1, <4>2, <4>3
        <3>5. ref'[r] \in [counter : 0 .. Cardinality(S!Ptrs), object : Addrs \cup {None}]
            BY <3>1, <3>3, <3>4, Finite
        <3>6. ref'[r] \in [counter : Nat, object : Addrs \cup {None}]
            BY <3>5, Finite
        <3> QED BY <3>1, <3>2, <3>3, <3>5, <3>6
    <2>l. \A s \in Refs : /\ ref'[s] # None <=> ref[s] # None
                          /\ ref'[s].object = ref[s].object
        <3>1. CASE r # None /\ op[t] # "move"
            BY <3>1, <2>c, <2>k
        <3>2. CASE ~(r # None /\ op[t] # "move")
            BY <3>2, <2>a
        <3> QED BY <3>1, <3>2
    <2>1. S!TypeOK'
        <3> DEFINE Rec == [counter : 0 .. S!Cardinality(S!Ptrs), object : Addrs \cup {None}]
        <3>1. r # None /\ op[t] # "move" => ref'[r] \in Rec
            BY <2>k, Finite
        <3>2. /\ ref \in [Refs -> {None} \cup Rec] /\ ref' = [s \in Refs |-> ref'[s]]
            BY <2>a DEF S!TypeOK
        <3> HIDE DEF Rec
        <3>3. \A s \in Refs : ref'[s] \in {None} \cup Rec
            BY <3>1, <3>2, <2>a, <2>k
        <3>4. ref' \in [Refs -> {None} \cup Rec]
            BY <3>2, <3>3
        <3>5. ptr' \in [S!Ptrs -> Refs \cup {None}]
            BY <2>a DEF S!TypeOK
        <3>6. pc' \in [Threads -> {"idle", "object", "register", "made", "dec", "unregister",
                               "object_dtor", "ref_dtor", "assign", "count", "dead"}]
            BY <2>a DEF S!TypeOK
        <3> QED BY <3>4, <3>5, <3>6, <2>a DEF S!TypeOK, Rec
    <2>2. LockOk'
        BY <2>a DEF S!TypeOK, LockOk
    <2>3. PathOk'
        BY <2>a, <2>b, <2>d, <2>g DEF S!TypeOK, LockOk, PathOk, S!Target, S!Source
    <2>4. TmpOk'
        <3>1. \A u \in Threads : tmp[u] # None => u # t /\ tmp[u] \in Refs /\ ref'[tmp[u]] = ref[tmp[u]]
            <4>1. CASE r # None /\ op[t] # "move"
                BY <4>1, <2>b, <2>c, <2>k DEF S!TypeOK
            <4>2. CASE ~(r # None /\ op[t] # "move")
                BY <4>2, <2>a, <2>b DEF S!TypeOK
            <4> QED BY <4>1, <4>2
        <3>2. \A q \in S!Ptrs : ptr'[q] = ptr[q] \/ ptr'[q] = None
            BY <2>a DEF S!TypeOK
        <3>3. \A u \in Threads : u # t => pc'[u] = pc[u]
            BY <2>a DEF S!TypeOK
        <3> QED BY <3>1, <3>2, <3>3, <2>a DEF TmpOk
    <2>5. CounterOk'
        <3>1. ASSUME NEW s \in Refs, ref'[s] # None, ~\E u \in Threads : tmp'[u] = s
              PROVE  /\ ref'[s].counter >= 1 /\ ref'[s].object # None
                     /\ ref'[s].counter + Cardinality(Halves(s)') = Cardinality(Owners(s)')
            <4>1. /\ ref[s] # None
                  /\ ref[s].counter >= 1 /\ ref[s].object # None /\ ref[s].counter \in Nat
                  /\ ref[s].counter + Cardinality(Halves(s)) = Cardinality(Owners(s))
                BY <3>1, <2>a, <2>l, RefTypes DEF CounterOk
            <4>2. CASE s # r
                <5>1. ref'[s] = ref[s]
                    BY <4>2, <2>a, <2>k
                <5> QED BY <4>1, <4>2, <5>1, <2>h
            <4>3. CASE s = r /\ op[t] = "move"
                <5>1. ref' = ref
                    BY <4>3, <2>a
                <5> QED BY <5>1, <4>1, <4>3, <2>j, Finite, CoreMemoryAssumption
            <4>4. CASE s = r /\ op[t] # "move"
                BY <4>1, <4>4, <2>j, <2>k, Finite, CoreMemoryAssumption
            <4> QED BY <4>2, <4>3, <4>4
        <3> QED BY <3>1 DEF CounterOk
    <2>6. PtrOk'
        BY <2>a, <2>l DEF S!TypeOK, PtrOk
    <2>7. ObjectsOk'
        BY <2>a, <2>l DEF ObjectsOk
    <2>8. KeysOk'
        BY <2>a, <2>l, <2>b DEF S!TypeOK, KeysOk
    <2> QED BY <2>1, <2>2, <2>3, <2>4, <2>5, <2>6, <2>7, <2>8
<1> QED BY <1>1, <1>2, <1>3, <1>4, <1>5, <1>6, <1>7, <1>8, <1>9, <1>10, <1>11, <1>12,
           <1>13 DEF S!Next

\* The invariant holds as long as shared pointers are what runs.
LEMMA PointerInductive == Spec => []PointerInv
<1>1. Init => PointerInv
    <2> SUFFICES ASSUME S!Init PROVE SInv
        BY DEF Init, PointerInv
    <2> USE CoreMemoryAssumption DEF S!Init
    <2>1. S!TypeOK
        BY DEF S!TypeOK
    <2>2. LockOk /\ PathOk /\ TmpOk /\ CounterOk /\ PtrOk
        BY DEF LockOk, PathOk, TmpOk, CounterOk, PtrOk, Making, Breaking, Assigning,
           S!Ptrs, S!Target
    <2>3. ObjectsOk /\ KeysOk
        BY DEF ObjectsOk, KeysOk
    <2> QED BY <2>1, <2>2, <2>3 DEF SInv
<1>2. PointerInv /\ [Next]_vars => PointerInv'
    <2> SUFFICES ASSUME SInv, part = "pointer", part' = "pointer", [Next]_vars PROVE SInv'
        BY DEF PointerInv, Next, vars, Pointer, Checked, Allocator
    <2>1. CASE S!Next
        BY <2>1, SStep
    <2>2. CASE UNCHANGED vars
        <3> USE <2>2 DEF vars, pointerOnly, checkerOnly, allocatorOnly
        <3>1. S!TypeOK'
            BY DEF SInv, S!TypeOK
        <3>2. LockOk' /\ PathOk' /\ TmpOk' /\ PtrOk'
            BY DEF SInv, LockOk, PathOk, TmpOk, PtrOk, S!Target, S!Source
        <3>3. CounterOk'
            BY DEF SInv, CounterOk, Halves, Owners, S!Target
        <3>4. ObjectsOk' /\ KeysOk'
            BY DEF SInv, ObjectsOk, KeysOk
        <3> QED BY <3>1, <3>2, <3>3, <3>4 DEF SInv
    <2> QED BY <2>1, <2>2 DEF Next, Pointer, Checked, Allocator
<1> QED BY <1>1, <1>2, PTL DEF Spec

\* ObjectReference::Counter is the number of the pointers that own the
\* object, up to the threads between storing a pointer and counting it.
THEOREM CountedOwners == Spec => []CountsOwners
<1>1. PointerInv => CountsOwners
    <2> SUFFICES ASSUME SInv, NEW p \in S!Ptrs, ptr[p] # None
                 PROVE  /\ ref[ptr[p]] # None /\ ref[ptr[p]].object \in heap
                        /\ ref[ptr[p]].counter
                             + S!Cardinality({t \in S!Half : ptr[S!Target(t)] = ptr[p]})
                           = S!Cardinality({q \in S!Ptrs : ptr[q] = ptr[p]})
        BY DEF PointerInv, CountsOwners, S!CountsOwners
    <2>1. /\ ptr[p] \in Refs /\ ref[ptr[p]] # None /\ ref[ptr[p]].object \in Addrs
          /\ ref[ptr[p]].counter + Cardinality(Halves(ptr[p])) = Cardinality(Owners(ptr[p]))
        BY Owned DEF SInv
    <2>2. ref[ptr[p]].object \in heap
        BY <2>1, CoreMemoryAssumption DEF SInv, ObjectsOk
    <2>3. Halves(ptr[p]) = {t \in S!Half : ptr[S!Target(t)] = ptr[p]}
        BY DEF Halves, S!Half
    <2>4. Owners(ptr[p]) = {q \in S!Ptrs : ptr[q] = ptr[p]}
        BY DEF Owners
    <2>5. \A z : S!Cardinality(z) = Cardinality(z)
        BY DEF S!Cardinality, Cardinality
    <2> QED BY <2>1, <2>2, <2>3, <2>4, <2>5
<1> QED BY <1>1, PointerInductive, PTL

\* Every reference and every object has an owner, or one thread that makes or
\* destroys it; and in debug builds no key of an earlier object is met.
THEOREM NothingIsLost == Spec => []NothingLost
<1>1. PointerInv => NothingLost
    <2> SUFFICES ASSUME SInv PROVE S!NothingLost
        BY DEF PointerInv, NothingLost
    <2>1. ASSUME NEW r \in Refs, ref[r] # None
          PROVE  \/ \E p \in S!Ptrs : ptr[p] = r
                 \/ \E t \in Threads : tmp[t] = r /\ \A u \in Threads \ {t} : tmp[u] # r
        <3>1. CASE \E t \in Threads : tmp[t] = r
            BY <3>1, CoreMemoryAssumption DEF SInv, TmpOk
        <3>2. CASE ~\E t \in Threads : tmp[t] = r
            <4>1. /\ ref[r].counter >= 1 /\ ref[r].counter \in Nat
                  /\ ref[r].counter + Cardinality(Halves(r)) = Cardinality(Owners(r))
                BY <2>1, <3>2, RefTypes DEF SInv, CounterOk
            <4>2. Cardinality(Owners(r)) # 0
                BY <4>1, Finite
            <4>3. Owners(r) # {}
                BY <4>2, FS_EmptySet
            <4> QED BY <4>3 DEF Owners
        <3> QED BY <3>1, <3>2
    <2>2. \A a \in heap : \E r \in Refs : ref[r] # None /\ ref[r].object = a
        BY DEF SInv, ObjectsOk
    <2>3. "Register" \notin panics
        BY DEF SInv, KeysOk
    <2> QED BY <2>1, <2>2, <2>3 DEF S!NothingLost
<1> QED BY <1>1, PointerInductive, PTL

\* One of the three parts runs.
PartOk == part \in {"pointer", "checker", "allocator"}

\* The variables of shared pointers, checkers and allocator keep their
\* types, whichever of them runs.
THEOREM CoreMemoryTypes == Spec => []TypeOK
<1>1. Init => PartOk
    BY DEF Init, PartOk
<1>2. PartOk /\ [Next]_vars => PartOk'
    BY DEF PartOk, Next, vars, Pointer, Checked, Allocator
<1>3. PartOk /\ AllocInv /\ CheckerInv /\ PointerInv => TypeOK
    BY DEF PartOk, TypeOK, AllocInv, AInv, CheckerInv, CInv, PointerInv, SInv
<1>4. Spec => []PartOk
    BY <1>1, <1>2, PTL DEF Spec
<1> QED BY <1>3, <1>4, AInductive, CInductive, PointerInductive, PTL
=============================================================================
