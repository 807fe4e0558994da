---------------------------- MODULE StorageProofs ----------------------------
(***************************************************************************)
(* Proofs about the volume and its chunks for any number of threads, chunks *)
(* and values: what VolumeLock protects, what a client reads, and that the *)
(* chunk operations implement ChunkMap.                                    *)
(***************************************************************************)
EXTENDS Storage, FiniteSetTheorems, TLAPS

USE StorageAssumption

-----------------------------------------------------------------------------
(* The inductive invariant.                                                *)

\* The values of the variables, and the stages of a chunk operation.
VolRec == [state : {"New", "Running"}, journal : {"New", "Running"}]
ReqRec == [op : {"create", "write", "read", "delete"}, key : Keys, val : Vals]
ReplyRec == [key : Keys, data : Halves \X Halves]
Errors == {"ok", "exists", "notfound", "refused"}
Copying == {"write1", "write2", "read1", "read2"}
Places == {"idle", "enter", "create", "insert", "write", "write1", "write2",
           "read", "read1", "read2", "delete", "leave"}

\* The types that TypeOK leaves out.
MoreTypes ==
    /\ req \in [Threads -> {NoReq} \cup ReqRec]
    /\ reply \in [Threads -> {None} \cup ReplyRec]
    /\ mine \in [Keys -> Vals \cup {None}]

\* A thread works on the request it has taken, and holds a chunk only while it
\* copies.
ReqOf(t) ==
    /\ pc[t] # "idle" => req[t] \in ReqRec /\ req[t].key \in KeysOf[t]
    /\ pc[t] \in {"create", "insert"} => req[t].op = "create"
    /\ pc[t] \in {"write", "write1", "write2"} => req[t].op = "write"
    /\ pc[t] \in {"read", "read1", "read2"} => req[t].op = "read"
    /\ pc[t] = "delete" => req[t].op = "delete"
    /\ pc[t] = "leave" => res[t] \in Errors
    /\ hold[t] # None <=> pc[t] \in Copying

ReqOk == \A t \in Threads : ReqOf(t)

\* The volume of an operation, and the volume of the journal thread.
VolOk ==
    /\ \A t \in Threads :
         pc[t] \notin {"idle", "enter", "leave"} => vol # None /\ vol.state = "Running"
    /\ jthread => vol # None /\ vol.journal = "Running"

\* One key for a chunk.
TableOk ==
    /\ \A k, j \in Keys : table[k] = table[j] /\ table[k] # None => k = j
    /\ \A t \in Threads, k \in Keys :
         hold[t] # None /\ hold[t] = table[k] => req[t].key = k

\* Thread t has a request for chunk k.
Busy(t, k) == pc[t] # "idle" /\ req[t].key = k

\* The last acknowledged write to a private chunk is being replaced.
Changing(t, k) ==
    /\ Busy(t, k)
    /\ pc[t] = "write2" \/ (pc[t] = "leave" /\ req[t].op # "read")

\* A chunk that only the client of t uses, through each stage of a request.
Own(t, k) ==
    /\ ~Changing(t, k) /\ table[k] # None /\ mine[k] # None =>
         data[table[k]] = <<mine[k], mine[k]>>
    /\ Busy(t, k) =>
         /\ pc[t] \in Copying => hold[t] = table[k]
         /\ pc[t] = "write2" => data[hold[t]][1] = req[t].val
         /\ pc[t] = "read2" /\ mine[k] # None => buf[t][1] = mine[k]
         /\ pc[t] = "leave" /\ req[t].op = "write" /\ res[t] = "ok" =>
              table[k] # None /\ data[table[k]] = <<req[t].val, req[t].val>>
         /\ pc[t] = "leave" /\ req[t].op = "read" /\ res[t] = "ok" /\ mine[k] # None =>
              buf[t] = <<mine[k], mine[k]>>

OwnOk == \A t \in Threads : \A k \in KeysOf[t] \cap Private : Own(t, k)

\* The last reply to the client of t, as long as the client has it.
ReplyOf(t) ==
    reply[t] # None =>
        /\ pc[t] = "idle" /\ reply[t].key \in KeysOf[t] \cap Private
        /\ mine[reply[t].key] # None =>
             reply[t].data = <<mine[reply[t].key], mine[reply[t].key]>>

ReplyOk == \A t \in Threads : ReplyOf(t)

\* The inductive invariant.
SInv == TypeOK /\ MoreTypes /\ ReqOk /\ VolOk /\ TableOk /\ OwnOk /\ ReplyOk

-----------------------------------------------------------------------------
(* Facts about the operators.                                              *)

\* The size of the image of a function.
LEMMA Image ==
    ASSUME NEW S, NEW f, IsFiniteSet(S)
    PROVE  /\ IsFiniteSet({f[x] : x \in S})
           /\ Cardinality({f[x] : x \in S}) <= Cardinality(S)
           /\ Cardinality({f[x] : x \in S}) \in Nat /\ Cardinality(S) \in Nat
<1> DEFINE T == {f[x] : x \in S}
           g == [x \in S |-> f[x]]
<1>1. g \in Surjection(S, T)
    BY DEF Surjection
<1>2. IsFiniteSet(T) /\ Cardinality(T) <= Cardinality(S)
    BY <1>1, FS_Surjection
<1> QED BY <1>2, FS_CardinalityType

\* There is always an object for a new chunk: fewer are in the table or held
\* than there are keys and threads.
LEMMA FreeObj ==
    ASSUME TypeOK, NEW k \in Keys, table[k] = None
    PROVE  Free # {}
<1> DEFINE K == Keys \ {k}
           A == {table[j] : j \in K}
           B == {hold[t] : t \in Threads}
<1>1. IsFiniteSet(K) /\ Cardinality(K) = Cardinality(Keys) - 1
    BY FS_RemoveElement
<1>0. Cardinality(Keys) \in Nat /\ Cardinality(Threads) \in Nat
    BY FS_CardinalityType
<1>2. /\ IsFiniteSet(A) /\ Cardinality(A) <= Cardinality(K) /\ Cardinality(A) \in Nat
    BY <1>1, Image
<1>3. /\ IsFiniteSet(B) /\ Cardinality(B) <= Cardinality(Threads) /\ Cardinality(B) \in Nat
    BY Image
<1>4. Cardinality(Objs) = Cardinality(Keys) + Cardinality(Threads)
    <2>1. Cardinality(Keys) + Cardinality(Threads) \in Nat
        BY <1>0
    <2> DEFINE n == Cardinality(Keys) + Cardinality(Threads)
    <2> HIDE DEF n
    <2>2. Cardinality(1 .. n) = IF 1 > n THEN 0 ELSE n - 1 + 1
        BY <2>1, FS_Interval DEF n
    <2> QED BY <2>1, <2>2 DEF Objs, n
<1> HIDE DEF A, B, K
<1>5. /\ IsFiniteSet(A \cup B) /\ Cardinality(A \cap B) \in Nat
      /\ Cardinality(A \cup B) = Cardinality(A) + Cardinality(B) - Cardinality(A \cap B)
    <2>1. IsFiniteSet(A \cap B)
        BY <1>2, FS_Subset
    <2> QED BY <2>1, <1>2, <1>3, FS_Union, FS_CardinalityType
<1>6. ~(Objs \subseteq A \cup B)
    <2>1. Objs \subseteq A \cup B => Cardinality(Objs) <= Cardinality(A \cup B)
        BY <1>5, FS_Subset
    <2> QED BY <2>1, <1>0, <1>1, <1>2, <1>3, <1>4, <1>5
<1>7. PICK o \in Objs : o \notin A \cup B
    BY <1>6
<1>8. o # None
    BY <1>0, <1>7 DEF Objs
<1>9. \A j \in Keys : table[j] # o
    BY <1>7, <1>8 DEF A, K
<1> QED BY <1>7, <1>9 DEF Free, B

\* Half of a chunk is replaced.
LEMMA WriteIt ==
    ASSUME TypeOK, NEW o \in Objs, NEW v \in Halves
    PROVE  /\ [data EXCEPT ![o][1] = v] = [data EXCEPT ![o] = <<v, data[o][2]>>]
           /\ [data EXCEPT ![o][2] = v] = [data EXCEPT ![o] = <<data[o][1], v>>]
           /\ data[o][1] \in Halves /\ data[o][2] \in Halves
<1>1. PICK p \in Halves \X Halves : p = data[o]
    BY DEF TypeOK
<1>2. [p EXCEPT ![1] = v] = <<v, p[2]>> /\ [p EXCEPT ![2] = v] = <<p[1], v>>
    OBVIOUS
<1>3. p[1] \in Halves /\ p[2] \in Halves
    OBVIOUS
<1>4. ASSUME NEW i
      PROVE  [data EXCEPT ![o][i] = v] = [data EXCEPT ![o] = [data[o] EXCEPT ![i] = v]]
    BY DEF TypeOK
<1> QED BY <1>1, <1>2, <1>3, <1>4

\* Half of a response buffer is replaced.
LEMMA ReadIt ==
    ASSUME TypeOK, NEW t \in Threads, NEW v \in Halves
    PROVE  /\ [buf EXCEPT ![t][1] = v] = [buf EXCEPT ![t] = <<v, buf[t][2]>>]
           /\ [buf EXCEPT ![t][2] = v] = [buf EXCEPT ![t] = <<buf[t][1], v>>]
           /\ buf[t][1] \in Halves /\ buf[t][2] \in Halves
<1>1. PICK p \in Halves \X Halves : p = buf[t]
    BY DEF TypeOK
<1>2. [p EXCEPT ![1] = v] = <<v, p[2]>> /\ [p EXCEPT ![2] = v] = <<p[1], v>>
    OBVIOUS
<1>3. p[1] \in Halves /\ p[2] \in Halves
    OBVIOUS
<1>4. ASSUME NEW i
      PROVE  [buf EXCEPT ![t][i] = v] = [buf EXCEPT ![t] = [buf[t] EXCEPT ![i] = v]]
    BY DEF TypeOK
<1> QED BY <1>1, <1>2, <1>3, <1>4

\* What a step of thread t leaves alone.
Others(t) ==
    \A u \in Threads \ {t} :
        /\ pc'[u] = pc[u] /\ req'[u] = req[u] /\ hold'[u] = hold[u]
        /\ buf'[u] = buf[u] /\ res'[u] = res[u] /\ reply'[u] = reply[u]

\* ReqOk after a step of thread t: only its own part is at stake.
LEMMA ReqSplit ==
    ASSUME ReqOk, NEW t \in Threads, Others(t), ReqOf(t)'
    PROVE  ReqOk'
<1>1. ASSUME NEW u \in Threads \ {t} PROVE ReqOf(u)'
    BY DEF ReqOk, ReqOf, Others
<1> QED BY <1>1 DEF ReqOk

\* Two threads do not use the same private chunk.
LEMMA PrivateOne ==
    ASSUME NEW t \in Threads, NEW u \in Threads, NEW k, k \in KeysOf[t] \cap Private,
           k \in KeysOf[u]
    PROVE  t = u
BY DEF Private

\* The state of a private chunk is the same if nothing it depends on changes.
LEMMA OwnSame ==
    ASSUME SInv, NEW u \in Threads, NEW k \in KeysOf[u] \cap Private,
           pc'[u] = pc[u], req'[u] = req[u], hold'[u] = hold[u], buf'[u] = buf[u],
           res'[u] = res[u], table'[k] = table[k], mine'[k] = mine[k],
           table[k] # None => data'[table[k]] = data[table[k]]
    PROVE  Own(u, k)'
<1>1. Own(u, k) /\ ReqOf(u)
    BY DEF SInv, OwnOk, ReqOk
<1>2. Busy(u, k)' = Busy(u, k) /\ Changing(u, k)' = Changing(u, k)
    BY DEF Busy, Changing
<1>3. Busy(u, k) /\ pc[u] \in Copying => hold[u] = table[k] /\ table[k] # None
    BY <1>1 DEF Own, ReqOf
<1> QED BY <1>1, <1>2, <1>3 DEF Own, Copying

\* A thread that does not work on it has no say in a private chunk.
LEMMA OwnIdle ==
    ASSUME SInv, NEW u \in Threads, NEW k \in KeysOf[u] \cap Private,
           ~Changing(u, k), ~Busy(u, k)',
           table'[k] = table[k], mine'[k] = mine[k],
           table[k] # None => data'[table[k]] = data[table[k]]
    PROVE  Own(u, k)'
<1>1. Own(u, k)
    BY DEF SInv, OwnOk
<1>2. ~Changing(u, k)'
    BY DEF Changing
<1> QED BY <1>1, <1>2 DEF Own

\* A step of thread t that touches no private chunk but that of its request.
LEMMA OwnSplit ==
    ASSUME SInv, NEW t \in Threads, pc[t] # "idle", Others(t),
           NEW r, r = req[t].key, pc'[t] = "idle" \/ req'[t] = req[t],
           \A k \in Keys : k # r =>
               /\ table'[k] = table[k] /\ mine'[k] = mine[k]
               /\ table[k] # None => data'[table[k]] = data[table[k]],
           r \in Private => Own(t, r)'
    PROVE  OwnOk'
<1>1. r \in KeysOf[t] /\ \A u \in Threads : KeysOf[u] \subseteq Keys
    BY DEF SInv, ReqOk, ReqOf
<1>2. ASSUME NEW u \in Threads, NEW k \in KeysOf[u] \cap Private, u # t PROVE Own(u, k)'
    <2>1. k # r
        BY <1>1, <1>2, PrivateOne
    <2>2. k \in Keys
        BY <1>1
    <2>3. /\ pc'[u] = pc[u] /\ req'[u] = req[u] /\ hold'[u] = hold[u] /\ buf'[u] = buf[u]
          /\ res'[u] = res[u]
        BY <1>2 DEF Others
    <2> QED BY <2>1, <2>2, <2>3, OwnSame
<1>3. ASSUME NEW k \in KeysOf[t] \cap Private, k # r PROVE Own(t, k)'
    <2>1. ~Changing(t, k) /\ ~Busy(t, k)' /\ k \in Keys
        BY <1>1, <1>3 DEF Changing, Busy
    <2> QED BY <1>3, <2>1, OwnIdle
<1> QED BY <1>2, <1>3 DEF OwnOk

\* ReplyOk after a step of thread t: only its own part is at stake.
LEMMA ReplySplit ==
    ASSUME SInv, NEW t \in Threads, Others(t), ReplyOf(t)',
           \A k \in Keys : k # req[t].key => mine'[k] = mine[k],
           pc[t] # "idle" \/ mine' = mine
    PROVE  ReplyOk'
<1>1. pc[t] # "idle" => req[t].key \in KeysOf[t]
    BY DEF SInv, ReqOk, ReqOf
<1>2. ASSUME NEW u \in Threads \ {t} PROVE ReplyOf(u)'
    <2>1. ReplyOf(u) /\ pc'[u] = pc[u] /\ reply'[u] = reply[u]
        BY DEF SInv, ReplyOk, Others
    <2>2. CASE reply[u] = None
        BY <2>1, <2>2 DEF ReplyOf
    <2>3. CASE reply[u] # None
        <3>1. PICK k : k = reply[u].key
            OBVIOUS
        <3>2. k \in KeysOf[u] \cap Private /\ k \in Keys
            BY <2>1, <2>3, <3>1 DEF ReplyOf
        <3>3. mine'[k] = mine[k]
            BY <3>2, <1>1, PrivateOne
        <3> QED BY <2>1, <3>1, <3>3 DEF ReplyOf
    <2> QED BY <2>2, <2>3
<1> QED BY <1>2 DEF ReplyOk

-----------------------------------------------------------------------------
(* Every step preserves the invariant.                                     *)

\* Every step of Mount, Unmount, the journal test and a chunk operation
\* preserves the invariant.
LEMMA SStep == SInv /\ Next => SInv'
<1> SUFFICES ASSUME SInv, Next PROVE SInv'
    OBVIOUS
<1> USE DEF SInv, volVars, thrVars, Fault, Goto, Finish
<1>1. ASSUME Mount
      PROVE  SInv'
    <2> USE <1>1 DEF Mount
    <2>a. (\E on : Load(on)) \/ (Loaded(New, FALSE) /\ Fault)
        OBVIOUS
    <2>b. /\ vol' \in VolRec /\ jthread' \in BOOLEAN /\ faults' \in 0 .. MaxFaults
          /\ jthread' => vol'.journal = "Running"
        <3>0. faults \in 0 .. MaxFaults
            BY DEF TypeOK
        <3> HIDE <1>1 DEF Mount, SInv
        <3>1. ASSUME NEW on, Load(on)
              PROVE  \/ vol' = [state |-> "Running", journal |-> "Running"] /\ jthread' = TRUE
                     \/ vol' = [state |-> "Running", journal |-> "Running"] /\ jthread' = FALSE
                     \/ vol' = [state |-> "New", journal |-> "Running"] /\ jthread' = TRUE
                     \/ vol' = [state |-> "New", journal |-> "New"] /\ jthread' = FALSE
            BY <3>1 DEF Load, Loaded, New
        <3>2. ASSUME NEW on, Load(on) PROVE faults' = faults \/ Fault
            BY <3>2 DEF Load
        <3>3. faults' = faults \/ Fault
            BY <2>a, <3>2
        <3>4. faults' \in 0 .. MaxFaults
            BY <3>0, <3>3
        <3>5. Loaded(New, FALSE) =>
                vol' = [state |-> "New", journal |-> "New"] /\ jthread' = FALSE
            BY DEF Loaded, New
        <3>6. \/ vol' = [state |-> "Running", journal |-> "Running"] /\ jthread' = TRUE
              \/ vol' = [state |-> "Running", journal |-> "Running"] /\ jthread' = FALSE
              \/ vol' = [state |-> "New", journal |-> "Running"] /\ jthread' = TRUE
              \/ vol' = [state |-> "New", journal |-> "New"] /\ jthread' = FALSE
            BY <2>a, <3>1, <3>5
        <3>7. vol' \in VolRec
            BY <3>6 DEF VolRec
        <3>8. jthread' => vol'.journal = "Running"
            BY <3>6
        <3>9. jthread' \in BOOLEAN
            <4> HIDE DEF VolRec
            <4> QED BY <3>6
        <3> QED BY <3>4, <3>7, <3>8, <3>9
    <2>1. TypeOK'
        <3>2. device' \in {"blank", "volume", "foreign"}
            BY DEF TypeOK
        <3> QED BY <3>2, <2>b DEF TypeOK, VolRec
    <2>2. MoreTypes'
        BY DEF TypeOK, MoreTypes, ReqOk
    <2>3. ReqOk'
        BY DEF ReqOk, ReqOf
    <2>4. VolOk'
        <3>1. \A t \in Threads : pc[t] \in {"idle", "enter"}
            BY DEF Exclusive, Readers
        <3>3. None \notin VolRec
            BY DEF VolRec
        <3> QED BY <3>1, <2>b, <3>3 DEF VolOk
    <2>5. TableOk'
        BY DEF TypeOK, MoreTypes, ReqOk, TableOk
    <2>6. OwnOk'
        BY DEF OwnOk, Own, Changing, Busy
    <2>7. ReplyOk'
        BY DEF ReplyOk, ReplyOf
    <2> QED BY <2>1, <2>2, <2>3, <2>4, <2>5, <2>6, <2>7
<1>2. ASSUME Unmount
      PROVE  SInv'
    <2> USE <1>2 DEF Unmount
    <2>a. \A t \in Threads : pc[t] \in {"idle", "enter"}
        BY DEF Exclusive, Readers
    <2>b. jthread' = FALSE
        <3> DEFINE s == [state |-> vol.state, journal |-> vol.journal, thread |-> jthread]
        <3>1. jthread \in BOOLEAN /\ (jthread => s.journal = "Running") /\ s.thread = jthread
              /\ vol.journal \in {"New", "Running"} /\ vol.state \in {"New", "Running"}
            BY DEF TypeOK, VolOk
        <3>2. CASE s.journal = "Running" /\ s.state = "Running"
            <4>1. JournalUnload(s) = [s EXCEPT !.journal = "Stopped", !.thread = FALSE]
                BY <3>2 DEF JournalUnload
            <4>2. VolumeUnload(s) = [JournalUnload(s) EXCEPT !.state = "Stopped"]
                BY <3>2 DEF VolumeUnload
            <4>3. VolumeUnload(s).journal = "Stopped" /\ VolumeUnload(s).thread = FALSE
                BY <4>1, <4>2
            <4> QED BY <4>3 DEF Destroy, JournalUnload
        <3>3. CASE s.journal = "Running" /\ s.state # "Running"
            <4>1. VolumeUnload(s) = s
                BY <3>3 DEF VolumeUnload
            <4>2. JournalUnload(s).thread = FALSE
                BY <3>3 DEF JournalUnload
            <4> QED BY <4>1, <4>2 DEF Destroy
        <3>4. CASE s.journal # "Running"
            <4>1. JournalUnload(s) = s
                BY <3>4 DEF JournalUnload
            <4>2. VolumeUnload(s).journal = s.journal /\ VolumeUnload(s).thread = s.thread
                BY <4>1 DEF VolumeUnload
            <4>3. Destroy(s) = VolumeUnload(s)
                BY <4>2, <3>4 DEF Destroy, JournalUnload
            <4> QED BY <4>2, <4>3, <3>1, <3>4
        <3> QED BY <3>2, <3>3, <3>4
    <2>1. TypeOK'
        <3>1. faults' \in 0 .. MaxFaults /\ device' \in {"blank", "volume", "foreign"}
            BY DEF TypeOK
        <3>2. table' \in [Keys -> Objs \cup {None}]
            OBVIOUS
        <3> QED BY <3>1, <3>2, <2>b DEF TypeOK
    <2>2. MoreTypes'
        BY DEF TypeOK, MoreTypes, ReqOk
    <2>3. ReqOk'
        BY DEF ReqOk, ReqOf
    <2>4. VolOk'
        BY <2>a, <2>b DEF VolOk
    <2>5. TableOk'
        BY DEF TypeOK, MoreTypes, ReqOk, TableOk
    <2>6. OwnOk'
        BY <2>a DEF OwnOk, Own, Changing, Busy, Copying
    <2>7. ReplyOk'
        BY DEF ReplyOk, ReplyOf
    <2> QED BY <2>1, <2>2, <2>3, <2>4, <2>5, <2>6, <2>7
<1>3. ASSUME TestBegin
      PROVE  SInv'
    <2> USE <1>3 DEF TestBegin
    <2>1. TypeOK'
        BY DEF TypeOK, MoreTypes, ReqOk
    <2>2. MoreTypes'
        BY DEF TypeOK, MoreTypes, ReqOk
    <2>3. ReqOk'
        BY DEF ReqOk, ReqOf
    <2>4. VolOk'
        BY DEF TypeOK, MoreTypes, ReqOk, VolOk
    <2>5. TableOk'
        BY DEF TypeOK, MoreTypes, ReqOk, TableOk
    <2>6. OwnOk'
        <3>1. UNCHANGED <<table, data, thrVars>>
            OBVIOUS
        <3> HIDE <1>3 DEF TestBegin
        <3> QED BY <3>1 DEF OwnOk, Own, Changing, Busy
    <2>7. ReplyOk'
        BY DEF ReplyOk, ReplyOf
    <2> QED BY <2>1, <2>2, <2>3, <2>4, <2>5, <2>6, <2>7
<1>4. ASSUME TestEnd
      PROVE  SInv'
    <2> USE <1>4 DEF TestEnd
    <2>1. TypeOK'
        BY DEF TypeOK, MoreTypes, ReqOk
    <2>2. MoreTypes'
        BY DEF TypeOK, MoreTypes, ReqOk
    <2>3. ReqOk'
        BY DEF ReqOk, ReqOf
    <2>4. VolOk'
        BY DEF TypeOK, MoreTypes, ReqOk, VolOk
    <2>5. TableOk'
        BY DEF TypeOK, MoreTypes, ReqOk, TableOk
    <2>6. OwnOk'
        BY DEF OwnOk, Own, Changing, Busy
    <2>7. ReplyOk'
        BY DEF ReplyOk, ReplyOf
    <2> QED BY <2>1, <2>2, <2>3, <2>4, <2>5, <2>6, <2>7
<1>5. ASSUME NEW t \in Threads, Request(t)
      PROVE  SInv'
    <2> USE <1>5 DEF Request
    <2>o. Others(t)
        BY DEF Others, TypeOK, MoreTypes
    <2>k. /\ ReqOf(t) /\ pc[t] = "idle" /\ pc'[t] = "enter" /\ req'[t] \in ReqRec
          /\ req'[t].key \in KeysOf[t]
        <3>1. ReqOf(t) /\ pc[t] = "idle" /\ pc'[t] = "enter"
            BY DEF ReqOk, TypeOK
        <3>2. PICK op \in {"create", "write", "read", "delete"}, k \in KeysOf[t], v \in Vals :
                  req' = [req EXCEPT ![t] = [op |-> op, key |-> k, val |-> v]]
            OBVIOUS
        <3>3. req'[t] = [op |-> op, key |-> k, val |-> v] /\ k \in Keys
            BY <3>2 DEF MoreTypes
        <3> QED BY <3>1, <3>3 DEF ReqRec
    <2>l. UNCHANGED <<volVars, table, data, hold, buf, res, mine, faults>>
        OBVIOUS
    <2>1. TypeOK'
        BY DEF TypeOK, MoreTypes, ReqOk
    <2>2. MoreTypes'
        <3>1. req' \in [Threads -> {NoReq} \cup ReqRec]
            BY <2>k DEF MoreTypes
        <3>2. reply' \in [Threads -> {None} \cup ReplyRec]
            BY DEF MoreTypes
        <3> QED BY <3>1, <3>2 DEF MoreTypes
    <2>3. ReqOk'
        <3>1. ReqOf(t)'
            BY <2>k, <2>l DEF ReqOf, Copying
        <3> QED BY <3>1, <2>o, ReqSplit
    <2>4. VolOk'
        BY DEF TypeOK, MoreTypes, ReqOk, VolOk
    <2>5. TableOk'
        <3>1. hold[t] = None
            BY <2>k DEF ReqOf, Copying
        <3> QED BY <3>1, <2>o, <2>l DEF TableOk, Others
    <2>6. OwnOk'
        <3>1. ASSUME NEW u \in Threads, NEW k \in KeysOf[u] \cap Private, u # t PROVE Own(u, k)'
            <4>1. /\ pc'[u] = pc[u] /\ req'[u] = req[u] /\ hold'[u] = hold[u]
                  /\ buf'[u] = buf[u] /\ res'[u] = res[u]
                BY <3>1, <2>o DEF Others
            <4> QED BY <4>1, <2>l, OwnSame
        <3>2. ASSUME NEW k \in KeysOf[t] \cap Private PROVE Own(t, k)'
            <4>1. Own(t, k)
                BY DEF OwnOk
            <4> QED BY <4>1, <2>k, <2>l DEF Own, Changing, Busy, Copying
        <3> QED BY <3>1, <3>2 DEF OwnOk
    <2>7. ReplyOk'
        <3>1. ReplyOf(t)'
            BY DEF ReplyOf, MoreTypes
        <3> QED BY <3>1, <2>o, <2>l, ReplySplit
    <2> QED BY <2>1, <2>2, <2>3, <2>4, <2>5, <2>6, <2>7
<1>6. ASSUME NEW t \in Threads, Enter(t)
      PROVE  SInv'
    <2> USE <1>6 DEF Enter
    <2>o. Others(t)
        BY DEF Others, TypeOK, MoreTypes
    <2>p. PICK r : r = req[t].key
        OBVIOUS
    <2>k. /\ ReqOf(t) /\ pc[t] # "idle" /\ req[t] \in ReqRec /\ r = req[t].key
          /\ r \in KeysOf[t] /\ r \in Keys
        BY <2>p DEF ReqOk, ReqOf, ReqRec
    <2>1. TypeOK'
        <3>1. pc' \in [Threads -> Places]
            BY <2>k DEF TypeOK, Places, ReqRec
        <3>2. res' \in [Threads -> {None} \cup Errors]
            BY DEF TypeOK, Errors
        <3> QED BY <3>1, <3>2 DEF TypeOK, Places, Errors
    <2>2. MoreTypes'
        BY DEF TypeOK, MoreTypes, ReqOk
    <2>3. ReqOk'
        <3>1. ReqOf(t)'
            BY <2>k DEF ReqOf, TypeOK, MoreTypes, Errors, Copying, ReqRec
        <3> QED BY <3>1, <2>o, ReqSplit
    <2>4. VolOk'
        BY DEF TypeOK, MoreTypes, ReqOk, VolOk
    <2>5. TableOk'
        BY DEF TypeOK, MoreTypes, ReqOk, TableOk
    <2>6. OwnOk'
        <3>1. ASSUME r \in Private PROVE Own(t, r)'
            <4>1. Own(t, r)
                BY <2>k, <3>1 DEF OwnOk
            <4> QED BY <4>1, <2>k DEF Own, ReqOf, TypeOK, MoreTypes, Changing, Busy,
                       Copying, ReqRec
        <3>2. pc'[t] = "idle" \/ req'[t] = req[t]
            BY DEF TypeOK
        <3>3. ASSUME NEW k \in Keys, k # r
              PROVE  /\ table'[k] = table[k] /\ mine'[k] = mine[k]
                     /\ table[k] # None => data'[table[k]] = data[table[k]]
            BY <3>3, <2>k DEF TypeOK, MoreTypes
        <3> QED BY <3>1, <3>2, <3>3, <2>k, <2>o, OwnSplit
    <2>7. ReplyOk'
        <3>1. ReplyOf(t)'
            BY DEF ReplyOk, ReplyOf, MoreTypes, TypeOK
        <3> QED BY <3>1, <2>o, ReplySplit
    <2> QED BY <2>1, <2>2, <2>3, <2>4, <2>5, <2>6, <2>7
<1>7. ASSUME NEW t \in Threads, CreateLookup(t)
      PROVE  SInv'
    <2> USE <1>7 DEF CreateLookup
    <2>o. Others(t)
        BY DEF Others, TypeOK, MoreTypes
    <2>p. PICK r : r = req[t].key
        OBVIOUS
    <2>k. /\ ReqOf(t) /\ pc[t] # "idle" /\ req[t] \in ReqRec /\ r = req[t].key
          /\ r \in KeysOf[t] /\ r \in Keys
        BY <2>p DEF ReqOk, ReqOf, ReqRec
    <2>1. TypeOK'
        <3>1. pc' \in [Threads -> Places]
            BY <2>k DEF TypeOK, Places, ReqRec
        <3>2. res' \in [Threads -> {None} \cup Errors]
            <4>1. res' = res \/ \E e \in Errors : res' = [res EXCEPT ![t] = e]
                BY DEF Errors
            <4> QED BY <4>1 DEF TypeOK, Errors
        <3>3. faults' \in 0 .. MaxFaults
            BY DEF TypeOK
        <3> QED BY <3>1, <3>2, <3>3 DEF TypeOK, Places, Errors
    <2>2. MoreTypes'
        BY DEF TypeOK, MoreTypes, ReqOk
    <2>3. ReqOk'
        <3>1. ReqOf(t)'
            BY <2>k DEF ReqOf, TypeOK, MoreTypes, Errors, Copying, ReqRec
        <3> QED BY <3>1, <2>o, ReqSplit
    <2>4. VolOk'
        BY DEF TypeOK, MoreTypes, ReqOk, VolOk
    <2>5. TableOk'
        BY DEF TypeOK, MoreTypes, ReqOk, TableOk
    <2>6. OwnOk'
        <3>1. ASSUME r \in Private PROVE Own(t, r)'
            <4>1. Own(t, r)
                BY <2>k, <3>1 DEF OwnOk
            <4> QED BY <4>1, <2>k DEF Own, ReqOf, TypeOK, MoreTypes, Changing, Busy,
                       Copying, ReqRec
        <3>2. pc'[t] = "idle" \/ req'[t] = req[t]
            BY DEF TypeOK
        <3>3. ASSUME NEW k \in Keys, k # r
              PROVE  /\ table'[k] = table[k] /\ mine'[k] = mine[k]
                     /\ table[k] # None => data'[table[k]] = data[table[k]]
            BY <3>3, <2>k DEF TypeOK, MoreTypes
        <3> QED BY <3>1, <3>2, <3>3, <2>k, <2>o, OwnSplit
    <2>7. ReplyOk'
        <3>1. ReplyOf(t)'
            BY DEF ReplyOk, ReplyOf, MoreTypes, TypeOK
        <3> QED BY <3>1, <2>o, ReplySplit
    <2> QED BY <2>1, <2>2, <2>3, <2>4, <2>5, <2>6, <2>7
<1>8. ASSUME NEW t \in Threads, CreateInsert(t)
      PROVE  SInv'
    <2> USE <1>8 DEF CreateInsert
    <2>o. Others(t)
        BY DEF Others, TypeOK, MoreTypes
    <2>p. PICK r : r = req[t].key
        OBVIOUS
    <2>k. /\ ReqOf(t) /\ pc[t] # "idle" /\ req[t] \in ReqRec /\ r = req[t].key
          /\ r \in KeysOf[t] /\ r \in Keys
        BY <2>p DEF ReqOk, ReqOf, ReqRec
    <2> DEFINE o == CHOOSE x \in Free : TRUE
    <2>f. table[r] = None => o \in Free /\ o \in Objs
        BY <2>k, FreeObj DEF Free
    <2>g. \A x : x \in Free => x # None /\ (\A k \in Keys : table[k] # x)
                               /\ \A u \in Threads : hold[u] # x
        <3>1. Cardinality(Keys) + Cardinality(Threads) \in Nat
            BY FS_CardinalityType
        <3> QED BY <3>1 DEF Free, Objs
    <2>h. \/ UNCHANGED <<table, data>>
          \/ /\ table[r] = None /\ table' = [table EXCEPT ![r] = o]
             /\ data' = [data EXCEPT ![o] = <<Junk, Junk>>]
        BY <2>k
    <2> HIDE DEF o
    <2>1. TypeOK'
        <3>1. pc' \in [Threads -> Places]
            BY <2>k DEF TypeOK, Places, ReqRec
        <3>2. res' \in [Threads -> {None} \cup Errors]
            BY DEF TypeOK, Errors
        <3>3. faults' \in 0 .. MaxFaults
            BY DEF TypeOK
        <3>4. table' \in [Keys -> Objs \cup {None}]
            BY <2>f, <2>h, <2>k DEF TypeOK
        <3>5. data' \in [Objs -> Halves \X Halves]
            BY <2>f, <2>h DEF TypeOK, Halves
        <3> QED BY <3>1, <3>2, <3>3, <3>4, <3>5 DEF TypeOK, Places, Errors
    <2>2. MoreTypes'
        BY DEF TypeOK, MoreTypes, ReqOk
    <2>3. ReqOk'
        <3>1. ReqOf(t)'
            BY <2>k DEF ReqOf, TypeOK, MoreTypes, Errors, Copying, ReqRec
        <3> QED BY <3>1, <2>o, ReqSplit
    <2>4. VolOk'
        BY DEF TypeOK, MoreTypes, ReqOk, VolOk
    <2>5. TableOk'
        <3>0. UNCHANGED <<req, hold>>
            OBVIOUS
        <3>1. CASE UNCHANGED table
            BY <3>0, <3>1 DEF TableOk
        <3>2. CASE table[r] = None /\ table' = [table EXCEPT ![r] = o]
            <4>1. table'[r] = o /\ \A k \in Keys : k # r => table'[k] = table[k]
                BY <3>2, <2>k DEF TypeOK
            <4> QED BY <3>0, <3>2, <4>1, <2>f, <2>g DEF TableOk
        <3> QED BY <3>1, <3>2, <2>h
    <2>6. OwnOk'
        <3>1. ASSUME r \in Private PROVE Own(t, r)'
            <4>1. pc'[t] = "leave" /\ req'[t] = req[t] /\ req[t].op = "create"
                BY <2>k DEF ReqOf, TypeOK
            <4> QED BY <4>1, <2>k DEF Own, Changing, Busy, Copying
        <3>2. pc'[t] = "idle" \/ req'[t] = req[t]
            OBVIOUS
        <3>3. ASSUME NEW k \in Keys, k # r
              PROVE  /\ table'[k] = table[k] /\ mine'[k] = mine[k]
                     /\ table[k] # None => data'[table[k]] = data[table[k]]
            <4>1. table[k] # o \/ table[r] # None
                BY <2>f, <2>g
            <4>2. table[k] \in Objs \cup {None}
                BY DEF TypeOK
            <4> QED BY <3>3, <4>1, <4>2, <2>h, <2>k DEF TypeOK
        <3> QED BY <3>1, <3>2, <3>3, <2>k, <2>o, OwnSplit
    <2>7. ReplyOk'
        <3>1. ReplyOf(t)'
            BY DEF ReplyOk, ReplyOf, MoreTypes, TypeOK
        <3> QED BY <3>1, <2>o, ReplySplit
    <2> QED BY <2>1, <2>2, <2>3, <2>4, <2>5, <2>6, <2>7
<1>9. ASSUME NEW t \in Threads, Lookup(t)
      PROVE  SInv'
    <2> USE <1>9 DEF Lookup
    <2>o. Others(t)
        BY DEF Others, TypeOK, MoreTypes
    <2>p. PICK r : r = req[t].key
        OBVIOUS
    <2>k. /\ ReqOf(t) /\ pc[t] # "idle" /\ req[t] \in ReqRec /\ r = req[t].key
          /\ r \in KeysOf[t] /\ r \in Keys
        BY <2>p DEF ReqOk, ReqOf, ReqRec
    <2>1. TypeOK'
        <3>1. pc' \in [Threads -> Places]
            BY <2>k DEF TypeOK, Places, ReqRec
        <3>2. res' \in [Threads -> {None} \cup Errors]
            BY DEF TypeOK, Errors
        <3>3. hold' \in [Threads -> Objs \cup {None}]
            BY <2>k DEF TypeOK
        <3> QED BY <3>1, <3>2, <3>3 DEF TypeOK, Places, Errors
    <2>2. MoreTypes'
        BY DEF TypeOK, MoreTypes, ReqOk
    <2>3. ReqOk'
        <3>1. ReqOf(t)'
            BY <2>k DEF ReqOf, TypeOK, MoreTypes, Errors, Copying, ReqRec
        <3> QED BY <3>1, <2>o, ReqSplit
    <2>4. VolOk'
        BY DEF TypeOK, MoreTypes, ReqOk, VolOk
    <2>5. TableOk'
        <3>1. \A k \in Keys : hold'[t] # None /\ hold'[t] = table[k] => r = k
            BY <2>k DEF TypeOK, TableOk
        <3> QED BY <3>1, <2>k, <2>o DEF TableOk, Others
    <2>6. OwnOk'
        <3>1. ASSUME r \in Private PROVE Own(t, r)'
            <4>1. Own(t, r)
                BY <2>k, <3>1 DEF OwnOk
            <4> QED BY <4>1, <2>k DEF Own, ReqOf, TypeOK, MoreTypes, Changing, Busy,
                       Copying, ReqRec
        <3>2. pc'[t] = "idle" \/ req'[t] = req[t]
            BY DEF TypeOK
        <3>3. ASSUME NEW k \in Keys, k # r
              PROVE  /\ table'[k] = table[k] /\ mine'[k] = mine[k]
                     /\ table[k] # None => data'[table[k]] = data[table[k]]
            BY <3>3, <2>k DEF TypeOK, MoreTypes
        <3> QED BY <3>1, <3>2, <3>3, <2>k, <2>o, OwnSplit
    <2>7. ReplyOk'
        <3>1. ReplyOf(t)'
            BY DEF ReplyOk, ReplyOf, MoreTypes, TypeOK
        <3> QED BY <3>1, <2>o, ReplySplit
    <2> QED BY <2>1, <2>2, <2>3, <2>4, <2>5, <2>6, <2>7
<1>10. ASSUME NEW t \in Threads, NEW i \in {1, 2}, WriteHalf(t, i)
      PROVE  SInv'
    <2> USE <1>10 DEF WriteHalf
    <2>o. Others(t)
        BY DEF Others, TypeOK, MoreTypes
    <2>p. PICK r : r = req[t].key
        OBVIOUS
    <2>k. /\ ReqOf(t) /\ pc[t] # "idle" /\ req[t] \in ReqRec /\ r = req[t].key
          /\ r \in KeysOf[t] /\ r \in Keys
        BY <2>p DEF ReqOk, ReqOf, ReqRec
    <2>d. hold[t] \in Objs /\ hold[t] # None /\ req[t].val \in Halves
        BY <2>k DEF TypeOK, ReqOf, Copying, ReqRec, Halves
    <2>e. /\ i = 1 => data' = [data EXCEPT ![hold[t]] = <<req[t].val, data[hold[t]][2]>>]
          /\ i = 2 => data' = [data EXCEPT ![hold[t]] = <<data[hold[t]][1], req[t].val>>]
          /\ data[hold[t]][1] \in Halves /\ data[hold[t]][2] \in Halves
        <3>0. TypeOK
            OBVIOUS
        <3>2. CASE i = 1
            <4>1. data' = [data EXCEPT ![hold[t]][1] = req[t].val]
                BY <3>2
            <4>2. PICK o \in Objs, v \in Halves : o = hold[t] /\ v = req[t].val
                BY <2>d
            <4> HIDE <1>10 DEF WriteHalf, SInv
            <4>3. /\ [data EXCEPT ![o][1] = v] = [data EXCEPT ![o] = <<v, data[o][2]>>]
                  /\ data[o][1] \in Halves /\ data[o][2] \in Halves
                BY <3>0, WriteIt
            <4> QED BY <3>2, <4>1, <4>2, <4>3
        <3>3. CASE i = 2
            <4>1. data' = [data EXCEPT ![hold[t]][2] = req[t].val]
                BY <3>3
            <4>2. PICK o \in Objs, v \in Halves : o = hold[t] /\ v = req[t].val
                BY <2>d
            <4> HIDE <1>10 DEF WriteHalf, SInv
            <4>3. /\ [data EXCEPT ![o][2] = v] = [data EXCEPT ![o] = <<data[o][1], v>>]
                  /\ data[o][1] \in Halves /\ data[o][2] \in Halves
                BY <3>0, WriteIt
            <4> QED BY <3>3, <4>1, <4>2, <4>3
        <3> QED BY <3>2, <3>3
    <2>1. TypeOK'
        <3>1. pc' \in [Threads -> Places]
            BY <2>k DEF TypeOK, Places, ReqRec
        <3>2. res' \in [Threads -> {None} \cup Errors]
            BY DEF TypeOK, Errors
        <3>3. hold' \in [Threads -> Objs \cup {None}]
            BY DEF TypeOK
        <3>4. data' \in [Objs -> Halves \X Halves]
            BY <2>d, <2>e DEF TypeOK
        <3> QED BY <3>1, <3>2, <3>3, <3>4 DEF TypeOK, Places, Errors
    <2>2. MoreTypes'
        BY DEF TypeOK, MoreTypes, ReqOk
    <2>3. ReqOk'
        <3>1. ReqOf(t)'
            BY <2>k DEF ReqOf, TypeOK, MoreTypes, Errors, Copying, ReqRec
        <3> QED BY <3>1, <2>o, ReqSplit
    <2>4. VolOk'
        BY DEF TypeOK, MoreTypes, ReqOk, VolOk
    <2>5. TableOk'
        <3>1. hold'[t] = hold[t] \/ hold'[t] = None
            BY DEF TypeOK
        <3>2. hold'[t] # None => req'[t] = req[t]
            BY <2>k DEF TypeOK, ReqOf, Copying
        <3>3. UNCHANGED table
            OBVIOUS
        <3> QED BY <3>1, <3>2, <3>3, <2>o DEF TableOk, Others
    <2>6. OwnOk'
        <3>1. ASSUME r \in Private PROVE Own(t, r)'
            <4>1. Own(t, r) /\ hold[t] = table[r] /\ table[r] # None
                <5>1. Own(t, r)
                    BY <2>k, <3>1 DEF OwnOk
                <5>2. pc[t] \in Copying /\ Busy(t, r)
                    BY <2>k DEF Copying, Busy
                <5> QED BY <5>1, <5>2, <2>d DEF Own
            <4>2. req'[t] = req[t] /\ table' = table /\ req[t].op = "write"
                BY <2>k DEF ReqOf
            <4>3. CASE i = 1
                <5>1. pc'[t] = "write2" /\ hold'[t] = hold[t]
                    BY <4>3 DEF TypeOK
                <5>2. data'[hold[t]] = <<req[t].val, data[hold[t]][2]>>
                    BY <4>3, <2>d, <2>e DEF TypeOK
                <5>3. data'[hold[t]][1] = req[t].val
                    BY <5>2
                <5> QED BY <4>1, <4>2, <5>1, <5>3, <2>k DEF Own, Changing, Busy, Copying
            <4>4. CASE i = 2
                <5>1. pc'[t] = "leave"
                    BY <4>4 DEF TypeOK
                <5>2. data[hold[t]][1] = req[t].val
                    BY <4>1, <4>4, <2>k DEF Own, Busy
                <5>3. data'[hold[t]] = <<req[t].val, req[t].val>>
                    BY <4>4, <5>2, <2>d, <2>e DEF TypeOK
                <5> QED BY <4>1, <4>2, <5>1, <5>3, <2>k DEF Own, Changing, Busy, Copying
            <4> QED BY <4>3, <4>4
        <3>2. pc'[t] = "idle" \/ req'[t] = req[t]
            OBVIOUS
        <3>3. ASSUME NEW k \in Keys, k # r
              PROVE  /\ table'[k] = table[k] /\ mine'[k] = mine[k]
                     /\ table[k] # None => data'[table[k]] = data[table[k]]
            <4>1. table[k] # hold[t]
                BY <3>3, <2>k, <2>d DEF TableOk
            <4> QED BY <4>1, <2>d, <2>e DEF TypeOK
        <3> QED BY <3>1, <3>2, <3>3, <2>k, <2>o, OwnSplit
    <2>7. ReplyOk'
        <3>1. ReplyOf(t)'
            BY DEF ReplyOk, ReplyOf, MoreTypes, TypeOK
        <3> QED BY <3>1, <2>o, ReplySplit
    <2> QED BY <2>1, <2>2, <2>3, <2>4, <2>5, <2>6, <2>7
<1>11. ASSUME NEW t \in Threads, NEW i \in {1, 2}, ReadHalf(t, i)
      PROVE  SInv'
    <2> USE <1>11 DEF ReadHalf
    <2>o. Others(t)
        BY DEF Others, TypeOK, MoreTypes
    <2>p. PICK r : r = req[t].key
        OBVIOUS
    <2>k. /\ ReqOf(t) /\ pc[t] # "idle" /\ req[t] \in ReqRec /\ r = req[t].key
          /\ r \in KeysOf[t] /\ r \in Keys
        BY <2>p DEF ReqOk, ReqOf, ReqRec
    <2>d. hold[t] \in Objs /\ hold[t] # None /\ req[t].val \in Halves
        BY <2>k DEF TypeOK, ReqOf, Copying, ReqRec, Halves
    <2>e. /\ i = 1 => buf' = [buf EXCEPT ![t] = <<data[hold[t]][1], buf[t][2]>>]
          /\ i = 2 => buf' = [buf EXCEPT ![t] = <<buf[t][1], data[hold[t]][2]>>]
          /\ buf[t][1] \in Halves /\ buf[t][2] \in Halves
          /\ data[hold[t]][1] \in Halves /\ data[hold[t]][2] \in Halves
        <3>0. TypeOK
            OBVIOUS
        <3>2. data[hold[t]][1] \in Halves /\ data[hold[t]][2] \in Halves
            BY <3>0, <2>d, WriteIt
        <3>3. CASE i = 1
            <4>1. buf' = [buf EXCEPT ![t][1] = data[hold[t]][1]]
                BY <3>3
            <4>2. PICK v \in Halves : v = data[hold[t]][1]
                BY <3>2
            <4> HIDE <1>11 DEF ReadHalf, SInv
            <4>3. /\ [buf EXCEPT ![t][1] = v] = [buf EXCEPT ![t] = <<v, buf[t][2]>>]
                  /\ buf[t][1] \in Halves /\ buf[t][2] \in Halves
                BY <3>0, ReadIt
            <4> QED BY <3>2, <3>3, <4>1, <4>2, <4>3
        <3>4. CASE i = 2
            <4>1. buf' = [buf EXCEPT ![t][2] = data[hold[t]][2]]
                BY <3>4
            <4>2. PICK v \in Halves : v = data[hold[t]][2]
                BY <3>2
            <4> HIDE <1>11 DEF ReadHalf, SInv
            <4>3. /\ [buf EXCEPT ![t][2] = v] = [buf EXCEPT ![t] = <<buf[t][1], v>>]
                  /\ buf[t][1] \in Halves /\ buf[t][2] \in Halves
                BY <3>0, ReadIt
            <4> QED BY <3>2, <3>4, <4>1, <4>2, <4>3
        <3> QED BY <3>2, <3>3, <3>4
    <2>1. TypeOK'
        <3>1. pc' \in [Threads -> Places]
            BY <2>k DEF TypeOK, Places, ReqRec
        <3>2. res' \in [Threads -> {None} \cup Errors]
            BY DEF TypeOK, Errors
        <3>3. hold' \in [Threads -> Objs \cup {None}]
            BY DEF TypeOK
        <3>4. buf' \in [Threads -> Halves \X Halves]
            BY <2>e DEF TypeOK
        <3> QED BY <3>1, <3>2, <3>3, <3>4 DEF TypeOK, Places, Errors
    <2>2. MoreTypes'
        BY DEF TypeOK, MoreTypes, ReqOk
    <2>3. ReqOk'
        <3>1. ReqOf(t)'
            BY <2>k DEF ReqOf, TypeOK, MoreTypes, Errors, Copying, ReqRec
        <3> QED BY <3>1, <2>o, ReqSplit
    <2>4. VolOk'
        BY DEF TypeOK, MoreTypes, ReqOk, VolOk
    <2>5. TableOk'
        <3>1. hold'[t] = hold[t] \/ hold'[t] = None
            BY DEF TypeOK
        <3>2. hold'[t] # None => req'[t] = req[t]
            BY <2>k DEF TypeOK, ReqOf, Copying
        <3>3. UNCHANGED table
            OBVIOUS
        <3> QED BY <3>1, <3>2, <3>3, <2>o DEF TableOk, Others
    <2>6. OwnOk'
        <3>1. ASSUME r \in Private PROVE Own(t, r)'
            <4>1. Own(t, r)
                BY <2>k, <3>1 DEF OwnOk
            <4> QED BY <4>1, <2>k DEF Own, ReqOf, TypeOK, MoreTypes, Changing, Busy,
                       Copying, ReqRec
        <3>2. pc'[t] = "idle" \/ req'[t] = req[t]
            BY DEF TypeOK
        <3>3. ASSUME NEW k \in Keys, k # r
              PROVE  /\ table'[k] = table[k] /\ mine'[k] = mine[k]
                     /\ table[k] # None => data'[table[k]] = data[table[k]]
            BY <3>3, <2>k DEF TypeOK, MoreTypes
        <3> QED BY <3>1, <3>2, <3>3, <2>k, <2>o, OwnSplit
    <2>7. ReplyOk'
        <3>1. ReplyOf(t)'
            BY DEF ReplyOk, ReplyOf, MoreTypes, TypeOK
        <3> QED BY <3>1, <2>o, ReplySplit
    <2> QED BY <2>1, <2>2, <2>3, <2>4, <2>5, <2>6, <2>7
<1>12. ASSUME NEW t \in Threads, Delete(t)
      PROVE  SInv'
    <2> USE <1>12 DEF Delete
    <2>o. Others(t)
        BY DEF Others, TypeOK, MoreTypes
    <2>p. PICK r : r = req[t].key
        OBVIOUS
    <2>k. /\ ReqOf(t) /\ pc[t] # "idle" /\ req[t] \in ReqRec /\ r = req[t].key
          /\ r \in KeysOf[t] /\ r \in Keys
        BY <2>p DEF ReqOk, ReqOf, ReqRec
    <2>1. TypeOK'
        BY DEF TypeOK, MoreTypes, ReqOk
    <2>2. MoreTypes'
        BY DEF TypeOK, MoreTypes, ReqOk
    <2>3. ReqOk'
        <3>1. ReqOf(t)'
            BY <2>k DEF ReqOf, TypeOK, MoreTypes, Errors, Copying, ReqRec
        <3> QED BY <3>1, <2>o, ReqSplit
    <2>4. VolOk'
        BY DEF TypeOK, MoreTypes, ReqOk, VolOk
    <2>5. TableOk'
        BY DEF TypeOK, MoreTypes, ReqOk, TableOk
    <2>6. OwnOk'
        <3>1. ASSUME r \in Private PROVE Own(t, r)'
            <4>1. Own(t, r)
                BY <2>k, <3>1 DEF OwnOk
            <4> QED BY <4>1, <2>k DEF Own, ReqOf, TypeOK, MoreTypes, Changing, Busy,
                       Copying, ReqRec
        <3>2. pc'[t] = "idle" \/ req'[t] = req[t]
            BY DEF TypeOK
        <3>3. ASSUME NEW k \in Keys, k # r
              PROVE  /\ table'[k] = table[k] /\ mine'[k] = mine[k]
                     /\ table[k] # None => data'[table[k]] = data[table[k]]
            BY <3>3, <2>k DEF TypeOK, MoreTypes
        <3> QED BY <3>1, <3>2, <3>3, <2>k, <2>o, OwnSplit
    <2>7. ReplyOk'
        <3>1. ReplyOf(t)'
            BY DEF ReplyOk, ReplyOf, MoreTypes, TypeOK
        <3> QED BY <3>1, <2>o, ReplySplit
    <2> QED BY <2>1, <2>2, <2>3, <2>4, <2>5, <2>6, <2>7
<1>13. ASSUME NEW t \in Threads, Leave(t)
      PROVE  SInv'
    <2> USE <1>13 DEF Leave
    <2>o. Others(t)
        BY DEF Others, TypeOK, MoreTypes
    <2>p. PICK r : r = req[t].key
        OBVIOUS
    <2>k. /\ ReqOf(t) /\ pc[t] # "idle" /\ req[t] \in ReqRec /\ r = req[t].key
          /\ r \in KeysOf[t] /\ r \in Keys
        BY <2>p DEF ReqOk, ReqOf, ReqRec
    <2>1. TypeOK'
        <3>1. pc' \in [Threads -> Places]
            BY <2>k DEF TypeOK, Places, ReqRec
        <3>2. res' \in [Threads -> {None} \cup Errors]
            BY DEF TypeOK, Errors
        <3>3. buf' \in [Threads -> Halves \X Halves]
            BY DEF TypeOK, Halves
        <3> QED BY <3>1, <3>2, <3>3 DEF TypeOK, Places, Errors
    <2>2. MoreTypes'
        <3>1. req' \in [Threads -> {NoReq} \cup ReqRec]
            BY DEF MoreTypes
        <3>2. mine' \in [Keys -> Vals \cup {None}]
            <4>1. Acked(t) \in Vals \cup {None}
                BY <2>k DEF Acked, MoreTypes, ReqRec
            <4> QED BY <4>1, <2>k DEF MoreTypes
        <3>3. reply' \in [Threads -> {None} \cup ReplyRec]
            <4>1. [key |-> req[t].key, data |-> buf[t]] \in ReplyRec
                BY <2>k DEF TypeOK, ReplyRec
            <4> QED BY <4>1 DEF MoreTypes
        <3> QED BY <3>1, <3>2, <3>3 DEF MoreTypes
    <2>3. ReqOk'
        <3>1. ReqOf(t)'
            BY <2>k DEF ReqOf, TypeOK, MoreTypes, Errors, Copying, ReqRec
        <3> QED BY <3>1, <2>o, ReqSplit
    <2>4. VolOk'
        BY DEF TypeOK, MoreTypes, ReqOk, VolOk
    <2>5. TableOk'
        <3>1. hold'[t] = hold[t] \/ hold'[t] = None
            BY DEF TypeOK
        <3>2. hold'[t] # None => req'[t] = req[t]
            BY <2>k DEF TypeOK, ReqOf, Copying
        <3>3. UNCHANGED table
            OBVIOUS
        <3> QED BY <3>1, <3>2, <3>3, <2>o DEF TableOk, Others
    <2>6. OwnOk'
        <3>1. ASSUME r \in Private PROVE Own(t, r)'
            <4>1. Own(t, r)
                BY <2>k, <3>1 DEF OwnOk
            <4>2. pc'[t] = "idle" /\ UNCHANGED <<table, data>> /\ mine'[r] = Acked(t)
                BY <2>k, <3>1 DEF TypeOK, MoreTypes
            <4>3. ~Busy(t, r)' /\ ~Changing(t, r)'
                BY <4>2 DEF Busy, Changing
            <4>4. CASE req[t].op = "write" /\ res[t] = "ok"
                <5>1. Acked(t) = req[t].val
                    BY <4>4 DEF Acked, Result
                <5> QED BY <4>1, <4>2, <4>3, <4>4, <5>1, <2>k DEF Own, Busy
            <4>5. CASE req[t].op = "read"
                <5>1. Acked(t) = mine[r] /\ ~Changing(t, r)
                    BY <4>5, <2>k DEF Acked, Changing
                <5> QED BY <4>1, <4>2, <4>3, <5>1 DEF Own
            <4>6. CASE ~(req[t].op = "write" /\ res[t] = "ok") /\ req[t].op # "read"
                <5>1. Acked(t) = None
                    BY <4>6, <2>k DEF Acked, Result
                <5> QED BY <4>2, <4>3, <5>1 DEF Own
            <4> QED BY <4>4, <4>5, <4>6
        <3>2. pc'[t] = "idle" \/ req'[t] = req[t]
            BY DEF TypeOK
        <3>3. ASSUME NEW k \in Keys, k # r
              PROVE  /\ table'[k] = table[k] /\ mine'[k] = mine[k]
                     /\ table[k] # None => data'[table[k]] = data[table[k]]
            BY <3>3, <2>k DEF TypeOK, MoreTypes
        <3> QED BY <3>1, <3>2, <3>3, <2>k, <2>o, OwnSplit
    <2>7. ReplyOk'
        <3>1. ReplyOf(t)'
            <4>0. pc'[t] = "idle"
                BY DEF TypeOK
            <4>1. CASE r \notin Private
                <5>1. reply'[t] = reply[t] /\ mine' = mine
                    BY <4>1, <2>k
                <5> QED BY <4>0, <5>1, <2>k DEF ReplyOk, ReplyOf
            <4>2. CASE r \in Private /\ req[t].op = "read" /\ res[t] = "ok"
                <5>1. reply'[t] = [key |-> r, data |-> buf[t]] /\ mine'[r] = mine[r]
                    BY <4>2, <2>k DEF MoreTypes, Result, Acked
                <5>2. mine[r] # None => buf[t] = <<mine[r], mine[r]>>
                    BY <4>2, <2>k DEF OwnOk, Own, Busy
                <5>3. reply'[t].key = r /\ reply'[t].data = buf[t]
                    BY <5>1
                <5> QED BY <4>0, <4>2, <5>1, <5>2, <5>3, <2>k DEF ReplyOf
            <4>3. CASE r \in Private /\ ~(req[t].op = "read" /\ res[t] = "ok")
                <5>1. reply'[t] = None
                    BY <4>3, <2>k DEF MoreTypes, Result
                <5> QED BY <5>1 DEF ReplyOf
            <4> QED BY <4>1, <4>2, <4>3
        <3>2. \A k \in Keys : k # req[t].key => mine'[k] = mine[k]
            BY <2>k DEF MoreTypes
        <3> QED BY <3>1, <3>2, <2>k, <2>o, ReplySplit
    <2> QED BY <2>1, <2>2, <2>3, <2>4, <2>5, <2>6, <2>7
<1> QED BY <1>1, <1>2, <1>3, <1>4, <1>5, <1>6, <1>7, <1>8, <1>9, <1>10, <1>11, <1>12, <1>13
    DEF Next, ChunkStep

\* The invariant holds in every state of the storage.
LEMMA SInductive == Spec => []SInv
<1>1. Init => SInv
    <2> SUFFICES ASSUME Init PROVE SInv
        OBVIOUS
    <2> USE DEF Init
    <2>1. TypeOK
        <3>1. data \in [Objs -> Halves \X Halves] /\ buf \in [Threads -> Halves \X Halves]
            BY DEF Halves
        <3>2. table \in [Keys -> Objs \cup {None}] /\ hold \in [Threads -> Objs \cup {None}]
            OBVIOUS
        <3>3. device \in {"blank", "volume", "foreign"} /\ faults \in 0 .. MaxFaults
            OBVIOUS
        <3> QED BY <3>1, <3>2, <3>3 DEF TypeOK
    <2>2. MoreTypes
        BY DEF MoreTypes
    <2>3. ReqOk
        BY DEF ReqOk, ReqOf, Copying
    <2>4. VolOk
        BY DEF VolOk
    <2>5. TableOk
        BY DEF TableOk
    <2>6. OwnOk
        BY DEF OwnOk, Own, Busy, Changing
    <2>7. ReplyOk
        BY DEF ReplyOk, ReplyOf
    <2> QED BY <2>1, <2>2, <2>3, <2>4, <2>5, <2>6, <2>7 DEF SInv
<1>2. SInv /\ UNCHANGED vars => SInv'
    <2> SUFFICES ASSUME SInv, UNCHANGED vars PROVE SInv'
        OBVIOUS
    <2> USE DEF SInv, vars, volVars, thrVars
    <2>1. TypeOK' /\ MoreTypes'
        BY DEF TypeOK, MoreTypes
    <2>2. ReqOk'
        BY DEF ReqOk, ReqOf
    <2>3. VolOk' /\ TableOk'
        BY DEF VolOk, TableOk
    <2>4. OwnOk'
        BY DEF OwnOk, Own, Busy, Changing
    <2>5. ReplyOk'
        BY DEF ReplyOk, ReplyOf
    <2> QED BY <2>1, <2>2, <2>3, <2>4, <2>5
<1> QED BY <1>1, <1>2, SStep, PTL DEF Spec

-----------------------------------------------------------------------------
(* What follows from it.                                                   *)

\* VolumeLock, held shared by a chunk operation from its lookup to its reply:
\* Unmount cannot take the volume, or a chunk it copies, from under it.
THEOREM VolumeNotTakenAway == Spec => []VolumeStays
<1>1. SInv => VolumeStays
    BY DEF SInv, VolOk, TableOk, VolumeStays
<1> QED BY <1>1, SInductive, PTL

\* ~Volume and ~Journal: whatever part of Mount failed, the journal thread is
\* stopped before VolumeRef lets the volume go.
THEOREM JournalThreadStopped == Spec => []NoOrphanThread
<1>1. SInv => NoOrphanThread
    BY DEF SInv, VolOk, TypeOK, NoOrphanThread
<1> QED BY <1>1, SInductive, PTL

\* HandleChunkRead after HandleChunkWrite: a client that has a chunk of its own
\* reads what it wrote, although chunks are copied without a lock of their own.
THEOREM ClientReadsItsWrite == Spec => []ReadsOwnWrite
<1>1. SInv => ReadsOwnWrite
    BY DEF SInv, ReplyOk, ReplyOf, ReadsOwnWrite
<1> QED BY <1>1, SInductive, PTL

-----------------------------------------------------------------------------
(* The refinement of ChunkMap.                                             *)

\* The result of a call as its caller sees it.
ResOf(t) == CASE pc[t] = "leave" -> res[t]
              [] pc[t] \in {"write1", "write2", "read1", "read2"} -> "ok"
              [] OTHER -> "pending"

\* The abstract state: the call of a thread, all calls, and the chunks.
CallOf(t) ==
    IF pc[t] = "idle" THEN [op |-> "idle"]
    ELSE [op |-> req[t].op, key |-> req[t].key, res |-> ResOf(t)]

Chunks == {k \in Keys : table[k] # None}
Calls == [t \in Threads |-> CallOf(t)]

\* ChunkMap with that state.
Map == INSTANCE ChunkMap WITH exists <- Chunks, call <- Calls

\* Only thread t has moved.
LEMMA CallsOthers ==
    ASSUME NEW t \in Threads, Others(t)
    PROVE  Calls' = [Calls EXCEPT ![t] = CallOf(t)']
<1>1. \A u \in Threads : u # t => CallOf(u)' = CallOf(u)
    BY DEF Others, CallOf, ResOf
<1> QED BY <1>1 DEF Calls

\* A step of t that the abstract specification does not see.
LEMMA Stutter ==
    ASSUME NEW t \in Threads, Others(t), CallOf(t)' = CallOf(t), Chunks' = Chunks
    PROVE  UNCHANGED Map!vars
<1>1. Calls' = [Calls EXCEPT ![t] = CallOf(t)]
    BY CallsOthers
<1>2. Calls[t] = CallOf(t)
    BY DEF Calls
<1>3. Calls' = Calls
    BY <1>1, <1>2 DEF Calls
<1> QED BY <1>3 DEF Map!vars

\* The outcomes that ChunkMap allows an operation.
Outcome(op, k, r) ==
    \/ op = "create" /\ k \notin Chunks /\ r = "ok" /\ Chunks' = Chunks \cup {k}
    \/ op = "create" /\ k \notin Chunks /\ r = "ok" /\ Chunks' = Chunks
    \/ op = "create" /\ k \in Chunks /\ r = "exists" /\ Chunks' = Chunks
    \/ op = "delete" /\ k \in Chunks /\ r = "ok" /\ Chunks' = Chunks \ {k}
    \/ op \in {"write", "read"} /\ k \in Chunks /\ r = "ok" /\ Chunks' = Chunks
    \/ op # "create" /\ k \notin Chunks /\ r = "notfound" /\ Chunks' = Chunks
    \/ r = "refused" /\ Chunks' = Chunks

\* A step of t in which its operation happens.
LEMMA Happens ==
    ASSUME NEW t \in Threads, Others(t), NEW op, NEW k, NEW r,
           op # "idle", CallOf(t) = [op |-> op, key |-> k, res |-> "pending"],
           CallOf(t)' = [op |-> op, key |-> k, res |-> r], Outcome(op, k, r)
    PROVE  Map!Effect(t)
<1>1. Calls[t] = [op |-> op, key |-> k, res |-> "pending"]
    BY DEF Calls
<1>2. Calls' = [Calls EXCEPT ![t] = [op |-> op, key |-> k, res |-> r]]
    BY CallsOthers
<1>3. [Calls[t] EXCEPT !.res = r] = [op |-> op, key |-> k, res |-> r]
    BY <1>1
<1>4. Calls' = [Calls EXCEPT ![t].res = r]
    BY <1>2, <1>3
<1>5. /\ Calls[t].op = op /\ Calls[t].key = k /\ Calls[t].res = "pending"
      /\ Calls[t] # [op |-> "idle"]
    BY <1>1
<1> QED BY <1>4, <1>5 DEF Map!Effect, Map!Done, Map!Idle, Outcome

\* Before the operation has taken effect.
Waiting == {"enter", "create", "insert", "write", "read", "delete"}

\* The call of a thread, stage by stage.
LEMMA CallStages ==
    ASSUME NEW t \in Threads
    PROVE  /\ pc[t] = "idle" => CallOf(t) = [op |-> "idle"]
           /\ pc[t] \in Waiting =>
                CallOf(t) = [op |-> req[t].op, key |-> req[t].key, res |-> "pending"]
           /\ pc[t] \in Copying =>
                CallOf(t) = [op |-> req[t].op, key |-> req[t].key, res |-> "ok"]
           /\ pc[t] = "leave" =>
                CallOf(t) = [op |-> req[t].op, key |-> req[t].key, res |-> res[t]]
<1>1. pc[t] \in Waiting => ResOf(t) = "pending" /\ pc[t] # "idle"
    BY DEF Waiting, ResOf
<1>2. pc[t] \in Copying => ResOf(t) = "ok" /\ pc[t] # "idle"
    BY DEF Copying, ResOf
<1>3. pc[t] = "leave" => ResOf(t) = res[t]
    BY DEF ResOf
<1> QED BY <1>1, <1>2, <1>3 DEF CallOf

\* The same after a step.
LEMMA CallStagesNext ==
    ASSUME NEW t \in Threads
    PROVE  /\ pc'[t] = "idle" => CallOf(t)' = [op |-> "idle"]
           /\ pc'[t] \in Waiting =>
                CallOf(t)' = [op |-> req'[t].op, key |-> req'[t].key, res |-> "pending"]
           /\ pc'[t] \in Copying =>
                CallOf(t)' = [op |-> req'[t].op, key |-> req'[t].key, res |-> "ok"]
           /\ pc'[t] = "leave" =>
                CallOf(t)' = [op |-> req'[t].op, key |-> req'[t].key, res |-> res'[t]]
<1>1. pc'[t] \in Waiting => ResOf(t)' = "pending" /\ pc'[t] # "idle"
    BY DEF Waiting, ResOf
<1>2. pc'[t] \in Copying => ResOf(t)' = "ok" /\ pc'[t] # "idle"
    BY DEF Copying, ResOf
<1>3. pc'[t] = "leave" => ResOf(t)' = res'[t]
    BY DEF ResOf
<1> QED BY <1>1, <1>2, <1>3 DEF CallOf

\* Every step is a step of ChunkMap or leaves its state alone.
LEMMA MapStep == SInv /\ [Next]_vars => [Map!Next]_(Map!vars)
<1> SUFFICES ASSUME SInv, [Next]_vars PROVE Map!Next \/ UNCHANGED Map!vars
    OBVIOUS
<1> USE DEF SInv, volVars, thrVars, Fault, Goto, Finish
<1>0. ASSUME UNCHANGED <<table, pc, req, res>> PROVE UNCHANGED Map!vars
    BY <1>0 DEF Map!vars, Chunks, Calls, CallOf, ResOf
<1>1. ASSUME Mount \/ TestBegin \/ TestEnd \/ UNCHANGED vars PROVE UNCHANGED Map!vars
    <2>1. UNCHANGED <<table, pc, req, res>>
        BY <1>1 DEF Mount, TestBegin, TestEnd, vars
    <2> QED BY <2>1, <1>0
<1>2. ASSUME Unmount PROVE Map!Forget
    <2> USE <1>2 DEF Unmount
    <2>1. ASSUME NEW t \in Threads
          PROVE  Calls[t] = [op |-> "idle"] \/ Calls[t].res \in {"pending", "refused"}
        <3>1. pc[t] \in {"idle", "enter"} /\ Calls[t] = CallOf(t)
            BY DEF Exclusive, Readers, Calls
        <3> QED BY <3>1, CallStages DEF Waiting
    <2>2. Chunks' = {} /\ Calls' = Calls
        BY DEF Chunks, Calls, CallOf, ResOf
    <2> QED BY <2>1, <2>2 DEF Map!Forget, Map!Idle
<1>3. ASSUME NEW t \in Threads, Request(t)
      PROVE  \E op \in Map!Ops, k \in Keys : Map!Call(t, op, k)
    <2> USE <1>3 DEF Request
    <2>1. PICK op \in {"create", "write", "read", "delete"}, k \in KeysOf[t], v \in Vals :
              req' = [req EXCEPT ![t] = [op |-> op, key |-> k, val |-> v]]
        OBVIOUS
    <2>2. /\ req'[t] = [op |-> op, key |-> k, val |-> v] /\ k \in Keys
          /\ pc[t] = "idle" /\ pc'[t] = "enter" /\ Others(t) /\ table' = table
        BY <2>1 DEF TypeOK, MoreTypes, Others
    <2>3. Calls' = [Calls EXCEPT ![t] = [op |-> op, key |-> k, res |-> "pending"]]
        BY <2>2, CallsOthers, CallStagesNext DEF Waiting
    <2>4. Calls[t] = [op |-> "idle"]
        BY <2>2, CallStages DEF Calls
    <2>5. Map!Call(t, op, k)
        BY <2>2, <2>3, <2>4 DEF Map!Call, Map!Idle, Chunks
    <2> QED BY <2>2, <2>5 DEF Map!Ops
<1>4. ASSUME NEW t \in Threads, ChunkStep(t)
      PROVE  Map!Effect(t) \/ Map!Return(t) \/ UNCHANGED Map!vars
    <2>o. Others(t)
        BY <1>4 DEF ChunkStep, Enter, CreateLookup, CreateInsert, Lookup, WriteHalf,
           ReadHalf,
                    Delete, Leave, Others, TypeOK, MoreTypes
    <2>p. PICK op, k : op = req[t].op /\ k = req[t].key
        OBVIOUS
    <2>k. pc[t] # "idle" => /\ ReqOf(t) /\ op \in {"create", "write", "read", "delete"}
                            /\ k \in Keys
        BY <2>p DEF ReqOk, ReqOf, ReqRec
    <2>c. k \in Keys => (k \in Chunks <=> table[k] # None)
        BY DEF Chunks
    \* A step that stays within a stage, and one that takes effect.
    <2>s. ASSUME UNCHANGED table, req'[t] = req[t],
                 \/ pc[t] \in Waiting /\ pc'[t] \in Waiting
                 \/ pc[t] \in Copying /\ pc'[t] \in Copying
                 \/ pc[t] \in Copying /\ pc'[t] = "leave" /\ res'[t] = "ok"
          PROVE  UNCHANGED Map!vars
        <3>1. CallOf(t)' = CallOf(t)
            BY <2>s, CallStages, CallStagesNext
        <3>2. Chunks' = Chunks
            BY <2>s DEF Chunks
        <3> QED BY <3>1, <3>2, <2>o, Stutter
    <2>e. ASSUME pc[t] \in Waiting, req'[t] = req[t], NEW r,
                 (pc'[t] = "leave" /\ res'[t] = r) \/ (pc'[t] \in Copying /\ r = "ok"),
                 Outcome(op, k, r)
          PROVE  Map!Effect(t)
        <3>1. CallOf(t) = [op |-> op, key |-> k, res |-> "pending"]
            BY <2>e, <2>p, CallStages
        <3>2. CallOf(t)' = [op |-> op, key |-> k, res |-> r]
            BY <2>e, <2>p, CallStagesNext
        <3>3. op # "idle"
            BY <2>e, <2>k DEF Waiting
        <3> QED BY <2>e, <2>o, <3>1, <3>2, <3>3, Happens
    <2>t. UNCHANGED table => Chunks' = Chunks
        BY DEF Chunks
    <2>1. CASE Enter(t)
        <3> USE <2>1 DEF Enter
        <3>1. pc[t] \in Waiting /\ req'[t] = req[t] /\ UNCHANGED table
            BY DEF Waiting
        <3>2. CASE vol # None /\ vol.state = "Running"
            <4>1. pc'[t] \in Waiting
                BY <3>2, <2>k, <2>p DEF TypeOK, Waiting
            <4> QED BY <3>1, <4>1, <2>s
        <3>3. CASE ~(vol # None /\ vol.state = "Running")
            <4>1. pc'[t] = "leave" /\ res'[t] = "refused"
                BY <3>3 DEF TypeOK
            <4> QED BY <3>1, <4>1, <2>e, <2>t DEF Outcome
        <3> QED BY <3>2, <3>3
    <2>2. CASE CreateLookup(t)
        <3> USE <2>2 DEF CreateLookup
        <3>1. /\ pc[t] \in Waiting /\ req'[t] = req[t] /\ UNCHANGED table
              /\ op = "create" /\ k \in Keys
            BY <2>k, <2>p DEF Waiting, ReqOf
        <3>2. \/ k \in Chunks /\ pc'[t] = "leave" /\ res'[t] = "exists"
              \/ pc'[t] \in Waiting
              \/ pc'[t] = "leave" /\ res'[t] = "refused"
            BY <3>1, <2>c, <2>p DEF TypeOK, Waiting
        <3> QED BY <3>1, <3>2, <2>s, <2>e, <2>t DEF Outcome
    <2>3. CASE CreateInsert(t)
        <3> USE <2>3 DEF CreateInsert
        <3>1. /\ pc[t] \in Waiting /\ req'[t] = req[t] /\ pc'[t] = "leave"
              /\ op = "create" /\ k \in Keys
            BY <2>k, <2>p DEF Waiting, ReqOf, TypeOK
        <3>2. CASE UNCHANGED table
            <4>1. res'[t] = "refused" \/ (table[k] = None /\ res'[t] = "ok")
                BY <2>p, <3>2 DEF TypeOK
            <4> QED BY <3>1, <3>2, <4>1, <2>c, <2>e, <2>t DEF Outcome
        <3>3. CASE table' # table
            <4>1. PICK o : table[k] = None /\ res'[t] = "ok" /\ table' = [table EXCEPT ![k] = o]
                           /\ o = CHOOSE x \in Free : TRUE
                BY <2>p, <3>3 DEF TypeOK
            <4>2. o \in Free /\ o # None
                <5>1. Free # {}
                    BY <3>1, <4>1, FreeObj
                <5>2. Cardinality(Keys) + Cardinality(Threads) \in Nat
                    BY FS_CardinalityType
                <5>3. None \notin Free
                    BY <5>2 DEF Free, Objs
                <5> QED BY <4>1, <5>1, <5>3
            <4>3. Chunks' = Chunks \cup {k}
                BY <3>1, <4>1, <4>2 DEF Chunks, TypeOK
            <4> QED BY <3>1, <4>1, <4>3, <2>c, <2>e DEF Outcome
        <3> QED BY <3>2, <3>3
    <2>4. CASE Lookup(t)
        <3> USE <2>4 DEF Lookup
        <3>1. /\ pc[t] \in Waiting /\ req'[t] = req[t] /\ UNCHANGED table
              /\ op \in {"write", "read"} /\ k \in Keys
            BY <2>k, <2>p DEF Waiting, ReqOf
        <3>2. \/ k \notin Chunks /\ pc'[t] = "leave" /\ res'[t] = "notfound"
              \/ k \in Chunks /\ pc'[t] \in Copying
            BY <3>1, <2>c, <2>p DEF TypeOK, Copying
        <3> QED BY <3>1, <3>2, <2>e, <2>t DEF Outcome
    <2>5. ASSUME NEW i \in {1, 2}, WriteHalf(t, i) \/ ReadHalf(t, i) PROVE UNCHANGED Map!vars
        <3>1. /\ pc[t] \in Copying /\ req'[t] = req[t] /\ UNCHANGED table
              /\ pc'[t] \in Copying \/ (pc'[t] = "leave" /\ res'[t] = "ok")
            BY <2>5 DEF WriteHalf, ReadHalf, TypeOK, Copying
        <3> QED BY <3>1, <2>s
    <2>6. CASE Delete(t)
        <3> USE <2>6 DEF Delete
        <3>1. /\ pc[t] \in Waiting /\ req'[t] = req[t] /\ pc'[t] = "leave"
              /\ op = "delete" /\ k \in Keys
            BY <2>k, <2>p DEF Waiting, ReqOf, TypeOK
        <3>2. Chunks' = Chunks \ {k}
            BY <3>1, <2>p DEF Chunks, TypeOK
        <3>3. \/ k \notin Chunks /\ res'[t] = "notfound"
              \/ k \in Chunks /\ res'[t] = "ok"
            BY <3>1, <2>c, <2>p DEF TypeOK
        <3> QED BY <3>1, <3>2, <3>3, <2>e DEF Outcome
    <2>7. CASE Leave(t)
        <3> USE <2>7 DEF Leave
        <3>1. pc'[t] = "idle" /\ pc[t] = "leave" /\ UNCHANGED table /\ res[t] \in Errors
              /\ op # "idle"
            BY <2>k DEF TypeOK, ReqOf
        <3>2. Calls' = [Calls EXCEPT ![t] = [op |-> "idle"]]
            BY <3>1, <2>o, CallsOthers, CallStagesNext
        <3>3. Calls[t] = [op |-> op, key |-> k, res |-> res[t]]
            BY <3>1, <2>p, CallStages DEF Calls
        <3>4. Calls[t] # [op |-> "idle"] /\ Calls[t].res # "pending"
            BY <3>1, <3>3 DEF Errors
        <3> QED BY <3>1, <3>2, <3>4, <2>t DEF Map!Return, Map!Idle
    <2> QED BY <1>4, <2>1, <2>2, <2>3, <2>4, <2>5, <2>6, <2>7 DEF ChunkStep
<1> QED BY <1>1, <1>2, <1>3, <1>4 DEF Next, Map!Next

\* Every chunk operation finds, adds or removes its chunk in one step between
\* its call and its return, and its result tells of that step: which chunks
\* exist, though not what they hold, is what Volume::Chunk* over the hash table
\* promises in ChunkMap.
THEOREM ChunkExistenceAtomic == Spec => AtomicExistence
<1>1. Init => Impl!Init
    BY DEF Init, Impl!Init, Impl!Idle
<1>2. [Map!Next]_(Map!vars) => [Impl!Next]_(Impl!vars)
    BY DEF Map!Next, Map!Effect, Map!Done, Map!Return, Map!Call, Map!Forget, Map!Idle,
       Map!Ops,
           Map!vars, Impl!Next, Impl!Effect, Impl!Done, Impl!Return, Impl!Call, Impl!Forget,
           Impl!Idle, Impl!Ops, Impl!vars, Calls, CallOf, ResOf, Chunks
<1> QED BY <1>1, <1>2, MapStep, SInductive, PTL DEF Spec, AtomicExistence, Impl!Spec
=============================================================================
