---------------------------- MODULE JournalProofs ----------------------------
(***************************************************************************)
(* Proofs about the ring and the journal for any number of transactions,   *)
(* any capacity, any pages and any pattern of crashes and failures.  The   *)
(* ring: a push hands out slots that are not in use, an erase gives back   *)
(* exactly the erased slots, and end stays start advanced by size.  The    *)
(* journal: type correctness, the durability of committed transactions in  *)
(* the log, the stability of commit decisions, the invisibility of failed  *)
(* commits, and that a sound log is replayed to its end.                   *)
(***************************************************************************)
EXTENDS JournalInv, TLAPS

-----------------------------------------------------------------------------
(* The ring's index arithmetic                                             *)

\* Every sum of the ring's arithmetic is below twice the capacity, where %
\* subtracts the capacity at most once.
LEMMA ModOnce ==
    ASSUME NEW a \in Nat, a < Capacity + Capacity
    PROVE  Wrap(a) = IF a < Capacity THEN a ELSE a - Capacity
<1>1. CASE a < Capacity
    BY <1>1, CapacityAssumption, SMT DEF Wrap
<1>2. CASE ~(a < Capacity)
    BY <1>2, CapacityAssumption, SMT DEF Wrap
<1> QED BY <1>1, <1>2

\* The slots in use, without %: k steps from start, wrapped at most once.
LEMMA UsedSlots ==
    ASSUME NEW rb \in Ring, NEW i
    PROVE  i \in Used(rb) <=>
             \E k \in 0 .. rb.size - 1 :
                i = IF rb.start + k < Capacity THEN rb.start + k
                                               ELSE rb.start + k - Capacity
<1>1. \A k \in 0 .. rb.size - 1 : rb.start + k \in Nat /\ rb.start + k < Capacity + Capacity
    BY CapacityAssumption DEF Ring, Slot
<1>2. \A k \in 0 .. rb.size - 1 :
         Wrap(rb.start + k) = IF rb.start + k < Capacity THEN rb.start + k
                                     ELSE rb.start + k - Capacity
    BY <1>1, ModOnce, CapacityAssumption DEF Ring, Slot
<1> QED BY <1>2 DEF Used

\* The n slots that n pushes hand out, without %.
LEMMA PushedSlots ==
    ASSUME NEW rb \in Ring, NEW n \in Nat, n <= Capacity - rb.size
    PROVE  /\ Pushed(rb, n) \in Seq(Slot) /\ Len(Pushed(rb, n)) = n
           /\ DOMAIN Pushed(rb, n) = 1 .. n
           /\ \A k \in 1 .. n : Pushed(rb, n)[k] =
                IF rb.end + k - 1 < Capacity THEN rb.end + k - 1
                                             ELSE rb.end + k - 1 - Capacity
<1>1. \A k \in 1 .. n : rb.end + k - 1 \in Nat /\ rb.end + k - 1 < Capacity + Capacity
    BY CapacityAssumption DEF Ring, Slot
<1>2. \A k \in 1 .. n :
         Wrap(rb.end + k - 1) = IF rb.end + k - 1 < Capacity THEN rb.end + k - 1
                                       ELSE rb.end + k - 1 - Capacity
    BY <1>1, ModOnce, CapacityAssumption DEF Ring, Slot
<1>3. \A k \in 1 .. n : Wrap(rb.end + k - 1) \in Slot
    BY <1>1, <1>2, CapacityAssumption DEF Ring, Slot
<1>4. Pushed(rb, n) \in Seq(Slot) /\ Len(Pushed(rb, n)) = n /\ DOMAIN Pushed(rb, n) = 1 .. n
    BY <1>3 DEF Pushed
<1> QED BY <1>2, <1>4 DEF Pushed

\* PushBack, n times: the ring stays consistent, the slots are distinct, were
\* not in use, and are in use afterwards.
LEMMA PushLemma ==
    ASSUME NEW rb \in Ring, RingOk(rb), NEW n \in Nat, n <= Capacity - rb.size
    PROVE  /\ PushMany(rb, n) \in Ring
           /\ RingOk(PushMany(rb, n))
           /\ \A j, k \in 1 .. n : Pushed(rb, n)[j] = Pushed(rb, n)[k] => j = k
           /\ \A k \in 1 .. n : Pushed(rb, n)[k] \notin Used(rb)
           /\ \A k \in 1 .. n : Pushed(rb, n)[k] \in Used(PushMany(rb, n))
           /\ Used(rb) \subseteq Used(PushMany(rb, n))
<1> DEFINE r == PushMany(rb, n)
<1>1. /\ rb.start \in Nat /\ rb.start < Capacity /\ rb.end \in Nat /\ rb.end < Capacity
      /\ rb.size \in Nat /\ rb.size <= Capacity /\ Capacity \in Nat
    BY CapacityAssumption DEF Ring, Slot
<1>2. /\ Wrap(rb.end + n) = IF rb.end + n < Capacity THEN rb.end + n
                                   ELSE rb.end + n - Capacity
      /\ rb.end = IF rb.start + rb.size < Capacity THEN rb.start + rb.size
                  ELSE rb.start + rb.size - Capacity
    <2>1. rb.end + n \in Nat /\ rb.end + n < Capacity + Capacity
        BY <1>1
    <2>2. rb.start + rb.size \in Nat /\ rb.start + rb.size < Capacity + Capacity
        BY <1>1
    <2> QED BY <1>1, <2>1, <2>2, ModOnce DEF RingOk
<1>3. r \in Ring /\ r.start = rb.start /\ r.size = rb.size + n
      /\ r.end = Wrap(rb.end + n)
    BY <1>1, <1>2 DEF PushMany, Ring, Slot
<1>4. RingOk(r)
    <2>1. rb.start + r.size \in Nat /\ rb.start + r.size < Capacity + Capacity
        BY <1>1, <1>3
    <2>2. Wrap(rb.start + r.size) =
             IF rb.start + r.size < Capacity THEN rb.start + r.size
             ELSE rb.start + r.size - Capacity
        BY <1>1, <1>3, <2>1, ModOnce
    <2> QED BY <1>1, <1>2, <1>3, <2>2 DEF RingOk
<1>5. \A k \in 1 .. n : Pushed(rb, n)[k] =
         IF rb.end + k - 1 < Capacity THEN rb.end + k - 1 ELSE rb.end + k - 1 - Capacity
    BY PushedSlots
<1>6. \A j, k \in 1 .. n : Pushed(rb, n)[j] = Pushed(rb, n)[k] => j = k
    BY <1>1, <1>5
<1>7. \A k \in 1 .. n : Pushed(rb, n)[k] \notin Used(rb)
    BY <1>1, <1>2, <1>5, UsedSlots
<1>8. \A k \in 1 .. n : Pushed(rb, n)[k] \in Used(r)
    <2> TAKE k \in 1 .. n
    <2>1. rb.size + k - 1 \in 0 .. r.size - 1
        BY <1>1, <1>3
    <2>2. Pushed(rb, n)[k] = IF r.start + (rb.size + k - 1) < Capacity
                             THEN r.start + (rb.size + k - 1)
                             ELSE r.start + (rb.size + k - 1) - Capacity
        BY <1>1, <1>2, <1>3, <1>5
    <2> QED BY <1>3, <2>1, <2>2, UsedSlots
<1>9. Used(rb) \subseteq Used(r)
    BY <1>1, <1>3 DEF Used
<1> HIDE DEF r
<1> QED BY <1>3, <1>4, <1>6, <1>7, <1>8, <1>9 DEF r

\* Erase: the ring stays consistent and every other slot in use stays in use.
LEMMA EraseLemma ==
    ASSUME NEW rb \in Ring, RingOk(rb), NEW list \in Seq(Slot), EraseOk(rb, list)
    PROVE  /\ Erase(rb, list) \in Ring
           /\ RingOk(Erase(rb, list))
           /\ \A i \in Used(rb) : i \in Range(list) \/ i \in Used(Erase(rb, list))
<1> DEFINE r == Erase(rb, list)
<1> DEFINE n == Len(list)
<1>1. /\ rb.start \in Nat /\ rb.start < Capacity /\ rb.end \in Nat /\ rb.end < Capacity
      /\ rb.size \in Nat /\ rb.size <= Capacity /\ Capacity \in Nat
      /\ n \in Nat /\ n <= rb.size
    BY CapacityAssumption DEF Ring, Slot, EraseOk
<1>2. /\ Wrap(rb.start + n) = IF rb.start + n < Capacity THEN rb.start + n
                                     ELSE rb.start + n - Capacity
      /\ rb.end = IF rb.start + rb.size < Capacity THEN rb.start + rb.size
                  ELSE rb.start + rb.size - Capacity
    <2>1. rb.start + n \in Nat /\ rb.start + n < Capacity + Capacity
        BY <1>1
    <2>2. rb.start + rb.size \in Nat /\ rb.start + rb.size < Capacity + Capacity
        BY <1>1
    <2> HIDE DEF n
    <2> QED BY <1>1, <2>1, <2>2, ModOnce, SMTT(20) DEF RingOk
<1> HIDE DEF n
<1>3. r \in Ring /\ r.start = Wrap(rb.start + n) /\ r.size = rb.size - n
      /\ r.end = rb.end /\ r.start \in Nat /\ r.start < Capacity /\ r.size \in Nat
    BY <1>1, <1>2, SMTT(20) DEF Erase, Ring, Slot, n
<1> HIDE DEF r
<1>3a. /\ r.start = IF rb.start + n < Capacity THEN rb.start + n
                    ELSE rb.start + n - Capacity
       /\ r.size = rb.size - n /\ r.end = rb.end
    BY <1>2, <1>3
<1>4. RingOk(r)
    <2>1. r.start + r.size \in Nat /\ r.start + r.size < Capacity + Capacity
        BY <1>1, <1>3, SMTT(20)
    <2>2. Wrap(r.start + r.size) =
             IF r.start + r.size < Capacity THEN r.start + r.size
             ELSE r.start + r.size - Capacity
        BY <1>1, <1>3, <2>1, ModOnce, SMTT(20)
    <2>3. rb.end = IF r.start + r.size < Capacity THEN r.start + r.size
                   ELSE r.start + r.size - Capacity
        <3>1. CASE rb.start + n < Capacity
            BY <1>1, <1>2, <1>3a, <3>1
        <3>2. CASE ~(rb.start + n < Capacity)
            <4>1. r.start = rb.start + n - Capacity /\ ~(rb.start + rb.size < Capacity)
                BY <1>1, <1>3a, <3>2
            <4>2. r.start + r.size = rb.start + rb.size - Capacity
                BY <1>1, <1>3a, <4>1
            <4>3. rb.end = rb.start + rb.size - Capacity /\ rb.start + rb.size - Capacity < Capacity
                BY <1>1, <1>2, <4>1
            <4> QED BY <4>2, <4>3
        <3> QED BY <3>1, <3>2
    <2>4. r.end = Wrap(r.start + r.size)
        BY <1>3a, <2>2, <2>3, Zenon
    <2> QED BY <2>4 DEF RingOk
<1>5. ASSUME NEW i \in Used(rb)
      PROVE  i \in Range(list) \/ i \in Used(r)
    <2>1. PICK k \in 0 .. rb.size - 1 :
             i = IF rb.start + k < Capacity THEN rb.start + k ELSE rb.start + k - Capacity
        BY UsedSlots
    <2>2. CASE k < n
        <3>1. k + 1 \in 1 .. Len(list) /\ (rb.start + (k + 1) - 1) = rb.start + k
            BY <2>2, <1>1 DEF n
        <3>2. list[k + 1] = Wrap(rb.start + k)
            BY <3>1 DEF EraseOk
        <3>3. rb.start + k \in Nat /\ rb.start + k < Capacity + Capacity
            BY <1>1
        <3>4. list[k + 1] = i
            BY <1>1, <2>1, <3>2, <3>3, ModOnce
        <3>5. k + 1 \in DOMAIN list
            BY <3>1
        <3> QED BY <3>4, <3>5 DEF Range
    <2>3. CASE ~(k < n)
        <3>1. k - n \in 0 .. r.size - 1
            BY <1>1, <1>3, <2>3
        <3>2. i = IF r.start + (k - n) < Capacity THEN r.start + (k - n)
                  ELSE r.start + (k - n) - Capacity
            <4>1. CASE rb.start + n < Capacity
                BY <1>1, <1>3a, <2>1, <2>3, <4>1
            <4>2. CASE ~(rb.start + n < Capacity)
                <5>1. ~(rb.start + k < Capacity) /\ r.start = rb.start + n - Capacity
                    BY <1>1, <1>3a, <2>3, <4>2
                <5>2. i = rb.start + k - Capacity /\ k < rb.size /\ k \in Nat
                    BY <1>1, <2>1, <5>1
                <5>3. r.start + (k - n) = rb.start + k - Capacity /\ r.start + (k - n) < Capacity
                    BY <1>1, <5>1, <5>2, SMTT(20)
                <5> QED BY <5>2, <5>3
            <4> QED BY <4>1, <4>2
        <3> QED BY <1>3, <3>1, <3>2, UsedSlots
    <2> QED BY <2>2, <2>3
<1> QED BY <1>3, <1>4, <1>5 DEF r

\* PopFront is Erase of the front slot: the ring stays consistent.
LEMMA PopLemma ==
    ASSUME NEW rb \in Ring, RingOk(rb), PopOk(rb)
    PROVE  PopFront(rb) \in Ring /\ RingOk(PopFront(rb))
<1> DEFINE r == PopFront(rb)
<1>1. /\ rb.start \in Nat /\ rb.start < Capacity /\ rb.end \in Nat /\ rb.end < Capacity
      /\ rb.size \in Nat /\ rb.size <= Capacity /\ Capacity \in Nat /\ rb.size # 0
    BY CapacityAssumption DEF Ring, Slot, PopOk
<1>2. /\ Wrap(rb.start + 1) = IF rb.start + 1 < Capacity THEN rb.start + 1
                                     ELSE rb.start + 1 - Capacity
      /\ rb.end = IF rb.start + rb.size < Capacity THEN rb.start + rb.size
                  ELSE rb.start + rb.size - Capacity
    <2>1. rb.start + 1 \in Nat /\ rb.start + 1 < Capacity + Capacity
        BY <1>1
    <2>2. rb.start + rb.size \in Nat /\ rb.start + rb.size < Capacity + Capacity
        BY <1>1
    <2> QED BY <1>1, <2>1, <2>2, ModOnce DEF RingOk
<1>3. r \in Ring /\ r.start = Wrap(rb.start + 1) /\ r.size = rb.size - 1
      /\ r.end = rb.end
    BY <1>1, <1>2 DEF PopFront, Ring, Slot
<1>4. RingOk(r)
    <2>1. r.start + r.size \in Nat /\ r.start + r.size < Capacity + Capacity
        BY <1>1, <1>2, <1>3
    <2>2. Wrap(r.start + r.size) =
             IF r.start + r.size < Capacity THEN r.start + r.size
             ELSE r.start + r.size - Capacity
        BY <1>1, <1>3, <2>1, ModOnce
    <2> QED BY <1>1, <1>2, <1>3, <2>2 DEF RingOk
<1> QED BY <1>3, <1>4 DEF r

\* Reset accepts exactly the consistent rings that are not full: the header of
\* a full log, which PushBack can produce, is refused at the next Load.
THEOREM ResetRefusesOnlyFull ==
    ASSUME NEW rb \in Ring, RingOk(rb)
    PROVE  ResetOk(rb) <=> rb.size < Capacity
<1>1. /\ rb.start \in Nat /\ rb.start < Capacity /\ rb.end \in Nat /\ rb.end < Capacity
      /\ rb.size \in Nat /\ rb.size <= Capacity /\ Capacity \in Nat
    BY CapacityAssumption DEF Ring, Slot
<1>2. rb.start + rb.size \in Nat /\ rb.start + rb.size < Capacity + Capacity
    BY <1>1
<1>3. rb.end = IF rb.start + rb.size < Capacity THEN rb.start + rb.size
               ELSE rb.start + rb.size - Capacity
    BY <1>1, <1>2, ModOnce DEF RingOk
<1> QED BY <1>1, <1>3 DEF ResetOk

-----------------------------------------------------------------------------
(* Types of the helpers                                                    *)

\* The blocks of a transaction are blocks.
LEMMA TxBlockType ==
    ASSUME TypeOK, NEW t \in Tx
    PROVE  /\ TxData(t) \subseteq Block
           /\ TxLen(t) \in Nat /\ TxLen(t) >= 2
           /\ \A k \in 1 .. TxLen(t) : TxBlock(t, k) \in Block
<1>1. blocks[t] \in Seq(Pos) /\ Len(blocks[t]) \in Nat
    BY DEF TypeOK
<1>2. \A i \in 1 .. Len(blocks[t]) : DataBlock(t, i) \in Block
    BY <1>1 DEF DataBlock, Block
<1>3. BeginBlock(t) \in Block /\ CommitBlock(t) \in Block
    BY <1>1 DEF BeginBlock, CommitBlock, Block
<1>4. TxLen(t) \in Nat /\ TxLen(t) >= 2
    BY <1>1 DEF TxLen
<1>5. \A k \in 1 .. TxLen(t) : k # 1 /\ k # TxLen(t) => k - 1 \in 1 .. Len(blocks[t])
    BY <1>1 DEF TxLen
<1> QED BY <1>2, <1>3, <1>4, <1>5 DEF TxBlock, TxData

\* The two contents that are no transaction's block are blocks too.
LEMMA TornType == Torn \in Block /\ Blank \in Block
BY DEF Torn, Blank, Block

\* The device operations keep the types of the home positions.
LEMMA HomeType ==
    ASSUME TypeOK, NEW bs \in SUBSET Block
    PROVE  /\ SubmitHome(bs) => homeMedia' \in [Pos -> SUBSET Block]
           /\ CompleteHome(bs) \in [Pos -> SUBSET Block]
           /\ FailHome(bs) \in [Pos -> SUBSET Block]
<1>1. \A x : ValuesAt(bs, x) \subseteq Block
    BY DEF ValuesAt
<1>2. homeLive \in [Pos -> SUBSET Block] /\ homeMedia \in [Pos -> SUBSET Block]
    BY DEF TypeOK
<1> QED BY <1>1, <1>2, TornType DEF SubmitHome, CompleteHome, FailHome

\* A flush of the device's cache keeps the types of the home positions.
LEMMA FlushCacheType ==
    ASSUME TypeOK, FlushCache
    PROVE  homeMedia' \in [Pos -> SUBSET Block]
<1>1. \A t \in Tx : \A x : ValuesAt(TxData(t), x) \subseteq Block
    BY TxBlockType DEF ValuesAt
<1>2. \A x : InFlight(x) \subseteq Block
    BY <1>1, TornType DEF InFlight
<1>3. homeLive \in [Pos -> SUBSET Block]
    BY DEF TypeOK
<1> QED BY <1>2, <1>3 DEF FlushCache

\* In a flush every transaction of the round is placed, so the bios of the
\* round carry blocks of transactions.
LEMMA BatchPlaced ==
    ASSUME IInv, \/ tpc = "write" /\ nwritten = Len(batch)
                 \/ fpc = "blocks"
    PROVE  /\ \A i \in DOMAIN batch : batch[i] \in Tx /\ Placed(batch[i])
           /\ \A i : BatchBlock(i) \subseteq Block
<1>1. tpc \in {"write", "flush"} /\ DOMAIN batch = 1 .. Len(batch)
      /\ \A i \in DOMAIN batch : batch[i] \in Tx
    BY DEF IInv, Modes, TypeOK
<1>2. \A i \in DOMAIN batch : InRound(batch[i])
    BY <1>1 DEF InRound, IInv, Modes
<1>3. \A i \in DOMAIN batch : batch[i] \in txTable /\ txState[batch[i]] = "Commiting"
    BY <1>1 DEF IInv, QueueOk
<1>4. \A i \in DOMAIN batch : Placed(batch[i])
    BY <1>1, <1>2, <1>3 DEF Placed, IInv, TxOk
<1>5. \A i \in DOMAIN batch : DOMAIN indexList[batch[i]] = 1 .. TxLen(batch[i])
    <2>1. \A t \in Tx : DOMAIN indexList[t] = 1 .. Len(indexList[t])
        BY DEF IInv, TypeOK
    <2> QED BY <1>1, <1>4, <2>1 DEF IInv, PlacedInRing
<1>6. \A t \in Tx : \A k \in 1 .. TxLen(t) : TxBlock(t, k) \in Block
    BY TxBlockType DEF IInv
<1>7. \A t \in Range(batch) : \A k \in DOMAIN indexList[t] : TxBlock(t, k) \in Block
    BY <1>1, <1>5, <1>6 DEF Range
<1> QED BY <1>1, <1>4, <1>7 DEF BatchBlock

-----------------------------------------------------------------------------
(* Type correctness and consistent rings                                   *)

\* The ring of a new Journal object, and of a formatted volume, is consistent.
LEMMA EmptyRingOk == EmptyRing \in Ring /\ RingOk(EmptyRing)
<1> USE CapacityAssumption
<1>1. 0 \in Nat /\ 0 < Capacity + Capacity /\ 0 < Capacity /\ 0 + 0 = 0
    OBVIOUS
<1>2. Wrap(0) = 0
    BY <1>1, ModOnce
<1>3. EmptyRing \in Ring
    BY DEF EmptyRing, Ring, Slot
<1> QED BY <1>1, <1>2, <1>3 DEF EmptyRing, RingOk

\* The strengthened invariant holds initially.
LEMMA InitInv == Init => IInv
<1> SUFFICES ASSUME Init PROVE IInv
    OBVIOUS
<1> USE CapacityAssumption, JournalAssumption, TornType
<1>1. EmptyRing \in Ring /\ RingOk(EmptyRing)
    BY EmptyRingOk
<1>2. TypeOK
    <2>1. log \in [Slot -> SUBSET Block] /\ homeLive \in [Pos -> SUBSET Block]
          /\ homeMedia \in [Pos -> SUBSET Block]
        BY DEF Init
    <2>2. /\ rlist \in Seq(Block) /\ txList \in Seq(Tx) /\ batch \in Seq(Tx)
          /\ blocks \in [Tx -> Seq(Pos)] /\ indexList \in [Tx -> Seq(Slot)]
          /\ event \in [Tx -> BOOLEAN] /\ pred \in [Tx -> SUBSET Tx]
        BY DEF Init
    <2>3. /\ txState \in [Tx -> {"None", "New", "Commiting", "Commited", "Canceled"}]
          /\ pc \in [Tx -> {"none", "open", "waiting", "applying", "applied",
                            "returned", "lost"}]
        BY DEF Init
    <2> QED BY <1>1, <2>1, <2>2, <2>3 DEF Init, TypeOK
<1>3. RingsOk
    BY <1>1 DEF Init, RingsOk
<1>4. Modes /\ QueueOk /\ TxOk /\ RoundDurable
    BY DEF Init, Modes, QueueOk, TxOk, RoundDurable
<1>5. \A t \in Tx : ~Placed(t) /\ ~Logged(t)
    BY DEF Init, Placed, Logged
<1> QED BY <1>2, <1>3, <1>4, <1>5 DEF IInv, PlacedInRing, PlacedDisjoint,
   CommittedDurable

\* A new Journal object: the memory variables have their initial values.
LEMMA ForgetType ==
    ASSUME TypeOK, Forget
    PROVE  /\ jstate' = "New" /\ mpc' = "idle" /\ rlist' \in Seq(Block)
           /\ ring' \in Ring /\ RingOk(ring')
           /\ txTable' = {} /\ txList' \in Seq(Tx) /\ toErase' = {}
           /\ tpc' = "none" /\ batch' \in Seq(Tx) /\ nwritten' \in Nat
           /\ berr' \in BOOLEAN /\ fpc' = "none"
           /\ indexList' \in [Tx -> Seq(Slot)]
           /\ pc' \in [Tx -> {"none", "open", "waiting", "applying", "applied",
                             "returned", "lost"}]
           /\ UNCHANGED <<txState, blocks, event, log, hdr, pred, erased, taint>>
<1>1. pc' \in [Tx -> {"none", "open", "waiting", "applying", "applied",
                      "returned", "lost"}]
    BY DEF Forget, TypeOK
<1>2. indexList' \in [Tx -> Seq(Slot)] /\ rlist' \in Seq(Block)
      /\ txList' \in Seq(Tx) /\ batch' \in Seq(Tx)
    BY DEF Forget
<1> QED BY <1>1, <1>2, EmptyRingOk DEF Forget

\* Every step keeps the types and the consistency of the rings: slots are pushed
\* only when free, and popped or erased only when in use.
LEMMA TypeStep == IInv /\ [Next]_vars => TypeOK' /\ RingsOk'
<1> SUFFICES ASSUME IInv, [Next]_vars PROVE TypeOK' /\ RingsOk'
    OBVIOUS
<1>0. TypeOK /\ RingsOk
    BY DEF IInv
<1> USE <1>0 DEF mountVars, tableVars, threadVars, txVars, homeVars, histVars
<1>1. ASSUME NEW t \in Tx, BeginTx(t) PROVE TypeOK' /\ RingsOk'
    BY <1>1 DEF BeginTx, TypeOK, RingsOk
<1>2. ASSUME NEW t \in Tx, NEW page \in Pages, Write(t, page) PROVE TypeOK' /\ RingsOk'
    <2>1. blocks[t] \o page \in Seq(Pos)
        BY JournalAssumption DEF TypeOK
    <2> QED BY <1>2, <2>1 DEF Write, TypeOK, RingsOk
<1>3. ASSUME NEW t \in Tx, Abandon(t) PROVE TypeOK' /\ RingsOk'
    BY <1>3 DEF Abandon, TypeOK, RingsOk
<1>4. ASSUME NEW t \in Tx, Commit(t) PROVE TypeOK' /\ RingsOk'
    <2>1. Acked \in SUBSET Tx /\ Append(txList, t) \in Seq(Tx)
        BY DEF Acked, TypeOK
    <2>2. taint' \subseteq taint \cup {"empty"}
        BY <1>4 DEF Commit
    <2> QED BY <1>4, <2>1, <2>2 DEF Commit, TypeOK, RingsOk
<1>5. ASSUME NEW t \in Tx, CommitRefused(t) PROVE TypeOK' /\ RingsOk'
    BY <1>5 DEF CommitRefused, TypeOK, RingsOk
<1>6. ASSUME NEW t \in Tx, CommitFailed(t) PROVE TypeOK' /\ RingsOk'
    BY <1>6 DEF CommitFailed, TypeOK, RingsOk
<1>7. ASSUME NEW t \in Tx, Apply(t) PROVE TypeOK' /\ RingsOk'
    <2>1. homeMedia' \in [Pos -> SUBSET Block]
        BY <1>7, TxBlockType, HomeType DEF Apply
    <2> QED BY <1>7, <2>1 DEF Apply, TypeOK, RingsOk
<1>8. ASSUME NEW t \in Tx, ApplyDone(t) PROVE TypeOK' /\ RingsOk'
    <2>1. homeLive' \in [Pos -> SUBSET Block]
        BY <1>8, TxBlockType, HomeType DEF ApplyDone
    <2> QED BY <1>8, <2>1 DEF ApplyDone, TypeOK, RingsOk
<1>9. ASSUME NEW t \in Tx, ApplyFailed(t) PROVE TypeOK' /\ RingsOk'
    <2>1. homeLive' \in [Pos -> SUBSET Block]
        BY <1>9, TxBlockType, HomeType DEF ApplyFailed
    <2> QED BY <1>9, <2>1 DEF ApplyFailed, TypeOK, RingsOk
<1>10. ASSUME NEW t \in Tx, EraseTx(t) PROVE TypeOK' /\ RingsOk'
    BY <1>10 DEF EraseTx, TypeOK, RingsOk
<1>11. ASSUME CheckStopping PROVE TypeOK' /\ RingsOk'
    BY <1>11 DEF CheckStopping, TypeOK, RingsOk
<1>12. ASSUME NoWork PROVE TypeOK' /\ RingsOk'
    BY <1>12 DEF NoWork, TypeOK, RingsOk
<1>13. ASSUME TakeBatch PROVE TypeOK' /\ RingsOk'
    BY <1>13 DEF TakeBatch, TypeOK, RingsOk
<1>14. ASSUME WriteTx PROVE TypeOK' /\ RingsOk'
    <2> DEFINE t == batch[nwritten + 1]
    <2>1. t \in Tx /\ nwritten' \in Nat
        BY <1>14 DEF WriteTx, TypeOK
    <2>2. TxLen(t) \in Nat /\ TxLen(t) <= Capacity - ring.size
        BY <1>14, <2>1, TxBlockType DEF WriteTx
    <2>3. ring' \in Ring /\ RingOk(ring') /\ Pushed(ring, TxLen(t)) \in Seq(Slot)
        <3>1. ring \in Ring /\ RingOk(ring) /\ ring' = PushMany(ring, TxLen(t))
            BY <1>14 DEF WriteTx, TypeOK, RingsOk
        <3> HIDE DEF t
        <3> QED BY <2>2, <3>1, PushLemma, PushedSlots
    <2>4. indexList' = [indexList EXCEPT ![t] = Pushed(ring, TxLen(t))]
        BY <1>14 DEF WriteTx
    <2> HIDE DEF t
    <2>5. indexList' \in [Tx -> Seq(Slot)]
        BY <2>1, <2>3, <2>4 DEF TypeOK
    <2>6. UNCHANGED <<mountVars, tableVars, tpc, batch, berr, fpc, txState, blocks,
                      event, pc, log, hdr, homeVars, histVars>>
        BY <1>14 DEF WriteTx
    <2> QED BY <2>1, <2>3, <2>5, <2>6 DEF TypeOK, RingsOk
<1>15. ASSUME NEW n \in 0 .. Capacity, WriteTxFail(n) PROVE TypeOK' /\ RingsOk'
    <2> DEFINE t == batch[nwritten + 1]
    <2>1. t \in Tx
        BY <1>15 DEF WriteTxFail, TypeOK
    <2>2. n \in Nat /\ n <= Capacity - ring.size
        BY <1>15, CapacityAssumption DEF WriteTxFail, TypeOK, Ring
    <2>3. ring' \in Ring /\ RingOk(ring')
        <3>1. ring \in Ring /\ RingOk(ring) /\ ring' = PushMany(ring, n)
            BY <1>15 DEF WriteTxFail, TypeOK, RingsOk
        <3> QED BY <2>2, <3>1, PushLemma
    <2>4. /\ indexList' = [indexList EXCEPT ![t] = <<>>]
          /\ txState' = [txState EXCEPT ![t] = "Canceled"]
          /\ txTable' = txTable \ {t}
          /\ event' = [event EXCEPT ![t] = TRUE]
          /\ tpc' = "complete" /\ berr' = TRUE
          /\ taint' = taint \cup {"leaked"}
          /\ UNCHANGED <<mountVars, txList, toErase, batch, nwritten, fpc, blocks, pc,
                         log, hdr, homeVars, crashes, pred, erased>>
        BY <1>15 DEF WriteTxFail
    <2> HIDE DEF t
    <2> QED BY <2>1, <2>3, <2>4 DEF TypeOK, RingsOk
<1>16. ASSUME FlushBlocks PROVE TypeOK' /\ RingsOk'
    <2>1. \A i : BatchBlock(i) \subseteq Block
        BY <1>16, BatchPlaced DEF FlushBlocks
    <2>2. log' \in [Slot -> SUBSET Block]
        BY <1>16, <2>1, TornType DEF FlushBlocks, TypeOK
    <2>3. taint' \subseteq taint \cup {"reused"}
        BY <1>16 DEF FlushBlocks
    <2> QED BY <1>16, <2>2, <2>3 DEF FlushBlocks, TypeOK, RingsOk
<1>17. ASSUME CompleteTx PROVE TypeOK' /\ RingsOk'
    <2> DEFINE t == Head(batch)
    <2>1. t \in Tx /\ Tail(batch) \in Seq(Tx)
        BY <1>17 DEF CompleteTx, TypeOK
    <2>2. Outcome \in {"Canceled", "Commited"} /\ txTable' \subseteq txTable
        BY <1>17 DEF CompleteTx, Outcome
    <2>3. /\ txState' = [txState EXCEPT ![t] = Outcome]
          /\ event' = [event EXCEPT ![t] = TRUE]
          /\ batch' = Tail(batch)
          /\ UNCHANGED <<mountVars, ring, txList, toErase, tpc, nwritten, berr, fpc,
                         blocks, indexList, pc, log, hdr, homeVars, histVars>>
        BY <1>17 DEF CompleteTx
    <2> HIDE DEF t
    <2> QED BY <2>1, <2>2, <2>3 DEF TypeOK, RingsOk
<1>18. ASSUME RoundDone PROVE TypeOK' /\ RingsOk'
    BY <1>18 DEF RoundDone, TypeOK, RingsOk
<1>19. ASSUME FlushHeader PROVE TypeOK' /\ RingsOk'
    <2>1. \A i : WrittenBlock(i) \subseteq Block
        BY <1>19, BatchPlaced DEF FlushHeader, WrittenBlock
    <2>2. log' \in [Slot -> SUBSET Block]
        BY <1>19, <2>1 DEF FlushHeader, TypeOK
    <2>3. homeMedia' \in [Pos -> SUBSET Block]
        BY <1>19, FlushCacheType DEF FlushHeader
    <2> QED BY <1>19, <2>2, <2>3 DEF FlushHeader, TypeOK, RingsOk
<1>20. ASSUME FlushHeaderDone PROVE TypeOK' /\ RingsOk'
    BY <1>20 DEF FlushHeaderDone, HeaderWritten, TypeOK, RingsOk
<1>21. ASSUME NEW t \in Tx, CompactTx(t) PROVE TypeOK' /\ RingsOk'
    <2>1. indexList[t] \in Seq(Slot) /\ ring \in Ring /\ RingOk(ring)
        BY DEF TypeOK, RingsOk
    <2>2a. /\ t \in toErase /\ EraseOk(ring, indexList[t]) /\ ring' = Erase(ring, indexList[t])
           /\ toErase' = toErase \ {t} /\ erased' = erased \cup {t}
           /\ UNCHANGED <<jstate, mpc, rlist, txTable, txList, tpc, batch, nwritten, berr, fpc,
                          txState, blocks, indexList, event, pc, log, hdr, homeLive,
                          homeMedia, crashes, pred, taint>>
        BY <1>21 DEF CompactTx
    <2>2. ring' \in Ring /\ RingOk(ring')
        BY <2>1, <2>2a, EraseLemma
    <2> QED BY <2>2, <2>2a DEF TypeOK, RingsOk
<1>22. ASSUME CompactDone PROVE TypeOK' /\ RingsOk'
    <2>1. /\ toErase' = {} /\ fpc' = "none" /\ mpc' \in {mpc, "idle"}
          /\ tpc' \in {tpc, "complete"}
          /\ UNCHANGED <<jstate, rlist, ring, txTable, txList, batch, nwritten, txState, blocks,
                         indexList, event, pc, log, hdr, homeLive, homeMedia, crashes, pred,
                         erased, taint>>
        BY <1>22 DEF CompactDone, FlushReturn
    <2>2. berr' \in BOOLEAN
        BY <1>22, Zenon DEF CompactDone, FlushReturn, TypeOK
    <2> QED BY <2>1, <2>2 DEF TypeOK, RingsOk
<1>23. ASSUME FlushFailed PROVE TypeOK' /\ RingsOk'
    <2>1. /\ fpc' = "none" /\ mpc' \in {mpc, "idle"}
          /\ tpc' \in {tpc, "complete"}
          /\ taint' \subseteq taint \cup {"leaked", "ioerror"}
          /\ UNCHANGED <<jstate, rlist, ring, txTable, txList, toErase, batch, nwritten, txState,
                         blocks, indexList, event, pc, log, hdr, homeLive, homeMedia, crashes,
                         pred, erased>>
        BY <1>23 DEF FlushFailed, FlushReturn
    <2>2. berr' \in BOOLEAN
        BY <1>23, Zenon DEF FlushFailed, FlushReturn, TypeOK
    <2> QED BY <2>1, <2>2 DEF TypeOK, RingsOk
<1>24. ASSUME Format PROVE TypeOK' /\ RingsOk'
    BY <1>24, EmptyRingOk DEF Format, TypeOK, RingsOk
<1>25. ASSUME LoadHeader PROVE TypeOK' /\ RingsOk'
    BY <1>25 DEF LoadHeader, TypeOK, RingsOk
<1>26. ASSUME ReplayBlock PROVE TypeOK' /\ RingsOk'
    <2>1. ring' \in Ring /\ RingOk(ring')
        <3>1. ring \in Ring /\ RingOk(ring) /\ PopOk(ring) /\ ring' = PopFront(ring)
            BY <1>26 DEF ReplayBlock, TypeOK, RingsOk
        <3> QED BY <3>1, PopLemma
    <2>2. PICK b \in log[ring.start] :
            /\ log' = [log EXCEPT ![ring.start] = {b}]
            /\ \/ /\ rlist' = Append(rlist, b)
                  /\ UNCHANGED <<jstate, mpc, tpc, homeMedia, taint>>
               \/ /\ rlist' = Append(rlist, b) /\ mpc' = "apply"
                  /\ SubmitHome(Range(rlist))
                  /\ UNCHANGED <<jstate, tpc, taint>>
               \/ /\ StartRunning
                  /\ taint' = taint \cup {"corrupt"}
                  /\ UNCHANGED homeMedia
        BY <1>26 DEF ReplayBlock
    <2>3. ring.start \in Slot /\ b \in Block /\ log' \in [Slot -> SUBSET Block]
        BY <2>2 DEF TypeOK, Ring
    <2>4. Range(rlist) \subseteq Block /\ Append(rlist, b) \in Seq(Block) /\ <<>> \in Seq(Block)
        BY <2>3 DEF Range, TypeOK
    <2>5. homeMedia' \in [Pos -> SUBSET Block]
        BY <2>2, <2>4, HomeType DEF TypeOK
    <2>6. /\ rlist' \in Seq(Block)
          /\ jstate' \in {jstate, "Running"} /\ mpc' \in {mpc, "apply", "idle", "failed"}
          /\ tpc' \in {tpc, "check", "exited"} /\ taint' \subseteq taint \cup {"corrupt"}
        BY <2>2, <2>4 DEF StartRunning
    <2>7. UNCHANGED <<tableVars, batch, nwritten, berr, fpc, txVars, hdr, homeLive,
                      crashes, pred, erased>>
        BY <1>26 DEF ReplayBlock
    <2> QED BY <2>1, <2>3, <2>5, <2>6, <2>7 DEF TypeOK, RingsOk
<1>27. ASSUME ReplayApplied PROVE TypeOK' /\ RingsOk'
    <2>1. Range(rlist) \subseteq Block
        BY DEF Range, TypeOK
    <2>2. homeLive' \in [Pos -> SUBSET Block] /\ homeMedia' \in [Pos -> SUBSET Block]
        BY <1>27, <2>1, HomeType DEF ReplayApplied
    <2> QED BY <1>27, <2>2 DEF ReplayApplied, TypeOK, RingsOk
<1>28. ASSUME ReplayDone PROVE TypeOK' /\ RingsOk'
    BY <1>28 DEF ReplayDone, StartRunning, TypeOK, RingsOk
<1>29. ASSUME ReplayFailed PROVE TypeOK' /\ RingsOk'
    <2>1. Range(rlist) \subseteq Block
        BY DEF Range, TypeOK
    <2>2. homeLive' \in [Pos -> SUBSET Block]
        BY <1>29, <2>1, HomeType DEF ReplayFailed
    <2> QED BY <1>29, <2>2 DEF ReplayFailed, TypeOK, RingsOk
<1>30. ASSUME Unload PROVE TypeOK' /\ RingsOk'
    BY <1>30 DEF Unload, TypeOK, RingsOk
<1>31. ASSUME UnloadFlush PROVE TypeOK' /\ RingsOk'
    <2>1. homeMedia' \in [Pos -> SUBSET Block]
        BY <1>31, FlushCacheType DEF UnloadFlush
    <2>2. txState' \in [Tx -> {"None", "New", "Commiting", "Commited", "Canceled"}]
          /\ txTable' \subseteq Tx /\ txList' \in Seq(Tx) /\ tpc' = "none"
        BY <1>31 DEF UnloadFlush, CancelQueued, TypeOK
    <2> QED BY <1>31, <2>1, <2>2 DEF UnloadFlush, TypeOK, RingsOk
<1>32. ASSUME UnloadNoFlush PROVE TypeOK' /\ RingsOk'
    BY <1>32 DEF UnloadNoFlush, CancelQueued, TypeOK, RingsOk
<1>33. ASSUME Destroy PROVE TypeOK' /\ RingsOk'
    <2>1. Forget /\ UNCHANGED <<homeVars, crashes>>
        BY <1>33 DEF Destroy
    <2> QED BY <2>1, ForgetType DEF TypeOK, RingsOk
<1>34. ASSUME Crash PROVE TypeOK' /\ RingsOk'
    <2>1. Forget /\ homeLive' = homeMedia /\ homeMedia' = homeMedia /\ crashes' \in Nat
        BY <1>34 DEF Crash, TypeOK
    <2> QED BY <2>1, ForgetType DEF TypeOK, RingsOk
<1>35. ASSUME UNCHANGED vars PROVE TypeOK' /\ RingsOk'
    BY <1>35 DEF vars, TypeOK, RingsOk
<1> QED
    BY <1>1, <1>2, <1>3, <1>4, <1>5, <1>6, <1>7, <1>8, <1>9, <1>10, <1>11,
       <1>12, <1>13, <1>14, <1>15, <1>16, <1>17, <1>18, <1>19, <1>20, <1>21, <1>22,
       <1>23, <1>24, <1>25, <1>26, <1>27, <1>28, <1>29, <1>30, <1>31, <1>32, <1>33,
       <1>34, <1>35 DEF Next, Client, CommitTail, Thread, Flush, Mount

-----------------------------------------------------------------------------
(* Which thread is where                                                   *)

\* Every step keeps the program counters of the three threads together.
LEMMA ModesStep == IInv /\ [Next]_vars => Modes'
<1> SUFFICES ASSUME IInv, [Next]_vars PROVE Modes'
    OBVIOUS
<1>0. TypeOK /\ Modes
    BY DEF IInv
<1> USE <1>0 DEF mountVars, tableVars, threadVars, txVars, homeVars, histVars
<1>1. ASSUME NEW t \in Tx, BeginTx(t) PROVE Modes'
    BY <1>1 DEF BeginTx, Modes
<1>2. ASSUME NEW t \in Tx, NEW page \in Pages, Write(t, page) PROVE Modes'
    BY <1>2 DEF Write, Modes
<1>3. ASSUME NEW t \in Tx, Abandon(t) PROVE Modes'
    BY <1>3 DEF Abandon, Modes
<1>4. ASSUME NEW t \in Tx, Commit(t) PROVE Modes'
    BY <1>4 DEF Commit, Modes
<1>5. ASSUME NEW t \in Tx, CommitRefused(t) PROVE Modes'
    BY <1>5 DEF CommitRefused, Modes
<1>6. ASSUME NEW t \in Tx, CommitFailed(t) PROVE Modes'
    BY <1>6 DEF CommitFailed, Modes
<1>7. ASSUME NEW t \in Tx, Apply(t) PROVE Modes'
    BY <1>7 DEF Apply, Modes
<1>8. ASSUME NEW t \in Tx, ApplyDone(t) PROVE Modes'
    BY <1>8 DEF ApplyDone, Modes
<1>9. ASSUME NEW t \in Tx, ApplyFailed(t) PROVE Modes'
    BY <1>9 DEF ApplyFailed, Modes
<1>10. ASSUME NEW t \in Tx, EraseTx(t) PROVE Modes'
    BY <1>10 DEF EraseTx, Modes
<1>11. ASSUME CheckStopping PROVE Modes'
    BY <1>11 DEF CheckStopping, Modes
<1>12. ASSUME NoWork PROVE Modes'
    BY <1>12 DEF NoWork, Modes
<1>13. ASSUME TakeBatch PROVE Modes'
    BY <1>13 DEF TakeBatch, TypeOK, Modes
<1>14. ASSUME WriteTx PROVE Modes'
    BY <1>14 DEF WriteTx, TypeOK, Modes
<1>15. ASSUME NEW n \in 0 .. Capacity, WriteTxFail(n) PROVE Modes'
    BY <1>15 DEF WriteTxFail, Modes
<1>16. ASSUME FlushBlocks PROVE Modes'
    BY <1>16 DEF FlushBlocks, Modes
<1>17. ASSUME CompleteTx PROVE Modes'
    <2>1. /\ tpc = "complete" /\ UNCHANGED <<jstate, mpc, tpc, fpc, nwritten, toErase, txList, hdr>>
          /\ txTable' \subseteq txTable
        BY <1>17 DEF CompleteTx
    <2> QED BY <2>1 DEF Modes
<1>18. ASSUME RoundDone PROVE Modes'
    BY <1>18 DEF RoundDone, Modes
<1>19. ASSUME FlushHeader PROVE Modes'
    <2>1. ring # NoHeader
        BY JournalAssumption DEF TypeOK
    <2> QED BY <1>19, <2>1 DEF FlushHeader, Modes
<1>20. ASSUME FlushHeaderDone PROVE Modes'
    <2>1. ring # NoHeader
        BY JournalAssumption DEF TypeOK
    <2> QED BY <1>20, <2>1 DEF FlushHeaderDone, HeaderWritten, Modes
<1>21. ASSUME NEW t \in Tx, CompactTx(t) PROVE Modes'
    BY <1>21 DEF CompactTx, Modes
<1>22. ASSUME CompactDone PROVE Modes'
    BY <1>22 DEF CompactDone, FlushReturn, Modes
<1>23. ASSUME FlushFailed PROVE Modes'
    BY <1>23 DEF FlushFailed, FlushReturn, Modes
<1>24. ASSUME Format PROVE Modes'
    BY <1>24 DEF Format, Modes
<1>25. ASSUME LoadHeader PROVE Modes'
    BY <1>25 DEF LoadHeader, Modes
<1>26. ASSUME ReplayBlock PROVE Modes'
    <2>1. /\ mpc = "replay"
          /\ \/ jstate' = jstate /\ tpc' = tpc /\ mpc' \in {"replay", "apply", "failed"}
             \/ jstate' = "Running" /\ mpc' = "idle" /\ tpc' \in {"check", "exited"}
          /\ UNCHANGED <<tableVars, batch, nwritten, fpc, hdr>>
        BY <1>26 DEF ReplayBlock, StartRunning
    <2> QED BY <2>1 DEF Modes
<1>27. ASSUME ReplayApplied PROVE Modes'
    BY <1>27 DEF ReplayApplied, Modes
<1>28. ASSUME ReplayDone PROVE Modes'
    BY <1>28 DEF ReplayDone, StartRunning, Modes
<1>29. ASSUME ReplayFailed PROVE Modes'
    BY <1>29 DEF ReplayFailed, Modes
<1>30. ASSUME Unload PROVE Modes'
    BY <1>30 DEF Unload, Modes
<1>31. ASSUME UnloadFlush PROVE Modes'
    <2>1. ring # NoHeader
        BY JournalAssumption DEF TypeOK
    <2> QED BY <1>31, <2>1 DEF UnloadFlush, CancelQueued, Modes
<1>32. ASSUME UnloadNoFlush PROVE Modes'
    BY <1>32 DEF UnloadNoFlush, CancelQueued, Modes
<1>33. ASSUME Destroy PROVE Modes'
    BY <1>33 DEF Destroy, Forget, Modes
<1>34. ASSUME Crash PROVE Modes'
    BY <1>34 DEF Crash, Forget, Modes
<1>35. ASSUME UNCHANGED vars PROVE Modes'
    BY <1>35 DEF vars, Modes
<1> QED
    BY <1>1, <1>2, <1>3, <1>4, <1>5, <1>6, <1>7, <1>8, <1>9, <1>10, <1>11,
       <1>12, <1>13, <1>14, <1>15, <1>16, <1>17, <1>18, <1>19, <1>20, <1>21, <1>22,
       <1>23, <1>24, <1>25, <1>26, <1>27, <1>28, <1>29, <1>30, <1>31, <1>32, <1>33,
       <1>34, <1>35 DEF Next, Client, CommitTail, Thread, Flush, Mount

-----------------------------------------------------------------------------
(* Each transaction is queued once, and decided once                       *)

\* No transaction changes its decision in this step.
Decided == \A t \in Tx : txState[t] \in {"Commited", "Canceled"} => txState'[t] = txState[t]

\* Unload cancels only transactions that were queued, hence undecided.
LEMMA CancelQueuedStep ==
    ASSUME IInv, CancelQueued, UNCHANGED <<batch, toErase, pc, erased>>
    PROVE  QueueOk' /\ TxOk' /\ Decided
<1>0. TypeOK /\ Modes /\ QueueOk /\ TxOk
    BY DEF IInv
<1>1. batch = <<>> /\ batch' = <<>> /\ txList' = <<>>
    BY <1>0 DEF CancelQueued, Modes
<1>2. \A t \in Tx : t \in Range(txList) => txState[t] = "Commiting"
    BY <1>0 DEF Range, QueueOk
<1>3. \A t \in Tx : txState'[t] = IF t \in Range(txList) THEN "Canceled" ELSE txState[t]
    BY DEF CancelQueued
<1>4. txTable' = txTable \ Range(txList)
    BY DEF CancelQueued
<1>5. QueueOk'
    BY <1>1 DEF QueueOk
<1>6. TxOk'
    BY <1>0, <1>2, <1>3, <1>4 DEF TxOk
<1>7. Decided
    BY <1>2, <1>3 DEF Decided
<1> QED BY <1>5, <1>6, <1>7

\* Every step keeps the queue and the round free of duplicates and of decided
\* transactions, and changes no decision.
LEMMA QueueStep == IInv /\ [Next]_vars => QueueOk' /\ TxOk' /\ Decided
<1> SUFFICES ASSUME IInv, [Next]_vars PROVE QueueOk' /\ TxOk' /\ Decided
    OBVIOUS
<1>0. TypeOK /\ Modes /\ QueueOk /\ TxOk
    BY DEF IInv
<1> USE <1>0 DEF mountVars, tableVars, threadVars, txVars, homeVars, histVars
<1>1. ASSUME NEW t \in Tx, BeginTx(t) PROVE QueueOk' /\ TxOk' /\ Decided
    <2>1. /\ txTable' = txTable \cup {t} /\ txState[t] = "None"
          /\ txState' = [txState EXCEPT ![t] = "New"]
          /\ pc' = [pc EXCEPT ![t] = "open"]
          /\ UNCHANGED <<tpc, batch, berr, txList, toErase, erased>>
        BY <1>1 DEF BeginTx, TxOk
    <2>2. \A u \in Tx : u # t => txState'[u] = txState[u] /\ pc'[u] = pc[u]
        BY <2>1 DEF TypeOK
    <2>3. /\ \A i \in DOMAIN batch : batch[i] \in Tx
          /\ \A i \in DOMAIN txList : txList[i] \in Tx
        BY DEF TypeOK
    <2>4. /\ \A i \in DOMAIN batch : batch[i] # t
          /\ \A i \in DOMAIN txList : txList[i] # t
        BY <2>1 DEF QueueOk
    <2>5. QueueOk'
        BY <2>1, <2>2, <2>3, <2>4 DEF QueueOk
    <2>6. TxOk' /\ Decided
        BY <2>1 DEF TxOk, Decided, TypeOK
    <2> QED BY <2>5, <2>6
<1>2. ASSUME NEW t \in Tx, NEW page \in Pages, Write(t, page) PROVE QueueOk' /\ TxOk' /\ Decided
    <2>1. QueueOk' /\ Decided
        BY <1>2 DEF Write, QueueOk, Decided, TypeOK
    <2>2. TxOk'
        BY <1>2 DEF Write, TxOk, TypeOK
    <2> QED BY <2>1, <2>2
<1>3. ASSUME NEW t \in Tx, Abandon(t) PROVE QueueOk' /\ TxOk' /\ Decided
    <2>1. QueueOk' /\ Decided
        BY <1>3 DEF Abandon, QueueOk, Decided, TypeOK
    <2>2. TxOk'
        BY <1>3 DEF Abandon, TxOk, TypeOK
    <2> QED BY <2>1, <2>2
<1>4. ASSUME NEW t \in Tx, Commit(t) PROVE QueueOk' /\ TxOk' /\ Decided
    <2>1. /\ txState[t] = "New" /\ t \in txTable /\ pc[t] = "open"
          /\ txState' = [txState EXCEPT ![t] = "Commiting"]
          /\ txList' = Append(txList, t)
          /\ pc' = [pc EXCEPT ![t] = "waiting"]
          /\ UNCHANGED <<tpc, batch, berr, txTable, toErase, erased>>
        BY <1>4 DEF Commit
    <2>2. /\ DOMAIN txList' = 1 .. Len(txList) + 1 /\ DOMAIN txList = 1 .. Len(txList)
          /\ Len(txList) \in Nat
          /\ txList'[Len(txList) + 1] = t
          /\ \A i \in DOMAIN txList : txList'[i] = txList[i] /\ txList[i] \in Tx
        BY <2>1 DEF TypeOK
    <2>2a. \A i \in DOMAIN batch : batch[i] \in Tx
        BY DEF TypeOK
    <2>2b. \A i \in DOMAIN txList : txList[i] # t
        BY <2>1 DEF QueueOk
    <2>2c. \A i \in DOMAIN batch : batch[i] # t
        BY <2>1 DEF QueueOk
    <2>2d. \A u \in Tx : u # t => txState'[u] = txState[u]
        BY <2>1 DEF TypeOK
    <2>2e. txState'[t] = "Commiting"
        BY <2>1 DEF TypeOK
    <2>3a. \A i, j \in DOMAIN txList' : txList'[i] = txList'[j] => i = j
        BY <2>2, <2>2b DEF QueueOk
    <2>3b. \A i \in DOMAIN txList' : \A j \in DOMAIN batch' : txList'[i] # batch'[j]
        BY <2>1, <2>2, <2>2c DEF QueueOk
    <2>3c. \A i \in DOMAIN txList' :
              txState'[txList'[i]] = "Commiting" /\ txList'[i] \in txTable'
        BY <2>1, <2>2, <2>2b, <2>2d, <2>2e DEF QueueOk
    <2>3d. \A i \in DOMAIN batch' :
              \/ txState'[batch'[i]] = "Commiting" /\ batch'[i] \in txTable'
              \/ tpc' = "complete" /\ berr' /\ txState'[batch'[i]] = "Canceled"
        BY <2>1, <2>2a, <2>2c, <2>2d DEF QueueOk
    <2>3. QueueOk'
        BY <2>1, <2>3a, <2>3b, <2>3c, <2>3d DEF QueueOk
    <2>4. TxOk' /\ Decided
        BY <2>1 DEF TxOk, Decided, TypeOK
    <2> QED BY <2>3, <2>4
<1>5. ASSUME NEW t \in Tx, CommitRefused(t) PROVE QueueOk' /\ TxOk' /\ Decided
    <2>1. /\ txState[t] = "New" /\ pc[t] = "open" /\ txTable' = txTable \ {t}
          /\ txState' = [txState EXCEPT ![t] = "Canceled"]
          /\ pc' = [pc EXCEPT ![t] = "returned"]
          /\ UNCHANGED <<tpc, batch, berr, txList, toErase, erased>>
        BY <1>5 DEF CommitRefused
    <2>2. \A u \in Tx : u # t => txState'[u] = txState[u] /\ pc'[u] = pc[u]
        BY <2>1 DEF TypeOK
    <2>3. /\ \A i \in DOMAIN batch : batch[i] \in Tx
          /\ \A i \in DOMAIN txList : txList[i] \in Tx
        BY DEF TypeOK
    <2>4. /\ \A i \in DOMAIN batch : batch[i] # t
          /\ \A i \in DOMAIN txList : txList[i] # t
        BY <2>1 DEF QueueOk
    <2>5. QueueOk'
        BY <2>1, <2>2, <2>3, <2>4 DEF QueueOk
    <2>6. TxOk' /\ Decided
        BY <2>1 DEF TxOk, Decided, TypeOK
    <2> QED BY <2>5, <2>6
<1>6. ASSUME NEW t \in Tx, CommitFailed(t) PROVE QueueOk' /\ TxOk' /\ Decided
    <2>1. QueueOk' /\ Decided
        BY <1>6 DEF CommitFailed, QueueOk, Decided, TypeOK
    <2>2. TxOk'
        BY <1>6 DEF CommitFailed, TxOk, TypeOK
    <2> QED BY <2>1, <2>2
<1>7. ASSUME NEW t \in Tx, Apply(t) PROVE QueueOk' /\ TxOk' /\ Decided
    <2>1. QueueOk' /\ Decided
        BY <1>7 DEF Apply, QueueOk, Decided, TypeOK
    <2>2. TxOk'
        BY <1>7 DEF Apply, TxOk, TypeOK
    <2> QED BY <2>1, <2>2
<1>8. ASSUME NEW t \in Tx, ApplyDone(t) PROVE QueueOk' /\ TxOk' /\ Decided
    <2>1. QueueOk' /\ Decided
        BY <1>8 DEF ApplyDone, QueueOk, Decided, TypeOK
    <2>2. TxOk'
        BY <1>8 DEF ApplyDone, TxOk, TypeOK
    <2> QED BY <2>1, <2>2
<1>9. ASSUME NEW t \in Tx, ApplyFailed(t) PROVE QueueOk' /\ TxOk' /\ Decided
    <2>1. QueueOk' /\ Decided
        BY <1>9 DEF ApplyFailed, QueueOk, Decided, TypeOK
    <2>2. TxOk'
        BY <1>9 DEF ApplyFailed, TxOk, TypeOK
    <2> QED BY <2>1, <2>2
<1>10. ASSUME NEW t \in Tx, EraseTx(t) PROVE QueueOk' /\ TxOk' /\ Decided
    <2>1. QueueOk' /\ Decided
        BY <1>10 DEF EraseTx, QueueOk, Decided, TypeOK
    <2>2. TxOk'
        BY <1>10 DEF EraseTx, TxOk, TypeOK
    <2> QED BY <2>1, <2>2
<1>11. ASSUME CheckStopping PROVE QueueOk' /\ TxOk' /\ Decided
    BY <1>11 DEF CheckStopping, Decided, QueueOk, TxOk, Modes, TypeOK
<1>12. ASSUME NoWork PROVE QueueOk' /\ TxOk' /\ Decided
    BY <1>12 DEF NoWork, Decided, QueueOk, TxOk, Modes, TypeOK
<1>13. ASSUME TakeBatch PROVE QueueOk' /\ TxOk' /\ Decided
    BY <1>13 DEF TakeBatch, Decided, QueueOk, TxOk, Modes, TypeOK
<1>14. ASSUME WriteTx PROVE QueueOk' /\ TxOk' /\ Decided
    BY <1>14 DEF WriteTx, Decided, QueueOk, TxOk, Modes, TypeOK
<1>15. ASSUME NEW n \in 0 .. Capacity, WriteTxFail(n) PROVE QueueOk' /\ TxOk' /\ Decided
    <2> DEFINE t == batch[nwritten + 1]
    <2>0. /\ \A i \in DOMAIN batch : batch[i] \in Tx
          /\ \A i \in DOMAIN txList : txList[i] \in Tx
          /\ DOMAIN batch = 1 .. Len(batch) /\ Len(batch) \in Nat /\ nwritten \in Nat
        BY DEF TypeOK
    <2>1. tpc = "write" /\ nwritten + 1 \in DOMAIN batch /\ t \in Tx
        <3>1. tpc = "write" /\ nwritten < Len(batch)
            BY <1>15 DEF WriteTxFail
        <3>2. nwritten + 1 \in DOMAIN batch
            BY <2>0, <3>1
        <3> QED BY <2>0, <3>1, <3>2
    <2>2. /\ txState' = [txState EXCEPT ![t] = "Canceled"]
          /\ txTable' = txTable \ {t}
          /\ tpc' = "complete" /\ berr' = TRUE
          /\ UNCHANGED <<txList, toErase, batch, pc, erased>>
        BY <1>15 DEF WriteTxFail
    <2>3. txState[t] = "Commiting" /\ \A i \in DOMAIN txList : txList[i] # t
        BY <2>1 DEF QueueOk
    <2> HIDE DEF t
    <2>4. QueueOk'
        BY <2>0, <2>1, <2>2, <2>3 DEF QueueOk, TypeOK
    <2>5. TxOk' /\ Decided
        BY <2>1, <2>2, <2>3 DEF TxOk, Decided, TypeOK
    <2> QED BY <2>4, <2>5
<1>16. ASSUME FlushBlocks PROVE QueueOk' /\ TxOk' /\ Decided
    BY <1>16 DEF FlushBlocks, Decided, QueueOk, TxOk, Modes, TypeOK
<1>17. ASSUME CompleteTx PROVE QueueOk' /\ TxOk' /\ Decided
    <2> DEFINE t == Head(batch)
    <2>0. /\ tpc = "complete" /\ batch # <<>> /\ batch \in Seq(Tx) /\ txList \in Seq(Tx)
        BY <1>17 DEF CompleteTx, TypeOK
    <2>1a. t = batch[1] /\ 1 \in DOMAIN batch /\ t \in Tx
        BY <2>0
    <2>1b. /\ \A i \in DOMAIN batch : batch[i] \in Tx
           /\ \A i \in DOMAIN txList : txList[i] \in Tx
        BY <2>0
    <2>1c. \A i \in DOMAIN Tail(batch) : i + 1 \in DOMAIN batch
                  /\ Tail(batch)[i] = batch[i + 1] /\ i \in Nat /\ i >= 1
        BY <2>0
    <2>1. /\ tpc = "complete" /\ t = batch[1] /\ 1 \in DOMAIN batch /\ t \in Tx
          /\ \A i \in DOMAIN batch : batch[i] \in Tx
          /\ \A i \in DOMAIN txList : txList[i] \in Tx
          /\ \A i \in DOMAIN Tail(batch) : i + 1 \in DOMAIN batch
                  /\ Tail(batch)[i] = batch[i + 1] /\ i \in Nat /\ i >= 1
        BY <2>0, <2>1a, <2>1b, <2>1c
    <2>2. /\ txState' = [txState EXCEPT ![t] = Outcome]
          /\ txTable' = IF berr THEN txTable \ {t} ELSE txTable
          /\ batch' = Tail(batch)
          /\ UNCHANGED <<txList, toErase, tpc, berr, pc, erased>>
        BY <1>17 DEF CompleteTx
    <2>3. /\ txState[t] = "Commiting" \/ (berr /\ txState[t] = "Canceled")
          /\ \A i \in DOMAIN txList : txList[i] # t
          /\ \A i \in DOMAIN Tail(batch) : Tail(batch)[i] # t
        BY <2>1 DEF QueueOk
    <2> HIDE DEF t
    <2>4. \A i \in DOMAIN batch' :
              \/ txState'[batch'[i]] = "Commiting" /\ batch'[i] \in txTable'
              \/ tpc' = "complete" /\ berr' /\ txState'[batch'[i]] = "Canceled"
        <3>1. \A u \in Tx : u # t => txState'[u] = txState[u] /\ (u \in txTable => u \in txTable')
            BY <2>2 DEF TypeOK
        <3> TAKE i \in DOMAIN batch'
        <3>2. i + 1 \in DOMAIN batch /\ batch'[i] = batch[i + 1] /\ batch[i + 1] \in Tx
              /\ batch[i + 1] # t
            BY <2>1, <2>2, <2>3
        <3> QED BY <2>1, <2>2, <3>1, <3>2 DEF QueueOk
    <2>5. /\ \A i, j \in DOMAIN batch' : batch'[i] = batch'[j] => i = j
          /\ \A i \in DOMAIN txList' : \A j \in DOMAIN batch' : txList'[i] # batch'[j]
        BY <2>1, <2>2 DEF QueueOk
    <2>6. \A i \in DOMAIN txList' :
              txState'[txList'[i]] = "Commiting" /\ txList'[i] \in txTable'
        BY <2>1, <2>2, <2>3 DEF QueueOk, TypeOK
    <2>7. QueueOk'
        BY <2>2, <2>4, <2>5, <2>6 DEF QueueOk
    <2>8. TxOk' /\ Decided
        BY <2>1, <2>2, <2>3 DEF TxOk, Decided, TypeOK, Outcome
    <2> QED BY <2>7, <2>8
<1>18. ASSUME RoundDone PROVE QueueOk' /\ TxOk' /\ Decided
    BY <1>18 DEF RoundDone, Decided, QueueOk, TxOk, Modes, TypeOK
<1>19. ASSUME FlushHeader PROVE QueueOk' /\ TxOk' /\ Decided
    BY <1>19 DEF FlushHeader, Decided, QueueOk, TxOk, Modes, TypeOK
<1>20. ASSUME FlushHeaderDone PROVE QueueOk' /\ TxOk' /\ Decided
    BY <1>20 DEF FlushHeaderDone, Decided, QueueOk, TxOk, Modes, TypeOK
<1>21. ASSUME NEW t \in Tx, CompactTx(t) PROVE QueueOk' /\ TxOk' /\ Decided
    BY <1>21 DEF CompactTx, Decided, QueueOk, TxOk, Modes, TypeOK
<1>22. ASSUME CompactDone PROVE QueueOk' /\ TxOk' /\ Decided
    BY <1>22 DEF CompactDone, FlushReturn, Decided, QueueOk, TxOk, Modes, TypeOK
<1>23. ASSUME FlushFailed PROVE QueueOk' /\ TxOk' /\ Decided
    BY <1>23 DEF FlushFailed, FlushReturn, Decided, QueueOk, TxOk, Modes, TypeOK
<1>24. ASSUME Format PROVE QueueOk' /\ TxOk' /\ Decided
    BY <1>24 DEF Format, Decided, QueueOk, TxOk, Modes, TypeOK
<1>25. ASSUME LoadHeader PROVE QueueOk' /\ TxOk' /\ Decided
    BY <1>25 DEF LoadHeader, Decided, QueueOk, TxOk, Modes, TypeOK
<1>26. ASSUME ReplayBlock PROVE QueueOk' /\ TxOk' /\ Decided
    BY <1>26 DEF ReplayBlock, StartRunning, Decided, QueueOk, TxOk, Modes, TypeOK
<1>27. ASSUME ReplayApplied PROVE QueueOk' /\ TxOk' /\ Decided
    BY <1>27 DEF ReplayApplied, Decided, QueueOk, TxOk, Modes, TypeOK
<1>28. ASSUME ReplayDone PROVE QueueOk' /\ TxOk' /\ Decided
    BY <1>28 DEF ReplayDone, StartRunning, Decided, QueueOk, TxOk, Modes, TypeOK
<1>29. ASSUME ReplayFailed PROVE QueueOk' /\ TxOk' /\ Decided
    BY <1>29 DEF ReplayFailed, Decided, QueueOk, TxOk, Modes, TypeOK
<1>30. ASSUME Unload PROVE QueueOk' /\ TxOk' /\ Decided
    BY <1>30 DEF Unload, Decided, QueueOk, TxOk, Modes, TypeOK
<1>31. ASSUME UnloadFlush PROVE QueueOk' /\ TxOk' /\ Decided
    <2>1. CancelQueued /\ UNCHANGED <<batch, toErase, pc, erased>>
        BY <1>31 DEF UnloadFlush
    <2> QED BY <2>1, CancelQueuedStep
<1>32. ASSUME UnloadNoFlush PROVE QueueOk' /\ TxOk' /\ Decided
    <2>1. CancelQueued /\ UNCHANGED <<batch, toErase, pc, erased>>
        BY <1>32 DEF UnloadNoFlush
    <2> QED BY <2>1, CancelQueuedStep
<1>33. ASSUME Destroy PROVE QueueOk' /\ TxOk' /\ Decided
    BY <1>33 DEF Destroy, Forget, Decided, QueueOk, TxOk, Modes, TypeOK
<1>34. ASSUME Crash PROVE QueueOk' /\ TxOk' /\ Decided
    <2>1. /\ txList' = <<>> /\ batch' = <<>> /\ txTable' = {} /\ toErase' = {}
          /\ UNCHANGED <<txState, erased>>
        BY <1>34 DEF Crash, Forget
    <2>2. \A t \in Tx :
              \/ pc'[t] = pc[t]
              \/ pc'[t] = "lost" /\ pc[t] \in {"open", "waiting", "applying", "applied"}
        BY <1>34 DEF Crash, Forget, Active
    <2> QED BY <2>1, <2>2 DEF QueueOk, TxOk, Decided
<1>35. ASSUME UNCHANGED vars PROVE QueueOk' /\ TxOk' /\ Decided
    BY <1>35 DEF vars, Decided, QueueOk, TxOk, Modes, TypeOK
<1> QED
    BY <1>1, <1>2, <1>3, <1>4, <1>5, <1>6, <1>7, <1>8, <1>9, <1>10, <1>11,
       <1>12, <1>13, <1>14, <1>15, <1>16, <1>17, <1>18, <1>19, <1>20, <1>21, <1>22,
       <1>23, <1>24, <1>25, <1>26, <1>27, <1>28, <1>29, <1>30, <1>31, <1>32, <1>33,
       <1>34, <1>35 DEF Next, Client, CommitTail, Thread, Flush, Mount

-----------------------------------------------------------------------------
(* The slots of the placed transactions                                    *)

\* A transaction of the running round is still waiting for its decision.
LEMMA RoundUndecided ==
    ASSUME IInv, NEW t \in Tx, InRound(t)
    PROVE  txState[t] = "Commiting"
<1>1. DOMAIN batch = 1 .. Len(batch)
    BY DEF IInv, TypeOK
<1>2. nwritten \in Nat /\ Len(batch) \in Nat /\ (tpc = "write" => nwritten <= Len(batch))
    BY DEF IInv, Modes, TypeOK
<1>3. ASSUME tpc = "write", NEW j \in 1 .. nwritten PROVE j \in DOMAIN batch
    BY <1>1, <1>2, <1>3
<1>4. \E j \in DOMAIN batch : batch[j] = t /\ (tpc = "complete" => ~berr)
    BY <1>3 DEF InRound
<1> QED BY <1>4 DEF IInv, QueueOk

\* The index list of a placed transaction has one entry for each block.
LEMMA PlacedDomain ==
    ASSUME IInv, NEW t \in Tx, Placed(t)
    PROVE  DOMAIN indexList[t] = 1 .. TxLen(t)
<1>1. DOMAIN indexList[t] = 1 .. Len(indexList[t])
    BY DEF IInv, TypeOK
<1> QED BY <1>1 DEF IInv, PlacedInRing

\* A step that places no transaction, does not touch the index lists of those
\* that stay placed and keeps their slots in the ring.
LEMMA PlacedFrame ==
    ASSUME IInv,
           \A t \in Tx : Placed(t)' => /\ Placed(t)
                                       /\ indexList'[t] = indexList[t]
                                       /\ blocks'[t] = blocks[t]
                                       /\ \A k \in 1 .. TxLen(t) : indexList[t][k] \in Used(ring')
    PROVE  PlacedInRing' /\ PlacedDisjoint'
<1>1. \A t \in Tx : blocks'[t] = blocks[t] => TxLen(t)' = TxLen(t)
    BY DEF TxLen
<1> QED BY <1>1 DEF IInv, PlacedInRing, PlacedDisjoint

\* The same when the ring does not change either.
LEMMA PlacedKeeps ==
    ASSUME IInv, UNCHANGED <<ring, indexList>>,
           \A t \in Tx : Placed(t)' => Placed(t) /\ blocks'[t] = blocks[t]
    PROVE  PlacedInRing' /\ PlacedDisjoint'
<1>1. \A t \in Tx : Placed(t) => \A k \in 1 .. TxLen(t) : indexList[t][k] \in Used(ring')
    BY DEF IInv, PlacedInRing
<1> QED BY <1>1, PlacedFrame

\* Steps that change nothing the placement is about.
LEMMA PlacedSame ==
    ASSUME IInv, UNCHANGED <<ring, txTable, erased, txState, blocks, indexList,
                             tpc, nwritten, batch, berr>>
    PROVE  PlacedInRing' /\ PlacedDisjoint'
<1>1. \A t \in Tx : Placed(t)' => Placed(t)
    BY DEF Placed, InRound
<1> QED BY <1>1, PlacedKeeps

\* While the table is empty nothing is placed.
LEMMA PlacedNone ==
    ASSUME txTable' = {}
    PROVE  PlacedInRing' /\ PlacedDisjoint'
BY DEF PlacedInRing, PlacedDisjoint, Placed

\* Every step keeps the slots of the placed transactions in the ring and
\* disjoint: WriteTx pushes fresh ones, CompactLog takes only its own away.
LEMMA PlacedStep == IInv /\ [Next]_vars => PlacedInRing' /\ PlacedDisjoint'
<1> SUFFICES ASSUME IInv, [Next]_vars PROVE PlacedInRing' /\ PlacedDisjoint'
    OBVIOUS
<1>0. TypeOK /\ RingsOk /\ Modes /\ QueueOk /\ TxOk /\ PlacedInRing /\ PlacedDisjoint
    BY DEF IInv
<1> USE <1>0 DEF mountVars, tableVars, threadVars, txVars, homeVars, histVars
<1>1. ASSUME NEW t \in Tx, BeginTx(t) PROVE PlacedInRing' /\ PlacedDisjoint'
    <2>1. UNCHANGED <<ring, indexList, blocks, tpc, nwritten, batch, berr, erased>>
          /\ txTable' = txTable \cup {t} /\ txState' = [txState EXCEPT ![t] = "New"]
        BY <1>1 DEF BeginTx
    <2>2. txState[t] = "None"
        BY <1>1 DEF BeginTx, TxOk
    <2>3. ~InRound(t)
        BY <2>2, RoundUndecided
    <2>4. \A u \in Tx : u # t => txState'[u] = txState[u]
        BY <2>1 DEF TypeOK
    <2>5. txState'[t] = "New"
        BY <2>1 DEF TypeOK
    <2>6. \A u \in Tx : InRound(u)' <=> InRound(u)
        BY <2>1 DEF InRound
    <2>7. \A u \in Tx : Placed(u)' => Placed(u) /\ blocks'[u] = blocks[u]
        BY <2>1, <2>3, <2>4, <2>5, <2>6 DEF Placed
    <2> QED BY <2>1, <2>7, PlacedKeeps
<1>2. ASSUME NEW t \in Tx, NEW page \in Pages, Write(t, page) PROVE PlacedInRing' /\ PlacedDisjoint'
    <2>1. UNCHANGED <<ring, indexList, tpc, nwritten, batch, berr, erased, txTable, txState>>
          /\ blocks' = [blocks EXCEPT ![t] = @ \o page] /\ txState[t] = "New"
        BY <1>2 DEF Write
    <2>2. ~InRound(t)
        BY <2>1, RoundUndecided
    <2>3. ~Placed(t)
        BY <2>1, <2>2 DEF Placed
    <2>4. \A u \in Tx : u # t => blocks'[u] = blocks[u]
        BY <2>1 DEF TypeOK
    <2>5. \A u \in Tx : Placed(u)' => Placed(u)
        BY <2>1 DEF Placed, InRound
    <2>6. \A u \in Tx : Placed(u)' => Placed(u) /\ blocks'[u] = blocks[u]
        BY <2>3, <2>4, <2>5
    <2> QED BY <2>1, <2>6, PlacedKeeps
<1>3. ASSUME NEW t \in Tx, Abandon(t) PROVE PlacedInRing' /\ PlacedDisjoint'
    <2>1. UNCHANGED <<ring, txTable, erased, txState, blocks, indexList, tpc, nwritten, batch, berr>>
        BY <1>3 DEF Abandon
    <2> QED BY <2>1, PlacedSame
<1>4. ASSUME NEW t \in Tx, Commit(t) PROVE PlacedInRing' /\ PlacedDisjoint'
    <2>1. UNCHANGED <<ring, indexList>>
        BY <1>4 DEF Commit
    <2>2. \A u \in Tx : Placed(u)' => Placed(u) /\ blocks'[u] = blocks[u]
        BY <1>4 DEF Commit, Placed, InRound, TypeOK
    <2> QED BY <2>1, <2>2, PlacedKeeps
<1>5. ASSUME NEW t \in Tx, CommitRefused(t) PROVE PlacedInRing' /\ PlacedDisjoint'
    <2>1. UNCHANGED <<ring, indexList>>
        BY <1>5 DEF CommitRefused
    <2>2. \A u \in Tx : Placed(u)' => Placed(u) /\ blocks'[u] = blocks[u]
        BY <1>5 DEF CommitRefused, Placed, InRound, TypeOK
    <2> QED BY <2>1, <2>2, PlacedKeeps
<1>6. ASSUME NEW t \in Tx, CommitFailed(t) PROVE PlacedInRing' /\ PlacedDisjoint'
    <2>1. UNCHANGED <<ring, txTable, erased, txState, blocks, indexList, tpc, nwritten, batch, berr>>
        BY <1>6 DEF CommitFailed
    <2> QED BY <2>1, PlacedSame
<1>7. ASSUME NEW t \in Tx, Apply(t) PROVE PlacedInRing' /\ PlacedDisjoint'
    <2>1. UNCHANGED <<ring, txTable, erased, txState, blocks, indexList, tpc, nwritten, batch, berr>>
        BY <1>7 DEF Apply
    <2> QED BY <2>1, PlacedSame
<1>8. ASSUME NEW t \in Tx, ApplyDone(t) PROVE PlacedInRing' /\ PlacedDisjoint'
    <2>1. UNCHANGED <<ring, txTable, erased, txState, blocks, indexList, tpc, nwritten, batch, berr>>
        BY <1>8 DEF ApplyDone
    <2> QED BY <2>1, PlacedSame
<1>9. ASSUME NEW t \in Tx, ApplyFailed(t) PROVE PlacedInRing' /\ PlacedDisjoint'
    <2>1. UNCHANGED <<ring, txTable, erased, txState, blocks, indexList, tpc, nwritten, batch, berr>>
        BY <1>9 DEF ApplyFailed
    <2> QED BY <2>1, PlacedSame
<1>10. ASSUME NEW t \in Tx, EraseTx(t) PROVE PlacedInRing' /\ PlacedDisjoint'
    <2>1. UNCHANGED <<ring, txTable, erased, txState, blocks, indexList, tpc, nwritten, batch, berr>>
        BY <1>10 DEF EraseTx
    <2> QED BY <2>1, PlacedSame
<1>11. ASSUME CheckStopping PROVE PlacedInRing' /\ PlacedDisjoint'
    <2>1. UNCHANGED <<ring, indexList>>
        BY <1>11 DEF CheckStopping
    <2>2. \A u \in Tx : Placed(u)' => Placed(u) /\ blocks'[u] = blocks[u]
        BY <1>11 DEF CheckStopping, Placed, InRound
    <2> QED BY <2>1, <2>2, PlacedKeeps
<1>12. ASSUME NoWork PROVE PlacedInRing' /\ PlacedDisjoint'
    <2>1. UNCHANGED <<ring, indexList>>
        BY <1>12 DEF NoWork
    <2>2. \A u \in Tx : Placed(u)' => Placed(u) /\ blocks'[u] = blocks[u]
        BY <1>12 DEF NoWork, Placed, InRound
    <2> QED BY <2>1, <2>2, PlacedKeeps
<1>13. ASSUME TakeBatch PROVE PlacedInRing' /\ PlacedDisjoint'
    <2>1. UNCHANGED <<ring, indexList>>
        BY <1>13 DEF TakeBatch
    <2>2. \A u \in Tx : Placed(u)' => Placed(u) /\ blocks'[u] = blocks[u]
        BY <1>13 DEF TakeBatch, Placed, InRound
    <2> QED BY <2>1, <2>2, PlacedKeeps
<1>14. ASSUME WriteTx PROVE PlacedInRing' /\ PlacedDisjoint'
    <2> DEFINE t == batch[nwritten + 1]
    <2> DEFINE n == TxLen(t)
    <2>1. /\ tpc = "write" /\ nwritten \in Nat /\ nwritten < Len(batch) /\ t \in Tx
          /\ nwritten + 1 \in DOMAIN batch /\ DOMAIN batch = 1 .. Len(batch)
          /\ n <= Capacity - ring.size
          /\ indexList' = [indexList EXCEPT ![t] = Pushed(ring, n)]
          /\ ring' = PushMany(ring, n)
          /\ nwritten' = nwritten + 1
          /\ UNCHANGED <<txTable, erased, txState, blocks, tpc, batch, berr>>
        BY <1>14 DEF WriteTx, TypeOK
    <2>2. txState[t] = "Commiting" /\ \A j \in 1 .. nwritten : batch[j] # t
        BY <2>1 DEF QueueOk
    <2>2a. n \in Nat
        BY <2>1, TxBlockType
    <2> HIDE DEF t
    <2>3. ~Placed(t)
        BY <2>1, <2>2 DEF Placed, InRound
    <2>4. \A u \in Tx : u # t => indexList'[u] = indexList[u]
        BY <2>1 DEF TypeOK
    <2>5. indexList'[t] = Pushed(ring, n)
        BY <2>1 DEF TypeOK
    <2>6. \A u \in Tx : TxLen(u)' = TxLen(u)
        BY <2>1 DEF TxLen
    <2>7. ASSUME NEW u \in Tx, u # t, Placed(u)'
          PROVE  Placed(u)
        <3>1. \A j \in 1 .. nwritten' : j \in 1 .. nwritten \/ j = nwritten + 1
            BY <2>1
        <3>2. InRound(u)' => InRound(u)
            BY <2>1, <2>7, <3>1 DEF InRound, t
        <3> QED BY <2>1, <2>7, <3>2 DEF Placed
    <2> HIDE DEF n
    <2>8. /\ Len(Pushed(ring, n)) = n
          /\ \A j, k \in 1 .. n : Pushed(ring, n)[j] = Pushed(ring, n)[k] => j = k
          /\ \A k \in 1 .. n : Pushed(ring, n)[k] \notin Used(ring)
          /\ \A k \in 1 .. n : Pushed(ring, n)[k] \in Used(ring')
          /\ Used(ring) \subseteq Used(ring')
        BY <2>1, <2>2a, PushLemma, PushedSlots DEF RingsOk, TypeOK
    <2>9. ASSUME NEW u \in Tx, Placed(u)'
          PROVE  /\ Len(indexList'[u]) = TxLen(u)
                 /\ \A k \in 1 .. TxLen(u) : indexList'[u][k] \in Used(ring')
                 /\ \A j, k \in 1 .. TxLen(u) : indexList'[u][j] = indexList'[u][k] => j = k
        <3>1. CASE u = t
            BY <2>5, <2>8, <3>1 DEF n
        <3>2. CASE u # t
            BY <2>4, <2>7, <2>8, <2>9, <3>2 DEF PlacedInRing
        <3> QED BY <3>1, <3>2
    <2>10. ASSUME NEW u \in Tx, u # t, Placed(u)'
           PROVE  \A j \in 1 .. TxLen(u) : \A k \in 1 .. n : indexList'[u][j] # indexList'[t][k]
        BY <2>4, <2>5, <2>7, <2>8, <2>10 DEF PlacedInRing
    <2>11. ASSUME NEW u \in Tx, NEW v \in Tx, Placed(u)', Placed(v)', u # v
           PROVE  \A j \in 1 .. TxLen(u) : \A k \in 1 .. TxLen(v) :
                     indexList'[u][j] # indexList'[v][k]
        <3>1. CASE u = t
            BY <2>10, <2>11, <3>1 DEF n
        <3>2. CASE v = t
            BY <2>10, <2>11, <3>2 DEF n
        <3>3. CASE u # t /\ v # t
            BY <2>4, <2>7, <2>11, <3>3 DEF PlacedDisjoint
        <3> QED BY <3>1, <3>2, <3>3
    <2>12. PlacedInRing'
        BY <2>6, <2>9 DEF PlacedInRing
    <2>13. PlacedDisjoint'
        BY <2>6, <2>11 DEF PlacedDisjoint
    <2> QED BY <2>12, <2>13
<1>15. ASSUME NEW n \in 0 .. Capacity, WriteTxFail(n) PROVE PlacedInRing' /\ PlacedDisjoint'
    <2> DEFINE t == batch[nwritten + 1]
    <2>0. /\ Capacity \in Nat /\ ring.size \in Nat /\ n \in Nat
          /\ batch \in Seq(Tx) /\ nwritten \in Nat
        BY CapacityAssumption DEF TypeOK, Ring
    <2>0a. nwritten < Len(batch) /\ n <= Capacity - ring.size
        BY <1>15, <2>0 DEF WriteTxFail
    <2>0b. t \in Tx
        BY <2>0, <2>0a
    <2>1. /\ t \in Tx /\ n \in Nat /\ n <= Capacity - ring.size
          /\ ring' = PushMany(ring, n)
          /\ indexList' = [indexList EXCEPT ![t] = <<>>]
          /\ txState' = [txState EXCEPT ![t] = "Canceled"]
          /\ txTable' = txTable \ {t} /\ tpc' = "complete" /\ berr' = TRUE
          /\ UNCHANGED <<blocks, erased>>
        BY <1>15, <2>0, <2>0a, <2>0b DEF WriteTxFail
    <2> HIDE DEF t
    <2>2. Used(ring) \subseteq Used(ring')
        BY <2>1, PushLemma DEF RingsOk, TypeOK
    <2>3. \A u \in Tx : u # t => txState'[u] = txState[u] /\ indexList'[u] = indexList[u]
        BY <2>1 DEF TypeOK
    <2>4. \A u \in Tx : ~InRound(u)'
        BY <2>1 DEF InRound
    <2>5. \A u \in Tx : Placed(u)' => Placed(u) /\ u # t
        BY <2>1, <2>3, <2>4 DEF Placed
    <2>6. \A u \in Tx : Placed(u)' =>
              /\ Placed(u) /\ indexList'[u] = indexList[u] /\ blocks'[u] = blocks[u]
              /\ \A k \in 1 .. TxLen(u) : indexList[u][k] \in Used(ring')
        BY <2>1, <2>2, <2>3, <2>5 DEF PlacedInRing
    <2> QED BY <2>6, PlacedFrame
<1>16. ASSUME FlushBlocks PROVE PlacedInRing' /\ PlacedDisjoint'
    <2>1. UNCHANGED <<ring, indexList>>
        BY <1>16 DEF FlushBlocks
    <2>2. \A u \in Tx : Placed(u)' => Placed(u) /\ blocks'[u] = blocks[u]
        BY <1>16 DEF FlushBlocks, Placed, InRound, TypeOK
    <2> QED BY <2>1, <2>2, PlacedKeeps
<1>17. ASSUME CompleteTx PROVE PlacedInRing' /\ PlacedDisjoint'
    <2> DEFINE t == Head(batch)
    <2>1. /\ tpc = "complete" /\ t = batch[1] /\ 1 \in DOMAIN batch /\ t \in Tx
          /\ \A i \in DOMAIN Tail(batch) : i + 1 \in DOMAIN batch
                  /\ Tail(batch)[i] = batch[i + 1]
        BY <1>17 DEF CompleteTx, TypeOK
    <2>2. /\ txState' = [txState EXCEPT ![t] = Outcome]
          /\ txTable' = IF berr THEN txTable \ {t} ELSE txTable
          /\ batch' = Tail(batch)
          /\ UNCHANGED <<ring, indexList, blocks, tpc, berr, erased>>
        BY <1>17 DEF CompleteTx
    <2> HIDE DEF t
    <2>3. \A u \in Tx : u # t => txState'[u] = txState[u]
        BY <2>2 DEF TypeOK
    <2>4. \A u \in Tx : InRound(u)' => InRound(u)
        BY <2>1, <2>2 DEF InRound
    <2>5. ~berr => InRound(t)
        BY <2>1 DEF InRound
    <2>6. \A u \in Tx : Placed(u)' => Placed(u) /\ blocks'[u] = blocks[u]
        BY <2>2, <2>3, <2>4, <2>5 DEF Placed
    <2> QED BY <2>2, <2>6, PlacedKeeps
<1>18. ASSUME RoundDone PROVE PlacedInRing' /\ PlacedDisjoint'
    <2>1. UNCHANGED <<ring, indexList>>
        BY <1>18 DEF RoundDone
    <2>2. \A u \in Tx : Placed(u)' => Placed(u) /\ blocks'[u] = blocks[u]
        BY <1>18 DEF RoundDone, Placed, InRound
    <2> QED BY <2>1, <2>2, PlacedKeeps
<1>19. ASSUME FlushHeader PROVE PlacedInRing' /\ PlacedDisjoint'
    <2>1. UNCHANGED <<ring, txTable, erased, txState, blocks, indexList, tpc, nwritten, batch, berr>>
        BY <1>19 DEF FlushHeader
    <2> QED BY <2>1, PlacedSame
<1>20. ASSUME FlushHeaderDone PROVE PlacedInRing' /\ PlacedDisjoint'
    <2>1. UNCHANGED <<ring, txTable, erased, txState, blocks, indexList, tpc, nwritten, batch, berr>>
        BY <1>20 DEF FlushHeaderDone
    <2> QED BY <2>1, PlacedSame
<1>21. ASSUME NEW t \in Tx, CompactTx(t) PROVE PlacedInRing' /\ PlacedDisjoint'
    <2>1. /\ t \in toErase /\ EraseOk(ring, indexList[t])
          /\ ring' = Erase(ring, indexList[t])
          /\ erased' = erased \cup {t}
          /\ UNCHANGED <<txTable, txState, blocks, indexList, tpc, nwritten, batch, berr>>
        BY <1>21 DEF CompactTx
    <2>2. Placed(t)
        BY <2>1 DEF TxOk, Placed
    <2>3. \A u \in Tx : InRound(u)' <=> InRound(u)
        BY <2>1 DEF InRound
    <2>4. \A u \in Tx : Placed(u)' => Placed(u) /\ u # t
        BY <2>1, <2>3 DEF Placed
    <2>5. \A i \in Used(ring) : i \in Range(indexList[t]) \/ i \in Used(ring')
        BY <2>1, EraseLemma DEF RingsOk, TypeOK
    <2>6. DOMAIN indexList[t] = 1 .. TxLen(t)
        BY <2>2, PlacedDomain
    <2>7. ASSUME NEW u \in Tx, Placed(u), u # t, NEW k \in 1 .. TxLen(u)
          PROVE  indexList[u][k] \in Used(ring')
        <3>1. indexList[u][k] \in Used(ring)
            BY <2>7 DEF PlacedInRing
        <3>2. \A j \in 1 .. TxLen(t) : indexList[t][j] # indexList[u][k]
            BY <2>2, <2>7 DEF PlacedDisjoint
        <3>3. indexList[u][k] \notin Range(indexList[t])
            BY <2>6, <3>2 DEF Range
        <3> QED BY <2>5, <3>1, <3>3
    <2> QED BY <2>1, <2>4, <2>7, PlacedFrame
<1>22. ASSUME CompactDone PROVE PlacedInRing' /\ PlacedDisjoint'
    <2>1. UNCHANGED <<ring, indexList>>
        BY <1>22 DEF CompactDone, FlushReturn
    <2>2. \A u \in Tx : Placed(u)' => Placed(u) /\ blocks'[u] = blocks[u]
        BY <1>22 DEF CompactDone, FlushReturn, Placed, InRound, Modes
    <2> QED BY <2>1, <2>2, PlacedKeeps
<1>23. ASSUME FlushFailed PROVE PlacedInRing' /\ PlacedDisjoint'
    <2>1. UNCHANGED <<ring, indexList>>
        BY <1>23 DEF FlushFailed, FlushReturn
    <2>2. \A u \in Tx : Placed(u)' => Placed(u) /\ blocks'[u] = blocks[u]
        BY <1>23 DEF FlushFailed, FlushReturn, Placed, InRound, Modes
    <2> QED BY <2>1, <2>2, PlacedKeeps
<1>24. ASSUME Format PROVE PlacedInRing' /\ PlacedDisjoint'
    <2>1. UNCHANGED <<ring, txTable, erased, txState, blocks, indexList, tpc, nwritten, batch, berr>>
        BY <1>24 DEF Format
    <2> QED BY <2>1, PlacedSame
<1>25. ASSUME LoadHeader PROVE PlacedInRing' /\ PlacedDisjoint'
    <2>1. txTable' = {}
        BY <1>25 DEF LoadHeader, Modes
    <2> QED BY <2>1, PlacedNone
<1>26. ASSUME ReplayBlock PROVE PlacedInRing' /\ PlacedDisjoint'
    <2>1. txTable' = {}
        BY <1>26 DEF ReplayBlock, StartRunning, Modes
    <2> QED BY <2>1, PlacedNone
<1>27. ASSUME ReplayApplied PROVE PlacedInRing' /\ PlacedDisjoint'
    <2>1. UNCHANGED <<ring, txTable, erased, txState, blocks, indexList, tpc, nwritten, batch, berr>>
        BY <1>27 DEF ReplayApplied
    <2> QED BY <2>1, PlacedSame
<1>28. ASSUME ReplayDone PROVE PlacedInRing' /\ PlacedDisjoint'
    <2>1. txTable' = {}
        BY <1>28 DEF ReplayDone, StartRunning, Modes
    <2> QED BY <2>1, PlacedNone
<1>29. ASSUME ReplayFailed PROVE PlacedInRing' /\ PlacedDisjoint'
    <2>1. UNCHANGED <<ring, txTable, erased, txState, blocks, indexList, tpc, nwritten, batch, berr>>
        BY <1>29 DEF ReplayFailed
    <2> QED BY <2>1, PlacedSame
<1>30. ASSUME Unload PROVE PlacedInRing' /\ PlacedDisjoint'
    <2>1. UNCHANGED <<ring, txTable, erased, txState, blocks, indexList, tpc, nwritten, batch, berr>>
        BY <1>30 DEF Unload
    <2> QED BY <2>1, PlacedSame
<1>31. ASSUME UnloadFlush PROVE PlacedInRing' /\ PlacedDisjoint'
    <2>1. /\ UNCHANGED <<ring, indexList, blocks, batch, erased>> /\ tpc' = "none"
          /\ txTable' \subseteq txTable
          /\ \A u \in Tx : txState'[u] \in {"Canceled", txState[u]}
        BY <1>31 DEF UnloadFlush, CancelQueued
    <2>2. \A u \in Tx : Placed(u)' => Placed(u) /\ blocks'[u] = blocks[u]
        BY <2>1 DEF Placed, InRound
    <2> QED BY <2>1, <2>2, PlacedKeeps
<1>32. ASSUME UnloadNoFlush PROVE PlacedInRing' /\ PlacedDisjoint'
    <2>1. /\ UNCHANGED <<ring, indexList, blocks, batch, erased>> /\ tpc' = "none"
          /\ txTable' \subseteq txTable
          /\ \A u \in Tx : txState'[u] \in {"Canceled", txState[u]}
        BY <1>32 DEF UnloadNoFlush, CancelQueued
    <2>2. \A u \in Tx : Placed(u)' => Placed(u) /\ blocks'[u] = blocks[u]
        BY <2>1 DEF Placed, InRound
    <2> QED BY <2>1, <2>2, PlacedKeeps
<1>33. ASSUME Destroy PROVE PlacedInRing' /\ PlacedDisjoint'
    <2>1. txTable' = {}
        BY <1>33 DEF Destroy, Forget
    <2> QED BY <2>1, PlacedNone
<1>34. ASSUME Crash PROVE PlacedInRing' /\ PlacedDisjoint'
    <2>1. txTable' = {}
        BY <1>34 DEF Crash, Forget
    <2> QED BY <2>1, PlacedNone
<1>35. ASSUME UNCHANGED vars PROVE PlacedInRing' /\ PlacedDisjoint'
    <2>1. UNCHANGED <<ring, txTable, erased, txState, blocks, indexList, tpc, nwritten, batch, berr>>
        BY <1>35 DEF vars
    <2> QED BY <2>1, PlacedSame
<1> QED
    BY <1>1, <1>2, <1>3, <1>4, <1>5, <1>6, <1>7, <1>8, <1>9, <1>10, <1>11,
       <1>12, <1>13, <1>14, <1>15, <1>16, <1>17, <1>18, <1>19, <1>20, <1>21, <1>22,
       <1>23, <1>24, <1>25, <1>26, <1>27, <1>28, <1>29, <1>30, <1>31, <1>32, <1>33,
       <1>34, <1>35 DEF Next, Client, CommitTail, Thread, Flush, Mount

-----------------------------------------------------------------------------
(* What is certainly in the log                                            *)

\* A transaction that is or will be reported as committed has its slots.
LEMMA LoggedPlaced ==
    ASSUME IInv, NEW t \in Tx, Logged(t)
    PROVE  Placed(t)
<1>1. fpc = "compact" /\ mpc # "flush" => tpc = "flush"
    BY DEF IInv, Modes
<1> QED BY <1>1 DEF Logged, Placed, InRound, Range

\* The blocks of a transaction depend on its data only.
LEMMA TxSame ==
    ASSUME NEW t \in Tx, blocks'[t] = blocks[t]
    PROVE  \A k : TxBlock(t, k)' = TxBlock(t, k) /\ TxLen(t)' = TxLen(t)
BY DEF TxBlock, TxLen, BeginBlock, DataBlock, CommitBlock

\* A step that reports no transaction, does not write to the slots of those
\* that were reported and writes no header but that of the present ring.
LEMMA DurableFrame ==
    ASSUME IInv,
           \A t \in Tx : Logged(t)' =>
               /\ Logged(t) /\ indexList'[t] = indexList[t] /\ blocks'[t] = blocks[t]
               /\ \A k \in 1 .. TxLen(t) : log'[indexList[t][k]] = log[indexList[t][k]],
           \A h \in hdr' : h \in hdr \/ h = ring
    PROVE  CommittedDurable'
<1>1. ring # NoHeader
    BY JournalAssumption DEF IInv, TypeOK
<1> SUFFICES ASSUME NEW t \in Tx, Logged(t)'
             PROVE  /\ Len(indexList'[t]) = TxLen(t)'
                    /\ \A k \in 1 .. TxLen(t)' : log'[indexList'[t][k]] = {TxBlock(t, k)'}
                    /\ \A h \in hdr' : h # NoHeader /\ Range(indexList'[t]) \subseteq Used(h)
    BY DEF CommittedDurable
<1>2. Logged(t) /\ Placed(t)
    BY LoggedPlaced
<1>3. Range(indexList[t]) \subseteq Used(ring)
    BY <1>2, PlacedDomain DEF IInv, PlacedInRing, Range
<1>4. /\ Len(indexList[t]) = TxLen(t)
      /\ \A k \in 1 .. TxLen(t) : log[indexList[t][k]] = {TxBlock(t, k)}
      /\ \A h \in hdr : h # NoHeader /\ Range(indexList[t]) \subseteq Used(h)
    BY <1>2 DEF IInv, CommittedDurable
<1>5. \A k : TxBlock(t, k)' = TxBlock(t, k) /\ TxLen(t)' = TxLen(t)
    BY TxSame
<1>6. indexList'[t] = indexList[t]
    OBVIOUS
<1>7. \A k \in 1 .. TxLen(t) : log'[indexList[t][k]] = log[indexList[t][k]]
    OBVIOUS
<1>8. \A k \in 1 .. TxLen(t)' : log'[indexList'[t][k]] = {TxBlock(t, k)'}
    BY <1>4, <1>5, <1>6, <1>7
<1>9. \A h \in hdr' : h # NoHeader /\ Range(indexList'[t]) \subseteq Used(h)
    BY <1>1, <1>3, <1>4, <1>6
<1>10. Len(indexList'[t]) = TxLen(t)'
    BY <1>4, <1>5, <1>6
<1> QED BY <1>8, <1>9, <1>10

\* The same for a step without writes that leaves the blocks of the placed
\* transactions alone and does not start the header.
LEMMA DurableKeepsPlaced ==
    ASSUME IInv, UNCHANGED <<indexList, log, hdr>>,
           \A t \in Tx : Logged(t)' => Logged(t),
           \A t \in Tx : Placed(t) => blocks'[t] = blocks[t],
           ~(fpc' = "header" /\ tpc' = "flush") \/ UNCHANGED <<fpc, tpc, batch>>
    PROVE  RoundDurable' /\ CommittedDurable'
<1>1. CommittedDurable'
    BY LoggedPlaced, DurableFrame
<1>2. ASSUME fpc' = "header", tpc' = "flush" PROVE RoundDurable'
    <2>1. fpc = "header" /\ tpc = "flush" /\ batch' = batch
        BY <1>2
    <2>2. \A i \in DOMAIN batch : batch[i] \in Tx
        BY DEF IInv, TypeOK
    <2>3. \A i \in DOMAIN batch : InRound(batch[i])
        BY <2>1 DEF InRound
    <2>4. \A i \in DOMAIN batch : batch[i] \in txTable /\ txState[batch[i]] = "Commiting"
        BY <2>1 DEF IInv, QueueOk
    <2>5. \A i \in DOMAIN batch : Placed(batch[i])
        BY <2>2, <2>3, <2>4 DEF Placed, IInv, TxOk
    <2>6. \A i \in DOMAIN batch : \A k :
              TxBlock(batch[i], k)' = TxBlock(batch[i], k) /\ TxLen(batch[i])' = TxLen(batch[i])
        <3> TAKE i \in DOMAIN batch
        <3>1. batch[i] \in Tx /\ blocks'[batch[i]] = blocks[batch[i]]
            BY <2>2, <2>5
        <3> DEFINE t == batch[i]
        <3>2. t' = t
            BY <2>1
        <3> QED BY <3>1, <2>1 DEF TxBlock, TxLen, BeginBlock, DataBlock, CommitBlock
    <2> QED BY <2>1, <2>6 DEF IInv, RoundDurable
<1>3. ASSUME ~(fpc' = "header" /\ tpc' = "flush") PROVE RoundDurable'
    BY <1>3 DEF RoundDurable
<1> QED BY <1>1, <1>2, <1>3

\* The same when no data changes at all.
LEMMA DurableKeeps ==
    ASSUME IInv, UNCHANGED <<indexList, log, hdr, blocks>>,
           \A t \in Tx : Logged(t)' => Logged(t),
           ~(fpc' = "header" /\ tpc' = "flush") \/ UNCHANGED <<fpc, tpc, batch>>
    PROVE  RoundDurable' /\ CommittedDurable'
BY DurableKeepsPlaced

\* Steps that change nothing durability is about.
LEMMA DurableSame ==
    ASSUME IInv, UNCHANGED <<txTable, erased, txState, batch, fpc, tpc, berr, mpc,
                             indexList, blocks, log, hdr>>
    PROVE  RoundDurable' /\ CommittedDurable'
<1>1. \A t \in Tx : Logged(t)' => Logged(t)
    BY DEF Logged
<1> QED BY <1>1, DurableKeeps

\* While the table is empty nothing is claimed.
LEMMA DurableNone ==
    ASSUME txTable' = {}, fpc' # "header"
    PROVE  RoundDurable' /\ CommittedDurable'
BY DEF RoundDurable, CommittedDurable, Logged

\* The bios of a round do not touch the slots of a committed transaction.
LEMMA BatchApart ==
    ASSUME IInv, (tpc = "write" /\ nwritten = Len(batch)) \/ fpc = "blocks",
           NEW u \in Tx, Logged(u), txState[u] = "Commited"
    PROVE  \A k \in 1 .. TxLen(u) : indexList[u][k] \in Slot \ BatchSlots
<1>1. \A i \in DOMAIN batch : batch[i] \in Tx /\ Placed(batch[i])
    BY BatchPlaced
<1>2. tpc \in {"write", "flush"}
    BY DEF IInv, Modes, TypeOK
<1>3. \A i \in DOMAIN batch : batch[i] # u
    BY <1>2 DEF IInv, QueueOk
<1>4. Placed(u)
    BY LoggedPlaced
<1>5. \A t \in Tx : Placed(t) => DOMAIN indexList[t] = 1 .. TxLen(t)
    BY PlacedDomain
<1>6. \A k \in 1 .. TxLen(u) : indexList[u][k] \in Slot
    <2>1. indexList[u] \in Seq(Slot)
        BY DEF IInv, TypeOK
    <2>2. \A k \in DOMAIN indexList[u] : indexList[u][k] \in Slot
        BY <2>1
    <2> QED BY <1>4, <1>5, <2>2
<1>7. ASSUME NEW k \in 1 .. TxLen(u), NEW i \in DOMAIN batch
      PROVE  indexList[u][k] \notin Range(indexList[batch[i]])
    <2>1. \A j \in 1 .. TxLen(batch[i]) : indexList[batch[i]][j] # indexList[u][k]
        BY <1>1, <1>3, <1>4 DEF IInv, PlacedDisjoint
    <2> QED BY <1>1, <1>5, <2>1 DEF Range
<1>8. \A t \in Range(batch) : \E i \in DOMAIN batch : t = batch[i]
    BY DEF Range
<1> QED BY <1>6, <1>7, <1>8 DEF BatchSlots

\* Each slot of the round receives exactly one block: the one it was taken for.
LEMMA BatchExact ==
    ASSUME IInv, fpc = "blocks", NEW i \in DOMAIN batch, NEW k \in 1 .. TxLen(batch[i])
    PROVE  /\ indexList[batch[i]][k] \in Slot \cap BatchSlots
           /\ BatchBlock(indexList[batch[i]][k]) = {TxBlock(batch[i], k)}
<1> DEFINE t == batch[i]
<1> DEFINE s == indexList[t][k]
<1>1. \A j \in DOMAIN batch : batch[j] \in Tx /\ Placed(batch[j])
    BY BatchPlaced
<1>2. \A u \in Range(batch) : u \in Tx /\ Placed(u)
    BY <1>1 DEF Range
<1>3. \A u \in Range(batch) : DOMAIN indexList[u] = 1 .. TxLen(u)
    BY <1>2, PlacedDomain
<1>4. t \in Range(batch) /\ t \in Tx /\ Placed(t)
    BY <1>1 DEF Range
<1>5. indexList[t] \in Seq(Slot)
    BY <1>4 DEF IInv, TypeOK
<1> HIDE DEF t
<1>6. k \in DOMAIN indexList[t]
    BY <1>3, <1>4 DEF t
<1>7. s \in Slot /\ s \in Range(indexList[t])
    BY <1>5, <1>6 DEF Range
<1>8. s \in BatchSlots
    BY <1>4, <1>7 DEF BatchSlots
<1>9. ASSUME NEW u \in Range(batch), NEW j \in DOMAIN indexList[u], indexList[u][j] = s
      PROVE  u = t /\ j = k
    <2>1. j \in 1 .. TxLen(u) /\ k \in 1 .. TxLen(t)
        BY <1>3, <1>4, <1>6
    <2>2. u = t
        BY <1>2, <1>4, <1>9, <2>1 DEF IInv, PlacedDisjoint
    <2> QED BY <1>4, <1>9, <2>1, <2>2 DEF IInv, PlacedInRing
<1>10. BatchBlock(s) \subseteq {TxBlock(t, k)}
    BY <1>9 DEF BatchBlock
<1>11. TxBlock(t, k) \in BatchBlock(s)
    <2>1. k \in {j \in DOMAIN indexList[t] : indexList[t][j] = s}
        BY <1>6
    <2>2. TxBlock(t, k) \in {TxBlock(t, j) : j \in {m \in DOMAIN indexList[t] : indexList[t][m] = s}}
        BY <2>1
    <2> QED BY <1>4, <2>2 DEF BatchBlock
<1>12. BatchBlock(s) = {TxBlock(t, k)}
    BY <1>10, <1>11
<1> QED BY <1>7, <1>8, <1>12 DEF t

\* Every step keeps reported transactions durable: the header is written after
\* the blocks, and no bio goes to a slot that a reported transaction holds.
LEMMA DurableStep == IInv /\ [Next]_vars => RoundDurable' /\ CommittedDurable'
<1> SUFFICES ASSUME IInv, [Next]_vars PROVE RoundDurable' /\ CommittedDurable'
    OBVIOUS
<1>0. /\ TypeOK /\ RingsOk /\ Modes /\ QueueOk /\ TxOk /\ PlacedInRing
      /\ RoundDurable /\ CommittedDurable
    BY DEF IInv
<1> USE <1>0 DEF mountVars, tableVars, threadVars, txVars, homeVars, histVars
<1>1. ASSUME NEW t \in Tx, BeginTx(t) PROVE RoundDurable' /\ CommittedDurable'
    <2>1. UNCHANGED <<indexList, log, hdr, blocks, fpc, tpc, batch, berr, mpc, erased>>
          /\ txTable' = txTable \cup {t} /\ txState' = [txState EXCEPT ![t] = "New"]
        BY <1>1 DEF BeginTx
    <2>2. txState[t] = "None"
        BY <1>1 DEF BeginTx, TxOk
    <2>3. txState'[t] = "New" /\ \A u \in Tx : u # t => txState'[u] = txState[u]
        BY <2>1 DEF TypeOK
    <2>4. tpc = "complete" /\ ~berr => t \notin Range(batch)
        BY <2>2 DEF QueueOk, Range
    <2>5. fpc = "none"
        BY <1>1 DEF BeginTx, LockFree
    <2>6. \A u \in Tx : Logged(u)' => Logged(u)
        BY <2>1, <2>3, <2>4, <2>5 DEF Logged
    <2> QED BY <2>1, <2>6, DurableKeeps
<1>2. ASSUME NEW t \in Tx, NEW page \in Pages, Write(t, page) PROVE RoundDurable' /\ CommittedDurable'
    <2>1. /\ UNCHANGED <<indexList, log, hdr, fpc, tpc, batch, berr, mpc, erased, txTable, txState>>
          /\ blocks' = [blocks EXCEPT ![t] = @ \o page] /\ txState[t] = "New"
        BY <1>2 DEF Write
    <2>2. ~Placed(t)
        BY <2>1, RoundUndecided DEF Placed
    <2>3. \A u \in Tx : Placed(u) => blocks'[u] = blocks[u]
        BY <2>1, <2>2 DEF TypeOK
    <2>4. \A u \in Tx : Logged(u)' => Logged(u)
        BY <2>1 DEF Logged
    <2> QED BY <2>1, <2>3, <2>4, DurableKeepsPlaced
<1>3. ASSUME NEW t \in Tx, Abandon(t) PROVE RoundDurable' /\ CommittedDurable'
    <2>1. UNCHANGED <<txTable, erased, txState, batch, fpc, tpc, berr, mpc, indexList, blocks, log, hdr>>
        BY <1>3 DEF Abandon
    <2> QED BY <2>1, DurableSame
<1>4. ASSUME NEW t \in Tx, Commit(t) PROVE RoundDurable' /\ CommittedDurable'
    <2>1. UNCHANGED <<indexList, log, hdr, blocks>>
        BY <1>4 DEF Commit
    <2>2. \A u \in Tx : Logged(u)' => Logged(u)
        BY <1>4 DEF Commit, Logged, TypeOK
    <2>3. ~(fpc' = "header" /\ tpc' = "flush") \/ UNCHANGED <<fpc, tpc, batch>>
        BY <1>4 DEF Commit
    <2> QED BY <2>1, <2>2, <2>3, DurableKeeps
<1>5. ASSUME NEW t \in Tx, CommitRefused(t) PROVE RoundDurable' /\ CommittedDurable'
    <2>1. UNCHANGED <<indexList, log, hdr, blocks>>
        BY <1>5 DEF CommitRefused
    <2>2. \A u \in Tx : Logged(u)' => Logged(u)
        BY <1>5 DEF CommitRefused, Logged, TypeOK
    <2>3. ~(fpc' = "header" /\ tpc' = "flush") \/ UNCHANGED <<fpc, tpc, batch>>
        BY <1>5 DEF CommitRefused
    <2> QED BY <2>1, <2>2, <2>3, DurableKeeps
<1>6. ASSUME NEW t \in Tx, CommitFailed(t) PROVE RoundDurable' /\ CommittedDurable'
    <2>1. UNCHANGED <<txTable, erased, txState, batch, fpc, tpc, berr, mpc, indexList, blocks, log, hdr>>
        BY <1>6 DEF CommitFailed
    <2> QED BY <2>1, DurableSame
<1>7. ASSUME NEW t \in Tx, Apply(t) PROVE RoundDurable' /\ CommittedDurable'
    <2>1. UNCHANGED <<txTable, erased, txState, batch, fpc, tpc, berr, mpc, indexList, blocks, log, hdr>>
        BY <1>7 DEF Apply
    <2> QED BY <2>1, DurableSame
<1>8. ASSUME NEW t \in Tx, ApplyDone(t) PROVE RoundDurable' /\ CommittedDurable'
    <2>1. UNCHANGED <<txTable, erased, txState, batch, fpc, tpc, berr, mpc, indexList, blocks, log, hdr>>
        BY <1>8 DEF ApplyDone
    <2> QED BY <2>1, DurableSame
<1>9. ASSUME NEW t \in Tx, ApplyFailed(t) PROVE RoundDurable' /\ CommittedDurable'
    <2>1. UNCHANGED <<txTable, erased, txState, batch, fpc, tpc, berr, mpc, indexList, blocks, log, hdr>>
        BY <1>9 DEF ApplyFailed
    <2> QED BY <2>1, DurableSame
<1>10. ASSUME NEW t \in Tx, EraseTx(t) PROVE RoundDurable' /\ CommittedDurable'
    <2>1. UNCHANGED <<txTable, erased, txState, batch, fpc, tpc, berr, mpc, indexList, blocks, log, hdr>>
        BY <1>10 DEF EraseTx
    <2> QED BY <2>1, DurableSame
<1>11. ASSUME CheckStopping PROVE RoundDurable' /\ CommittedDurable'
    <2>1. UNCHANGED <<indexList, log, hdr, blocks>>
        BY <1>11 DEF CheckStopping
    <2>2. \A u \in Tx : Logged(u)' => Logged(u)
        BY <1>11 DEF CheckStopping, Logged
    <2>3. ~(fpc' = "header" /\ tpc' = "flush") \/ UNCHANGED <<fpc, tpc, batch>>
        BY <1>11 DEF CheckStopping
    <2> QED BY <2>1, <2>2, <2>3, DurableKeeps
<1>12. ASSUME NoWork PROVE RoundDurable' /\ CommittedDurable'
    <2>1. UNCHANGED <<indexList, log, hdr, blocks>>
        BY <1>12 DEF NoWork
    <2>2. \A u \in Tx : Logged(u)' => Logged(u)
        BY <1>12 DEF NoWork, Logged
    <2>3. ~(fpc' = "header" /\ tpc' = "flush") \/ UNCHANGED <<fpc, tpc, batch>>
        BY <1>12 DEF NoWork
    <2> QED BY <2>1, <2>2, <2>3, DurableKeeps
<1>13. ASSUME TakeBatch PROVE RoundDurable' /\ CommittedDurable'
    <2>1. UNCHANGED <<indexList, log, hdr, blocks>>
        BY <1>13 DEF TakeBatch
    <2>2. \A u \in Tx : Logged(u)' => Logged(u)
        BY <1>13 DEF TakeBatch, Logged, Modes
    <2>3. ~(fpc' = "header" /\ tpc' = "flush") \/ UNCHANGED <<fpc, tpc, batch>>
        BY <1>13 DEF TakeBatch
    <2> QED BY <2>1, <2>2, <2>3, DurableKeeps
<1>14. ASSUME WriteTx PROVE RoundDurable' /\ CommittedDurable'
    <2> DEFINE t == batch[nwritten + 1]
    <2>1. /\ tpc = "write" /\ t \in Tx /\ txState[t] = "Commiting"
          /\ indexList' = [indexList EXCEPT ![t] = Pushed(ring, TxLen(t))]
          /\ UNCHANGED <<txTable, erased, txState, blocks, tpc, batch, berr, fpc, log, hdr>>
        BY <1>14 DEF WriteTx, TypeOK
    <2> HIDE DEF t
    <2>2. fpc = "none"
        BY <2>1 DEF Modes
    <2>3. \A u \in Tx : u # t => indexList'[u] = indexList[u]
        BY <2>1 DEF TypeOK
    <2>4. \A u \in Tx : Logged(u)' => Logged(u) /\ u # t
        BY <2>1, <2>2 DEF Logged
    <2>5. CommittedDurable'
        BY <2>1, <2>3, <2>4, DurableFrame
    <2>6. RoundDurable'
        BY <2>1 DEF RoundDurable
    <2> QED BY <2>5, <2>6
<1>15. ASSUME NEW n \in 0 .. Capacity, WriteTxFail(n) PROVE RoundDurable' /\ CommittedDurable'
    <2> DEFINE t == batch[nwritten + 1]
    <2>1. /\ tpc = "write" /\ t \in Tx
          /\ indexList' = [indexList EXCEPT ![t] = <<>>]
          /\ txState' = [txState EXCEPT ![t] = "Canceled"]
          /\ txTable' = txTable \ {t} /\ tpc' = "complete" /\ berr' = TRUE
          /\ UNCHANGED <<erased, blocks, fpc, log, hdr>>
        BY <1>15 DEF WriteTxFail, TypeOK
    <2> HIDE DEF t
    <2>2. fpc = "none"
        BY <2>1 DEF Modes
    <2>3. \A u \in Tx : u # t => indexList'[u] = indexList[u] /\ txState'[u] = txState[u]
        BY <2>1 DEF TypeOK
    <2>4. \A u \in Tx : Logged(u)' => Logged(u) /\ u # t
        BY <2>1, <2>2, <2>3 DEF Logged
    <2>5. CommittedDurable'
        BY <2>1, <2>3, <2>4, DurableFrame
    <2>6. RoundDurable'
        BY <2>1 DEF RoundDurable
    <2> QED BY <2>5, <2>6
<1>16. ASSUME FlushBlocks PROVE RoundDurable' /\ CommittedDurable'
    <2>1. /\ tpc = "write" /\ nwritten = Len(batch) /\ fpc' = "blocks" /\ tpc' = "flush"
          /\ \A i \in Slot : i \notin BatchSlots => log'[i] = log[i] \cup {}
          /\ UNCHANGED <<txTable, erased, txState, blocks, indexList, batch, berr, hdr>>
        BY <1>16 DEF FlushBlocks
    <2>2. fpc = "none"
        BY <2>1 DEF Modes
    <2>3. \A u \in Tx : Logged(u)' => Logged(u) /\ txState[u] = "Commited"
        BY <2>1 DEF Logged
    <2>4. \A u \in Tx : Logged(u)' =>
              \A k \in 1 .. TxLen(u) : indexList[u][k] \in Slot \ BatchSlots
        BY <2>1, <2>3, BatchApart
    <2>5. CommittedDurable'
        BY <2>1, <2>3, <2>4, DurableFrame
    <2>6. RoundDurable'
        BY <2>1 DEF RoundDurable
    <2> QED BY <2>5, <2>6
<1>17. ASSUME CompleteTx PROVE RoundDurable' /\ CommittedDurable'
    <2> DEFINE t == Head(batch)
    <2>1. /\ tpc = "complete" /\ t = batch[1] /\ 1 \in DOMAIN batch /\ t \in Tx
          /\ \A i \in DOMAIN Tail(batch) : i + 1 \in DOMAIN batch
                  /\ Tail(batch)[i] = batch[i + 1]
        BY <1>17 DEF CompleteTx, TypeOK
    <2>2. /\ txState' = [txState EXCEPT ![t] = Outcome]
          /\ txTable' = IF berr THEN txTable \ {t} ELSE txTable
          /\ batch' = Tail(batch)
          /\ UNCHANGED <<indexList, log, hdr, blocks, tpc, fpc, mpc, berr, erased>>
        BY <1>17 DEF CompleteTx
    <2> HIDE DEF t
    <2>3. \A u \in Tx : u # t => txState'[u] = txState[u]
        BY <2>2 DEF TypeOK
    <2>4. t \in Range(batch) /\ Range(batch') \subseteq Range(batch)
        BY <2>1, <2>2 DEF Range
    <2>5. fpc = "none"
        BY <2>1 DEF Modes
    <2>6. \A u \in Tx : Logged(u)' => Logged(u)
        BY <2>1, <2>2, <2>3, <2>4, <2>5 DEF Logged
    <2>7. ~(fpc' = "header" /\ tpc' = "flush")
        BY <2>1, <2>2
    <2> QED BY <2>2, <2>6, <2>7, DurableKeeps
<1>18. ASSUME RoundDone PROVE RoundDurable' /\ CommittedDurable'
    <2>1. UNCHANGED <<indexList, log, hdr, blocks>>
        BY <1>18 DEF RoundDone
    <2>2. \A u \in Tx : Logged(u)' => Logged(u)
        BY <1>18 DEF RoundDone, Logged
    <2>3. ~(fpc' = "header" /\ tpc' = "flush") \/ UNCHANGED <<fpc, tpc, batch>>
        BY <1>18 DEF RoundDone
    <2> QED BY <2>1, <2>2, <2>3, DurableKeeps
<1>19. ASSUME FlushHeader PROVE RoundDurable' /\ CommittedDurable'
    <2>1. /\ fpc = "blocks" /\ fpc' = "header"
          /\ log' = [i \in Slot |-> IF i \in BatchSlots THEN WrittenBlock(i) ELSE log[i]]
          /\ hdr' = hdr \cup {ring}
          /\ UNCHANGED <<txTable, erased, txState, blocks, indexList, tpc, batch, berr>>
        BY <1>19 DEF FlushHeader
    <2>2. tpc = "flush"
        BY <2>1 DEF Modes, TypeOK
    <2>3. \A u \in Tx : Logged(u)' => Logged(u) /\ txState[u] = "Commited"
        BY <2>1, <2>2 DEF Logged
    <2>4. \A u \in Tx : Logged(u)' =>
              \A k \in 1 .. TxLen(u) : indexList[u][k] \in Slot \ BatchSlots
        BY <2>1, <2>3, BatchApart
    <2>5. CommittedDurable'
        BY <2>1, <2>3, <2>4, DurableFrame
    <2>6. ASSUME NEW i \in DOMAIN batch, NEW k \in 1 .. TxLen(batch[i])
          PROVE  log'[indexList[batch[i]][k]] = {TxBlock(batch[i], k)}
        <3>1. /\ indexList[batch[i]][k] \in Slot \cap BatchSlots
              /\ BatchBlock(indexList[batch[i]][k]) = {TxBlock(batch[i], k)}
            BY <2>1, BatchExact
        <3> QED BY <2>1, <3>1 DEF WrittenBlock
    <2>7. \A i \in DOMAIN batch : batch[i] \in Tx
        BY DEF TypeOK
    <2>8. \A t \in Tx : \A k : TxBlock(t, k)' = TxBlock(t, k) /\ TxLen(t)' = TxLen(t)
        BY <2>1, TxSame
    <2>9. RoundDurable'
        BY <2>1, <2>6, <2>7, <2>8 DEF RoundDurable
    <2> QED BY <2>5, <2>9
<1>20. ASSUME FlushHeaderDone PROVE RoundDurable' /\ CommittedDurable'
    <2>1. /\ fpc = "header" /\ fpc' = "compact" /\ hdr' = {ring}
          /\ UNCHANGED <<txTable, erased, txState, blocks, indexList, tpc, batch, berr, mpc, log>>
        BY <1>20 DEF FlushHeaderDone, HeaderWritten
    <2>2. \A i \in DOMAIN batch : batch[i] \in Tx
        BY DEF TypeOK
    <2>3. tpc = "flush" \/ batch = <<>>
        BY <2>1 DEF Modes, TypeOK
    <2>4. ring \in Ring /\ ring # NoHeader
        BY JournalAssumption DEF TypeOK
    <2>5. ASSUME NEW t \in Tx, Logged(t)'
          PROVE  /\ Placed(t)
                 /\ \A k \in 1 .. TxLen(t) : log[indexList[t][k]] = {TxBlock(t, k)}
        <3>1. CASE Logged(t)
            BY <3>1, LoggedPlaced DEF CommittedDurable
        <3>2. CASE ~Logged(t)
            <4>1. t \in txTable /\ t \notin erased /\ \E i \in DOMAIN batch : batch[i] = t
                BY <2>1, <2>5, <3>2 DEF Logged, Range
            <4>2. tpc = "flush"
                BY <2>3, <4>1
            <4>3. Placed(t)
                BY <4>1, <4>2 DEF Placed, InRound
            <4> QED BY <2>1, <4>1, <4>2, <4>3 DEF RoundDurable
        <3> QED BY <3>1, <3>2
    <2>6. ASSUME NEW t \in Tx, Logged(t)'
          PROVE  /\ Len(indexList[t]) = TxLen(t)
                 /\ Range(indexList[t]) \subseteq Used(ring)
        BY <2>5, <2>6, PlacedDomain DEF PlacedInRing, Range
    <2>7. \A t \in Tx : \A k : TxBlock(t, k)' = TxBlock(t, k) /\ TxLen(t)' = TxLen(t)
        BY <2>1, TxSame
    <2>8. CommittedDurable'
        BY <2>1, <2>4, <2>5, <2>6, <2>7 DEF CommittedDurable
    <2>9. RoundDurable'
        BY <2>1 DEF RoundDurable
    <2> QED BY <2>8, <2>9
<1>21. ASSUME NEW t \in Tx, CompactTx(t) PROVE RoundDurable' /\ CommittedDurable'
    <2>1. UNCHANGED <<indexList, log, hdr, blocks>>
        BY <1>21 DEF CompactTx
    <2>2. \A u \in Tx : Logged(u)' => Logged(u)
        BY <1>21 DEF CompactTx, Logged
    <2>3. ~(fpc' = "header" /\ tpc' = "flush") \/ UNCHANGED <<fpc, tpc, batch>>
        BY <1>21 DEF CompactTx
    <2> QED BY <2>1, <2>2, <2>3, DurableKeeps
<1>22. ASSUME CompactDone PROVE RoundDurable' /\ CommittedDurable'
    <2>1. UNCHANGED <<indexList, log, hdr, blocks>>
        BY <1>22 DEF CompactDone, FlushReturn
    <2>2. \A u \in Tx : Logged(u)' => Logged(u)
        BY <1>22 DEF CompactDone, FlushReturn, Logged, Modes
    <2>3. ~(fpc' = "header" /\ tpc' = "flush") \/ UNCHANGED <<fpc, tpc, batch>>
        BY <1>22 DEF CompactDone, FlushReturn
    <2> QED BY <2>1, <2>2, <2>3, DurableKeeps
<1>23. ASSUME FlushFailed PROVE RoundDurable' /\ CommittedDurable'
    <2>1. UNCHANGED <<indexList, log, hdr, blocks>>
        BY <1>23 DEF FlushFailed, FlushReturn
    <2>2. \A u \in Tx : Logged(u)' => Logged(u)
        BY <1>23 DEF FlushFailed, FlushReturn, Logged, Modes
    <2>3. ~(fpc' = "header" /\ tpc' = "flush") \/ UNCHANGED <<fpc, tpc, batch>>
        BY <1>23 DEF FlushFailed, FlushReturn
    <2> QED BY <2>1, <2>2, <2>3, DurableKeeps
<1>24. ASSUME Format PROVE RoundDurable' /\ CommittedDurable'
    <2>1. txTable' = {} /\ fpc' # "header"
        BY <1>24 DEF Format, Modes
    <2> QED BY <2>1, DurableNone
<1>25. ASSUME LoadHeader PROVE RoundDurable' /\ CommittedDurable'
    <2>1. txTable' = {} /\ fpc' # "header"
        BY <1>25 DEF LoadHeader, Modes
    <2> QED BY <2>1, DurableNone
<1>26. ASSUME ReplayBlock PROVE RoundDurable' /\ CommittedDurable'
    <2>1. txTable' = {} /\ fpc' # "header"
        BY <1>26 DEF ReplayBlock, StartRunning, Modes
    <2> QED BY <2>1, DurableNone
<1>27. ASSUME ReplayApplied PROVE RoundDurable' /\ CommittedDurable'
    <2>1. txTable' = {} /\ fpc' # "header"
        BY <1>27 DEF ReplayApplied, Modes
    <2> QED BY <2>1, DurableNone
<1>28. ASSUME ReplayDone PROVE RoundDurable' /\ CommittedDurable'
    <2>1. txTable' = {} /\ fpc' # "header"
        BY <1>28 DEF ReplayDone, StartRunning, Modes
    <2> QED BY <2>1, DurableNone
<1>29. ASSUME ReplayFailed PROVE RoundDurable' /\ CommittedDurable'
    <2>1. txTable' = {} /\ fpc' # "header"
        BY <1>29 DEF ReplayFailed, Modes
    <2> QED BY <2>1, DurableNone
<1>30. ASSUME Unload PROVE RoundDurable' /\ CommittedDurable'
    <2>1. UNCHANGED <<indexList, log, hdr, blocks>>
        BY <1>30 DEF Unload
    <2>2. \A u \in Tx : Logged(u)' => Logged(u)
        BY <1>30 DEF Unload, Logged, LockFree
    <2>3. ~(fpc' = "header" /\ tpc' = "flush") \/ UNCHANGED <<fpc, tpc, batch>>
        BY <1>30 DEF Unload
    <2> QED BY <2>1, <2>2, <2>3, DurableKeeps
<1>31. ASSUME UnloadFlush PROVE RoundDurable' /\ CommittedDurable'
    <2>1. /\ UNCHANGED <<indexList, blocks, batch, erased, log>> /\ tpc' = "none" /\ mpc' = "flush"
          /\ txTable' \subseteq txTable /\ hdr' = hdr \cup {ring}
          /\ \A u \in Tx : txState'[u] \in {"Canceled", txState[u]}
        BY <1>31 DEF UnloadFlush, CancelQueued
    <2>2. \A u \in Tx : Logged(u)' => Logged(u)
        BY <2>1 DEF Logged
    <2>3. CommittedDurable'
        BY <2>1, <2>2, DurableFrame
    <2>4. RoundDurable'
        BY <2>1 DEF RoundDurable
    <2> QED BY <2>3, <2>4
<1>32. ASSUME UnloadNoFlush PROVE RoundDurable' /\ CommittedDurable'
    <2>1. /\ UNCHANGED <<indexList, blocks, batch, erased, log, hdr, fpc>> /\ tpc' = "none"
          /\ txTable' \subseteq txTable
          /\ \A u \in Tx : txState'[u] \in {"Canceled", txState[u]}
        BY <1>32 DEF UnloadNoFlush, CancelQueued
    <2>2. fpc = "none"
        BY <1>32 DEF UnloadNoFlush, CancelQueued, Modes
    <2>3. \A u \in Tx : Logged(u)' => Logged(u)
        BY <2>1, <2>2 DEF Logged
    <2> QED BY <2>1, <2>3, DurableKeeps
<1>33. ASSUME Destroy PROVE RoundDurable' /\ CommittedDurable'
    <2>1. txTable' = {} /\ fpc' # "header"
        BY <1>33 DEF Destroy, Forget
    <2> QED BY <2>1, DurableNone
<1>34. ASSUME Crash PROVE RoundDurable' /\ CommittedDurable'
    <2>1. txTable' = {} /\ fpc' # "header"
        BY <1>34 DEF Crash, Forget
    <2> QED BY <2>1, DurableNone
<1>35. ASSUME UNCHANGED vars PROVE RoundDurable' /\ CommittedDurable'
    <2>1. UNCHANGED <<txTable, erased, txState, batch, fpc, tpc, berr, mpc, indexList, blocks, log, hdr>>
        BY <1>35 DEF vars
    <2> QED BY <2>1, DurableSame
<1> QED
    BY <1>1, <1>2, <1>3, <1>4, <1>5, <1>6, <1>7, <1>8, <1>9, <1>10, <1>11,
       <1>12, <1>13, <1>14, <1>15, <1>16, <1>17, <1>18, <1>19, <1>20, <1>21, <1>22,
       <1>23, <1>24, <1>25, <1>26, <1>27, <1>28, <1>29, <1>30, <1>31, <1>32, <1>33,
       <1>34, <1>35 DEF Next, Client, CommitTail, Thread, Flush, Mount

-----------------------------------------------------------------------------
(* What may be seen on the device                                          *)

\* A commit is answered together with its decision.
LEMMA UnansweredStep == IInv /\ Unanswered /\ [Next]_vars => Unanswered'
<1> SUFFICES ASSUME IInv, Unanswered, [Next]_vars PROVE Unanswered'
    OBVIOUS
<1>0. TypeOK /\ Modes /\ QueueOk /\ TxOk
    BY DEF IInv
<1> USE <1>0 DEF mountVars, tableVars, threadVars, txVars, homeVars, histVars
<1>1. ASSUME NEW t \in Tx, BeginTx(t) PROVE Unanswered'
    BY <1>1 DEF BeginTx, Unanswered, TypeOK, TxOk
<1>2. ASSUME NEW t \in Tx, NEW page \in Pages, Write(t, page) PROVE Unanswered'
    BY <1>2 DEF Write, Unanswered, TypeOK
<1>3. ASSUME NEW t \in Tx, Abandon(t) PROVE Unanswered'
    BY <1>3 DEF Abandon, Unanswered, TypeOK
<1>4. ASSUME NEW t \in Tx, Commit(t) PROVE Unanswered'
    BY <1>4 DEF Commit, Unanswered, TypeOK
<1>5. ASSUME NEW t \in Tx, CommitRefused(t) PROVE Unanswered'
    BY <1>5 DEF CommitRefused, Unanswered, TypeOK
<1>6. ASSUME NEW t \in Tx, CommitFailed(t) PROVE Unanswered'
    BY <1>6 DEF CommitFailed, Unanswered, TypeOK
<1>7. ASSUME NEW t \in Tx, Apply(t) PROVE Unanswered'
    BY <1>7 DEF Apply, Unanswered, TypeOK
<1>8. ASSUME NEW t \in Tx, ApplyDone(t) PROVE Unanswered'
    BY <1>8 DEF ApplyDone, Unanswered, TypeOK
<1>9. ASSUME NEW t \in Tx, ApplyFailed(t) PROVE Unanswered'
    BY <1>9 DEF ApplyFailed, Unanswered, TypeOK
<1>10. ASSUME NEW t \in Tx, EraseTx(t) PROVE Unanswered'
    BY <1>10 DEF EraseTx, Unanswered, TypeOK
<1>11. ASSUME CheckStopping PROVE Unanswered'
    BY <1>11 DEF CheckStopping, Unanswered, TypeOK
<1>12. ASSUME NoWork PROVE Unanswered'
    BY <1>12 DEF NoWork, Unanswered, TypeOK
<1>13. ASSUME TakeBatch PROVE Unanswered'
    BY <1>13 DEF TakeBatch, Unanswered, TypeOK
<1>14. ASSUME WriteTx PROVE Unanswered'
    BY <1>14 DEF WriteTx, Unanswered, TypeOK
<1>15. ASSUME NEW n \in 0 .. Capacity, WriteTxFail(n) PROVE Unanswered'
    <2>1. batch[nwritten + 1] \in Tx /\ tpc = "write"
        <3>1. tpc = "write" /\ nwritten < Len(batch) /\ nwritten \in Nat /\ Len(batch) \in Nat
              /\ DOMAIN batch = 1 .. Len(batch)
            BY <1>15 DEF WriteTxFail, TypeOK
        <3>2. nwritten + 1 \in DOMAIN batch
            BY <3>1
        <3> QED BY <3>1, <3>2 DEF TypeOK
    <2> DEFINE u == batch[nwritten + 1]
    <2>2. /\ txState' = [txState EXCEPT ![u] = "Canceled"]
          /\ event' = [event EXCEPT ![u] = TRUE] /\ pc' = pc
        BY <1>15 DEF WriteTxFail
    <2> HIDE DEF u
    <2> QED BY <2>1, <2>2 DEF Unanswered, TypeOK, u
<1>16. ASSUME FlushBlocks PROVE Unanswered'
    BY <1>16 DEF FlushBlocks, Unanswered, TypeOK
<1>17. ASSUME CompleteTx PROVE Unanswered'
    <2> DEFINE u == Head(batch)
    <2>1. u \in Tx
        BY <1>17 DEF CompleteTx, TypeOK
    <2>2. /\ txState' = [txState EXCEPT ![u] = Outcome]
          /\ event' = [event EXCEPT ![u] = TRUE] /\ pc' = pc
        BY <1>17 DEF CompleteTx
    <2>3. Outcome \in {"Commited", "Canceled"}
        BY DEF Outcome
    <2> HIDE DEF u
    <2> QED BY <2>1, <2>2, <2>3 DEF Unanswered, TypeOK
<1>18. ASSUME RoundDone PROVE Unanswered'
    BY <1>18 DEF RoundDone, Unanswered, TypeOK
<1>19. ASSUME FlushHeader PROVE Unanswered'
    BY <1>19 DEF FlushHeader, Unanswered, TypeOK
<1>20. ASSUME FlushHeaderDone PROVE Unanswered'
    BY <1>20 DEF FlushHeaderDone, Unanswered, TypeOK
<1>21. ASSUME NEW t \in Tx, CompactTx(t) PROVE Unanswered'
    BY <1>21 DEF CompactTx, Unanswered, TypeOK
<1>22. ASSUME CompactDone PROVE Unanswered'
    BY <1>22 DEF CompactDone, FlushReturn, Unanswered, TypeOK
<1>23. ASSUME FlushFailed PROVE Unanswered'
    BY <1>23 DEF FlushFailed, FlushReturn, Unanswered, TypeOK
<1>24. ASSUME Format PROVE Unanswered'
    BY <1>24 DEF Format, Unanswered, TypeOK
<1>25. ASSUME LoadHeader PROVE Unanswered'
    BY <1>25 DEF LoadHeader, Unanswered, TypeOK
<1>26. ASSUME ReplayBlock PROVE Unanswered'
    BY <1>26 DEF ReplayBlock, StartRunning, Unanswered, TypeOK
<1>27. ASSUME ReplayApplied PROVE Unanswered'
    BY <1>27 DEF ReplayApplied, Unanswered, TypeOK
<1>28. ASSUME ReplayDone PROVE Unanswered'
    BY <1>28 DEF ReplayDone, StartRunning, Unanswered, TypeOK
<1>29. ASSUME ReplayFailed PROVE Unanswered'
    BY <1>29 DEF ReplayFailed, Unanswered, TypeOK
<1>30. ASSUME Unload PROVE Unanswered'
    BY <1>30 DEF Unload, Unanswered, TypeOK
<1>31. ASSUME UnloadFlush PROVE Unanswered'
    BY <1>31 DEF UnloadFlush, CancelQueued, Unanswered, TypeOK
<1>32. ASSUME UnloadNoFlush PROVE Unanswered'
    BY <1>32 DEF UnloadNoFlush, CancelQueued, Unanswered, TypeOK
<1>33. ASSUME Destroy PROVE Unanswered'
    <2>1. UNCHANGED <<txState, event>> /\ \A u \in Tx : pc'[u] = pc[u] \/ pc'[u] = "lost"
        BY <1>33 DEF Destroy, Forget
    <2> QED BY <2>1 DEF Unanswered
<1>34. ASSUME Crash PROVE Unanswered'
    <2>1. UNCHANGED <<txState, event>> /\ \A u \in Tx : pc'[u] = pc[u] \/ pc'[u] = "lost"
        BY <1>34 DEF Crash, Forget
    <2> QED BY <2>1 DEF Unanswered
<1>35. ASSUME UNCHANGED vars PROVE Unanswered'
    BY <1>35 DEF vars, Unanswered, TypeOK
<1> QED
    BY <1>1, <1>2, <1>3, <1>4, <1>5, <1>6, <1>7, <1>8, <1>9, <1>10, <1>11,
       <1>12, <1>13, <1>14, <1>15, <1>16, <1>17, <1>18, <1>19, <1>20, <1>21, <1>22,
       <1>23, <1>24, <1>25, <1>26, <1>27, <1>28, <1>29, <1>30, <1>31, <1>32, <1>33,
       <1>34, <1>35 DEF Next, Client, CommitTail, Thread, Flush, Mount

\* A client that a crash has hit does not come back.
LEMMA LostStays == TypeOK /\ [Next]_vars => \A u \in Tx : pc[u] = "lost" => pc'[u] = "lost"
<1> SUFFICES ASSUME TypeOK, [Next]_vars, NEW u \in Tx, pc[u] = "lost" PROVE pc'[u] = "lost"
    OBVIOUS
<1> USE DEF mountVars, tableVars, threadVars, txVars, homeVars, histVars
<1>1. ASSUME NEW t \in Tx, BeginTx(t) PROVE pc'[u] = "lost"
    BY <1>1 DEF BeginTx, TypeOK
<1>2. ASSUME NEW t \in Tx, NEW page \in Pages, Write(t, page) PROVE pc'[u] = "lost"
    BY <1>2 DEF Write, TypeOK
<1>3. ASSUME NEW t \in Tx, Abandon(t) PROVE pc'[u] = "lost"
    BY <1>3 DEF Abandon, TypeOK
<1>4. ASSUME NEW t \in Tx, Commit(t) PROVE pc'[u] = "lost"
    BY <1>4 DEF Commit, TypeOK
<1>5. ASSUME NEW t \in Tx, CommitRefused(t) PROVE pc'[u] = "lost"
    BY <1>5 DEF CommitRefused, TypeOK
<1>6. ASSUME NEW t \in Tx, CommitFailed(t) PROVE pc'[u] = "lost"
    BY <1>6 DEF CommitFailed, TypeOK
<1>7. ASSUME NEW t \in Tx, Apply(t) PROVE pc'[u] = "lost"
    BY <1>7 DEF Apply, TypeOK
<1>8. ASSUME NEW t \in Tx, ApplyDone(t) PROVE pc'[u] = "lost"
    BY <1>8 DEF ApplyDone, TypeOK
<1>9. ASSUME NEW t \in Tx, ApplyFailed(t) PROVE pc'[u] = "lost"
    BY <1>9 DEF ApplyFailed, TypeOK
<1>10. ASSUME NEW t \in Tx, EraseTx(t) PROVE pc'[u] = "lost"
    BY <1>10 DEF EraseTx, TypeOK
<1>11. ASSUME CheckStopping PROVE pc'[u] = "lost"
    BY <1>11 DEF CheckStopping, TypeOK
<1>12. ASSUME NoWork PROVE pc'[u] = "lost"
    BY <1>12 DEF NoWork, TypeOK
<1>13. ASSUME TakeBatch PROVE pc'[u] = "lost"
    BY <1>13 DEF TakeBatch, TypeOK
<1>14. ASSUME WriteTx PROVE pc'[u] = "lost"
    BY <1>14 DEF WriteTx, TypeOK
<1>15. ASSUME NEW n \in 0 .. Capacity, WriteTxFail(n) PROVE pc'[u] = "lost"
    BY <1>15 DEF WriteTxFail, TypeOK
<1>16. ASSUME FlushBlocks PROVE pc'[u] = "lost"
    BY <1>16 DEF FlushBlocks, TypeOK
<1>17. ASSUME CompleteTx PROVE pc'[u] = "lost"
    BY <1>17 DEF CompleteTx, TypeOK
<1>18. ASSUME RoundDone PROVE pc'[u] = "lost"
    BY <1>18 DEF RoundDone, TypeOK
<1>19. ASSUME FlushHeader PROVE pc'[u] = "lost"
    BY <1>19 DEF FlushHeader, TypeOK
<1>20. ASSUME FlushHeaderDone PROVE pc'[u] = "lost"
    BY <1>20 DEF FlushHeaderDone, TypeOK
<1>21. ASSUME NEW t \in Tx, CompactTx(t) PROVE pc'[u] = "lost"
    BY <1>21 DEF CompactTx, TypeOK
<1>22. ASSUME CompactDone PROVE pc'[u] = "lost"
    BY <1>22 DEF CompactDone, FlushReturn, TypeOK
<1>23. ASSUME FlushFailed PROVE pc'[u] = "lost"
    BY <1>23 DEF FlushFailed, FlushReturn, TypeOK
<1>24. ASSUME Format PROVE pc'[u] = "lost"
    BY <1>24 DEF Format, TypeOK
<1>25. ASSUME LoadHeader PROVE pc'[u] = "lost"
    BY <1>25 DEF LoadHeader, TypeOK
<1>26. ASSUME ReplayBlock PROVE pc'[u] = "lost"
    BY <1>26 DEF ReplayBlock, StartRunning, TypeOK
<1>27. ASSUME ReplayApplied PROVE pc'[u] = "lost"
    BY <1>27 DEF ReplayApplied, TypeOK
<1>28. ASSUME ReplayDone PROVE pc'[u] = "lost"
    BY <1>28 DEF ReplayDone, StartRunning, TypeOK
<1>29. ASSUME ReplayFailed PROVE pc'[u] = "lost"
    BY <1>29 DEF ReplayFailed, TypeOK
<1>30. ASSUME Unload PROVE pc'[u] = "lost"
    BY <1>30 DEF Unload, TypeOK
<1>31. ASSUME UnloadFlush PROVE pc'[u] = "lost"
    BY <1>31 DEF UnloadFlush, CancelQueued, TypeOK
<1>32. ASSUME UnloadNoFlush PROVE pc'[u] = "lost"
    BY <1>32 DEF UnloadNoFlush, CancelQueued, TypeOK
<1>33. ASSUME Destroy PROVE pc'[u] = "lost"
    BY <1>33 DEF Destroy, Forget, Active
<1>34. ASSUME Crash PROVE pc'[u] = "lost"
    BY <1>34 DEF Crash, Forget, Active
<1>35. ASSUME UNCHANGED vars PROVE pc'[u] = "lost"
    BY <1>35 DEF vars, TypeOK
<1> QED
    BY <1>1, <1>2, <1>3, <1>4, <1>5, <1>6, <1>7, <1>8, <1>9, <1>10, <1>11,
       <1>12, <1>13, <1>14, <1>15, <1>16, <1>17, <1>18, <1>19, <1>20, <1>21, <1>22,
       <1>23, <1>24, <1>25, <1>26, <1>27, <1>28, <1>29, <1>30, <1>31, <1>32, <1>33,
       <1>34, <1>35 DEF Next, Client, CommitTail, Thread, Flush, Mount

\* What may be seen stays so, unless the device fails a round.
LEMMA ShowStep ==
    IInv /\ Unanswered /\ [Next]_vars /\ "ioerror" \notin taint' =>
        \A u \in Tx : MayShow(u) => MayShow(u)'
<1> SUFFICES ASSUME IInv, Unanswered, [Next]_vars, "ioerror" \notin taint',
                    NEW u \in Tx, MayShow(u)
             PROVE  MayShow(u)'
    OBVIOUS
<1>0. TypeOK /\ Modes /\ QueueOk /\ TxOk
    BY DEF IInv
<1>0a. /\ txState[u] = "Commited" => txState'[u] = "Commited"
       /\ pc[u] = "lost" => pc'[u] = "lost"
    BY <1>0, QueueStep, LostStays DEF Decided
<1>0b. CASE txState[u] = "Commited" \/ pc[u] = "lost"
    BY <1>0a, <1>0b DEF MayShow
<1>0c. SUFFICES ASSUME txState[u] = "Commiting", pc[u] = "waiting",
                       \E i \in DOMAIN batch : batch[i] = u,
                       tpc = "flush" \/ (tpc = "complete" /\ ~berr)
                PROVE  MayShow(u)'
    BY <1>0b DEF MayShow, Unanswered
<1> USE <1>0, <1>0c DEF mountVars, tableVars, threadVars, txVars, homeVars, histVars
<1>1. ASSUME NEW t \in Tx, BeginTx(t) PROVE MayShow(u)'
    BY <1>1 DEF BeginTx, MayShow, TypeOK
<1>2. ASSUME NEW t \in Tx, NEW page \in Pages, Write(t, page) PROVE MayShow(u)'
    BY <1>2 DEF Write, MayShow, TypeOK
<1>3. ASSUME NEW t \in Tx, Abandon(t) PROVE MayShow(u)'
    BY <1>3 DEF Abandon, MayShow, TypeOK
<1>4. ASSUME NEW t \in Tx, Commit(t) PROVE MayShow(u)'
    BY <1>4 DEF Commit, MayShow, TypeOK
<1>5. ASSUME NEW t \in Tx, CommitRefused(t) PROVE MayShow(u)'
    BY <1>5 DEF CommitRefused, MayShow, TypeOK
<1>6. ASSUME NEW t \in Tx, CommitFailed(t) PROVE MayShow(u)'
    BY <1>6 DEF CommitFailed, MayShow, TypeOK
<1>7. ASSUME NEW t \in Tx, Apply(t) PROVE MayShow(u)'
    BY <1>7 DEF Apply, MayShow, TypeOK
<1>8. ASSUME NEW t \in Tx, ApplyDone(t) PROVE MayShow(u)'
    BY <1>8 DEF ApplyDone, MayShow, TypeOK
<1>9. ASSUME NEW t \in Tx, ApplyFailed(t) PROVE MayShow(u)'
    BY <1>9 DEF ApplyFailed, MayShow, TypeOK
<1>10. ASSUME NEW t \in Tx, EraseTx(t) PROVE MayShow(u)'
    BY <1>10 DEF EraseTx, MayShow, TypeOK
<1>11. ASSUME CheckStopping PROVE MayShow(u)'
    BY <1>11 DEF CheckStopping
<1>12. ASSUME NoWork PROVE MayShow(u)'
    BY <1>12 DEF NoWork
<1>13. ASSUME TakeBatch PROVE MayShow(u)'
    BY <1>13 DEF TakeBatch
<1>14. ASSUME WriteTx PROVE MayShow(u)'
    BY <1>14 DEF WriteTx
<1>15. ASSUME NEW n \in 0 .. Capacity, WriteTxFail(n) PROVE MayShow(u)'
    BY <1>15 DEF WriteTxFail
<1>16. ASSUME FlushBlocks PROVE MayShow(u)'
    BY <1>16 DEF FlushBlocks
<1>17. ASSUME CompleteTx PROVE MayShow(u)'
    <2> DEFINE t == Head(batch)
    <2>1. /\ batch \in Seq(Tx) /\ batch # <<>>
          /\ txState \in [Tx -> {"None", "New", "Commiting", "Commited", "Canceled"}]
        BY <1>17 DEF CompleteTx, TypeOK
    <2>2. /\ txState' = [txState EXCEPT ![t] = "Commited"] /\ batch' = Tail(batch)
          /\ UNCHANGED <<tpc, berr>> /\ tpc = "complete" /\ ~berr
        BY <1>17 DEF CompleteTx, Outcome
    <2>3. PICK i \in DOMAIN batch : batch[i] = u
        OBVIOUS
    <2>4. CASE i = 1
        BY <2>1, <2>2, <2>3, <2>4 DEF MayShow
    <2>5. CASE i # 1
        <3>1. i - 1 \in DOMAIN Tail(batch) /\ Tail(batch)[i - 1] = u
            BY <2>1, <2>3, <2>5
        <3>2. txState'[u] \in {"Commiting", "Commited"}
            BY <2>1, <2>2
        <3> QED BY <2>2, <3>1, <3>2 DEF MayShow
    <2> QED BY <2>4, <2>5
<1>18. ASSUME RoundDone PROVE MayShow(u)'
    BY <1>18 DEF RoundDone
<1>19. ASSUME FlushHeader PROVE MayShow(u)'
    BY <1>19 DEF FlushHeader, MayShow, TypeOK
<1>20. ASSUME FlushHeaderDone PROVE MayShow(u)'
    BY <1>20 DEF FlushHeaderDone, MayShow, TypeOK
<1>21. ASSUME NEW t \in Tx, CompactTx(t) PROVE MayShow(u)'
    BY <1>21 DEF CompactTx, MayShow, TypeOK
<1>22. ASSUME CompactDone PROVE MayShow(u)'
    BY <1>22 DEF CompactDone, FlushReturn, MayShow, Modes
<1>23. ASSUME FlushFailed PROVE MayShow(u)'
    BY <1>23 DEF FlushFailed, FlushReturn, Modes, LockFree
<1>24. ASSUME Format PROVE MayShow(u)'
    BY <1>24 DEF Format, MayShow, TypeOK
<1>25. ASSUME LoadHeader PROVE MayShow(u)'
    BY <1>25 DEF LoadHeader, MayShow, TypeOK
<1>26. ASSUME ReplayBlock PROVE MayShow(u)'
    BY <1>26 DEF ReplayBlock, Modes
<1>27. ASSUME ReplayApplied PROVE MayShow(u)'
    BY <1>27 DEF ReplayApplied, MayShow, TypeOK
<1>28. ASSUME ReplayDone PROVE MayShow(u)'
    BY <1>28 DEF ReplayDone, Modes
<1>29. ASSUME ReplayFailed PROVE MayShow(u)'
    BY <1>29 DEF ReplayFailed, MayShow, TypeOK
<1>30. ASSUME Unload PROVE MayShow(u)'
    BY <1>30 DEF Unload, MayShow, TypeOK
<1>31. ASSUME UnloadFlush PROVE MayShow(u)'
    BY <1>31 DEF UnloadFlush, CancelQueued
<1>32. ASSUME UnloadNoFlush PROVE MayShow(u)'
    BY <1>32 DEF UnloadNoFlush, CancelQueued
<1>33. ASSUME Destroy PROVE MayShow(u)'
    BY <1>33 DEF Destroy, Active
<1>34. ASSUME Crash PROVE MayShow(u)'
    BY <1>34 DEF Crash, Forget, Active, MayShow
<1>35. ASSUME UNCHANGED vars PROVE MayShow(u)'
    BY <1>35 DEF vars, MayShow, TypeOK
<1> QED
    BY <1>1, <1>2, <1>3, <1>4, <1>5, <1>6, <1>7, <1>8, <1>9, <1>10, <1>11,
       <1>12, <1>13, <1>14, <1>15, <1>16, <1>17, <1>18, <1>19, <1>20, <1>21, <1>22,
       <1>23, <1>24, <1>25, <1>26, <1>27, <1>28, <1>29, <1>30, <1>31, <1>32, <1>33,
       <1>34, <1>35 DEF Next, Client, CommitTail, Thread, Flush, Mount

\* What has happened to the log is not forgotten.
LEMMA TaintGrows == [Next]_vars => taint \subseteq taint'
<1> SUFFICES ASSUME [Next]_vars PROVE taint \subseteq taint'
    OBVIOUS
<1> USE DEF mountVars, tableVars, threadVars, txVars, homeVars, histVars
<1>1. ASSUME NEW t \in Tx, BeginTx(t) PROVE taint \subseteq taint'
    BY <1>1 DEF BeginTx
<1>2. ASSUME NEW t \in Tx, NEW page \in Pages, Write(t, page) PROVE taint \subseteq taint'
    BY <1>2 DEF Write
<1>3. ASSUME NEW t \in Tx, Abandon(t) PROVE taint \subseteq taint'
    BY <1>3 DEF Abandon
<1>4. ASSUME NEW t \in Tx, Commit(t) PROVE taint \subseteq taint'
    BY <1>4 DEF Commit
<1>5. ASSUME NEW t \in Tx, CommitRefused(t) PROVE taint \subseteq taint'
    BY <1>5 DEF CommitRefused
<1>6. ASSUME NEW t \in Tx, CommitFailed(t) PROVE taint \subseteq taint'
    BY <1>6 DEF CommitFailed
<1>7. ASSUME NEW t \in Tx, Apply(t) PROVE taint \subseteq taint'
    BY <1>7 DEF Apply
<1>8. ASSUME NEW t \in Tx, ApplyDone(t) PROVE taint \subseteq taint'
    BY <1>8 DEF ApplyDone
<1>9. ASSUME NEW t \in Tx, ApplyFailed(t) PROVE taint \subseteq taint'
    BY <1>9 DEF ApplyFailed
<1>10. ASSUME NEW t \in Tx, EraseTx(t) PROVE taint \subseteq taint'
    BY <1>10 DEF EraseTx
<1>11. ASSUME CheckStopping PROVE taint \subseteq taint'
    BY <1>11 DEF CheckStopping
<1>12. ASSUME NoWork PROVE taint \subseteq taint'
    BY <1>12 DEF NoWork
<1>13. ASSUME TakeBatch PROVE taint \subseteq taint'
    BY <1>13 DEF TakeBatch
<1>14. ASSUME WriteTx PROVE taint \subseteq taint'
    BY <1>14 DEF WriteTx
<1>15. ASSUME NEW n \in 0 .. Capacity, WriteTxFail(n) PROVE taint \subseteq taint'
    BY <1>15 DEF WriteTxFail
<1>16. ASSUME FlushBlocks PROVE taint \subseteq taint'
    BY <1>16 DEF FlushBlocks
<1>17. ASSUME CompleteTx PROVE taint \subseteq taint'
    BY <1>17 DEF CompleteTx
<1>18. ASSUME RoundDone PROVE taint \subseteq taint'
    BY <1>18 DEF RoundDone
<1>19. ASSUME FlushHeader PROVE taint \subseteq taint'
    BY <1>19 DEF FlushHeader
<1>20. ASSUME FlushHeaderDone PROVE taint \subseteq taint'
    BY <1>20 DEF FlushHeaderDone
<1>21. ASSUME NEW t \in Tx, CompactTx(t) PROVE taint \subseteq taint'
    BY <1>21 DEF CompactTx
<1>22. ASSUME CompactDone PROVE taint \subseteq taint'
    BY <1>22 DEF CompactDone, FlushReturn
<1>23. ASSUME FlushFailed PROVE taint \subseteq taint'
    BY <1>23 DEF FlushFailed, FlushReturn
<1>24. ASSUME Format PROVE taint \subseteq taint'
    BY <1>24 DEF Format
<1>25. ASSUME LoadHeader PROVE taint \subseteq taint'
    BY <1>25 DEF LoadHeader
<1>26. ASSUME ReplayBlock PROVE taint \subseteq taint'
    BY <1>26 DEF ReplayBlock, StartRunning
<1>27. ASSUME ReplayApplied PROVE taint \subseteq taint'
    BY <1>27 DEF ReplayApplied
<1>28. ASSUME ReplayDone PROVE taint \subseteq taint'
    BY <1>28 DEF ReplayDone, StartRunning
<1>29. ASSUME ReplayFailed PROVE taint \subseteq taint'
    BY <1>29 DEF ReplayFailed
<1>30. ASSUME Unload PROVE taint \subseteq taint'
    BY <1>30 DEF Unload
<1>31. ASSUME UnloadFlush PROVE taint \subseteq taint'
    BY <1>31 DEF UnloadFlush, CancelQueued
<1>32. ASSUME UnloadNoFlush PROVE taint \subseteq taint'
    BY <1>32 DEF UnloadNoFlush, CancelQueued
<1>33. ASSUME Destroy PROVE taint \subseteq taint'
    BY <1>33 DEF Destroy, Forget
<1>34. ASSUME Crash PROVE taint \subseteq taint'
    BY <1>34 DEF Crash, Forget
<1>35. ASSUME UNCHANGED vars PROVE taint \subseteq taint'
    BY <1>35 DEF vars
<1> QED
    BY <1>1, <1>2, <1>3, <1>4, <1>5, <1>6, <1>7, <1>8, <1>9, <1>10, <1>11,
       <1>12, <1>13, <1>14, <1>15, <1>16, <1>17, <1>18, <1>19, <1>20, <1>21, <1>22,
       <1>23, <1>24, <1>25, <1>26, <1>27, <1>28, <1>29, <1>30, <1>31, <1>32, <1>33,
       <1>34, <1>35 DEF Next, Client, CommitTail, Thread, Flush, Mount

\* Everything on the device may be seen.
Clean ==
    /\ \A i \in Slot : \A b \in log[i] : b.tx \in Shown
    /\ \A x \in Pos : \A b \in homeLive[x] : b.tx \in Shown
    /\ \A x \in Pos : \A b \in homeMedia[x] : b.tx \in Shown
    /\ \A k \in DOMAIN rlist : rlist[k].tx \in Shown

\* Every write to the device, and every block Replay reads, is of a transaction
\* that may be seen.
LEMMA OnlyShownStep == IInv /\ SeenInv /\ [Next]_vars => OnlyShown'
<1> SUFFICES ASSUME IInv, SeenInv, [Next]_vars, "ioerror" \notin taint' PROVE Clean'
    BY DEF OnlyShown, Clean
<1>0. TypeOK /\ Modes /\ QueueOk /\ TxOk
    BY DEF IInv
<1>a. /\ \A i \in Slot : \A b \in log[i] : b.tx \in Shown'
      /\ \A x \in Pos : \A b \in homeLive[x] : b.tx \in Shown'
      /\ \A x \in Pos : \A b \in homeMedia[x] : b.tx \in Shown'
      /\ \A k \in DOMAIN rlist : rlist[k].tx \in Shown'
    <2>1. Clean
        BY TaintGrows DEF SeenInv, OnlyShown, Clean
    <2>2. Shown \subseteq Shown'
        BY ShowStep DEF SeenInv, Shown
    <2> QED BY <2>1, <2>2 DEF Clean
<1>b. UNCHANGED <<log, homeLive, homeMedia>> /\ rlist' \in {<<>>, rlist} => Clean'
    BY <1>a DEF Clean
<1>c. Torn.tx \in Shown'
    BY JournalAssumption DEF Shown, Torn
<1>d. \A x : \A b \in InFlight(x) : b.tx \in Shown'
    <2>1. \A u \in Tx : pc[u] = "applying" => MayShow(u)'
        BY <1>0, QueueStep DEF TxOk, Decided, MayShow
    <2>2. \A u \in Tx : \A b \in TxData(u) : b.tx = u
        BY DEF TxData, DataBlock
    <2>3. \A u \in Tx : pc[u] = "applying" => \A b \in TxData(u) : b.tx \in Shown'
        BY <2>1, <2>2 DEF Shown
    <2> QED BY <1>c, <2>3 DEF InFlight, ValuesAt
<1>e. \A u \in Tx : txState[u] = "Commited" => txState'[u] = "Commited"
    BY QueueStep DEF Decided
<1> USE <1>0 DEF mountVars, tableVars, threadVars, txVars, homeVars, histVars
<1>1. ASSUME NEW t \in Tx, BeginTx(t) PROVE Clean'
    BY <1>1, <1>b DEF BeginTx
<1>2. ASSUME NEW t \in Tx, NEW page \in Pages, Write(t, page) PROVE Clean'
    BY <1>2, <1>b DEF Write
<1>3. ASSUME NEW t \in Tx, Abandon(t) PROVE Clean'
    BY <1>3, <1>b DEF Abandon
<1>4. ASSUME NEW t \in Tx, Commit(t) PROVE Clean'
    BY <1>4, <1>b DEF Commit
<1>5. ASSUME NEW t \in Tx, CommitRefused(t) PROVE Clean'
    BY <1>5, <1>b DEF CommitRefused
<1>6. ASSUME NEW t \in Tx, CommitFailed(t) PROVE Clean'
    BY <1>6, <1>b DEF CommitFailed
<1>7. ASSUME NEW t \in Tx, Apply(t) PROVE Clean'
    <2>1. /\ UNCHANGED <<homeLive, rlist, log>> /\ SubmitHome(TxData(t))
          /\ txState[t] = "Commited"
        BY <1>7 DEF Apply, TxOk
    <2>2. \A b \in TxData(t) : b.tx \in Shown'
        BY <1>e, <2>1 DEF TxData, DataBlock, Shown, MayShow
    <2>3. \A x \in Pos : \A b \in homeMedia'[x] : b.tx \in Shown'
        BY <1>a, <1>c, <2>1, <2>2 DEF SubmitHome, ValuesAt
    <2> QED BY <1>a, <2>1, <2>3 DEF Clean
<1>8. ASSUME NEW t \in Tx, ApplyDone(t) PROVE Clean'
    <2>1. /\ UNCHANGED <<homeMedia, rlist, log>> /\ homeLive' = CompleteHome(TxData(t))
          /\ txState[t] = "Commited"
        BY <1>8 DEF ApplyDone, TxOk
    <2>2. \A b \in TxData(t) : b.tx \in Shown'
        BY <1>e, <2>1 DEF TxData, DataBlock, Shown, MayShow
    <2>3. \A x \in Pos : \A b \in homeLive'[x] : b.tx \in Shown'
        BY <1>a, <1>c, <2>1, <2>2 DEF CompleteHome, ValuesAt
    <2> QED BY <1>a, <2>1, <2>3 DEF Clean
<1>9. ASSUME NEW t \in Tx, ApplyFailed(t) PROVE Clean'
    <2>1. /\ UNCHANGED <<homeMedia, rlist, log>> /\ homeLive' = FailHome(TxData(t))
          /\ txState[t] = "Commited"
        BY <1>9 DEF ApplyFailed, TxOk
    <2>2. \A b \in TxData(t) : b.tx \in Shown'
        BY <1>e, <2>1 DEF TxData, DataBlock, Shown, MayShow
    <2>3. \A x \in Pos : \A b \in homeLive'[x] : b.tx \in Shown'
        BY <1>a, <1>c, <2>1, <2>2 DEF FailHome, ValuesAt
    <2> QED BY <1>a, <2>1, <2>3 DEF Clean
<1>10. ASSUME NEW t \in Tx, EraseTx(t) PROVE Clean'
    BY <1>10, <1>b DEF EraseTx
<1>11. ASSUME CheckStopping PROVE Clean'
    BY <1>11, <1>b DEF CheckStopping
<1>12. ASSUME NoWork PROVE Clean'
    BY <1>12, <1>b DEF NoWork
<1>13. ASSUME TakeBatch PROVE Clean'
    BY <1>13, <1>b DEF TakeBatch
<1>14. ASSUME WriteTx PROVE Clean'
    BY <1>14, <1>b DEF WriteTx
<1>15. ASSUME NEW n \in 0 .. Capacity, WriteTxFail(n) PROVE Clean'
    BY <1>15, <1>b DEF WriteTxFail
<1>16. ASSUME FlushBlocks PROVE Clean'
    <2>1. /\ UNCHANGED <<homeLive, homeMedia, rlist>>
          /\ log' = [i \in Slot |-> log[i] \cup
                   (IF i \in BatchSlots THEN BatchBlock(i) \cup {Torn} ELSE {})]
        BY <1>16 DEF FlushBlocks
    <2>2. \A i : \A b \in BatchBlock(i) : b.tx \in Shown'
        <3>1. tpc = "write" /\ nwritten = Len(batch) /\ tpc' = "flush" /\ UNCHANGED <<batch, txState>>
            BY <1>16 DEF FlushBlocks
        <3>2. \A u \in Tx : (\E j \in DOMAIN batch : batch[j] = u) => MayShow(u)'
            BY <3>1 DEF MayShow, QueueOk
        <3>3. \A j \in DOMAIN batch : \A k : TxBlock(batch[j], k).tx = batch[j]
            BY DEF TxBlock, BeginBlock, DataBlock, CommitBlock
        <3>4a. \A j \in DOMAIN batch : batch[j] \in Tx
            BY DEF TypeOK
        <3>4. \A j \in DOMAIN batch : batch[j] \in Shown'
            BY <3>2, <3>4a DEF Shown
        <3> QED BY <3>3, <3>4 DEF BatchBlock, Range
    <2>3. \A i \in Slot : \A b \in log'[i] : b.tx \in Shown'
        BY <1>a, <1>c, <2>1, <2>2
    <2> QED BY <1>a, <2>1, <2>3 DEF Clean
<1>17. ASSUME CompleteTx PROVE Clean'
    BY <1>17, <1>b DEF CompleteTx
<1>18. ASSUME RoundDone PROVE Clean'
    BY <1>18, <1>b DEF RoundDone
<1>19. ASSUME FlushHeader PROVE Clean'
    <2>1. /\ UNCHANGED <<homeLive, rlist>> /\ FlushCache
          /\ log' = [i \in Slot |-> IF i \in BatchSlots THEN WrittenBlock(i) ELSE log[i]]
          /\ UNCHANGED <<batch, txState, tpc, pc>> /\ fpc = "blocks"
        BY <1>19 DEF FlushHeader
    <2>2. \A i : \A b \in BatchBlock(i) : b.tx \in Shown'
        <3>1. tpc = "flush"
            BY <2>1 DEF Modes
        <3>2. \A u \in Tx : (\E j \in DOMAIN batch : batch[j] = u) => MayShow(u)'
            BY <2>1, <3>1 DEF MayShow, QueueOk
        <3>3. \A j \in DOMAIN batch : \A k : TxBlock(batch[j], k).tx = batch[j]
            BY DEF TxBlock, BeginBlock, DataBlock, CommitBlock
        <3>4a. \A j \in DOMAIN batch : batch[j] \in Tx
            BY DEF TypeOK
        <3>4. \A j \in DOMAIN batch : batch[j] \in Shown'
            BY <3>2, <3>4a DEF Shown
        <3> QED BY <3>3, <3>4 DEF BatchBlock, Range
    <2>3. \A i \in Slot : \A b \in log'[i] : b.tx \in Shown'
        BY <1>a, <1>c, <2>1, <2>2 DEF WrittenBlock
    <2>4. \A x \in Pos : \A b \in homeMedia'[x] : b.tx \in Shown'
        BY <1>a, <1>d, <2>1 DEF FlushCache
    <2> QED BY <1>a, <2>1, <2>3, <2>4 DEF Clean
<1>20. ASSUME FlushHeaderDone PROVE Clean'
    BY <1>20, <1>b DEF FlushHeaderDone
<1>21. ASSUME NEW t \in Tx, CompactTx(t) PROVE Clean'
    BY <1>21, <1>b DEF CompactTx
<1>22. ASSUME CompactDone PROVE Clean'
    BY <1>22, <1>b DEF CompactDone
<1>23. ASSUME FlushFailed PROVE Clean'
    BY <1>23, <1>b DEF FlushFailed
<1>24. ASSUME Format PROVE Clean'
    BY <1>24, <1>b DEF Format
<1>25. ASSUME LoadHeader PROVE Clean'
    BY <1>25, <1>b DEF LoadHeader
<1>26. ASSUME ReplayBlock PROVE Clean'
    <2>1. PICK b \in log[ring.start] :
              /\ log' = [log EXCEPT ![ring.start] = {b}]
              /\ homeLive' = homeLive
              /\ rlist' \in {<<>>, Append(rlist, b)}
              /\ homeMedia' = homeMedia \/ SubmitHome(Range(rlist))
        BY <1>26 DEF ReplayBlock, StartRunning
    <2>2. ring.start \in Slot /\ log \in [Slot -> SUBSET Block] /\ rlist \in Seq(Block)
        BY DEF TypeOK, Ring
    <2>3. b.tx \in Shown'
        BY <1>a, <2>2
    <2>4. \A i \in Slot : \A c \in log'[i] : c.tx \in Shown'
        BY <1>a, <2>1, <2>2, <2>3
    <2>5. \A c \in Range(rlist) : c.tx \in Shown'
        BY <1>a DEF Range
    <2>6. \A x \in Pos : \A c \in homeMedia'[x] : c.tx \in Shown'
        BY <1>a, <1>c, <2>1, <2>5 DEF SubmitHome, ValuesAt
    <2>7. \A k \in DOMAIN rlist' : rlist'[k].tx \in Shown'
        <3>1. b \in Block
            BY <2>2
        <3>2. \A k \in DOMAIN Append(rlist, b) :
                 Append(rlist, b)[k] = b \/ (k \in DOMAIN rlist /\ Append(rlist, b)[k] = rlist[k])
            BY <2>2, <3>1
        <3>3. \A k \in DOMAIN Append(rlist, b) : Append(rlist, b)[k].tx \in Shown'
            BY <1>a, <2>3, <3>2
        <3> QED BY <2>1, <3>3
    <2> QED BY <1>a, <2>1, <2>4, <2>6, <2>7 DEF Clean
<1>27. ASSUME ReplayApplied PROVE Clean'
    <2>1. /\ log' = log /\ rlist' = <<>> /\ homeLive' = CompleteHome(Range(rlist))
          /\ homeMedia' = CompleteHome(Range(rlist))
        BY <1>27 DEF ReplayApplied
    <2>2. \A b \in Range(rlist) : b.tx \in Shown'
        BY <1>a DEF Range
    <2>3. \A x \in Pos : \A b \in CompleteHome(Range(rlist))[x] : b.tx \in Shown'
        BY <1>a, <2>2 DEF CompleteHome, ValuesAt
    <2> QED BY <1>a, <2>1, <2>3 DEF Clean
<1>28. ASSUME ReplayDone PROVE Clean'
    BY <1>28, <1>b DEF ReplayDone, StartRunning
<1>29. ASSUME ReplayFailed PROVE Clean'
    <2> DEFINE bs == IF mpc = "apply" THEN Range(rlist) ELSE {}
    <2>1. log' = log /\ rlist' = <<>> /\ homeLive' = FailHome(bs) /\ homeMedia' = homeMedia
        BY <1>29 DEF ReplayFailed
    <2>2. \A b \in bs : b.tx \in Shown'
        BY <1>a DEF Range
    <2> HIDE DEF bs
    <2>3. \A x \in Pos : \A b \in homeLive'[x] : b.tx \in Shown'
        BY <1>a, <1>c, <2>1, <2>2 DEF FailHome, ValuesAt
    <2> QED BY <1>a, <2>1, <2>3 DEF Clean
<1>30. ASSUME Unload PROVE Clean'
    BY <1>30, <1>b DEF Unload
<1>31. ASSUME UnloadFlush PROVE Clean'
    <2>1. UNCHANGED <<homeLive, rlist, log>> /\ FlushCache
        BY <1>31 DEF UnloadFlush
    <2>4. \A x \in Pos : \A b \in homeMedia'[x] : b.tx \in Shown'
        BY <1>a, <1>d, <2>1 DEF FlushCache
    <2> QED BY <1>a, <2>1, <2>4 DEF Clean
<1>32. ASSUME UnloadNoFlush PROVE Clean'
    BY <1>32, <1>b DEF UnloadNoFlush
<1>33. ASSUME Destroy PROVE Clean'
    BY <1>33, <1>b DEF Destroy, Forget
<1>34. ASSUME Crash PROVE Clean'
    <2>1. log' = log /\ rlist' = <<>> /\ homeLive' = homeMedia /\ homeMedia' = homeMedia
        BY <1>34 DEF Crash, Forget
    <2> QED BY <1>a, <2>1 DEF Clean
<1>35. ASSUME UNCHANGED vars PROVE Clean'
    BY <1>35, <1>b DEF vars
<1> QED
    BY <1>1, <1>2, <1>3, <1>4, <1>5, <1>6, <1>7, <1>8, <1>9, <1>10, <1>11,
       <1>12, <1>13, <1>14, <1>15, <1>16, <1>17, <1>18, <1>19, <1>20, <1>21, <1>22,
       <1>23, <1>24, <1>25, <1>26, <1>27, <1>28, <1>29, <1>30, <1>31, <1>32, <1>33,
       <1>34, <1>35 DEF Next, Client, CommitTail, Thread, Flush, Mount

-----------------------------------------------------------------------------
(* The cells of a ring, and the chain of blocks in them                    *)

\* Two advances of an index are one: both wrap together at most once.
LEMMA WrapTwice ==
    ASSUME NEW s \in Slot, NEW n \in Nat, NEW k \in Nat, n + k <= Capacity
    PROVE  Wrap(Wrap(s + n) + k) = Wrap(s + (n + k))
<1>1. s \in Nat /\ s < Capacity /\ Capacity \in Nat
    BY CapacityAssumption DEF Slot
<1>2. Wrap(s + n) = IF s + n < Capacity THEN s + n ELSE s + n - Capacity
    BY <1>1, ModOnce
<1>3. Wrap(s + (n + k)) = IF s + (n + k) < Capacity THEN s + (n + k) ELSE s + (n + k) - Capacity
    BY <1>1, ModOnce
<1>4. CASE s + n < Capacity
    BY <1>1, <1>2, <1>4
<1>5. CASE ~(s + n < Capacity)
    <2>1. s + n - Capacity + k \in Nat /\ s + n - Capacity + k < Capacity
        BY <1>1, <1>5
    <2>2. Wrap(s + n - Capacity + k) = s + n - Capacity + k
        BY <1>1, <2>1, ModOnce
    <2> QED BY <1>1, <1>2, <1>3, <1>5, <2>2
<1> QED BY <1>4, <1>5

\* An index is advanced to a slot.
LEMMA WrapSlot ==
    ASSUME NEW a \in Nat
    PROVE  Wrap(a) \in Slot
BY CapacityAssumption DEF Wrap, Slot

\* The cells of a ring are the slots in use.
LEMMA CellUsed ==
    ASSUME NEW r \in Ring, NEW k \in Nat, k < r.size
    PROVE  Cell(r, k) \in Used(r) /\ Cell(r, k) \in Slot
<1>1. r.start \in Nat /\ r.size \in Nat
    BY CapacityAssumption DEF Ring, Slot
<1>2. k \in 0 .. r.size - 1
    BY <1>1
<1>3. Wrap(r.start + k) \in Slot
    BY <1>1, WrapSlot
<1> QED BY <1>2, <1>3 DEF Cell, Used

\* The first cell is where the next pop reads.
LEMMA FirstCell ==
    ASSUME NEW r \in Ring
    PROVE  Cell(r, 0) = r.start
<1>1. r.start \in Nat /\ r.start < Capacity /\ Capacity \in Nat
    BY CapacityAssumption DEF Ring, Slot
<1>2. Wrap(r.start) = r.start
    BY <1>1, ModOnce
<1> QED BY <1>1, <1>2 DEF Cell

\* Popping shifts the cells by one.
LEMMA PopCells ==
    ASSUME NEW r \in Ring, PopOk(r)
    PROVE  /\ PopFront(r).size = r.size - 1
           /\ \A k \in Nat : k + 1 < r.size => Cell(PopFront(r), k) = Cell(r, k + 1)
<1>1. r.start \in Slot /\ r.size \in Nat /\ r.size <= Capacity
    BY CapacityAssumption DEF Ring
<1>2. PopFront(r).start = Wrap(r.start + 1) /\ PopFront(r).size = r.size - 1
    BY DEF PopFront
<1>3. \A k \in Nat : k + 1 < r.size => Wrap(Wrap(r.start + 1) + k) = Wrap(r.start + (1 + k))
    BY <1>1, WrapTwice, CapacityAssumption
<1>4. r.start \in Nat
    BY <1>1 DEF Slot
<1> QED BY <1>2, <1>3, <1>4 DEF Cell

\* Erasing n slots shifts the cells by n.
LEMMA EraseCells ==
    ASSUME NEW r \in Ring, NEW list \in Seq(Slot), EraseOk(r, list), NEW n \in Nat, n = Len(list)
    PROVE  /\ n <= r.size /\ Erase(r, list).size = r.size - n
           /\ \A k \in Nat : n + k < r.size => Cell(Erase(r, list), k) = Cell(r, n + k)
           /\ \A k \in 1 .. n : list[k] = Cell(r, k - 1)
<1>1. r.start \in Slot /\ r.size \in Nat /\ r.size <= Capacity /\ r.start \in Nat
    BY CapacityAssumption DEF Ring, Slot
<1>2. n <= r.size /\ \A k \in 1 .. n : list[k] = Wrap(r.start + k - 1)
    BY DEF EraseOk
<1>3. \A k \in Nat : n + k < r.size => Wrap(Wrap(r.start + n) + k) = Wrap(r.start + (n + k))
    <2>1. Capacity \in Nat
        BY CapacityAssumption
    <2>2. \A k, m \in Nat : m + k < r.size => m + k <= Capacity
        BY <1>1, <2>1
    <2>3. \A k, m \in Nat : m + k < r.size =>
             Wrap(Wrap(r.start + m) + k) = Wrap(r.start + (m + k))
        BY <1>1, <2>2, WrapTwice
    <2> QED BY <2>3
<1>4. Erase(r, list).start = Wrap(r.start + n) /\ Erase(r, list).size = r.size - n
    BY DEF Erase
<1>5. \A k \in 1 .. n : list[k] = Cell(r, k - 1)
    BY <1>1, <1>2 DEF Cell
<1> QED BY <1>2, <1>3, <1>4, <1>5 DEF Cell

\* Pushing keeps the cells and adds the slots it returns behind them.
LEMMA PushCells ==
    ASSUME NEW r \in Ring, RingOk(r), NEW n \in Nat, n <= Capacity - r.size
    PROVE  /\ PushMany(r, n).size = r.size + n
           /\ \A k \in Nat : Cell(PushMany(r, n), k) = Cell(r, k)
           /\ \A k \in 1 .. n : Pushed(r, n)[k] = Cell(r, r.size + (k - 1))
<1>1. r.start \in Slot /\ r.size \in Nat /\ r.size <= Capacity /\ r.start \in Nat
      /\ r.end \in Nat
    BY CapacityAssumption DEF Ring, Slot
<1>2. r.end = Wrap(r.start + r.size)
    BY DEF RingOk
<1>3. \A k \in 1 .. n : Wrap(r.end + (k - 1)) = Wrap(r.start + (r.size + (k - 1)))
    <2> TAKE k \in 1 .. n
    <2>1. k - 1 \in Nat /\ r.size + (k - 1) <= Capacity
        BY <1>1, CapacityAssumption
    <2> QED BY <1>1, <1>2, <2>1, WrapTwice
<1>4. \A k \in 1 .. n : Pushed(r, n)[k] = Wrap(r.end + (k - 1))
    <2>1. \A k \in 1 .. n : r.end + k - 1 = r.end + (k - 1)
        BY <1>1
    <2> QED BY <2>1 DEF Pushed
<1> QED BY <1>3, <1>4 DEF PushMany, Cell

\* Fewer possible contents cannot break the chain.
LEMMA ChainShrinks ==
    ASSUME NEW r \in Ring, NEW c, NEW d,
           \A i \in Used(r) : d[i] \subseteq c[i]
    PROVE  /\ Chained(r, c) => Chained(r, d)
           /\ StartsAt(r, c) => StartsAt(r, d)
<1>1. r.size \in Nat
    BY CapacityAssumption DEF Ring
<1>2. \A k \in Nat : k < r.size => d[Cell(r, k)] \subseteq c[Cell(r, k)]
    BY CellUsed
<1>3. ASSUME Chained(r, c) PROVE Chained(r, d)
    <2>1. ASSUME NEW k \in 0 .. r.size - 1, k + 1 < r.size,
                 NEW a \in d[Cell(r, k)], NEW b \in d[Cell(r, k + 1)]
          PROVE  Follows(a, b)
        <3>1. k \in Nat /\ k + 1 \in Nat /\ k < r.size
            BY <1>1
        <3>2. a \in c[Cell(r, k)] /\ b \in c[Cell(r, k + 1)]
            BY <1>2, <2>1, <3>1
        <3> QED BY <1>3, <2>1, <3>2 DEF Chained
    <2>2. ASSUME r.size > 0 PROVE \A b \in d[Cell(r, r.size - 1)] : b.type = "Commit"
        <3>1. r.size - 1 \in Nat /\ r.size - 1 < r.size
            BY <1>1, <2>2
        <3> QED BY <1>2, <1>3, <2>2, <3>1 DEF Chained
    <2> QED BY <2>1, <2>2 DEF Chained
<1>4. ASSUME StartsAt(r, c) PROVE StartsAt(r, d)
    BY <1>1, <1>2, <1>4 DEF StartsAt
<1> QED BY <1>3, <1>4

\* A chain without its first cells is a chain.
LEMMA ChainDrops ==
    ASSUME NEW r \in Ring, NEW q \in Ring, NEW c, NEW n \in Nat,
           n <= r.size, q.size = r.size - n,
           \A k \in Nat : n + k < r.size => Cell(q, k) = Cell(r, n + k),
           Chained(r, c)
    PROVE  Chained(q, c)
<1>1. r.size \in Nat /\ q.size \in Nat
    BY CapacityAssumption DEF Ring
<1>2. ASSUME NEW k \in 0 .. q.size - 1, k + 1 < q.size,
             NEW a \in c[Cell(q, k)], NEW b \in c[Cell(q, k + 1)]
      PROVE  Follows(a, b)
    <2>1. /\ k \in Nat /\ n + k < r.size /\ n + (k + 1) < r.size /\ n + k \in 0 .. r.size - 1
          /\ n + (k + 1) = (n + k) + 1
        BY <1>1, <1>2
    <2>2. Cell(q, k) = Cell(r, n + k) /\ Cell(q, k + 1) = Cell(r, (n + k) + 1)
        BY <2>1
    <2> QED BY <1>2, <2>1, <2>2 DEF Chained
<1>3. ASSUME q.size > 0 PROVE \A b \in c[Cell(q, q.size - 1)] : b.type = "Commit"
    <2>1. q.size - 1 \in Nat /\ n + (q.size - 1) = r.size - 1 /\ r.size > 0 /\ n + (q.size - 1) < r.size
        BY <1>1, <1>3
    <2>2. Cell(q, q.size - 1) = Cell(r, r.size - 1)
        BY <2>1
    <2> QED BY <2>1, <2>2 DEF Chained
<1> QED BY <1>2, <1>3 DEF Chained

\* A chain grows by the blocks of one transaction.
LEMMA ChainGrows ==
    ASSUME NEW r \in Ring, NEW q \in Ring, NEW c, NEW d, NEW n \in Nat, NEW f,
           n > 0, q.size = r.size + n,
           \A k \in Nat : Cell(q, k) = Cell(r, k),
           \A k \in Nat : k < r.size => d[Cell(r, k)] \subseteq c[Cell(r, k)],
           \A k \in 1 .. n : d[Cell(r, r.size + (k - 1))] \subseteq {f[k]},
           \A k \in 1 .. n : k < n => Follows(f[k], f[k + 1]),
           f[1].type = "Begin", f[n].type = "Commit",
           Chained(r, c), StartsAt(r, c)
    PROVE  Chained(q, d) /\ StartsAt(q, d)
<1>1. r.size \in Nat /\ q.size \in Nat
    BY CapacityAssumption DEF Ring
<1>2. \A k \in Nat : k >= r.size /\ k < q.size =>
          k - r.size + 1 \in 1 .. n /\ d[Cell(q, k)] \subseteq {f[k - r.size + 1]}
    <2> SUFFICES ASSUME NEW k \in Nat, k >= r.size, k < q.size
                 PROVE  k - r.size + 1 \in 1 .. n /\ d[Cell(q, k)] \subseteq {f[k - r.size + 1]}
        OBVIOUS
    <2>1. PICK j \in Nat : j = k - r.size + 1
        BY <1>1
    <2>2. j \in 1 .. n /\ r.size + (j - 1) = k
        BY <1>1, <2>1
    <2>3. d[Cell(r, k)] \subseteq {f[j]}
        BY <2>2
    <2> QED BY <2>1, <2>2, <2>3
<1>3. ASSUME NEW k \in 0 .. q.size - 1, k + 1 < q.size,
             NEW a \in d[Cell(q, k)], NEW b \in d[Cell(q, k + 1)]
      PROVE  Follows(a, b)
    <2>0. k \in Nat /\ k + 1 \in Nat /\ k < q.size
        BY <1>1
    <2>1. CASE k + 1 < r.size
        <3>1. k < r.size /\ k \in 0 .. r.size - 1
            BY <1>1, <2>0, <2>1
        <3>2. a \in c[Cell(r, k)] /\ b \in c[Cell(r, k + 1)]
            BY <1>3, <2>0, <2>1, <3>1
        <3> QED BY <2>1, <3>1, <3>2 DEF Chained
    <2>2. CASE k + 1 = r.size
        <3>1. k < r.size /\ k = r.size - 1 /\ r.size > 0 /\ (k + 1) - r.size + 1 = 1
            BY <1>1, <2>0, <2>2
        <3>2. a \in c[Cell(r, r.size - 1)]
            BY <1>3, <2>0, <3>1
        <3>3. a.type = "Commit"
            BY <3>1, <3>2 DEF Chained
        <3>4. k + 1 >= r.size
            BY <1>1, <2>0, <2>2
        <3>5. b = f[1]
            BY <1>2, <1>3, <2>0, <3>1, <3>4
        <3> QED BY <3>3, <3>5 DEF Follows
    <2>3. CASE k >= r.size
        <3>1. PICK j \in Nat : j = k - r.size + 1
            BY <1>1, <2>0, <2>3
        <3>2. j \in 1 .. n /\ j < n /\ (k + 1) - r.size + 1 = j + 1 /\ k + 1 >= r.size
            BY <1>1, <1>3, <2>0, <2>3, <3>1
        <3>3. a = f[j]
            BY <1>2, <1>3, <2>0, <2>3, <3>1
        <3>4. b = f[j + 1]
            BY <1>2, <1>3, <2>0, <3>2
        <3> QED BY <3>2, <3>3, <3>4
    <2> QED BY <1>1, <2>0, <2>1, <2>2, <2>3
<1>4. ASSUME NEW b \in d[Cell(q, q.size - 1)] PROVE b.type = "Commit"
    <2>1. PICK k \in Nat : k = q.size - 1
        BY <1>1
    <2>2. k >= r.size /\ k < q.size /\ k - r.size + 1 = n
        BY <1>1, <2>1
    <2>3. b = f[n]
        BY <1>2, <1>4, <2>1, <2>2
    <2> QED BY <2>3
<1>5. ASSUME NEW b \in d[Cell(q, 0)] PROVE b.type = "Begin"
    <2>1. CASE r.size > 0
        BY <1>1, <1>5, <2>1 DEF StartsAt
    <2>2. CASE ~(r.size > 0)
        <3>1. r.size = 0 /\ 0 - r.size + 1 = 1 /\ 0 >= r.size /\ 0 < q.size
            BY <1>1, <2>2
        <3>2. b = f[1]
            BY <1>2, <1>5, <3>1
        <3> QED BY <3>2
    <2> QED BY <2>1, <2>2
<1> QED BY <1>3, <1>4, <1>5 DEF Chained, StartsAt

\* The blocks of a transaction with data follow each other.
LEMMA BlocksChain ==
    ASSUME TypeOK, NEW t \in Tx, blocks[t] # <<>>
    PROVE  /\ TxBlock(t, 1).type = "Begin" /\ TxBlock(t, TxLen(t)).type = "Commit"
           /\ \A k \in 1 .. TxLen(t) : k < TxLen(t) => Follows(TxBlock(t, k), TxBlock(t, k + 1))
<1>1. PICK l \in Nat : l = Len(blocks[t]) /\ l # 0
    BY DEF TypeOK
<1>2. TxLen(t) = l + 2
    BY <1>1 DEF TxLen
<1>3. \A k \in 1 .. l + 2 : TxBlock(t, k) =
          IF k = 1 THEN BeginBlock(t) ELSE IF k = l + 2 THEN CommitBlock(t) ELSE DataBlock(t, k - 1)
    BY <1>2 DEF TxBlock
<1>4. TxBlock(t, 1) = BeginBlock(t) /\ TxBlock(t, l + 2) = CommitBlock(t)
    BY <1>1, <1>3
<1>5. ASSUME NEW k \in 1 .. l + 2, k < l + 2
      PROVE  Follows(TxBlock(t, k), TxBlock(t, k + 1))
    <2>1. CASE k = 1
        <3>1. TxBlock(t, k + 1) = DataBlock(t, 1)
            BY <1>1, <1>3, <2>1
        <3> QED BY <1>4, <2>1, <3>1 DEF BeginBlock, DataBlock, Follows
    <2>2. CASE k # 1 /\ k + 1 # l + 2
        <3>1. TxBlock(t, k) = DataBlock(t, k - 1) /\ TxBlock(t, k + 1) = DataBlock(t, k)
            BY <1>1, <1>3, <1>5, <2>2
        <3>2. k - 1 = (k - 1) - 1 + 1
            BY <1>5
        <3> QED BY <3>1, <3>2 DEF DataBlock, Follows
    <2>3. CASE k # 1 /\ k + 1 = l + 2
        <3>1. TxBlock(t, k) = DataBlock(t, k - 1) /\ TxBlock(t, k + 1) = CommitBlock(t)
            BY <1>1, <1>3, <1>4, <1>5, <2>3
        <3>2. l = (k - 1) - 1 + 1
            BY <1>5, <2>3
        <3> QED BY <1>1, <3>1, <3>2 DEF DataBlock, CommitBlock, Follows
    <2> QED BY <2>1, <2>2, <2>3
<1> QED BY <1>2, <1>4, <1>5 DEF BeginBlock, CommitBlock

-----------------------------------------------------------------------------
(* A sound log is a chain of whole transactions                            *)

\* A transaction of the round is placed.
LEMMA RoundPlaced ==
    ASSUME IInv, NEW t \in Tx, InRound(t)
    PROVE  Placed(t) /\ DOMAIN indexList[t] = 1 .. TxLen(t)
<1>1. txState[t] = "Commiting"
    BY RoundUndecided
<1>2. \E j \in DOMAIN batch : batch[j] = t /\ (tpc = "complete" => ~berr)
    <2>1. DOMAIN batch = 1 .. Len(batch) /\ nwritten \in Nat /\ Len(batch) \in Nat
          /\ (tpc = "write" => nwritten <= Len(batch))
        BY DEF IInv, Modes, TypeOK
    <2>2. ASSUME tpc = "write", NEW j \in 1 .. nwritten PROVE j \in DOMAIN batch
        BY <2>1, <2>2
    <2> QED BY <2>2 DEF InRound
<1>3. t \in txTable
    BY <1>1, <1>2 DEF IInv, QueueOk
<1>4. t \notin erased
    BY <1>1 DEF IInv, TxOk
<1>5. Placed(t)
    BY <1>3, <1>4 DEF Placed
<1> QED BY <1>5, PlacedDomain

\* In a flush the bios of the batch carry the blocks of the round.
LEMMA RoundIsBatch ==
    ASSUME IInv, (tpc = "write" /\ nwritten = Len(batch)) \/ fpc = "blocks", NEW i
    PROVE  /\ BatchBlock(i) = RoundBlock(i)
           /\ i \in BatchSlots <=> RoundBlock(i) # {}
<1>1. tpc \in {"write", "flush"} /\ (tpc = "write" => nwritten = Len(batch))
      /\ DOMAIN batch = 1 .. Len(batch)
    BY DEF IInv, Modes, TypeOK
<1>2. Range(batch) = {u \in Tx : InRound(u)}
    <2>1. \A j \in DOMAIN batch : batch[j] \in Tx
        BY DEF IInv, TypeOK
    <2>2. \A u \in Tx : InRound(u) <=> \E j \in DOMAIN batch : batch[j] = u
        BY <1>1 DEF InRound
    <2> QED BY <2>1, <2>2 DEF Range
<1>3. \A u \in Range(batch) : DOMAIN indexList[u] = 1 .. TxLen(u)
    BY <1>2, RoundPlaced
<1>4. BatchBlock(i) = RoundBlock(i)
    BY <1>2, <1>3 DEF BatchBlock, RoundBlock
<1>5. i \in BatchSlots <=> \E u \in Range(batch) : \E k \in DOMAIN indexList[u] : indexList[u][k] = i
    BY DEF BatchSlots, Range
<1>6. BatchBlock(i) # {} <=> \E u \in Range(batch) : \E k \in DOMAIN indexList[u] : indexList[u][k] = i
    <2> DEFINE S(u) == {TxBlock(u, k) : k \in {j \in DOMAIN indexList[u] : indexList[u][j] = i}}
    <2>1. \A u : S(u) # {} <=> \E k \in DOMAIN indexList[u] : indexList[u][k] = i
        OBVIOUS
    <2>2. BatchBlock(i) = UNION {S(u) : u \in Range(batch)}
        BY DEF BatchBlock
    <2> HIDE DEF S
    <2> QED BY <2>1, <2>2
<1> QED BY <1>4, <1>5, <1>6

\* Outside writing, what the slots will hold is what they hold.
LEMMA NextLogIsLog ==
    ASSUME TypeOK, tpc # "write", fpc # "blocks"
    PROVE  NextLog = log
BY DEF NextLog, TypeOK

\* The slots in use are slots.
LEMMA SlotsUsed == \A r \in Ring : Used(r) \subseteq Slot
<1> SUFFICES ASSUME NEW r \in Ring, NEW k \in 0 .. r.size - 1 PROVE Wrap(r.start + k) \in Slot
    BY DEF Used
<1>1. r.start + k \in Nat
    BY CapacityAssumption DEF Ring, Slot
<1> QED BY <1>1, WrapSlot

\* A round's transaction gets no further blocks.
LEMMA RoundKeeps ==
    ASSUME IInv, [Next]_vars, NEW u \in Tx, txState[u] = "Commiting"
    PROVE  blocks'[u] = blocks[u]
<1>0. TypeOK
    BY DEF IInv
<1> USE <1>0 DEF mountVars, tableVars, threadVars, txVars, homeVars, histVars
<1>1. ASSUME NEW t \in Tx, BeginTx(t) PROVE blocks'[u] = blocks[u]
    BY <1>1 DEF BeginTx
<1>2. ASSUME NEW t \in Tx, NEW page \in Pages, Write(t, page) PROVE blocks'[u] = blocks[u]
    BY <1>2 DEF Write, TypeOK
<1>3. ASSUME NEW t \in Tx, Abandon(t) PROVE blocks'[u] = blocks[u]
    BY <1>3 DEF Abandon
<1>4. ASSUME NEW t \in Tx, Commit(t) PROVE blocks'[u] = blocks[u]
    BY <1>4 DEF Commit
<1>5. ASSUME NEW t \in Tx, CommitRefused(t) PROVE blocks'[u] = blocks[u]
    BY <1>5 DEF CommitRefused
<1>6. ASSUME NEW t \in Tx, CommitFailed(t) PROVE blocks'[u] = blocks[u]
    BY <1>6 DEF CommitFailed
<1>7. ASSUME NEW t \in Tx, Apply(t) PROVE blocks'[u] = blocks[u]
    BY <1>7 DEF Apply
<1>8. ASSUME NEW t \in Tx, ApplyDone(t) PROVE blocks'[u] = blocks[u]
    BY <1>8 DEF ApplyDone
<1>9. ASSUME NEW t \in Tx, ApplyFailed(t) PROVE blocks'[u] = blocks[u]
    BY <1>9 DEF ApplyFailed
<1>10. ASSUME NEW t \in Tx, EraseTx(t) PROVE blocks'[u] = blocks[u]
    BY <1>10 DEF EraseTx
<1>11. ASSUME CheckStopping PROVE blocks'[u] = blocks[u]
    BY <1>11 DEF CheckStopping
<1>12. ASSUME NoWork PROVE blocks'[u] = blocks[u]
    BY <1>12 DEF NoWork
<1>13. ASSUME TakeBatch PROVE blocks'[u] = blocks[u]
    BY <1>13 DEF TakeBatch
<1>14. ASSUME WriteTx PROVE blocks'[u] = blocks[u]
    BY <1>14 DEF WriteTx
<1>15. ASSUME NEW n \in 0 .. Capacity, WriteTxFail(n) PROVE blocks'[u] = blocks[u]
    BY <1>15 DEF WriteTxFail
<1>16. ASSUME FlushBlocks PROVE blocks'[u] = blocks[u]
    BY <1>16 DEF FlushBlocks
<1>17. ASSUME CompleteTx PROVE blocks'[u] = blocks[u]
    BY <1>17 DEF CompleteTx
<1>18. ASSUME RoundDone PROVE blocks'[u] = blocks[u]
    BY <1>18 DEF RoundDone
<1>19. ASSUME FlushHeader PROVE blocks'[u] = blocks[u]
    BY <1>19 DEF FlushHeader
<1>20. ASSUME FlushHeaderDone PROVE blocks'[u] = blocks[u]
    BY <1>20 DEF FlushHeaderDone
<1>21. ASSUME NEW t \in Tx, CompactTx(t) PROVE blocks'[u] = blocks[u]
    BY <1>21 DEF CompactTx
<1>22. ASSUME CompactDone PROVE blocks'[u] = blocks[u]
    BY <1>22 DEF CompactDone, FlushReturn
<1>23. ASSUME FlushFailed PROVE blocks'[u] = blocks[u]
    BY <1>23 DEF FlushFailed, FlushReturn
<1>24. ASSUME Format PROVE blocks'[u] = blocks[u]
    BY <1>24 DEF Format
<1>25. ASSUME LoadHeader PROVE blocks'[u] = blocks[u]
    BY <1>25 DEF LoadHeader
<1>26. ASSUME ReplayBlock PROVE blocks'[u] = blocks[u]
    BY <1>26 DEF ReplayBlock, StartRunning
<1>27. ASSUME ReplayApplied PROVE blocks'[u] = blocks[u]
    BY <1>27 DEF ReplayApplied
<1>28. ASSUME ReplayDone PROVE blocks'[u] = blocks[u]
    BY <1>28 DEF ReplayDone, StartRunning
<1>29. ASSUME ReplayFailed PROVE blocks'[u] = blocks[u]
    BY <1>29 DEF ReplayFailed
<1>30. ASSUME Unload PROVE blocks'[u] = blocks[u]
    BY <1>30 DEF Unload
<1>31. ASSUME UnloadFlush PROVE blocks'[u] = blocks[u]
    BY <1>31 DEF UnloadFlush, CancelQueued
<1>32. ASSUME UnloadNoFlush PROVE blocks'[u] = blocks[u]
    BY <1>32 DEF UnloadNoFlush, CancelQueued
<1>33. ASSUME Destroy PROVE blocks'[u] = blocks[u]
    BY <1>33 DEF Destroy, Forget
<1>34. ASSUME Crash PROVE blocks'[u] = blocks[u]
    BY <1>34 DEF Crash, Forget
<1>35. ASSUME UNCHANGED vars PROVE blocks'[u] = blocks[u]
    BY <1>35 DEF vars
<1> QED
    BY <1>1, <1>2, <1>3, <1>4, <1>5, <1>6, <1>7, <1>8, <1>9, <1>10, <1>11,
       <1>12, <1>13, <1>14, <1>15, <1>16, <1>17, <1>18, <1>19, <1>20, <1>21, <1>22,
       <1>23, <1>24, <1>25, <1>26, <1>27, <1>28, <1>29, <1>30, <1>31, <1>32, <1>33,
       <1>34, <1>35 DEF Next, Client, CommitTail, Thread, Flush, Mount

\* The mounting thread's list is empty outside Replay.
LEMMA RlistIdleStep == RlistIdle /\ Modes /\ [Next]_vars => RlistIdle'
<1> SUFFICES ASSUME RlistIdle, Modes, [Next]_vars PROVE RlistIdle'
    OBVIOUS
<1> USE DEF RlistIdle, mountVars, tableVars, threadVars, txVars, homeVars, histVars
<1>1. ASSUME NEW t \in Tx, BeginTx(t) PROVE RlistIdle'
    BY <1>1 DEF BeginTx
<1>2. ASSUME NEW t \in Tx, NEW page \in Pages, Write(t, page) PROVE RlistIdle'
    BY <1>2 DEF Write
<1>3. ASSUME NEW t \in Tx, Abandon(t) PROVE RlistIdle'
    BY <1>3 DEF Abandon
<1>4. ASSUME NEW t \in Tx, Commit(t) PROVE RlistIdle'
    BY <1>4 DEF Commit
<1>5. ASSUME NEW t \in Tx, CommitRefused(t) PROVE RlistIdle'
    BY <1>5 DEF CommitRefused
<1>6. ASSUME NEW t \in Tx, CommitFailed(t) PROVE RlistIdle'
    BY <1>6 DEF CommitFailed
<1>7. ASSUME NEW t \in Tx, Apply(t) PROVE RlistIdle'
    BY <1>7 DEF Apply
<1>8. ASSUME NEW t \in Tx, ApplyDone(t) PROVE RlistIdle'
    BY <1>8 DEF ApplyDone
<1>9. ASSUME NEW t \in Tx, ApplyFailed(t) PROVE RlistIdle'
    BY <1>9 DEF ApplyFailed
<1>10. ASSUME NEW t \in Tx, EraseTx(t) PROVE RlistIdle'
    BY <1>10 DEF EraseTx
<1>11. ASSUME CheckStopping PROVE RlistIdle'
    BY <1>11 DEF CheckStopping
<1>12. ASSUME NoWork PROVE RlistIdle'
    BY <1>12 DEF NoWork
<1>13. ASSUME TakeBatch PROVE RlistIdle'
    BY <1>13 DEF TakeBatch
<1>14. ASSUME WriteTx PROVE RlistIdle'
    BY <1>14 DEF WriteTx
<1>15. ASSUME NEW n \in 0 .. Capacity, WriteTxFail(n) PROVE RlistIdle'
    BY <1>15 DEF WriteTxFail
<1>16. ASSUME FlushBlocks PROVE RlistIdle'
    BY <1>16 DEF FlushBlocks
<1>17. ASSUME CompleteTx PROVE RlistIdle'
    BY <1>17 DEF CompleteTx
<1>18. ASSUME RoundDone PROVE RlistIdle'
    BY <1>18 DEF RoundDone
<1>19. ASSUME FlushHeader PROVE RlistIdle'
    BY <1>19 DEF FlushHeader
<1>20. ASSUME FlushHeaderDone PROVE RlistIdle'
    BY <1>20 DEF FlushHeaderDone
<1>21. ASSUME NEW t \in Tx, CompactTx(t) PROVE RlistIdle'
    BY <1>21 DEF CompactTx
<1>22. ASSUME CompactDone PROVE RlistIdle'
    BY <1>22 DEF CompactDone, FlushReturn
<1>23. ASSUME FlushFailed PROVE RlistIdle'
    BY <1>23 DEF FlushFailed, FlushReturn
<1>24. ASSUME Format PROVE RlistIdle'
    BY <1>24 DEF Format
<1>25. ASSUME LoadHeader PROVE RlistIdle'
    BY <1>25 DEF LoadHeader
<1>26. ASSUME ReplayBlock PROVE RlistIdle'
    BY <1>26 DEF ReplayBlock, StartRunning, Modes
<1>27. ASSUME ReplayApplied PROVE RlistIdle'
    BY <1>27 DEF ReplayApplied
<1>28. ASSUME ReplayDone PROVE RlistIdle'
    BY <1>28 DEF ReplayDone, StartRunning
<1>29. ASSUME ReplayFailed PROVE RlistIdle'
    BY <1>29 DEF ReplayFailed
<1>30. ASSUME Unload PROVE RlistIdle'
    BY <1>30 DEF Unload
<1>31. ASSUME UnloadFlush PROVE RlistIdle'
    BY <1>31 DEF UnloadFlush, CancelQueued
<1>32. ASSUME UnloadNoFlush PROVE RlistIdle'
    BY <1>32 DEF UnloadNoFlush, CancelQueued
<1>33. ASSUME Destroy PROVE RlistIdle'
    BY <1>33 DEF Destroy, Forget
<1>34. ASSUME Crash PROVE RlistIdle'
    BY <1>34 DEF Crash, Forget
<1>35. ASSUME UNCHANGED vars PROVE RlistIdle'
    BY <1>35 DEF vars
<1> QED
    BY <1>1, <1>2, <1>3, <1>4, <1>5, <1>6, <1>7, <1>8, <1>9, <1>10, <1>11,
       <1>12, <1>13, <1>14, <1>15, <1>16, <1>17, <1>18, <1>19, <1>20, <1>21, <1>22,
       <1>23, <1>24, <1>25, <1>26, <1>27, <1>28, <1>29, <1>30, <1>31, <1>32, <1>33,
       <1>34, <1>35 DEF Next, Client, CommitTail, Thread, Flush, Mount

\* In a sound log every queued transaction has data.
LEMMA HasDataStep ==
    ASSUME IInv, HasData, [Next]_vars, LogSound'
    PROVE  HasData'
<1>0. TypeOK
    BY DEF IInv
<1> SUFFICES ASSUME NEW u \in Tx, txState'[u] = "Commiting" PROVE blocks'[u] # <<>>
    BY DEF HasData
<1>a. txState[u] = "Commiting" => blocks'[u] # <<>>
    BY RoundKeeps DEF HasData
<1> USE <1>0, <1>a DEF mountVars, tableVars, threadVars, txVars, homeVars, histVars
<1>1. ASSUME NEW t \in Tx, BeginTx(t) PROVE blocks'[u] # <<>>
    BY <1>1 DEF BeginTx, TypeOK
<1>2. ASSUME NEW t \in Tx, NEW page \in Pages, Write(t, page) PROVE blocks'[u] # <<>>
    BY <1>2 DEF Write, TypeOK
<1>3. ASSUME NEW t \in Tx, Abandon(t) PROVE blocks'[u] # <<>>
    BY <1>3 DEF Abandon, TypeOK
<1>4. ASSUME NEW t \in Tx, Commit(t) PROVE blocks'[u] # <<>>
    BY <1>4 DEF Commit, LogSound, TypeOK
<1>5. ASSUME NEW t \in Tx, CommitRefused(t) PROVE blocks'[u] # <<>>
    BY <1>5 DEF CommitRefused, TypeOK
<1>6. ASSUME NEW t \in Tx, CommitFailed(t) PROVE blocks'[u] # <<>>
    BY <1>6 DEF CommitFailed, TypeOK
<1>7. ASSUME NEW t \in Tx, Apply(t) PROVE blocks'[u] # <<>>
    BY <1>7 DEF Apply, TypeOK
<1>8. ASSUME NEW t \in Tx, ApplyDone(t) PROVE blocks'[u] # <<>>
    BY <1>8 DEF ApplyDone, TypeOK
<1>9. ASSUME NEW t \in Tx, ApplyFailed(t) PROVE blocks'[u] # <<>>
    BY <1>9 DEF ApplyFailed, TypeOK
<1>10. ASSUME NEW t \in Tx, EraseTx(t) PROVE blocks'[u] # <<>>
    BY <1>10 DEF EraseTx, TypeOK
<1>11. ASSUME CheckStopping PROVE blocks'[u] # <<>>
    BY <1>11 DEF CheckStopping, TypeOK
<1>12. ASSUME NoWork PROVE blocks'[u] # <<>>
    BY <1>12 DEF NoWork, TypeOK
<1>13. ASSUME TakeBatch PROVE blocks'[u] # <<>>
    BY <1>13 DEF TakeBatch, TypeOK
<1>14. ASSUME WriteTx PROVE blocks'[u] # <<>>
    BY <1>14 DEF WriteTx, TypeOK
<1>15. ASSUME NEW n \in 0 .. Capacity, WriteTxFail(n) PROVE blocks'[u] # <<>>
    BY <1>15 DEF WriteTxFail, LogSound
<1>16. ASSUME FlushBlocks PROVE blocks'[u] # <<>>
    BY <1>16 DEF FlushBlocks, TypeOK
<1>17. ASSUME CompleteTx PROVE blocks'[u] # <<>>
    <2>1. Outcome # "Commiting" /\ txState' = [txState EXCEPT ![Head(batch)] = Outcome]
        BY <1>17 DEF CompleteTx, Outcome
    <2> QED BY <2>1 DEF TypeOK
<1>18. ASSUME RoundDone PROVE blocks'[u] # <<>>
    BY <1>18 DEF RoundDone, TypeOK
<1>19. ASSUME FlushHeader PROVE blocks'[u] # <<>>
    BY <1>19 DEF FlushHeader, TypeOK
<1>20. ASSUME FlushHeaderDone PROVE blocks'[u] # <<>>
    BY <1>20 DEF FlushHeaderDone, TypeOK
<1>21. ASSUME NEW t \in Tx, CompactTx(t) PROVE blocks'[u] # <<>>
    BY <1>21 DEF CompactTx, TypeOK
<1>22. ASSUME CompactDone PROVE blocks'[u] # <<>>
    BY <1>22 DEF CompactDone, FlushReturn, TypeOK
<1>23. ASSUME FlushFailed PROVE blocks'[u] # <<>>
    BY <1>23 DEF FlushFailed, FlushReturn, TypeOK
<1>24. ASSUME Format PROVE blocks'[u] # <<>>
    BY <1>24 DEF Format, TypeOK
<1>25. ASSUME LoadHeader PROVE blocks'[u] # <<>>
    BY <1>25 DEF LoadHeader, TypeOK
<1>26. ASSUME ReplayBlock PROVE blocks'[u] # <<>>
    BY <1>26 DEF ReplayBlock, StartRunning, TypeOK
<1>27. ASSUME ReplayApplied PROVE blocks'[u] # <<>>
    BY <1>27 DEF ReplayApplied, TypeOK
<1>28. ASSUME ReplayDone PROVE blocks'[u] # <<>>
    BY <1>28 DEF ReplayDone, StartRunning, TypeOK
<1>29. ASSUME ReplayFailed PROVE blocks'[u] # <<>>
    BY <1>29 DEF ReplayFailed, TypeOK
<1>30. ASSUME Unload PROVE blocks'[u] # <<>>
    BY <1>30 DEF Unload, TypeOK
<1>31. ASSUME UnloadFlush PROVE blocks'[u] # <<>>
    BY <1>31 DEF UnloadFlush, CancelQueued, TypeOK
<1>32. ASSUME UnloadNoFlush PROVE blocks'[u] # <<>>
    BY <1>32 DEF UnloadNoFlush, CancelQueued, TypeOK
<1>33. ASSUME Destroy PROVE blocks'[u] # <<>>
    BY <1>33 DEF Destroy, Forget, TypeOK
<1>34. ASSUME Crash PROVE blocks'[u] # <<>>
    BY <1>34 DEF Crash, Forget, TypeOK
<1>35. ASSUME UNCHANGED vars PROVE blocks'[u] # <<>>
    BY <1>35 DEF vars, TypeOK
<1> QED
    BY <1>1, <1>2, <1>3, <1>4, <1>5, <1>6, <1>7, <1>8, <1>9, <1>10, <1>11,
       <1>12, <1>13, <1>14, <1>15, <1>16, <1>17, <1>18, <1>19, <1>20, <1>21, <1>22,
       <1>23, <1>24, <1>25, <1>26, <1>27, <1>28, <1>29, <1>30, <1>31, <1>32, <1>33,
       <1>34, <1>35 DEF Next, Client, CommitTail, Thread, Flush, Mount

\* While the blocks of a round are in flight nothing else of the journal moves.
InFlightStill ==
    \/ fpc' # "blocks"
    \/ /\ fpc = "blocks"
       /\ UNCHANGED <<tpc, batch, nwritten, berr, indexList, hdr>>

\* A step that is not FlushBlocks keeps the round, or ends its block writes.
LEMMA InFlightStep == IInv /\ [Next]_vars => FlushBlocks \/ InFlightStill
<1> SUFFICES ASSUME IInv, [Next]_vars PROVE FlushBlocks \/ InFlightStill
    OBVIOUS
<1>0. Modes
    BY DEF IInv
<1> USE <1>0 DEF InFlightStill, mountVars, tableVars, threadVars, txVars, homeVars, histVars
<1>1. ASSUME NEW t \in Tx, BeginTx(t) PROVE FlushBlocks \/ InFlightStill
    BY <1>1 DEF BeginTx
<1>2. ASSUME NEW t \in Tx, NEW page \in Pages, Write(t, page) PROVE FlushBlocks \/ InFlightStill
    BY <1>2 DEF Write
<1>3. ASSUME NEW t \in Tx, Abandon(t) PROVE FlushBlocks \/ InFlightStill
    BY <1>3 DEF Abandon
<1>4. ASSUME NEW t \in Tx, Commit(t) PROVE FlushBlocks \/ InFlightStill
    BY <1>4 DEF Commit
<1>5. ASSUME NEW t \in Tx, CommitRefused(t) PROVE FlushBlocks \/ InFlightStill
    BY <1>5 DEF CommitRefused
<1>6. ASSUME NEW t \in Tx, CommitFailed(t) PROVE FlushBlocks \/ InFlightStill
    BY <1>6 DEF CommitFailed
<1>7. ASSUME NEW t \in Tx, Apply(t) PROVE FlushBlocks \/ InFlightStill
    BY <1>7 DEF Apply
<1>8. ASSUME NEW t \in Tx, ApplyDone(t) PROVE FlushBlocks \/ InFlightStill
    BY <1>8 DEF ApplyDone
<1>9. ASSUME NEW t \in Tx, ApplyFailed(t) PROVE FlushBlocks \/ InFlightStill
    BY <1>9 DEF ApplyFailed
<1>10. ASSUME NEW t \in Tx, EraseTx(t) PROVE FlushBlocks \/ InFlightStill
    BY <1>10 DEF EraseTx
<1>11. ASSUME CheckStopping PROVE FlushBlocks \/ InFlightStill
    BY <1>11 DEF CheckStopping, Modes
<1>12. ASSUME NoWork PROVE FlushBlocks \/ InFlightStill
    BY <1>12 DEF NoWork, Modes
<1>13. ASSUME TakeBatch PROVE FlushBlocks \/ InFlightStill
    BY <1>13 DEF TakeBatch, Modes
<1>14. ASSUME WriteTx PROVE FlushBlocks \/ InFlightStill
    BY <1>14 DEF WriteTx, Modes
<1>15. ASSUME NEW n \in 0 .. Capacity, WriteTxFail(n) PROVE FlushBlocks \/ InFlightStill
    BY <1>15 DEF WriteTxFail, Modes
<1>16. ASSUME FlushBlocks PROVE FlushBlocks \/ InFlightStill
    BY <1>16
<1>17. ASSUME CompleteTx PROVE FlushBlocks \/ InFlightStill
    BY <1>17 DEF CompleteTx, Modes
<1>18. ASSUME RoundDone PROVE FlushBlocks \/ InFlightStill
    BY <1>18 DEF RoundDone, Modes
<1>19. ASSUME FlushHeader PROVE FlushBlocks \/ InFlightStill
    BY <1>19 DEF FlushHeader
<1>20. ASSUME FlushHeaderDone PROVE FlushBlocks \/ InFlightStill
    BY <1>20 DEF FlushHeaderDone
<1>21. ASSUME NEW t \in Tx, CompactTx(t) PROVE FlushBlocks \/ InFlightStill
    BY <1>21 DEF CompactTx
<1>22. ASSUME CompactDone PROVE FlushBlocks \/ InFlightStill
    BY <1>22 DEF CompactDone, FlushReturn
<1>23. ASSUME FlushFailed PROVE FlushBlocks \/ InFlightStill
    BY <1>23 DEF FlushFailed, FlushReturn
<1>24. ASSUME Format PROVE FlushBlocks \/ InFlightStill
    BY <1>24 DEF Format, Modes
<1>25. ASSUME LoadHeader PROVE FlushBlocks \/ InFlightStill
    BY <1>25 DEF LoadHeader, Modes
<1>26. ASSUME ReplayBlock PROVE FlushBlocks \/ InFlightStill
    BY <1>26 DEF ReplayBlock, Modes, StartRunning
<1>27. ASSUME ReplayApplied PROVE FlushBlocks \/ InFlightStill
    BY <1>27 DEF ReplayApplied
<1>28. ASSUME ReplayDone PROVE FlushBlocks \/ InFlightStill
    BY <1>28 DEF ReplayDone, Modes, StartRunning
<1>29. ASSUME ReplayFailed PROVE FlushBlocks \/ InFlightStill
    BY <1>29 DEF ReplayFailed
<1>30. ASSUME Unload PROVE FlushBlocks \/ InFlightStill
    BY <1>30 DEF Unload
<1>31. ASSUME UnloadFlush PROVE FlushBlocks \/ InFlightStill
    BY <1>31 DEF UnloadFlush, CancelQueued
<1>32. ASSUME UnloadNoFlush PROVE FlushBlocks \/ InFlightStill
    BY <1>32 DEF UnloadNoFlush, CancelQueued, Modes
<1>33. ASSUME Destroy PROVE FlushBlocks \/ InFlightStill
    BY <1>33 DEF Destroy, Forget
<1>34. ASSUME Crash PROVE FlushBlocks \/ InFlightStill
    BY <1>34 DEF Crash, Forget
<1>35. ASSUME UNCHANGED vars PROVE FlushBlocks \/ InFlightStill
    BY <1>35 DEF vars
<1> QED
    BY <1>1, <1>2, <1>3, <1>4, <1>5, <1>6, <1>7, <1>8, <1>9, <1>10, <1>11,
       <1>12, <1>13, <1>14, <1>15, <1>16, <1>17, <1>18, <1>19, <1>20, <1>21, <1>22,
       <1>23, <1>24, <1>25, <1>26, <1>27, <1>28, <1>29, <1>30, <1>31, <1>32, <1>33,
       <1>34, <1>35 DEF Next, Client, CommitTail, Thread, Flush, Mount

\* In a sound log the blocks of a round go to slots that no header covers.
LEMMA NoReuseStep ==
    ASSUME IInv, NoReuse, [Next]_vars, LogSound'
    PROVE  NoReuse'
<1>1. CASE FlushBlocks
    <2>0. /\ tpc = "write" /\ nwritten = Len(batch) /\ tpc' = "flush"
          /\ UNCHANGED <<batch, nwritten, berr, indexList, blocks, hdr>>
          /\ taint' = taint \cup (IF BatchSlots \cap Exposed # {} THEN {"reused"} ELSE {})
        BY <1>1 DEF FlushBlocks, threadVars, txVars
    <2>1. BatchSlots \cap Exposed = {}
        BY <2>0 DEF LogSound
    <2>2. \A u \in Tx : InRound(u)' => \E j \in DOMAIN batch : batch[j] = u
        BY <2>0 DEF InRound
    <2>3. \A u \in Tx : InRound(u)' => InRound(u)
        <3>1. DOMAIN batch = 1 .. nwritten
            BY <2>0 DEF IInv, TypeOK
        <3> QED BY <2>0, <2>2, <3>1 DEF InRound
    <2>4. ASSUME NEW u \in Tx, InRound(u)', NEW k \in 1 .. TxLen(u), NEW h \in hdr \ {NoHeader}
          PROVE  indexList[u][k] \notin Used(h)
        <3>1. k \in DOMAIN indexList[u]
            BY <2>3, <2>4, RoundPlaced
        <3>2. u \in Range(batch)
            BY <2>2, <2>4 DEF Range
        <3>3. indexList[u][k] \in BatchSlots
            BY <3>1, <3>2 DEF BatchSlots, Range
        <3>4. Used(h) \subseteq Exposed
            BY DEF Exposed
        <3> QED BY <2>1, <3>3, <3>4
    <2>5. \A u \in Tx : TxLen(u)' = TxLen(u)
        BY <2>0 DEF TxLen
    <2> QED BY <2>0, <2>4, <2>5 DEF NoReuse
<1>2. CASE InFlightStill
    <2> SUFFICES ASSUME fpc' = "blocks", NEW u \in Tx, InRound(u)',
                        NEW k \in 1 .. TxLen(u)', NEW h \in hdr' \ {NoHeader}
                 PROVE  indexList'[u][k] \notin Used(h)
        BY DEF NoReuse
    <2>1. fpc = "blocks" /\ UNCHANGED <<tpc, batch, nwritten, berr, indexList, hdr>>
        BY <1>2 DEF InFlightStill
    <2>2. InRound(u)
        BY <2>1 DEF InRound
    <2>3. blocks'[u] = blocks[u]
        BY <2>2, RoundUndecided, RoundKeeps
    <2>4. TxLen(u)' = TxLen(u)
        BY <2>3 DEF TxLen
    <2> QED BY <2>1, <2>2, <2>4 DEF NoReuse
<1> QED BY <1>1, <1>2, InFlightStep

\* Every header that a crash may leave keeps covering whole transactions: it is
\* written after the blocks, and bios go to slots that no header covers.
LEMMA HeadersStep ==
    ASSUME IInv, HeadersParse, RingParses, NoReuse, [Next]_vars, LogSound'
    PROVE  HeadersParse'
<1>0. /\ TypeOK /\ Modes /\ ring \in Ring /\ hdr \subseteq Ring \cup {NoHeader}
      /\ log \in [Slot -> SUBSET Block]
    BY DEF IInv, TypeOK
<1>a. ASSUME hdr' \subseteq hdr, \A i \in Slot : log'[i] \subseteq log[i]
      PROVE  HeadersParse'
    <2>1. ASSUME NEW h \in hdr \ {NoHeader} PROVE Chained(h, log') /\ StartsAt(h, log')
        <3>1. h \in Ring /\ Used(h) \subseteq Slot
            BY <1>0, SlotsUsed
        <3>2. \A i \in Used(h) : log'[i] \subseteq log[i]
            BY <1>a, <3>1
        <3>3. Chained(h, log) /\ StartsAt(h, log)
            BY DEF HeadersParse
        <3> QED BY <3>1, <3>2, <3>3, ChainShrinks
    <2> QED BY <1>a, <2>1 DEF HeadersParse
<1>b. UNCHANGED <<log, hdr>> => HeadersParse'
    BY <1>a
<1>c. ASSUME log' = log, hdr' \subseteq hdr \cup {ring}, tpc # "write", fpc # "blocks",
             jstate \in {"Running", "Stopped"}
      PROVE  HeadersParse'
    <2>1. Chained(ring, log) /\ StartsAt(ring, log)
        BY <1>0, <1>c, NextLogIsLog DEF RingParses
    <2> QED BY <1>c, <2>1 DEF HeadersParse
<1> USE <1>0 DEF mountVars, tableVars, threadVars, txVars, homeVars, histVars
<1>1. ASSUME NEW t \in Tx, BeginTx(t) PROVE HeadersParse'
    BY <1>1, <1>b DEF BeginTx
<1>2. ASSUME NEW t \in Tx, NEW page \in Pages, Write(t, page) PROVE HeadersParse'
    BY <1>2, <1>b DEF Write
<1>3. ASSUME NEW t \in Tx, Abandon(t) PROVE HeadersParse'
    BY <1>3, <1>b DEF Abandon
<1>4. ASSUME NEW t \in Tx, Commit(t) PROVE HeadersParse'
    BY <1>4, <1>b DEF Commit
<1>5. ASSUME NEW t \in Tx, CommitRefused(t) PROVE HeadersParse'
    BY <1>5, <1>b DEF CommitRefused
<1>6. ASSUME NEW t \in Tx, CommitFailed(t) PROVE HeadersParse'
    BY <1>6, <1>b DEF CommitFailed
<1>7. ASSUME NEW t \in Tx, Apply(t) PROVE HeadersParse'
    BY <1>7, <1>b DEF Apply
<1>8. ASSUME NEW t \in Tx, ApplyDone(t) PROVE HeadersParse'
    BY <1>8, <1>b DEF ApplyDone
<1>9. ASSUME NEW t \in Tx, ApplyFailed(t) PROVE HeadersParse'
    BY <1>9, <1>b DEF ApplyFailed
<1>10. ASSUME NEW t \in Tx, EraseTx(t) PROVE HeadersParse'
    BY <1>10, <1>b DEF EraseTx
<1>11. ASSUME CheckStopping PROVE HeadersParse'
    BY <1>11, <1>b DEF CheckStopping
<1>12. ASSUME NoWork PROVE HeadersParse'
    BY <1>12, <1>b DEF NoWork
<1>13. ASSUME TakeBatch PROVE HeadersParse'
    BY <1>13, <1>b DEF TakeBatch
<1>14. ASSUME WriteTx PROVE HeadersParse'
    BY <1>14, <1>b DEF WriteTx
<1>15. ASSUME NEW n \in 0 .. Capacity, WriteTxFail(n) PROVE HeadersParse'
    BY <1>15, <1>b DEF WriteTxFail
<1>16. ASSUME FlushBlocks PROVE HeadersParse'
    <2>0. NoReuse'
        BY NoReuseStep
    <2>1. /\ tpc = "write" /\ nwritten = Len(batch) /\ hdr' = hdr
          /\ log' = [i \in Slot |-> log[i] \cup
                   (IF i \in BatchSlots THEN BatchBlock(i) \cup {Torn} ELSE {})]
          /\ taint' = taint \cup (IF BatchSlots \cap Exposed # {} THEN {"reused"} ELSE {})
        BY <1>16 DEF FlushBlocks
    <2>2. BatchSlots \cap Exposed = {}
        BY <2>1 DEF LogSound
    <2>3. ASSUME NEW h \in hdr \ {NoHeader} PROVE Chained(h, log') /\ StartsAt(h, log')
        <3>1. h \in Ring /\ Used(h) \subseteq Slot
            BY <1>0, SlotsUsed
        <3>2. \A i \in Used(h) : i \notin BatchSlots
            BY <2>2 DEF Exposed
        <3>3. \A i \in Used(h) : log'[i] \subseteq log[i]
            BY <2>1, <3>1, <3>2
        <3>4. Chained(h, log) /\ StartsAt(h, log)
            BY DEF HeadersParse
        <3> QED BY <3>1, <3>3, <3>4, ChainShrinks
    <2> QED BY <2>1, <2>3 DEF HeadersParse
<1>17. ASSUME CompleteTx PROVE HeadersParse'
    BY <1>17, <1>b DEF CompleteTx
<1>18. ASSUME RoundDone PROVE HeadersParse'
    BY <1>18, <1>b DEF RoundDone
<1>19. ASSUME FlushHeader PROVE HeadersParse'
    <2>1. /\ fpc = "blocks" /\ hdr' = hdr \cup {ring}
          /\ log' = [i \in Slot |-> IF i \in BatchSlots THEN BatchBlock(i) ELSE log[i]]
        BY <1>19 DEF FlushHeader, WrittenBlock
    <2>2. \A i : i \in BatchSlots =>
              \E u \in Tx : InRound(u) /\ \E k \in 1 .. TxLen(u) : indexList[u][k] = i
        <3>1. \A i : i \in BatchSlots => RoundBlock(i) # {}
            BY <2>1, RoundIsBatch
        <3> QED BY <3>1 DEF RoundBlock
    <2>3. ASSUME NEW h \in hdr \ {NoHeader} PROVE Chained(h, log') /\ StartsAt(h, log')
        <3>1. h \in Ring /\ Used(h) \subseteq Slot
            BY <1>0, SlotsUsed
        <3>2. \A i \in Used(h) : i \notin BatchSlots
            BY <2>1, <2>2 DEF NoReuse
        <3>3. \A i \in Used(h) : log'[i] \subseteq log[i]
            BY <2>1, <3>1, <3>2
        <3>4. Chained(h, log) /\ StartsAt(h, log)
            BY DEF HeadersParse
        <3> QED BY <3>1, <3>3, <3>4, ChainShrinks
    <2>4. Chained(ring, log') /\ StartsAt(ring, log')
        <3>1. jstate \in {"Running", "Stopped"}
            BY <2>1 DEF Modes, TypeOK
        <3>2. \A i \in Slot : log'[i] = NextLog[i]
            BY <2>1, RoundIsBatch DEF NextLog
        <3>3. Chained(ring, NextLog) /\ StartsAt(ring, NextLog)
            BY <3>1 DEF RingParses
        <3>4. \A i \in Used(ring) : log'[i] \subseteq NextLog[i]
            BY <3>2, SlotsUsed
        <3> QED BY <3>3, <3>4, ChainShrinks
    <2> QED BY <2>1, <2>3, <2>4 DEF HeadersParse
<1>20. ASSUME FlushHeaderDone PROVE HeadersParse'
    BY <1>20, <1>c DEF FlushHeaderDone, HeaderWritten, Modes, TypeOK
<1>21. ASSUME NEW t \in Tx, CompactTx(t) PROVE HeadersParse'
    BY <1>21, <1>b DEF CompactTx
<1>22. ASSUME CompactDone PROVE HeadersParse'
    BY <1>22, <1>b DEF CompactDone
<1>23. ASSUME FlushFailed PROVE HeadersParse'
    BY <1>23, <1>b DEF FlushFailed
<1>24. ASSUME Format PROVE HeadersParse'
    <2>1. hdr' \subseteq {NoHeader, EmptyRing} /\ EmptyRing.size = 0
        BY <1>24 DEF Format, EmptyRing
    <2>2. \A c : Chained(EmptyRing, c) /\ StartsAt(EmptyRing, c)
        BY <2>1 DEF Chained, StartsAt
    <2> QED BY <2>1, <2>2 DEF HeadersParse
<1>25. ASSUME LoadHeader PROVE HeadersParse'
    <2>1. log' = log /\ hdr' \subseteq hdr
        BY <1>25 DEF LoadHeader
    <2> QED BY <1>a, <2>1
<1>26. ASSUME ReplayBlock PROVE HeadersParse'
    <2>1. PICK b \in log[ring.start] : log' = [log EXCEPT ![ring.start] = {b}]
        BY <1>26 DEF ReplayBlock
    <2>2. hdr' = hdr /\ ring.start \in Slot
        BY <1>26 DEF ReplayBlock, Ring
    <2> QED BY <1>a, <2>1, <2>2
<1>27. ASSUME ReplayApplied PROVE HeadersParse'
    BY <1>27, <1>b DEF ReplayApplied
<1>28. ASSUME ReplayDone PROVE HeadersParse'
    BY <1>28, <1>b DEF ReplayDone
<1>29. ASSUME ReplayFailed PROVE HeadersParse'
    BY <1>29, <1>b DEF ReplayFailed
<1>30. ASSUME Unload PROVE HeadersParse'
    BY <1>30, <1>b DEF Unload
<1>31. ASSUME UnloadFlush PROVE HeadersParse'
    BY <1>31, <1>c DEF UnloadFlush, CancelQueued, Modes, TypeOK
<1>32. ASSUME UnloadNoFlush PROVE HeadersParse'
    BY <1>32, <1>b DEF UnloadNoFlush
<1>33. ASSUME Destroy PROVE HeadersParse'
    BY <1>33, <1>b DEF Destroy, Forget
<1>34. ASSUME Crash PROVE HeadersParse'
    BY <1>34, <1>b DEF Crash, Forget
<1>35. ASSUME UNCHANGED vars PROVE HeadersParse'
    BY <1>35, <1>b DEF vars
<1> QED
    BY <1>1, <1>2, <1>3, <1>4, <1>5, <1>6, <1>7, <1>8, <1>9, <1>10, <1>11,
       <1>12, <1>13, <1>14, <1>15, <1>16, <1>17, <1>18, <1>19, <1>20, <1>21, <1>22,
       <1>23, <1>24, <1>25, <1>26, <1>27, <1>28, <1>29, <1>30, <1>31, <1>32, <1>33,
       <1>34, <1>35 DEF Next, Client, CommitTail, Thread, Flush, Mount

\* The block that Replay reads next continues what it has read.
LEMMA ReplayNoCorrupt ==
    ASSUME TypeOK, ReplayParses, mpc = "replay", PopOk(ring), NEW b \in log[ring.start]
    PROVE  /\ ReplayStep(b) \in {"add", "apply"}
           /\ ReplayStep(b) = "add" =>
                 \/ b.type = "Begin" /\ rlist = <<>>
                 \/ /\ b.type = "Data" /\ rlist # <<>>
                    /\ b.tx = rlist[1].tx /\ b.index = Len(rlist) - 1
           /\ ReplayStep(b) = "apply" => b.type = "Commit" /\ rlist # <<>>
<1>1. ring \in Ring /\ rlist \in Seq(Block) /\ ring.size \in Nat /\ ring.size # 0
      /\ Cell(ring, 0) = ring.start
    BY FirstCell, CapacityAssumption DEF TypeOK, Ring, PopOk
<1>2. CASE rlist = <<>>
    <2>1. b.type = "Begin"
        BY <1>1, <1>2 DEF ReplayParses, StartsAt
    <2> QED BY <1>2, <2>1 DEF ReplayStep
<1>3. CASE rlist # <<>>
    <2>1. PICK l \in Nat : l = Len(rlist) /\ l >= 1 /\ DOMAIN rlist = 1 .. l
        BY <1>1, <1>3
    <2>2. Follows(rlist[l], b)
        BY <1>1, <1>3, <2>1 DEF ReplayParses
    <2>3. /\ rlist[1].type = "Begin"
          /\ \A k \in 1 .. l : 1 < k =>
                rlist[k].type = "Data" /\ rlist[k].tx = rlist[1].tx /\ rlist[k].index = k - 2
        BY <2>1 DEF ReplayParses, Partial
    <2>4. CASE l = 1
        <3>1. b.type = "Data" /\ b.tx = rlist[1].tx /\ b.index = l - 1
            BY <2>2, <2>3, <2>4 DEF Follows
        <3> QED BY <1>3, <2>1, <3>1 DEF ReplayStep
    <2>5. CASE l # 1
        <3>1. 1 < l /\ l \in 1 .. l
            BY <2>1, <2>5
        <3>2. rlist[l].type = "Data" /\ rlist[l].tx = rlist[1].tx /\ rlist[l].index = l - 2
            BY <2>3, <3>1
        <3>3. b.type \in {"Data", "Commit"} /\ b.tx = rlist[1].tx /\ b.index = l - 1
            BY <2>1, <2>2, <3>2 DEF Follows
        <3>4. CASE b.type = "Data"
            BY <1>3, <2>1, <3>3, <3>4 DEF ReplayStep
        <3>5. CASE b.type = "Commit"
            <4>1. b \in Block
                BY <1>1 DEF TypeOK, Ring
            <4>2. /\ Len(Append(rlist, b)) = l + 1 /\ Append(rlist, b)[l + 1] = b
                  /\ \A k \in 1 .. l : Append(rlist, b)[k] = rlist[k]
                BY <1>1, <2>1, <4>1
            <4> DEFINE bs == Append(rlist, b)
            <4> HIDE DEF bs
            <4>3. Len(bs) = l + 1 /\ bs[l + 1] = b /\ bs[1] = rlist[1]
                  /\ \A k \in 2 .. l : bs[k] = rlist[k]
                BY <2>1, <4>2 DEF bs
            <4>4. \A k \in 2 .. l :
                     bs[k].type = "Data" /\ bs[k].tx = bs[1].tx /\ bs[k].index = k - 2
                BY <2>1, <2>3, <4>3
            <4>5. l + 1 >= 3 /\ l + 1 - 1 = l /\ l + 1 - 2 = l - 1
                BY <2>1, <3>1
            <4>6. ReplayOk(bs)
                BY <2>3, <3>3, <3>5, <4>3, <4>4, <4>5 DEF ReplayOk
            <4>7. Len(rlist) >= 2
                BY <2>1, <3>1
            <4>8. ReplayStep(b) = "apply"
                BY <1>3, <3>5, <4>6, <4>7 DEF ReplayStep, bs
            <4> QED BY <1>3, <3>5, <4>8
        <3> QED BY <3>3, <3>4, <3>5
    <2> QED BY <2>4, <2>5
<1> QED BY <1>2, <1>3

\* The ring after a pop, with the block that was read settled.
LEMMA PopChain ==
    ASSUME TypeOK, Chained(ring, log), RingOk(ring), PopOk(ring), NEW b \in log[ring.start],
           ring' = PopFront(ring), log' = [log EXCEPT ![ring.start] = {b}]
    PROVE  /\ Chained(ring', log')
           /\ ring'.size > 0 => \A c \in log'[Cell(ring', 0)] : Follows(b, c)
           /\ ring'.size = 0 => b.type = "Commit"
           /\ ring'.size \in Nat
<1>1. /\ ring \in Ring /\ ring.size \in Nat /\ ring.size # 0 /\ ring.start \in Slot
      /\ Cell(ring, 0) = ring.start /\ log \in [Slot -> SUBSET Block]
    BY FirstCell, CapacityAssumption DEF TypeOK, Ring, PopOk
<1>2. ring' \in Ring
    BY <1>1, PopLemma
<1>3. /\ ring'.size = ring.size - 1
      /\ \A k \in Nat : k + 1 < ring.size => Cell(ring', k) = Cell(ring, k + 1)
    BY <1>1, PopCells
<1>4. \A k \in Nat : 1 + k < ring.size => Cell(ring', k) = Cell(ring, 1 + k)
    BY <1>1, <1>3
<1>5. Chained(ring', log)
    <2>1. 1 <= ring.size
        BY <1>1
    <2> QED BY <1>1, <1>2, <1>3, <1>4, <2>1, ChainDrops
<1>6. \A i \in Slot : log'[i] \subseteq log[i]
    BY <1>1
<1>7. Chained(ring', log')
    <2>1. \A i \in Used(ring') : log'[i] \subseteq log[i]
        BY <1>2, <1>6, SlotsUsed
    <2> QED BY <1>2, <1>5, <2>1, ChainShrinks
<1>8. ASSUME ring'.size > 0, NEW c \in log'[Cell(ring', 0)] PROVE Follows(b, c)
    <2>1. 0 + 1 < ring.size /\ 0 \in 0 .. ring.size - 1
        BY <1>1, <1>3, <1>8
    <2>2. Cell(ring', 0) = Cell(ring, 0 + 1) /\ Cell(ring', 0) \in Slot
        BY <1>2, <1>3, <1>8, <2>1, CellUsed
    <2>3. c \in log[Cell(ring, 0 + 1)]
        BY <1>6, <1>8, <2>2
    <2> QED BY <1>1, <2>1, <2>3 DEF Chained
<1>9. ASSUME ring'.size = 0 PROVE b.type = "Commit"
    <2>1. ring.size - 1 = 0 /\ ring.size > 0
        BY <1>1, <1>3, <1>9
    <2> QED BY <1>1, <2>1 DEF Chained
<1> QED BY <1>1, <1>3, <1>7, <1>8, <1>9

\* Replay stays in step with the log: each block it reads continues the
\* transaction it is reassembling.
LEMMA ReplayStepLemma ==
    ASSUME IInv, RlistIdle, HeadersParse, ReplayParses, [Next]_vars
    PROVE  ReplayParses'
<1>0. TypeOK /\ Modes /\ RingOk(ring)
    BY DEF IInv, RingsOk
<1>a. mpc' \notin {"replay", "apply"} => ReplayParses'
    BY DEF ReplayParses
<1>b. UNCHANGED <<log, ring, mpc, rlist>> => ReplayParses'
    BY DEF ReplayParses, Partial
<1> USE <1>0 DEF mountVars, tableVars, threadVars, txVars, homeVars, histVars
<1>1. ASSUME NEW t \in Tx, BeginTx(t) PROVE ReplayParses'
    BY <1>1, <1>b DEF BeginTx
<1>2. ASSUME NEW t \in Tx, NEW page \in Pages, Write(t, page) PROVE ReplayParses'
    BY <1>2, <1>b DEF Write
<1>3. ASSUME NEW t \in Tx, Abandon(t) PROVE ReplayParses'
    BY <1>3, <1>b DEF Abandon
<1>4. ASSUME NEW t \in Tx, Commit(t) PROVE ReplayParses'
    BY <1>4, <1>b DEF Commit
<1>5. ASSUME NEW t \in Tx, CommitRefused(t) PROVE ReplayParses'
    BY <1>5, <1>b DEF CommitRefused
<1>6. ASSUME NEW t \in Tx, CommitFailed(t) PROVE ReplayParses'
    BY <1>6, <1>b DEF CommitFailed
<1>7. ASSUME NEW t \in Tx, Apply(t) PROVE ReplayParses'
    BY <1>7, <1>b DEF Apply
<1>8. ASSUME NEW t \in Tx, ApplyDone(t) PROVE ReplayParses'
    BY <1>8, <1>b DEF ApplyDone
<1>9. ASSUME NEW t \in Tx, ApplyFailed(t) PROVE ReplayParses'
    BY <1>9, <1>b DEF ApplyFailed
<1>10. ASSUME NEW t \in Tx, EraseTx(t) PROVE ReplayParses'
    BY <1>10, <1>b DEF EraseTx
<1>11. ASSUME CheckStopping PROVE ReplayParses'
    BY <1>11, <1>b DEF CheckStopping
<1>12. ASSUME NoWork PROVE ReplayParses'
    BY <1>12, <1>b DEF NoWork
<1>13. ASSUME TakeBatch PROVE ReplayParses'
    BY <1>13, <1>b DEF TakeBatch
<1>14. ASSUME WriteTx PROVE ReplayParses'
    BY <1>14, <1>a DEF WriteTx, Modes
<1>15. ASSUME NEW n \in 0 .. Capacity, WriteTxFail(n) PROVE ReplayParses'
    BY <1>15, <1>a DEF WriteTxFail, Modes
<1>16. ASSUME FlushBlocks PROVE ReplayParses'
    BY <1>16, <1>a DEF FlushBlocks, Modes
<1>17. ASSUME CompleteTx PROVE ReplayParses'
    BY <1>17, <1>b DEF CompleteTx
<1>18. ASSUME RoundDone PROVE ReplayParses'
    BY <1>18, <1>b DEF RoundDone
<1>19. ASSUME FlushHeader PROVE ReplayParses'
    BY <1>19, <1>a DEF FlushHeader, Modes
<1>20. ASSUME FlushHeaderDone PROVE ReplayParses'
    BY <1>20, <1>b DEF FlushHeaderDone
<1>21. ASSUME NEW t \in Tx, CompactTx(t) PROVE ReplayParses'
    BY <1>21, <1>a DEF CompactTx, Modes
<1>22. ASSUME CompactDone PROVE ReplayParses'
    BY <1>22, <1>a DEF CompactDone, FlushReturn, Modes
<1>23. ASSUME FlushFailed PROVE ReplayParses'
    BY <1>23, <1>a DEF FlushFailed, FlushReturn, Modes
<1>24. ASSUME Format PROVE ReplayParses'
    BY <1>24, <1>b DEF Format
<1>25. ASSUME LoadHeader PROVE ReplayParses'
    <2>1. CASE mpc' = "failed"
        BY <1>a, <2>1
    <2>2. CASE mpc' # "failed"
        <3>1. /\ ring' \in hdr \ {NoHeader} /\ log' = log /\ rlist' = rlist /\ mpc = "idle"
              /\ mpc' = "replay"
            BY <1>25, <2>2 DEF LoadHeader
        <3>2. rlist' = <<>>
            BY <3>1 DEF RlistIdle
        <3> QED BY <3>1, <3>2 DEF ReplayParses, HeadersParse, Partial
    <2> QED BY <2>1, <2>2
<1>26. ASSUME ReplayBlock PROVE ReplayParses'
    <2>0. mpc = "replay" /\ PopOk(ring) /\ ring' = PopFront(ring)
        BY <1>26 DEF ReplayBlock
    <2>1. PICK b \in log[ring.start] :
              /\ log' = [log EXCEPT ![ring.start] = {b}]
              /\ ReplayStep(b) = "add" => rlist' = Append(rlist, b) /\ mpc' = mpc
              /\ ReplayStep(b) = "apply" => rlist' = Append(rlist, b) /\ mpc' = "apply"
        BY <1>26 DEF ReplayBlock
    <2>2. Chained(ring, log)
        BY <2>0 DEF ReplayParses
    <2>3. /\ Chained(ring', log')
          /\ ring'.size > 0 => \A c \in log'[Cell(ring', 0)] : Follows(b, c)
          /\ ring'.size = 0 => b.type = "Commit"
          /\ ring'.size \in Nat
        BY <2>0, <2>1, <2>2, PopChain
    <2>4. rlist \in Seq(Block) /\ b \in Block
        BY <2>1 DEF TypeOK, Ring
    <2>5. PICK l \in Nat : l = Len(rlist) /\ DOMAIN rlist = 1 .. l
        BY <2>4
    <2>6. /\ Len(Append(rlist, b)) = l + 1 /\ Append(rlist, b)[l + 1] = b
          /\ DOMAIN Append(rlist, b) = 1 .. l + 1
          /\ \A k \in 1 .. l : Append(rlist, b)[k] = rlist[k]
          /\ Append(rlist, b) # <<>>
        BY <2>4, <2>5
    <2>7. \A k \in 1 .. l :
              /\ k = 1 => rlist[k].type = "Begin"
              /\ 1 < k => rlist[k].type = "Data" /\ rlist[k].tx = rlist[1].tx /\ rlist[k].index = k - 2
        BY <2>0, <2>5 DEF ReplayParses, Partial
    <2>7a. rlist # <<>> <=> l # 0
        BY <2>4, <2>5
    <2>8. CASE ReplayStep(b) = "add"
        <3>1. rlist' = Append(rlist, b) /\ mpc' = "replay"
            BY <2>0, <2>1, <2>8
        <3>2. \/ b.type = "Begin" /\ l = 0
              \/ b.type = "Data" /\ l # 0 /\ b.tx = rlist[1].tx /\ b.index = l - 1
            <4>1. \/ b.type = "Begin" /\ rlist = <<>>
                  \/ /\ b.type = "Data" /\ rlist # <<>>
                     /\ b.tx = rlist[1].tx /\ b.index = Len(rlist) - 1
                BY <2>0, <2>8, ReplayNoCorrupt
            <4> QED BY <2>5, <2>7a, <4>1
        <3>3. ring'.size > 0
            BY <2>3, <3>2
        <3>4. Partial'
            <4> SUFFICES ASSUME NEW k \in 1 .. l + 1
                         PROVE  /\ k = 1 => rlist'[k].type = "Begin"
                                /\ 1 < k => /\ rlist'[k].type = "Data"
                                            /\ rlist'[k].tx = rlist'[1].tx /\ rlist'[k].index = k - 2
                BY <2>6, <3>1 DEF Partial
            <4>1. CASE l = 0
                BY <2>6, <3>1, <3>2, <4>1
            <4>2. CASE l # 0 /\ k \in 1 .. l
                BY <2>6, <2>7, <3>1, <3>2, <4>2
            <4>3. CASE l # 0 /\ k = l + 1
                <5>1. 1 \in 1 .. l /\ k # 1 /\ l - 1 = k - 2
                    BY <4>3
                <5> QED BY <2>6, <3>1, <3>2, <4>3, <5>1
            <4> QED BY <4>1, <4>2, <4>3
        <3>5. rlist'[Len(rlist')] = b /\ rlist' # <<>>
            BY <2>6, <3>1
        <3> QED BY <2>3, <3>1, <3>3, <3>4, <3>5 DEF ReplayParses
    <2>9. CASE ReplayStep(b) = "apply"
        <3>1. rlist' = Append(rlist, b) /\ mpc' = "apply"
            BY <2>1, <2>9
        <3>2. b.type = "Commit" /\ l # 0
            BY <2>0, <2>7a, <2>9, ReplayNoCorrupt
        <3>3. StartsAt(ring', log')
            BY <2>3, <3>2 DEF StartsAt, Follows
        <3>4. Partial'
            <4> SUFFICES ASSUME NEW k \in 1 .. l + 1
                         PROVE  /\ k = 1 => rlist'[k].type = "Begin"
                                /\ 1 < k /\ k < l + 1 =>
                                       /\ rlist'[k].type = "Data"
                                       /\ rlist'[k].tx = rlist'[1].tx /\ rlist'[k].index = k - 2
                BY <2>6, <3>1 DEF Partial
            <4>1. 1 \in 1 .. l
                BY <3>2
            <4>2. rlist'[1] = rlist[1] /\ rlist[1].type = "Begin"
                BY <2>6, <2>7, <3>1, <4>1
            <4>3. CASE k \in 1 .. l
                BY <2>6, <2>7, <3>1, <4>2, <4>3
            <4>4. CASE k = l + 1
                BY <3>2, <4>4
            <4> QED BY <4>3, <4>4
        <3> QED BY <2>3, <3>1, <3>3, <3>4 DEF ReplayParses
    <2> QED BY <2>0, <2>8, <2>9, ReplayNoCorrupt
<1>27. ASSUME ReplayApplied PROVE ReplayParses'
    BY <1>27 DEF ReplayApplied, ReplayParses, Partial
<1>28. ASSUME ReplayDone PROVE ReplayParses'
    <2>1. mpc' \in {"idle", "failed"}
        BY <1>28 DEF ReplayDone, StartRunning
    <2> QED BY <1>a, <2>1
<1>29. ASSUME ReplayFailed PROVE ReplayParses'
    BY <1>29, <1>a DEF ReplayFailed
<1>30. ASSUME Unload PROVE ReplayParses'
    BY <1>30, <1>a DEF Unload
<1>31. ASSUME UnloadFlush PROVE ReplayParses'
    BY <1>31, <1>a DEF UnloadFlush
<1>32. ASSUME UnloadNoFlush PROVE ReplayParses'
    BY <1>32, <1>a DEF UnloadNoFlush
<1>33. ASSUME Destroy PROVE ReplayParses'
    BY <1>33, <1>a DEF Destroy, Forget
<1>34. ASSUME Crash PROVE ReplayParses'
    BY <1>34, <1>a DEF Crash, Forget
<1>35. ASSUME UNCHANGED vars PROVE ReplayParses'
    BY <1>35, <1>b DEF vars
<1> QED
    BY <1>1, <1>2, <1>3, <1>4, <1>5, <1>6, <1>7, <1>8, <1>9, <1>10, <1>11,
       <1>12, <1>13, <1>14, <1>15, <1>16, <1>17, <1>18, <1>19, <1>20, <1>21, <1>22,
       <1>23, <1>24, <1>25, <1>26, <1>27, <1>28, <1>29, <1>30, <1>31, <1>32, <1>33,
       <1>34, <1>35 DEF Next, Client, CommitTail, Thread, Flush, Mount

\* The ring parses with the contents d.
Parsed(r, d) == Chained(r, d) /\ StartsAt(r, d)

\* While the round stays as it is, so does what the slots will hold.
LEMMA NextLogKept ==
    ASSUME IInv, [Next]_vars, UNCHANGED <<log, tpc, fpc, batch, nwritten, berr, indexList>>
    PROVE  NextLog' = NextLog
<1>1. \A u \in Tx : InRound(u)' <=> InRound(u)
    BY DEF InRound
<1>2. \A u \in Tx : InRound(u) => blocks'[u] = blocks[u]
    BY RoundUndecided, RoundKeeps
<1>3. \A u \in Tx : InRound(u) => TxLen(u)' = TxLen(u) /\ \A k : TxBlock(u, k)' = TxBlock(u, k)
    BY <1>2 DEF TxLen, TxBlock, BeginBlock, DataBlock, CommitBlock
<1>4. {u \in Tx : InRound(u)'} = {u \in Tx : InRound(u)}
    BY <1>1
<1>5. \A i : RoundBlock(i)' = RoundBlock(i)
    <2> TAKE i
    <2> DEFINE S(u) == {TxBlock(u, k) : k \in {j \in 1 .. TxLen(u) : indexList[u][j] = i}}
    <2>1. \A u \in Tx : InRound(u) => S(u)' = S(u)
        BY <1>3
    <2>2. RoundBlock(i) = UNION {S(u) : u \in {v \in Tx : InRound(v)}}
          /\ RoundBlock(i)' = UNION {S(u)' : u \in {v \in Tx : InRound(v)'}}
        BY DEF RoundBlock
    <2> HIDE DEF S
    <2> QED BY <1>4, <2>1, <2>2
<1> QED BY <1>5 DEF NextLog

\* WriteTx appends the blocks of its transaction to what the slots will hold.
LEMMA WriteTxChain ==
    ASSUME IInv, IInv', HasData, WriteTx, Parsed(ring, NextLog)
    PROVE  Parsed(ring', NextLog')
<1>0. /\ batch \in Seq(Tx) /\ nwritten \in Nat /\ nwritten < Len(batch)
    BY DEF WriteTx, IInv, TypeOK
<1>0a. nwritten + 1 \in DOMAIN batch /\ batch[nwritten + 1] \in Tx
    BY <1>0
<1>0b. PICK t \in Tx : t = batch[nwritten + 1]
    BY <1>0a
<1>1. /\ tpc = "write" /\ nwritten < Len(batch) /\ txState[t] = "Commiting"
      /\ TxLen(t) <= Capacity - ring.size
      /\ indexList' = [indexList EXCEPT ![t] = Pushed(ring, TxLen(t))]
      /\ ring' = PushMany(ring, TxLen(t))
      /\ nwritten' = nwritten + 1
      /\ UNCHANGED <<tpc, batch, berr, fpc, blocks, log>>
    BY <1>0b DEF WriteTx, threadVars, txVars
<1>2. /\ ring \in Ring /\ RingOk(ring) /\ ring' \in Ring /\ ring.size \in Nat
      /\ batch \in Seq(Tx) /\ nwritten \in Nat /\ indexList \in [Tx -> Seq(Slot)]
      /\ Len(batch) \in Nat /\ DOMAIN batch = 1 .. Len(batch)
    BY CapacityAssumption DEF IInv, RingsOk, TypeOK, Ring
<1>3. nwritten + 1 \in DOMAIN batch /\ t \in Tx
    BY <1>0a
<1>4. PICK n \in Nat : n = TxLen(t) /\ n >= 2
    BY <1>3, TxBlockType DEF IInv
<1>5. fpc # "blocks"
    BY <1>1 DEF IInv, Modes
<1>6. ~InRound(t)
    <2> SUFFICES ASSUME InRound(t) PROVE FALSE
        OBVIOUS
    <2>1. PICK j \in 1 .. nwritten : batch[j] = t
        BY <1>1 DEF InRound
    <2>2. j \in DOMAIN batch /\ j # nwritten + 1
        BY <1>1, <1>2
    <2> QED BY <1>0b, <1>3, <2>1, <2>2 DEF IInv, QueueOk
<1>7. \A u \in Tx : InRound(u)' <=> InRound(u) \/ u = t
    <2>1. \A j : j \in 1 .. nwritten' <=> j \in 1 .. nwritten \/ j = nwritten + 1
        BY <1>1, <1>2
    <2> QED BY <1>0b, <1>1, <2>1 DEF InRound
<1>8. \A u \in Tx : u # t => indexList'[u] = indexList[u]
    BY <1>1, <1>2
<1>9. indexList'[t] = Pushed(ring, n)
    BY <1>1, <1>2, <1>3, <1>4
<1>10. \A u : TxLen(u)' = TxLen(u) /\ \A k : TxBlock(u, k)' = TxBlock(u, k)
    BY <1>1 DEF TxLen, TxBlock, BeginBlock, DataBlock, CommitBlock
<1>11. n <= Capacity - ring.size
    BY <1>1, <1>4
<1>12. /\ \A j, k \in 1 .. n : Pushed(ring, n)[j] = Pushed(ring, n)[k] => j = k
       /\ \A k \in 1 .. n : Pushed(ring, n)[k] \notin Used(ring)
       /\ ring'.size = ring.size + n
       /\ \A k \in Nat : Cell(ring', k) = Cell(ring, k)
       /\ \A k \in 1 .. n : Pushed(ring, n)[k] = Cell(ring, ring.size + (k - 1))
       /\ \A k \in 1 .. n : Pushed(ring, n)[k] \in Slot
    <2>1. ring' = PushMany(ring, n)
        BY <1>1, <1>4
    <2>2. Pushed(ring, n) \in Seq(Slot) /\ DOMAIN Pushed(ring, n) = 1 .. n
        BY <1>2, <1>11, PushedSlots
    <2>3. \A k \in 1 .. n : Pushed(ring, n)[k] \in Slot
        BY <2>2
    <2>4. /\ \A j, k \in 1 .. n : Pushed(ring, n)[j] = Pushed(ring, n)[k] => j = k
          /\ \A k \in 1 .. n : Pushed(ring, n)[k] \notin Used(ring)
        BY <1>2, <1>11, PushLemma
    <2> QED BY <1>2, <1>11, <2>1, <2>3, <2>4, PushCells
    \* What the round already had is inside the used part of the ring.
<1>13. \A u \in Tx : InRound(u) => \A k \in 1 .. TxLen(u) : indexList[u][k] \in Used(ring)
    BY RoundPlaced DEF IInv, PlacedInRing
<1> DEFINE S(u, i) == {TxBlock(u, k) : k \in {j \in 1 .. TxLen(u) : indexList[u][j] = i}}
<1>14. \A i : /\ RoundBlock(i) = UNION {S(u, i) : u \in {v \in Tx : InRound(v)}}
              /\ RoundBlock(i)' = UNION {S(u, i)' : u \in {v \in Tx : InRound(v)'}}
    BY DEF RoundBlock
<1>15. \A u \in Tx : u # t => \A i : S(u, i)' = S(u, i)
    BY <1>8, <1>10
<1>16. \A i \in Used(ring) : S(t, i)' = {}
    <2>1. \A i : S(t, i)' = {TxBlock(t, k) : k \in {j \in 1 .. n : Pushed(ring, n)[j] = i}}
        BY <1>4, <1>9, <1>10
    <2> QED BY <1>12, <2>1
<1>17. \A k \in 1 .. n : \A i : i = Pushed(ring, n)[k] => S(t, i)' = {TxBlock(t, k)}
    <2> TAKE k \in 1 .. n
    <2> TAKE i
    <2> HAVE i = Pushed(ring, n)[k]
    <2>1. S(t, i)' = {TxBlock(t, j) : j \in {m \in 1 .. n : Pushed(ring, n)[m] = i}}
        BY <1>4, <1>9, <1>10
    <2> QED BY <1>12, <2>1
<1> HIDE DEF S
<1>18. \A i \in Used(ring) : RoundBlock(i)' = RoundBlock(i)
    <2> TAKE i \in Used(ring)
    <2>1. \A b : b \in RoundBlock(i)' <=> \E u \in Tx : InRound(u)' /\ b \in S(u, i)'
        BY <1>14
    <2>2. \A b : b \in RoundBlock(i) <=> \E u \in Tx : InRound(u) /\ b \in S(u, i)
        BY <1>14
    <2>3. \A b : b \in RoundBlock(i)' <=> b \in RoundBlock(i)
        BY <1>6, <1>7, <1>15, <1>16, <2>1, <2>2
    <2> QED BY <2>3
<1>19. \A k \in 1 .. n : \A i : i = Pushed(ring, n)[k] => RoundBlock(i)' = {TxBlock(t, k)}
    <2> TAKE k \in 1 .. n
    <2> TAKE i
    <2> HAVE i = Pushed(ring, n)[k]
    <2>1. \A b : b \in RoundBlock(i)' <=> \E u \in Tx : InRound(u)' /\ b \in S(u, i)'
        BY <1>14
    <2>2. \A u \in Tx : InRound(u) => S(u, i) = {}
        <3>1. i \notin Used(ring)
            BY <1>12
        <3> QED BY <1>13, <3>1 DEF S
    <2>3. \A b : b \in RoundBlock(i)' <=> b \in {TxBlock(t, k)}
        BY <1>6, <1>7, <1>15, <1>17, <2>1, <2>2
    <2> QED BY <2>3
<1>20. \A k \in Nat : k < ring.size => NextLog'[Cell(ring, k)] \subseteq NextLog[Cell(ring, k)]
    <2> TAKE k \in Nat
    <2> HAVE k < ring.size
    <2>1. PICK i : i = Cell(ring, k) /\ i \in Used(ring) /\ i \in Slot
        BY <1>2, CellUsed
    <2>2. RoundBlock(i)' = RoundBlock(i)
        BY <1>18, <2>1
    <2>3. NextLog'[i] = NextLog[i]
        BY <1>1, <2>1, <2>2 DEF NextLog
    <2> QED BY <2>1, <2>3
<1> DEFINE f == [k \in 1 .. n |-> TxBlock(t, k)]
<1>21. \A k \in 1 .. n : NextLog'[Cell(ring, ring.size + (k - 1))] \subseteq {f[k]}
    <2> TAKE k \in 1 .. n
    <2>1. PICK i : i = Pushed(ring, n)[k] /\ i \in Slot /\ i = Cell(ring, ring.size + (k - 1))
        BY <1>12
    <2>2. RoundBlock(i)' = {TxBlock(t, k)}
        BY <1>19, <2>1
    <2>3. NextLog'[i] = {TxBlock(t, k)}
        BY <1>1, <2>1, <2>2 DEF NextLog
    <2> QED BY <2>1, <2>3
<1>22. /\ f[1].type = "Begin" /\ f[n].type = "Commit"
       /\ \A k \in 1 .. n : k < n => Follows(f[k], f[k + 1])
    <2>1. blocks[t] # <<>> /\ TypeOK
        BY <1>1 DEF HasData, IInv
    <2>2. /\ TxBlock(t, 1).type = "Begin" /\ TxBlock(t, n).type = "Commit"
          /\ \A k \in 1 .. n : k < n => Follows(TxBlock(t, k), TxBlock(t, k + 1))
        BY <1>4, <2>1, BlocksChain
    <2>3. 1 \in 1 .. n /\ n \in 1 .. n /\ \A k \in 1 .. n : k < n => k + 1 \in 1 .. n
        BY <1>4
    <2> QED BY <2>2, <2>3
<1> HIDE DEF f
<1> QED
    <2>1. n > 0 /\ ring'.size = ring.size + n /\ \A k \in Nat : Cell(ring', k) = Cell(ring, k)
        BY <1>4, <1>12
    <2>2. Chained(ring, NextLog) /\ StartsAt(ring, NextLog)
        BY DEF Parsed
    <2>3. Chained(ring', NextLog') /\ StartsAt(ring', NextLog')
        BY <1>2, <1>20, <1>21, <1>22, <2>1, <2>2, ChainGrows
    <2> QED BY <2>3 DEF Parsed

\* CompactLog leaves the ring at the beginning of a transaction.
LEMMA CompactChain ==
    ASSUME IInv, IInv', NEW t \in Tx, CompactTx(t), Parsed(ring, log)
    PROVE  Parsed(ring', log)
<1>1. /\ t \in toErase /\ EraseOk(ring, indexList[t]) /\ ring' = Erase(ring, indexList[t])
    BY DEF CompactTx
<1>2. /\ ring \in Ring /\ ring' \in Ring /\ ring.size \in Nat /\ ring'.size \in Nat
      /\ indexList[t] \in Seq(Slot)
    BY CapacityAssumption DEF IInv, TypeOK, Ring
<1>3. Logged(t)
    BY <1>1 DEF IInv, TxOk, Logged
<1>4. PICK n \in Nat : n = TxLen(t) /\ n >= 2
    BY TxBlockType DEF IInv
<1>5. /\ n = Len(indexList[t])
      /\ \A k \in 1 .. n : log[indexList[t][k]] = {TxBlock(t, k)}
    BY <1>3, <1>4 DEF IInv, CommittedDurable
<1>6. /\ n <= ring.size /\ ring'.size = ring.size - n
      /\ \A k \in Nat : n + k < ring.size => Cell(ring', k) = Cell(ring, n + k)
      /\ \A k \in 1 .. n : indexList[t][k] = Cell(ring, k - 1)
    <2>1. PICK list \in Seq(Slot) : list = indexList[t]
        BY <1>2
    <2>2. EraseOk(ring, list) /\ ring' = Erase(ring, list) /\ n = Len(list)
        BY <1>1, <1>5, <2>1
    <2>3. /\ n <= ring.size /\ Erase(ring, list).size = ring.size - n
          /\ \A k \in Nat : n + k < ring.size => Cell(Erase(ring, list), k) = Cell(ring, n + k)
          /\ \A k \in 1 .. n : list[k] = Cell(ring, k - 1)
        <3>1. ring \in Ring /\ n \in Nat /\ list \in Seq(Slot)
            BY <1>2, <1>4, <2>1
        <3>2. EraseOk(ring, list) /\ n = Len(list)
            BY <2>2
        <3> QED BY <3>1, <3>2, EraseCells, Zenon
    <2> QED BY <2>1, <2>2, <2>3
<1>7. Chained(ring', log)
    BY <1>2, <1>6, ChainDrops DEF Parsed
<1>8. ASSUME ring'.size > 0, NEW b \in log[Cell(ring', 0)] PROVE b.type = "Begin"
    <2>1. /\ n - 1 \in 0 .. ring.size - 1 /\ (n - 1) + 1 < ring.size /\ (n - 1) + 1 = n + 0
          /\ n + 0 < ring.size /\ n \in 1 .. n
        BY <1>2, <1>4, <1>6, <1>8
    <2>2. Cell(ring', 0) = Cell(ring, (n - 1) + 1)
        BY <1>6, <2>1
    <2>3. TxBlock(t, n) \in log[Cell(ring, n - 1)]
        BY <1>5, <1>6, <2>1
    <2>4. Follows(TxBlock(t, n), b)
        BY <1>8, <2>1, <2>2, <2>3 DEF Parsed, Chained
    <2>5. TxBlock(t, n).type = "Commit"
        BY <1>4 DEF TxBlock, CommitBlock
    <2> QED BY <2>4, <2>5 DEF Follows
<1> QED BY <1>7, <1>8 DEF Parsed, StartsAt

\* The ring describes whole transactions at every moment of a round, of
\* CompactLog and of Unload.
LEMMA RingStep ==
    ASSUME IInv, IInv', RingParses, HasData, ReplayParses, [Next]_vars, LogSound'
    PROVE  RingParses'
<1>0. TypeOK /\ Modes
    BY DEF IInv
<1> SUFFICES ASSUME jstate' \in {"Running", "Stopped"} PROVE Parsed(ring', NextLog')
    BY DEF RingParses, Parsed
<1>a. jstate \in {"Running", "Stopped"} => Parsed(ring, NextLog)
    BY DEF RingParses, Parsed
<1>b. ASSUME jstate \in {"Running", "Stopped"},
             UNCHANGED <<ring, log, tpc, fpc, batch, nwritten, berr, indexList>>
      PROVE  Parsed(ring', NextLog')
    <2>1. NextLog' = NextLog
        BY <1>b, NextLogKept
    <2> QED BY <1>a, <1>b, <2>1
<1>c. ASSUME tpc' # "write", fpc' # "blocks" PROVE NextLog' = log'
    <2>1. log' \in [Slot -> SUBSET Block]
        BY DEF IInv, TypeOK
    <2> QED BY <1>c, <2>1 DEF NextLog
<1>d. ASSUME jstate \in {"Running", "Stopped"}, UNCHANGED <<ring, log>>,
             tpc # "write", fpc # "blocks", tpc' # "write", fpc' # "blocks"
      PROVE  Parsed(ring', NextLog')
    <2>1. NextLog = log
        BY <1>0, <1>d, NextLogIsLog
    <2> QED BY <1>a, <1>c, <1>d, <2>1
<1> USE <1>0 DEF mountVars, tableVars, threadVars, txVars, homeVars, histVars
<1>1. ASSUME NEW t \in Tx, BeginTx(t) PROVE Parsed(ring', NextLog')
    BY <1>1, <1>b DEF BeginTx
<1>2. ASSUME NEW t \in Tx, NEW page \in Pages, Write(t, page) PROVE Parsed(ring', NextLog')
    BY <1>2, <1>b DEF Write
<1>3. ASSUME NEW t \in Tx, Abandon(t) PROVE Parsed(ring', NextLog')
    BY <1>3, <1>b DEF Abandon
<1>4. ASSUME NEW t \in Tx, Commit(t) PROVE Parsed(ring', NextLog')
    BY <1>4, <1>b DEF Commit
<1>5. ASSUME NEW t \in Tx, CommitRefused(t) PROVE Parsed(ring', NextLog')
    BY <1>5, <1>b DEF CommitRefused
<1>6. ASSUME NEW t \in Tx, CommitFailed(t) PROVE Parsed(ring', NextLog')
    BY <1>6, <1>b DEF CommitFailed
<1>7. ASSUME NEW t \in Tx, Apply(t) PROVE Parsed(ring', NextLog')
    BY <1>7, <1>b DEF Apply
<1>8. ASSUME NEW t \in Tx, ApplyDone(t) PROVE Parsed(ring', NextLog')
    BY <1>8, <1>b DEF ApplyDone
<1>9. ASSUME NEW t \in Tx, ApplyFailed(t) PROVE Parsed(ring', NextLog')
    BY <1>9, <1>b DEF ApplyFailed
<1>10. ASSUME NEW t \in Tx, EraseTx(t) PROVE Parsed(ring', NextLog')
    BY <1>10, <1>b DEF EraseTx
<1>11. ASSUME CheckStopping PROVE Parsed(ring', NextLog')
    BY <1>11, <1>d DEF CheckStopping, Modes
<1>12. ASSUME NoWork PROVE Parsed(ring', NextLog')
    BY <1>12, <1>d DEF NoWork, Modes
<1>13. ASSUME TakeBatch PROVE Parsed(ring', NextLog')
    <2>1. /\ tpc' = "write" /\ nwritten' = 0 /\ UNCHANGED <<ring, log, fpc, jstate>>
          /\ tpc = "wait"
        BY <1>13 DEF TakeBatch
    <2>2. \A u \in Tx : ~InRound(u)'
        <3>1. 1 .. 0 = {}
            OBVIOUS
        <3> QED BY <2>1, <3>1 DEF InRound
    <2>3. \A i : RoundBlock(i)' = {}
        BY <2>2 DEF RoundBlock
    <2>4. log \in [Slot -> SUBSET Block]
        BY DEF TypeOK
    <2>5. NextLog' = log
        BY <2>1, <2>3, <2>4 DEF NextLog
    <2>6. NextLog = log
        BY <2>1, NextLogIsLog DEF Modes
    <2> QED BY <1>a, <2>1, <2>5, <2>6
<1>14. ASSUME WriteTx PROVE Parsed(ring', NextLog')
    <2>1. jstate' = jstate
        BY <1>14 DEF WriteTx
    <2> QED BY <1>14, <1>a, <2>1, WriteTxChain
<1>15. ASSUME NEW n \in 0 .. Capacity, WriteTxFail(n) PROVE Parsed(ring', NextLog')
    BY <1>15 DEF WriteTxFail, LogSound
<1>16. ASSUME FlushBlocks PROVE Parsed(ring', NextLog')
    <2>1. /\ tpc = "write" /\ nwritten = Len(batch) /\ tpc' = "flush" /\ fpc' = "blocks"
          /\ UNCHANGED <<ring, jstate, batch, nwritten, berr, indexList, blocks>>
          /\ log' = [i \in Slot |-> log[i] \cup
                   (IF i \in BatchSlots THEN BatchBlock(i) \cup {Torn} ELSE {})]
        BY <1>16 DEF FlushBlocks
    <2>2. {u \in Tx : InRound(u)'} = {u \in Tx : InRound(u)}
        <3>1. DOMAIN batch = 1 .. nwritten
            BY <2>1 DEF TypeOK
        <3> QED BY <2>1, <3>1 DEF InRound
    <2>3. \A i : RoundBlock(i)' = RoundBlock(i)
        <3>1. \A u : TxLen(u)' = TxLen(u) /\ \A k : TxBlock(u, k)' = TxBlock(u, k)
            BY <2>1 DEF TxLen, TxBlock, BeginBlock, DataBlock, CommitBlock
        <3> QED BY <2>1, <2>2, <3>1 DEF RoundBlock
    <2>4. \A i \in Slot : RoundBlock(i) = {} => log'[i] = log[i]
        BY <2>1, RoundIsBatch
    <2>5. NextLog' = NextLog
        BY <2>1, <2>3, <2>4 DEF NextLog
    <2> QED BY <1>a, <2>1, <2>5
<1>17. ASSUME CompleteTx PROVE Parsed(ring', NextLog')
    BY <1>17, <1>d DEF CompleteTx, Modes
<1>18. ASSUME RoundDone PROVE Parsed(ring', NextLog')
    BY <1>18, <1>d DEF RoundDone, Modes
<1>19. ASSUME FlushHeader PROVE Parsed(ring', NextLog')
    <2>1. /\ fpc = "blocks" /\ fpc' = "header" /\ UNCHANGED <<ring, jstate, tpc>>
          /\ log' = [i \in Slot |-> IF i \in BatchSlots THEN BatchBlock(i) ELSE log[i]]
        BY <1>19 DEF FlushHeader, WrittenBlock
    <2>2. log' = NextLog
        BY <2>1, RoundIsBatch DEF NextLog
    <2>3. tpc # "write"
        BY <2>1 DEF Modes
    <2> QED BY <1>a, <1>c, <2>1, <2>2, <2>3
<1>20. ASSUME FlushHeaderDone PROVE Parsed(ring', NextLog')
    BY <1>20, <1>d DEF FlushHeaderDone, Modes
<1>21. ASSUME NEW t \in Tx, CompactTx(t) PROVE Parsed(ring', NextLog')
    <2>1. UNCHANGED <<tpc, fpc, log, jstate>> /\ fpc = "compact"
        BY <1>21 DEF CompactTx
    <2>2. tpc # "write"
        BY <2>1 DEF Modes
    <2>3. NextLog = log
        BY <2>1, <2>2, NextLogIsLog
    <2>4. Parsed(ring', log)
        BY <1>21, <1>a, <2>1, <2>3, CompactChain
    <2> QED BY <1>c, <2>1, <2>2, <2>4
<1>22. ASSUME CompactDone PROVE Parsed(ring', NextLog')
    BY <1>22, <1>d DEF CompactDone, FlushReturn, Modes
<1>23. ASSUME FlushFailed PROVE Parsed(ring', NextLog')
    BY <1>23 DEF FlushFailed, LogSound
<1>24. ASSUME Format PROVE Parsed(ring', NextLog')
    BY <1>24 DEF Format
<1>25. ASSUME LoadHeader PROVE Parsed(ring', NextLog')
    BY <1>25 DEF LoadHeader
<1>26. ASSUME ReplayBlock PROVE Parsed(ring', NextLog')
    <2>1. mpc = "replay" /\ PopOk(ring) /\ jstate = "Replaying"
        BY <1>26 DEF ReplayBlock, Modes
    <2>2. \A b \in log[ring.start] : ReplayStep(b) \in {"add", "apply"}
        BY <2>1, ReplayNoCorrupt
    <2>3. jstate' = jstate
        BY <1>26, <2>2 DEF ReplayBlock
    <2> QED BY <2>1, <2>3
<1>27. ASSUME ReplayApplied PROVE Parsed(ring', NextLog')
    BY <1>27 DEF ReplayApplied, Modes
<1>28. ASSUME ReplayDone PROVE Parsed(ring', NextLog')
    <2>1. ring' = ring /\ ring.size = 0
        BY <1>28 DEF ReplayDone, PopOk
    <2> QED BY <2>1 DEF Parsed, Chained, StartsAt
<1>29. ASSUME ReplayFailed PROVE Parsed(ring', NextLog')
    BY <1>29 DEF ReplayFailed, Modes
<1>30. ASSUME Unload PROVE Parsed(ring', NextLog')
    BY <1>30, <1>b DEF Unload
<1>31. ASSUME UnloadFlush PROVE Parsed(ring', NextLog')
    BY <1>31, <1>d DEF UnloadFlush, CancelQueued, Modes
<1>32. ASSUME UnloadNoFlush PROVE Parsed(ring', NextLog')
    BY <1>32, <1>d DEF UnloadNoFlush, CancelQueued, Modes
<1>33. ASSUME Destroy PROVE Parsed(ring', NextLog')
    BY <1>33 DEF Destroy, Forget
<1>34. ASSUME Crash PROVE Parsed(ring', NextLog')
    BY <1>34 DEF Crash, Forget
<1>35. ASSUME UNCHANGED vars PROVE Parsed(ring', NextLog')
    BY <1>35, <1>b DEF vars
<1> QED
    BY <1>1, <1>2, <1>3, <1>4, <1>5, <1>6, <1>7, <1>8, <1>9, <1>10, <1>11,
       <1>12, <1>13, <1>14, <1>15, <1>16, <1>17, <1>18, <1>19, <1>20, <1>21, <1>22,
       <1>23, <1>24, <1>25, <1>26, <1>27, <1>28, <1>29, <1>30, <1>31, <1>32, <1>33,
       <1>34, <1>35 DEF Next, Client, CommitTail, Thread, Flush, Mount

\* Replay of a sound log meets no corrupt block.
LEMMA CorruptStep ==
    ASSUME IInv, ReplayParses, "corrupt" \notin taint, [Next]_vars, LogSound'
    PROVE  "corrupt" \notin taint'
<1>0. TypeOK
    BY DEF IInv
<1> USE DEF mountVars, tableVars, threadVars, txVars, homeVars, histVars
<1>1. ASSUME NEW t \in Tx, BeginTx(t) PROVE "corrupt" \notin taint'
    BY <1>1 DEF BeginTx
<1>2. ASSUME NEW t \in Tx, NEW page \in Pages, Write(t, page) PROVE "corrupt" \notin taint'
    BY <1>2 DEF Write
<1>3. ASSUME NEW t \in Tx, Abandon(t) PROVE "corrupt" \notin taint'
    BY <1>3 DEF Abandon
<1>4. ASSUME NEW t \in Tx, Commit(t) PROVE "corrupt" \notin taint'
    BY <1>4 DEF Commit
<1>5. ASSUME NEW t \in Tx, CommitRefused(t) PROVE "corrupt" \notin taint'
    BY <1>5 DEF CommitRefused
<1>6. ASSUME NEW t \in Tx, CommitFailed(t) PROVE "corrupt" \notin taint'
    BY <1>6 DEF CommitFailed
<1>7. ASSUME NEW t \in Tx, Apply(t) PROVE "corrupt" \notin taint'
    BY <1>7 DEF Apply
<1>8. ASSUME NEW t \in Tx, ApplyDone(t) PROVE "corrupt" \notin taint'
    BY <1>8 DEF ApplyDone
<1>9. ASSUME NEW t \in Tx, ApplyFailed(t) PROVE "corrupt" \notin taint'
    BY <1>9 DEF ApplyFailed
<1>10. ASSUME NEW t \in Tx, EraseTx(t) PROVE "corrupt" \notin taint'
    BY <1>10 DEF EraseTx
<1>11. ASSUME CheckStopping PROVE "corrupt" \notin taint'
    BY <1>11 DEF CheckStopping
<1>12. ASSUME NoWork PROVE "corrupt" \notin taint'
    BY <1>12 DEF NoWork
<1>13. ASSUME TakeBatch PROVE "corrupt" \notin taint'
    BY <1>13 DEF TakeBatch
<1>14. ASSUME WriteTx PROVE "corrupt" \notin taint'
    BY <1>14 DEF WriteTx
<1>15. ASSUME NEW n \in 0 .. Capacity, WriteTxFail(n) PROVE "corrupt" \notin taint'
    BY <1>15 DEF WriteTxFail
<1>16. ASSUME FlushBlocks PROVE "corrupt" \notin taint'
    BY <1>16 DEF FlushBlocks
<1>17. ASSUME CompleteTx PROVE "corrupt" \notin taint'
    BY <1>17 DEF CompleteTx
<1>18. ASSUME RoundDone PROVE "corrupt" \notin taint'
    BY <1>18 DEF RoundDone
<1>19. ASSUME FlushHeader PROVE "corrupt" \notin taint'
    BY <1>19 DEF FlushHeader
<1>20. ASSUME FlushHeaderDone PROVE "corrupt" \notin taint'
    BY <1>20 DEF FlushHeaderDone
<1>21. ASSUME NEW t \in Tx, CompactTx(t) PROVE "corrupt" \notin taint'
    BY <1>21 DEF CompactTx
<1>22. ASSUME CompactDone PROVE "corrupt" \notin taint'
    BY <1>22 DEF CompactDone, FlushReturn
<1>23. ASSUME FlushFailed PROVE "corrupt" \notin taint'
    BY <1>23 DEF FlushFailed, FlushReturn
<1>24. ASSUME Format PROVE "corrupt" \notin taint'
    BY <1>24 DEF Format
<1>25. ASSUME LoadHeader PROVE "corrupt" \notin taint'
    BY <1>25 DEF LoadHeader
<1>26. ASSUME ReplayBlock PROVE "corrupt" \notin taint'
    <2>1. mpc = "replay" /\ PopOk(ring)
        BY <1>26 DEF ReplayBlock
    <2>2. \A b \in log[ring.start] : ReplayStep(b) \in {"add", "apply"}
        BY <1>0, <2>1, ReplayNoCorrupt
    <2> QED BY <1>26, <2>2 DEF ReplayBlock
<1>27. ASSUME ReplayApplied PROVE "corrupt" \notin taint'
    BY <1>27 DEF ReplayApplied
<1>28. ASSUME ReplayDone PROVE "corrupt" \notin taint'
    BY <1>28 DEF ReplayDone, StartRunning
<1>29. ASSUME ReplayFailed PROVE "corrupt" \notin taint'
    BY <1>29 DEF ReplayFailed
<1>30. ASSUME Unload PROVE "corrupt" \notin taint'
    BY <1>30 DEF Unload
<1>31. ASSUME UnloadFlush PROVE "corrupt" \notin taint'
    BY <1>31 DEF UnloadFlush, CancelQueued
<1>32. ASSUME UnloadNoFlush PROVE "corrupt" \notin taint'
    BY <1>32 DEF UnloadNoFlush, CancelQueued
<1>33. ASSUME Destroy PROVE "corrupt" \notin taint'
    BY <1>33 DEF Destroy, Forget
<1>34. ASSUME Crash PROVE "corrupt" \notin taint'
    BY <1>34 DEF Crash, Forget
<1>35. ASSUME UNCHANGED vars PROVE "corrupt" \notin taint'
    BY <1>35 DEF vars
<1> QED
    BY <1>1, <1>2, <1>3, <1>4, <1>5, <1>6, <1>7, <1>8, <1>9, <1>10, <1>11,
       <1>12, <1>13, <1>14, <1>15, <1>16, <1>17, <1>18, <1>19, <1>20, <1>21, <1>22,
       <1>23, <1>24, <1>25, <1>26, <1>27, <1>28, <1>29, <1>30, <1>31, <1>32, <1>33,
       <1>34, <1>35 DEF Next, Client, CommitTail, Thread, Flush, Mount

-----------------------------------------------------------------------------
(* Theorems                                                                *)

\* The strengthened invariant holds of every reachable state.
THEOREM Inductive == Spec => []IInv
<1>1. Init => IInv
    BY InitInv
<1>2. IInv /\ [Next]_vars => IInv'
    BY TypeStep, ModesStep, QueueStep, PlacedStep, DurableStep DEF IInv
<1> QED BY <1>1, <1>2, PTL DEF Spec

\* Every variable of the journal keeps its type; in particular the ring's
\* indices and the slots in every index list stay inside the log.
THEOREM TypeCorrect == Spec => []TypeOK
<1>1. IInv => TypeOK
    BY DEF IInv
<1> QED BY <1>1, Inductive, PTL

\* A transaction that the journal reports as committed is in the log, and is
\* covered by every header a crash may leave, until CompactLog: Run completes
\* transactions only after Flush has written header and blocks durably, and
\* no later round, failed or not, writes to their slots.
THEOREM CommitDurability == Spec => []CommittedDurable
<1>1. IInv => CommittedDurable
    BY DEF IInv
<1> QED BY <1>1, Inductive, PTL

\* The answer of a commit never changes: OnCommitComplete and Cancel decide
\* only transactions that are undecided.
THEOREM DecisionsStable == Spec => DecisionStable
<1>1. IInv /\ [Next]_vars => [\A t \in Tx : txState[t] \in {"Commited", "Canceled"} =>
                                           txState'[t] = txState[t]]_vars
    BY QueueStep DEF Decided
<1> QED BY <1>1, Inductive, PTL DEF Spec, DecisionStable

\* Nothing of an undecided or failed transaction gets to the device.
LEMMA SeenInductive == Spec => []SeenInv
<1>1. Init => SeenInv
    <2>1. ASSUME Init PROVE Unanswered
        BY <2>1 DEF Init, Unanswered
    <2>2. ASSUME Init PROVE OnlyShown
        BY <2>2, JournalAssumption DEF Init, OnlyShown, Shown, Blank
    <2> QED BY <2>1, <2>2 DEF SeenInv
<1>2. IInv /\ SeenInv /\ [Next]_vars => SeenInv'
    BY UnansweredStep, OnlyShownStep DEF SeenInv
<1> QED BY <1>1, <1>2, Inductive, PTL DEF Spec

\* A transaction whose commit failed, or that its client gave up, is never read
\* back, whatever crashes and whatever headers later cover its slots: before its
\* round submits its blocks nothing of it is on the device, and a round that
\* submitted them fails only by a device error.
THEOREM FailedStayInvisible == Spec => []FailedNeverVisible
<1>1. SeenInv => FailedNeverVisible
    <2> SUFFICES ASSUME SeenInv, "ioerror" \notin taint, NEW t \in Tx,
                        pc[t] = "returned", txState[t] # "Commited",
                        NEW x \in Pos, NEW v \in homeLive[x], v.tx = t
                 PROVE  FALSE
        BY DEF FailedNeverVisible
    <2>1. t \in Shown
        BY DEF SeenInv, OnlyShown
    <2>2. MayShow(t)
        BY <2>1, JournalAssumption DEF Shown
    <2> QED BY <2>2 DEF SeenInv, Unanswered, MayShow
<1> QED BY <1>1, SeenInductive, PTL

\* A sound log is a chain of whole transactions, under every header.
LEMMA LogInductive == Spec => []LogInv
<1>1. Init => LogInv
    <2> SUFFICES ASSUME Init PROVE LogInv
        OBVIOUS
    <2>1. RlistIdle /\ "corrupt" \notin taint /\ HasData /\ RingParses /\ NoReuse
        BY DEF Init, RlistIdle, HasData, RingParses, NoReuse
    <2>2. HeadersParse /\ ReplayParses
        BY DEF Init, HeadersParse, ReplayParses
    <2> QED BY <2>1, <2>2 DEF LogInv
<1>2. IInv /\ IInv' /\ LogInv /\ [Next]_vars => LogInv'
    <2> SUFFICES ASSUME IInv, IInv', LogInv, [Next]_vars PROVE LogInv'
        OBVIOUS
    <2>1. RlistIdle'
        BY RlistIdleStep DEF LogInv, IInv
    <2>2. ASSUME LogSound'
          PROVE  /\ HeadersParse' /\ RingParses' /\ HasData' /\ NoReuse'
                 /\ ReplayParses' /\ "corrupt" \notin taint'
        <3>1. LogSound
            BY <2>2, TaintGrows DEF LogSound
        <3>2. /\ HeadersParse /\ RingParses /\ HasData /\ NoReuse /\ RlistIdle
              /\ ReplayParses /\ "corrupt" \notin taint
            BY <3>1 DEF LogInv
        <3>3. HasData' /\ NoReuse'
            BY <2>2, <3>2, HasDataStep, NoReuseStep
        <3>4. HeadersParse' /\ RingParses'
            BY <2>2, <3>2, HeadersStep, RingStep
        <3>5. ReplayParses' /\ "corrupt" \notin taint'
            BY <2>2, <3>2, ReplayStepLemma, CorruptStep
        <3> QED BY <3>3, <3>4, <3>5
    <2> QED BY <2>1, <2>2 DEF LogInv
<1> QED BY <1>1, <1>2, Inductive, PTL DEF Spec

\* As long as the log is sound Replay never meets a block that it calls corrupt,
\* at whatever point of Commit, Run, Flush, Replay or Unload the crash came: the
\* header is written after the blocks that it covers.
THEOREM SoundLogIsRead == Spec => []SoundLogReplays
<1>1. LogInv => SoundLogReplays
    BY DEF LogInv, SoundLogReplays
<1> QED BY <1>1, LogInductive, PTL
=============================================================================
