--------------------------- MODULE RecoveryProofs ----------------------------
(***************************************************************************)
(* What a crash cannot take: acknowledged commits survive, transactions    *)
(* are visible as a whole or not at all, and slots are freed only when the *)
(* home positions are durable, as long as the log is sound.  MediaInv is   *)
(* inductive together with OrderInv and the invariants of JournalProofs.   *)
(***************************************************************************)
EXTENDS OrderProofs

-----------------------------------------------------------------------------
(* Steps that leave the home positions alone                               *)

\* A step that neither writes to the home positions nor brings a transaction
\* closer to its return.
Quiet ==
    /\ UNCHANGED <<homeLive, homeMedia>> /\ toErase' \subseteq toErase
    /\ jstate' \in {"Running", "Stopped"} => jstate \in {"Running", "Stopped"}
    /\ fpc' \in {"header", "compact"} => fpc \in {"header", "compact"}
    /\ mpc' = "apply" => mpc = "apply" /\ rlist' = rlist
    /\ \A u \in Tx : pc'[u] \in {"applying", "applied"} => pc'[u] = pc[u]
    /\ \A u \in Tx : pc'[u] = "returned" /\ txState'[u] = "Commited" =>
                     pc[u] = "returned" /\ txState[u] = "Commited"
    /\ NoHeader \in hdr' =>
          NoHeader \in hdr /\ \A u \in Tx : pc[u] = "none" => pc'[u] = "none"

\* The other steps.
Loud ==
    \/ \E t \in Tx : Apply(t) \/ ApplyDone(t) \/ ApplyFailed(t) \/ EraseTx(t)
    \/ FlushHeader \/ FlushHeaderDone \/ UnloadFlush
    \/ ReplayBlock \/ ReplayApplied \/ ReplayDone \/ ReplayFailed \/ Crash

\* There is no third kind.
LEMMA QuietOrLoud ==
    ASSUME IInv, Unanswered, TableOk, [Next]_vars
    PROVE  Quiet \/ Loud
<1>0. TypeOK /\ Modes /\ QueueOk /\ TxOk
    BY DEF IInv
<1>f. ASSUME UNCHANGED <<homeLive, homeMedia, toErase, jstate, fpc, mpc, rlist, pc, hdr>>,
             \A u \in Tx : pc[u] = "returned" /\ txState'[u] = "Commited" => txState[u] = "Commited"
      PROVE  Quiet
    BY <1>f DEF Quiet
<1> USE <1>0 DEF mountVars, tableVars, threadVars, txVars, homeVars, histVars
<1>1. ASSUME NEW t \in Tx, BeginTx(t) PROVE Quiet \/ Loud
    BY <1>1 DEF BeginTx, Quiet, TypeOK, Modes, TxOk, TableOk
<1>2. ASSUME NEW t \in Tx, NEW page \in Pages, Write(t, page) PROVE Quiet \/ Loud
    BY <1>2, <1>f DEF Write
<1>3. ASSUME NEW t \in Tx, Abandon(t) PROVE Quiet \/ Loud
    BY <1>3 DEF Abandon, Quiet, TypeOK, Modes, TxOk, TableOk
<1>4. ASSUME NEW t \in Tx, Commit(t) PROVE Quiet \/ Loud
    BY <1>4 DEF Commit, Quiet, TypeOK, Modes, TxOk, TableOk
<1>5. ASSUME NEW t \in Tx, CommitRefused(t) PROVE Quiet \/ Loud
    BY <1>5 DEF CommitRefused, Quiet, TypeOK, Modes, TxOk, TableOk
<1>6. ASSUME NEW t \in Tx, CommitFailed(t) PROVE Quiet \/ Loud
    BY <1>6 DEF CommitFailed, Quiet, TypeOK, Modes, TxOk, TableOk
<1>7. ASSUME NEW t \in Tx, Apply(t) PROVE Quiet \/ Loud
    BY <1>7 DEF Loud
<1>8. ASSUME NEW t \in Tx, ApplyDone(t) PROVE Quiet \/ Loud
    BY <1>8 DEF Loud
<1>9. ASSUME NEW t \in Tx, ApplyFailed(t) PROVE Quiet \/ Loud
    BY <1>9 DEF Loud
<1>10. ASSUME NEW t \in Tx, EraseTx(t) PROVE Quiet \/ Loud
    BY <1>10 DEF Loud
<1>11. ASSUME CheckStopping PROVE Quiet \/ Loud
    BY <1>11, <1>f DEF CheckStopping
<1>12. ASSUME NoWork PROVE Quiet \/ Loud
    BY <1>12, <1>f DEF NoWork
<1>13. ASSUME TakeBatch PROVE Quiet \/ Loud
    BY <1>13, <1>f DEF TakeBatch
<1>14. ASSUME WriteTx PROVE Quiet \/ Loud
    BY <1>14, <1>f DEF WriteTx
<1>15. ASSUME NEW n \in 0 .. Capacity, WriteTxFail(n) PROVE Quiet \/ Loud
    <2> DEFINE u == batch[nwritten + 1]
    <2>1. nwritten + 1 \in DOMAIN batch /\ tpc = "write"
        <3>1. tpc = "write" /\ nwritten < Len(batch) /\ nwritten \in Nat /\ Len(batch) \in Nat
              /\ DOMAIN batch = 1 .. Len(batch)
            BY <1>15 DEF WriteTxFail, TypeOK
        <3> QED BY <3>1
    <2>2. u \in Tx
        BY <2>1 DEF TypeOK
    <2>3. /\ txState' = [txState EXCEPT ![u] = "Canceled"]
          /\ UNCHANGED <<homeLive, homeMedia, toErase, jstate, fpc, mpc, rlist, pc, hdr>>
        BY <1>15 DEF WriteTxFail
    <2> HIDE DEF u
    <2>4. \A s \in Tx : txState'[s] = "Commited" => txState[s] = "Commited"
        BY <2>2, <2>3 DEF TypeOK
    <2> QED BY <1>f, <2>3, <2>4
<1>16. ASSUME FlushBlocks PROVE Quiet \/ Loud
    BY <1>16 DEF FlushBlocks, Quiet, Modes
<1>17. ASSUME CompleteTx PROVE Quiet \/ Loud
    <2> DEFINE u == Head(batch)
    <2>1. u \in Tx /\ batch # <<>> /\ 1 \in DOMAIN batch /\ u = batch[1]
        BY <1>17 DEF CompleteTx, TypeOK
    <2>2. /\ txState' = [txState EXCEPT ![u] = Outcome]
          /\ UNCHANGED <<homeLive, homeMedia, toErase, jstate, fpc, mpc, rlist, pc, hdr>>
        BY <1>17 DEF CompleteTx
    <2>3. pc[u] # "returned" \/ Outcome # "Commited"
        BY <2>1 DEF QueueOk, Outcome, Unanswered
    <2> HIDE DEF u
    <2>4. \A s \in Tx : pc[s] = "returned" /\ txState'[s] = "Commited" => txState[s] = "Commited"
        BY <2>1, <2>2, <2>3 DEF TypeOK
    <2> QED BY <1>f, <2>2, <2>4
<1>18. ASSUME RoundDone PROVE Quiet \/ Loud
    BY <1>18, <1>f DEF RoundDone
<1>19. ASSUME FlushHeader PROVE Quiet \/ Loud
    BY <1>19 DEF Loud
<1>20. ASSUME FlushHeaderDone PROVE Quiet \/ Loud
    BY <1>20 DEF Loud
<1>21. ASSUME NEW t \in Tx, CompactTx(t) PROVE Quiet \/ Loud
    BY <1>21 DEF CompactTx, Quiet, Modes
<1>22. ASSUME CompactDone PROVE Quiet \/ Loud
    BY <1>22 DEF CompactDone, FlushReturn, Quiet, Modes
<1>23. ASSUME FlushFailed PROVE Quiet \/ Loud
    BY <1>23 DEF FlushFailed, FlushReturn, Quiet, Modes
<1>24. ASSUME Format PROVE Quiet \/ Loud
    BY <1>24 DEF Format, Quiet, Modes
<1>25. ASSUME LoadHeader PROVE Quiet \/ Loud
    BY <1>25 DEF LoadHeader, Quiet, Modes
<1>26. ASSUME ReplayBlock PROVE Quiet \/ Loud
    BY <1>26 DEF Loud
<1>27. ASSUME ReplayApplied PROVE Quiet \/ Loud
    BY <1>27 DEF Loud
<1>28. ASSUME ReplayDone PROVE Quiet \/ Loud
    BY <1>28 DEF Loud
<1>29. ASSUME ReplayFailed PROVE Quiet \/ Loud
    BY <1>29 DEF Loud
<1>30. ASSUME Unload PROVE Quiet \/ Loud
    BY <1>30 DEF Unload, Quiet, Modes
<1>31. ASSUME UnloadFlush PROVE Quiet \/ Loud
    BY <1>31 DEF Loud
<1>32. ASSUME UnloadNoFlush PROVE Quiet \/ Loud
    BY <1>32 DEF UnloadNoFlush, CancelQueued, Quiet, Modes
<1>33. ASSUME Destroy PROVE Quiet \/ Loud
    <2>1. /\ jstate' = "New" /\ mpc' = "idle" /\ fpc' = "none" /\ toErase' = {}
          /\ UNCHANGED <<homeLive, homeMedia, txState, hdr>>
          /\ \A u \in Tx : pc'[u] = pc[u] \/ (pc'[u] = "lost" /\ pc[u] # "none")
        BY <1>33 DEF Destroy, Forget, Active
    <2>2. \A u \in Tx : pc[u] # "lost" \/ pc'[u] = "lost"
        BY <2>1
    <2> QED BY <2>1 DEF Quiet
<1>34. ASSUME Crash PROVE Quiet \/ Loud
    BY <1>34 DEF Loud
<1>35. ASSUME UNCHANGED vars PROVE Quiet \/ Loud
    BY <1>35, <1>f DEF vars
<1> QED
    BY <1>1, <1>2, <1>3, <1>4, <1>5, <1>6, <1>7, <1>8, <1>9, <1>10, <1>11,
       <1>12, <1>13, <1>14, <1>15, <1>16, <1>17, <1>18, <1>19, <1>20, <1>21, <1>22,
       <1>23, <1>24, <1>25, <1>26, <1>27, <1>28, <1>29, <1>30, <1>31, <1>32, <1>33,
       <1>34, <1>35 DEF Next, Client, CommitTail, Thread, Flush, Mount

-----------------------------------------------------------------------------
(* What may be on the media                                                *)

\* What a transaction writes to a home position.
LEMMA DataAt ==
    ASSUME TypeOK, NEW t \in Tx, NEW x
    PROVE  /\ \A v \in ValuesAt(TxData(t), x) : v.type = "Data" /\ v.tx = t /\ v # Blank /\ v # Torn
           /\ ValuesAt(TxData(t), x) # {} <=> x \in Range(blocks[t])
<1>1. PICK n \in Nat : n = Len(blocks[t]) /\ DOMAIN blocks[t] = 1 .. n
    BY DEF TypeOK
<1>2. \A i : /\ DataBlock(t, i).type = "Data" /\ DataBlock(t, i).tx = t
             /\ DataBlock(t, i).pos = blocks[t][i]
    BY DEF DataBlock
<1>3. \A v : v \in ValuesAt(TxData(t), x) <=> \E i \in 1 .. n : v = DataBlock(t, i) /\ blocks[t][i] = x
    BY <1>1, <1>2 DEF ValuesAt, TxData
<1>4. Blank.type # "Data" /\ Torn.type # "Data"
    BY DEF Blank, Torn
<1>5. \A v \in ValuesAt(TxData(t), x) : v.type = "Data" /\ v.tx = t
    BY <1>2, <1>3
<1>6. ValuesAt(TxData(t), x) # {} <=> x \in Range(blocks[t])
    BY <1>1, <1>3 DEF Range
<1> QED BY <1>4, <1>5, <1>6

\* The blocks that Replay applies are the data of their transaction.
LEMMA ReplayedData ==
    ASSUME TypeOK, NEW t \in Tx, NEW bs \in Seq(Block), Len(bs) = TxLen(t),
           \A k \in 1 .. TxLen(t) : bs[k] = TxBlock(t, k), NEW x
    PROVE  ValuesAt(Range(bs), x) = ValuesAt(TxData(t), x)
<1>1. PICK n \in Nat : n = Len(blocks[t])
    BY DEF TypeOK
<1>2. TxLen(t) = n + 2 /\ DOMAIN bs = 1 .. n + 2
    BY <1>1 DEF TxLen
<1>3. ASSUME NEW b \in Range(bs), b.type = "Data" PROVE b \in TxData(t)
    <2>1. PICK k \in 1 .. n + 2 : b = TxBlock(t, k)
        BY <1>2 DEF Range
    <2>2. k # 1 /\ k # n + 2 /\ b = DataBlock(t, k - 1)
        BY <1>2, <1>3, <2>1, BlockIs
    <2>3. k - 1 \in 1 .. n
        BY <1>1, <2>1, <2>2
    <2> QED BY <1>1, <2>2, <2>3 DEF TxData
<1>4. ASSUME NEW b \in TxData(t) PROVE b \in Range(bs)
    <2>1. PICK i \in 1 .. n : b = DataBlock(t, i)
        BY <1>1 DEF TxData
    <2>2. PICK k \in 1 .. n + 2 : k = i + 1 /\ k - 1 = i /\ k # 1 /\ k # n + 2
        BY <1>1, <2>1
    <2>3. TxBlock(t, k) = DataBlock(t, i)
        BY <1>2, <2>2 DEF TxBlock
    <2>4. bs[k] = b
        BY <1>2, <2>1, <2>2, <2>3
    <2> QED BY <1>2, <2>2, <2>4 DEF Range
<1> QED BY <1>3, <1>4 DEF ValuesAt

\* Only a client that is applying has writes in flight.
LEMMA InFlightKept ==
    ASSUME IInv, [Next]_vars, NEW x, NEW v \in InFlight(x)'
    PROVE  \E u \in Tx : /\ pc'[u] = "applying"
                         /\ pc[u] = "applying" => v \in InFlight(x)
                         /\ \/ v \in ValuesAt(TxData(u), x)'
                            \/ v = Torn /\ ValuesAt(TxData(u), x)' # {}
<1>1. PICK u \in Tx : /\ pc'[u] = "applying"
                      /\ \/ v \in ValuesAt(TxData(u), x)'
                         \/ v = Torn /\ ValuesAt(TxData(u), x)' # {}
    BY DEF InFlight
<1>2. ASSUME pc[u] = "applying" PROVE v \in InFlight(x)
    <2>1. txState[u] \notin {"None", "New"}
        BY <1>2 DEF IInv, TxOk
    <2>2. blocks'[u] = blocks[u]
        BY <2>1, OldKept
    <2>3. TxData(u)' = TxData(u)
        BY <2>2 DEF TxData, DataBlock
    <2>4. ValuesAt(TxData(u), x)' = ValuesAt(TxData(u), x)
        BY <2>3 DEF ValuesAt
    <2> QED BY <1>1, <1>2, <2>4 DEF InFlight
<1> QED BY <1>1, <1>2

\* A step that starts no apply adds nothing to what is in flight.
LEMMA InFlightShrinks ==
    ASSUME IInv, [Next]_vars, \A u \in Tx : pc'[u] = "applying" => pc[u] = "applying", NEW x
    PROVE  InFlight(x)' \subseteq InFlight(x)
    BY InFlightKept

\* What reads return, and what is on its way, may be on the media.
LEMMA LiveInMediaStep ==
    ASSUME IInv, IInv', Unanswered, TableOk, NoClients, LiveInMedia, [Next]_vars
    PROVE  LiveInMedia'
<1>0. /\ TypeOK /\ Modes
      /\ \A x \in Pos : /\ homeLive[x] \subseteq homeMedia[x]
                        /\ InFlight(x) \subseteq homeMedia[x]
                        /\ mpc = "apply" /\ ValuesAt(Range(rlist), x) # {} =>
                              ValuesAt(Range(rlist), x) \cup {Torn} \subseteq homeMedia[x]
    BY DEF IInv, LiveInMedia
<1>a. ASSUME \A u \in Tx : pc'[u] = "applying" => pc[u] = "applying",
             \A x \in Pos : InFlight(x) \cup homeLive'[x] \subseteq homeMedia'[x], mpc' # "apply"
      PROVE  LiveInMedia'
    BY <1>a, InFlightShrinks DEF LiveInMedia
<1>b. ASSUME \A u \in Tx : pc'[u] = "applying" => pc[u] = "applying",
             \A x \in Pos : homeMedia[x] \cup homeLive'[x] \subseteq homeMedia'[x],
             mpc' = "apply" => mpc = "apply" /\ rlist' = rlist
      PROVE  LiveInMedia'
    BY <1>0, <1>b, InFlightShrinks DEF LiveInMedia
<1>1. CASE Quiet
    BY <1>0, <1>1, <1>b DEF Quiet
<1>2. ASSUME NEW t \in Tx, Apply(t) PROVE LiveInMedia'
    <2>1. /\ SubmitHome(TxData(t)) /\ homeLive' = homeLive /\ UNCHANGED <<mpc, rlist, blocks>>
          /\ pc' = [pc EXCEPT ![t] = "applying"]
        BY <1>2 DEF Apply, mountVars
    <2>2. \A x \in Pos : /\ homeMedia[x] \subseteq homeMedia'[x]
                         /\ ValuesAt(TxData(t), x) # {} =>
                               ValuesAt(TxData(t), x) \cup {Torn} \subseteq homeMedia'[x]
        BY <2>1 DEF SubmitHome
    <2>3. ASSUME NEW x \in Pos, NEW v \in InFlight(x)' PROVE v \in homeMedia'[x]
        <3>1. PICK u \in Tx : /\ pc'[u] = "applying"
                              /\ pc[u] = "applying" => v \in InFlight(x)
                              /\ \/ v \in ValuesAt(TxData(u), x)'
                                 \/ v = Torn /\ ValuesAt(TxData(u), x)' # {}
            BY InFlightKept
        <3>2. CASE u = t
            <4>1. ValuesAt(TxData(t), x)' = ValuesAt(TxData(t), x)
                BY <2>1 DEF ValuesAt, TxData, DataBlock
            <4> QED BY <2>2, <3>1, <3>2, <4>1
        <3>3. CASE u # t
            <4>1. pc[u] = "applying"
                BY <2>1, <3>1, <3>3 DEF TypeOK
            <4> QED BY <1>0, <2>2, <3>1, <4>1
        <3> QED BY <3>2, <3>3
    <2> QED BY <1>0, <2>1, <2>2, <2>3 DEF LiveInMedia
<1>c. ASSUME NEW t \in Tx, pc[t] = "applying", NEW x \in Pos, ValuesAt(TxData(t), x) # {}
      PROVE  ValuesAt(TxData(t), x) \cup {Torn} \subseteq homeMedia[x]
    BY <1>0, <1>c DEF InFlight
<1>3. ASSUME NEW t \in Tx, ApplyDone(t) PROVE LiveInMedia'
    <2>1. /\ homeMedia' = homeMedia /\ homeLive' = CompleteHome(TxData(t)) /\ UNCHANGED <<mpc, rlist>>
          /\ pc' = [pc EXCEPT ![t] = "applied"] /\ pc[t] = "applying"
        BY <1>3 DEF ApplyDone, mountVars
    <2>2. \A x \in Pos : homeLive'[x] \subseteq homeMedia[x]
        BY <1>0, <1>c, <2>1 DEF CompleteHome
    <2>3. \A u \in Tx : pc'[u] = "applying" => pc[u] = "applying"
        BY <2>1 DEF TypeOK
    <2> QED BY <1>b, <2>1, <2>2, <2>3
<1>4. ASSUME NEW t \in Tx, ApplyFailed(t) PROVE LiveInMedia'
    <2>1. /\ homeMedia' = homeMedia /\ homeLive' = FailHome(TxData(t)) /\ UNCHANGED <<mpc, rlist>>
          /\ pc' = [pc EXCEPT ![t] = "returned"] /\ pc[t] = "applying"
        BY <1>4 DEF ApplyFailed, mountVars
    <2>2. \A x \in Pos : homeLive'[x] \subseteq homeMedia[x]
        BY <1>0, <1>c, <2>1 DEF FailHome
    <2>3. \A u \in Tx : pc'[u] = "applying" => pc[u] = "applying"
        BY <2>1 DEF TypeOK
    <2> QED BY <1>b, <2>1, <2>2, <2>3
<1>5. ASSUME NEW t \in Tx, EraseTx(t) PROVE LiveInMedia'
    <2>1. /\ UNCHANGED <<homeLive, homeMedia, mpc, rlist>> /\ pc' = [pc EXCEPT ![t] = "returned"]
        BY <1>5 DEF EraseTx, mountVars, homeVars
    <2>2. \A u \in Tx : pc'[u] = "applying" => pc[u] = "applying"
        BY <2>1 DEF TypeOK
    <2> QED BY <1>0, <1>b, <2>1, <2>2
<1>6. CASE FlushHeader \/ UnloadFlush
    <2>1. /\ FlushCache /\ UNCHANGED <<pc, homeLive>> /\ mpc' # "apply"
        BY <1>0, <1>6 DEF FlushHeader, UnloadFlush, mountVars, txVars, Modes
    <2>2. \A x \in Pos : homeMedia'[x] = homeLive[x] \cup InFlight(x)
        BY <2>1 DEF FlushCache
    <2> QED BY <1>a, <2>1, <2>2
<1>7. CASE FlushHeaderDone
    <2>1. UNCHANGED <<homeLive, homeMedia, pc, mpc, rlist>>
        BY <1>7 DEF FlushHeaderDone, mountVars, txVars, homeVars
    <2> QED BY <1>0, <1>b, <2>1
<1>8. CASE ReplayBlock
    <2>1. UNCHANGED <<pc, homeLive>>
        BY <1>8 DEF ReplayBlock, txVars
    <2>2. PICK b \in log[ring.start] :
              /\ ReplayStep(b) = "add" => UNCHANGED <<homeMedia, mpc>> /\ mpc = "replay"
              /\ ReplayStep(b) = "apply" => rlist' = Append(rlist, b) /\ SubmitHome(Range(rlist))
              /\ ReplayStep(b) \notin {"add", "apply"} => StartRunning /\ homeMedia' = homeMedia
        BY <1>8 DEF ReplayBlock
    <2>3. CASE ReplayStep(b) = "add"
        BY <1>0, <1>b, <2>1, <2>2, <2>3
    <2>4. CASE ReplayStep(b) \notin {"add", "apply"}
        BY <1>0, <1>b, <2>1, <2>2, <2>4 DEF StartRunning
    <2>5. CASE ReplayStep(b) = "apply"
        <3>1. b.type = "Commit"
            BY <2>5 DEF ReplayStep
        <3>2. b \in Block /\ rlist \in Seq(Block)
            BY <1>0 DEF TypeOK, Ring
        <3>3. PICK l \in Nat : l = Len(rlist) /\ DOMAIN rlist = 1 .. l
            BY <3>2
        <3>4. DOMAIN rlist' = 1 .. l + 1 /\ rlist'[l + 1] = b /\ \A k \in 1 .. l : rlist'[k] = rlist[k]
            BY <2>2, <2>5, <3>2, <3>3
        <3>5. \A v : v \in Range(rlist') /\ v.type = "Data" <=> v \in Range(rlist) /\ v.type = "Data"
            BY <3>1, <3>3, <3>4 DEF Range
        <3>6. \A x : ValuesAt(Range(rlist'), x) = ValuesAt(Range(rlist), x)
            BY <3>5 DEF ValuesAt
        <3>7. \A x \in Pos : /\ homeMedia[x] \subseteq homeMedia'[x]
                             /\ ValuesAt(Range(rlist), x) # {} =>
                                   ValuesAt(Range(rlist), x) \cup {Torn} \subseteq homeMedia'[x]
            BY <2>2, <2>5 DEF SubmitHome
        <3>8. \A x \in Pos : ValuesAt(Range(rlist), x)' = ValuesAt(Range(rlist'), x)
            BY DEF ValuesAt, Range
        <3>9. \A x \in Pos : InFlight(x)' \subseteq homeMedia'[x]
            BY <1>0, <2>1, <3>7, InFlightShrinks
        <3> QED BY <1>0, <2>1, <3>6, <3>7, <3>8, <3>9 DEF LiveInMedia
    <2> QED BY <2>3, <2>4, <2>5
<1>9. CASE ReplayApplied
    <2>1. /\ homeLive' = homeMedia' /\ pc' = pc /\ mpc' = "replay" /\ mpc = "apply"
        BY <1>9 DEF ReplayApplied, txVars
    <2>2. \A u \in Tx : pc[u] # "applying"
        BY <1>0, <2>1 DEF NoClients, Active, Modes
    <2>3. \A x : InFlight(x) = {}
        BY <2>2 DEF InFlight
    <2> QED BY <1>a, <2>1, <2>3
<1>10. CASE ReplayDone
    <2>1. UNCHANGED <<homeLive, homeMedia, pc>> /\ mpc' # "apply"
        BY <1>10 DEF ReplayDone, StartRunning, homeVars, txVars
    <2> QED BY <1>0, <1>b, <2>1
<1>11. CASE ReplayFailed
    <2>1. /\ UNCHANGED <<homeMedia, pc>> /\ mpc' # "apply"
          /\ homeLive' = FailHome(IF mpc = "apply" THEN Range(rlist) ELSE {})
        BY <1>11 DEF ReplayFailed, txVars
    <2>2. \A x \in Pos : homeLive'[x] \subseteq homeMedia[x]
        BY <1>0, <2>1 DEF FailHome, ValuesAt
    <2> QED BY <1>0, <1>b, <2>1, <2>2
<1>12. CASE Crash
    <2>1. homeLive' = homeMedia /\ homeMedia' = homeMedia /\ mpc' = "idle"
          /\ pc' = [t \in Tx |-> IF t \in Active THEN "lost" ELSE pc[t]]
        BY <1>12 DEF Crash, Forget
    <2>2. \A u \in Tx : pc'[u] = "applying" => pc[u] = "applying"
        BY <2>1
    <2> QED BY <1>0, <1>b, <2>1, <2>2
<1> QED BY <1>1, <1>2, <1>3, <1>4, <1>5, <1>6, <1>7, <1>8, <1>9, <1>10, <1>11, <1>12, QuietOrLoud DEF Loud

\* The media may hold less than before: something has become durable.
Shrinks == \A x \in Pos : homeMedia'[x] \subseteq homeMedia[x]

\* The media get new values from an apply, of a client or of Replay.
LEMMA MediaCases ==
    ASSUME IInv, Unanswered, TableOk, LiveInMedia, [Next]_vars
    PROVE  Shrinks \/ (\E t \in Tx : Apply(t)) \/ (ReplayBlock /\ mpc' = "apply")
<1>1. CASE UNCHANGED homeMedia
    BY <1>1 DEF Shrinks
<1>2. CASE FlushHeader \/ UnloadFlush
    <2>1. FlushCache
        BY <1>2 DEF FlushHeader, UnloadFlush
    <2> QED BY <2>1 DEF FlushCache, Shrinks, LiveInMedia
<1>3. CASE ReplayApplied
    <2>1. homeMedia' = CompleteHome(Range(rlist)) /\ mpc = "apply"
        BY <1>3 DEF ReplayApplied
    <2> QED BY <2>1 DEF CompleteHome, Shrinks, LiveInMedia
<1>4. CASE ReplayBlock
    <2>1. PICK b \in log[ring.start] :
              /\ ReplayStep(b) = "add" => UNCHANGED <<homeMedia, mpc>> /\ mpc = "replay"
              /\ ReplayStep(b) = "apply" => mpc' = "apply"
              /\ ReplayStep(b) \notin {"add", "apply"} => StartRunning /\ homeMedia' = homeMedia
        BY <1>4 DEF ReplayBlock
    <2> QED BY <1>1, <1>4, <2>1
<1>5. CASE Quiet
    BY <1>1, <1>5 DEF Quiet
<1>6. ASSUME NEW t \in Tx, ApplyDone(t) \/ ApplyFailed(t) \/ EraseTx(t) PROVE UNCHANGED homeMedia
    BY <1>6 DEF ApplyDone, ApplyFailed, EraseTx, homeVars
<1>7. CASE FlushHeaderDone \/ ReplayDone \/ ReplayFailed \/ Crash
    <2>1. UNCHANGED homeMedia
        BY <1>7 DEF FlushHeaderDone, ReplayDone, ReplayFailed, Crash, homeVars
    <2> QED BY <1>1, <2>1
<1> QED BY <1>1, <1>2, <1>3, <1>4, <1>5, <1>6, <1>7, QuietOrLoud DEF Loud

-----------------------------------------------------------------------------
(* Whose data it is                                                        *)

\* What SubmitHome adds to a position.
LEMMA SubmitAdds ==
    ASSUME TypeOK, NEW w \in Tx, SubmitHome(TxData(w)), NEW x \in Pos, NEW v \in homeMedia'[x]
    PROVE  \/ v \in homeMedia[x]
           \/ x \in Range(blocks[w]) /\ (v = Torn \/ (v.type = "Data" /\ v.tx = w))
    BY DataAt DEF SubmitHome

\* Replay has t's blocks in its hands.
ReadWhole(t) == Len(rlist) = TxLen(t) /\ \A k \in 1 .. TxLen(t) : rlist[k] = TxBlock(t, k)

\* Whoever writes to the media, it is the data of one transaction.
LEMMA SubmitCases ==
    ASSUME IInv, IInv', Unanswered, TableOk, LiveInMedia, ApplyTx', [Next]_vars
    PROVE  Shrinks \/ \E w \in Tx : /\ txState[w] \notin {"None", "New"} /\ SubmitHome(TxData(w))
                                    /\ Apply(w) \/ (ReplayBlock /\ mpc' = "apply" /\ ReadWhole(w)')
<1>1. ASSUME NEW t \in Tx, Apply(t)
      PROVE  txState[t] \notin {"None", "New"} /\ SubmitHome(TxData(t))
    BY <1>1 DEF Apply
<1>2. ASSUME ReplayBlock, mpc' = "apply"
      PROVE  \E w \in Tx : /\ txState[w] \notin {"None", "New"} /\ SubmitHome(TxData(w)) /\ ReadWhole(w)'
    <2>1. UNCHANGED <<txState, blocks>>
        BY <1>2, ReplayReads
    <2>2. PICK w \in Tx : txState'[w] \notin {"None", "New"} /\ ReadWhole(w)'
        BY <1>2 DEF ApplyTx, ReadWhole
    <2>3. PICK b \in log[ring.start] : /\ rlist' = Append(rlist, b) /\ ReplayStep(b) = "apply"
                                       /\ SubmitHome(Range(rlist))
        BY <1>2, ReplayReads
    <2>4. b.type = "Commit"
        BY <2>3 DEF ReplayStep
    <2>5. b \in Block /\ rlist \in Seq(Block) /\ TypeOK
        BY DEF IInv, TypeOK, Ring
    <2>6. PICK l \in Nat : l = Len(rlist) /\ DOMAIN rlist = 1 .. l
        BY <2>5
    <2>7. DOMAIN rlist' = 1 .. l + 1 /\ rlist'[l + 1] = b /\ \A k \in 1 .. l : rlist'[k] = rlist[k]
        BY <2>3, <2>5, <2>6
    <2>8. PICK bs \in Seq(Block) : bs = rlist'
        BY <2>3, <2>5
    <2>9. \A v : v \in Range(bs) /\ v.type = "Data" <=> v \in Range(rlist) /\ v.type = "Data"
        BY <2>4, <2>6, <2>7, <2>8 DEF Range
    <2>10. \A x : ValuesAt(Range(bs), x) = ValuesAt(Range(rlist), x)
        BY <2>9 DEF ValuesAt
    <2>11. Len(bs) = TxLen(w) /\ \A k \in 1 .. TxLen(w) : bs[k] = TxBlock(w, k)
        BY <2>1, <2>2, <2>8, TxSame DEF ReadWhole
    <2>12. \A x : ValuesAt(Range(rlist), x) = ValuesAt(TxData(w), x)
        BY <2>5, <2>10, <2>11, ReplayedData
    <2>13. SubmitHome(TxData(w))
        <3> DEFINE Old(x) == IF ValuesAt(Range(rlist), x) = {} THEN homeMedia[x]
                             ELSE homeMedia[x] \cup ValuesAt(Range(rlist), x) \cup {Torn}
                   New(x) == IF ValuesAt(TxData(w), x) = {} THEN homeMedia[x]
                             ELSE homeMedia[x] \cup ValuesAt(TxData(w), x) \cup {Torn}
        <3>1. ASSUME NEW x \in Pos PROVE Old(x) = New(x)
            <4>1. ValuesAt(Range(rlist), x) = ValuesAt(TxData(w), x)
                BY <2>12
            <4> QED BY <4>1
        <3>2. homeMedia' = [x \in Pos |-> Old(x)]
            BY <2>3 DEF SubmitHome
        <3> HIDE DEF Old, New
        <3>3. homeMedia' = [x \in Pos |-> New(x)]
            BY <3>1, <3>2
        <3> QED BY <3>3 DEF SubmitHome, New
    <2> QED BY <2>1, <2>2, <2>13
<1> QED BY <1>1, <1>2, MediaCases

\* What is on the media stays the data of transactions that committed, or that
\* a crash hit.
LEMMA HomeDataStep ==
    ASSUME IInv, IInv', Unanswered, OnlyShown, TableOk, LiveInMedia, ApplyTx', HomeData,
           LogSound, [Next]_vars
    PROVE  HomeData'
<1> SUFFICES ASSUME NEW x \in Pos, NEW v \in homeMedia'[x], v \notin {Blank, Torn}
             PROVE  /\ v.type = "Data" /\ v.tx \in Tx
                    /\ txState'[v.tx] \notin {"None", "New"}
                    /\ txState'[v.tx] = "Commited" \/ pc'[v.tx] = "lost"
    BY DEF HomeData
<1>0. TypeOK
    BY DEF IInv
<1>1. ASSUME v.type = "Data", v.tx \in Tx, txState[v.tx] \notin {"None", "New"},
             txState[v.tx] = "Commited" \/ pc[v.tx] = "lost"
      PROVE  /\ txState'[v.tx] \notin {"None", "New"}
             /\ txState'[v.tx] = "Commited" \/ pc'[v.tx] = "lost"
    BY <1>0, <1>1, OldKept, LostStays, QueueStep DEF Decided
<1>2. CASE v \in homeMedia[x]
    BY <1>1, <1>2 DEF HomeData
<1>3. CASE v \notin homeMedia[x]
    <2>1. PICK w \in Tx : /\ txState[w] \notin {"None", "New"} /\ SubmitHome(TxData(w))
                          /\ Apply(w) \/ (ReplayBlock /\ mpc' = "apply" /\ ReadWhole(w)')
        BY <1>3, SubmitCases DEF Shrinks
    <2>2. v.type = "Data" /\ v.tx = w
        BY <1>0, <1>3, <2>1, SubmitAdds
    <2>3. CASE Apply(w)
        BY <1>1, <2>1, <2>2, <2>3 DEF Apply
    <2>4. CASE ReplayBlock /\ mpc' = "apply" /\ ReadWhole(w)'
        <3>1. PICK b \in log[ring.start] : rlist' = Append(rlist, b)
            BY <2>4, ReplayReads
        <3>2. mpc = "replay" /\ rlist \in Seq(Block) /\ b \in Block
            BY <1>0, <2>4, ReplayReads DEF TypeOK, Ring
        <3>3. jstate = "Replaying" /\ tpc = "none"
            BY <3>2 DEF IInv, Modes
        <3>4. b.tx = w
            <4>1. PICK l \in Nat : l = Len(rlist) /\ Len(rlist') = l + 1 /\ rlist'[l + 1] = b
                BY <3>1, <3>2
            <4>2. UNCHANGED blocks /\ TxLen(w) \in Nat
                BY <1>0, <2>4, ReplayReads, TxBlockType
            <4>3. TxLen(w)' = TxLen(w) /\ \A k : TxBlock(w, k)' = TxBlock(w, k)
                BY <4>2, TxSame
            <4>4. l + 1 = TxLen(w) /\ \A k \in 1 .. TxLen(w) : rlist'[k] = TxBlock(w, k)
                BY <2>4, <4>1, <4>3 DEF ReadWhole
            <4>5. PICK n \in 1 .. TxLen(w) : n = l + 1
                BY <4>1, <4>2, <4>4
            <4>6. b = TxBlock(w, n)
                BY <4>1, <4>4, <4>5
            <4> QED BY <1>0, <4>5, <4>6, BlockIs
        <3>5. "ioerror" \notin taint
            BY DEF LogSound
        <3>6. b.tx \in Shown
            BY <1>0, <3>1, <3>5 DEF OnlyShown, TypeOK, Ring
        <3>7. MayShow(w)
            BY <3>4, <3>6, JournalAssumption DEF Shown
        <3>8. txState[w] = "Commited" \/ pc[w] = "lost"
            BY <3>3, <3>7 DEF MayShow
        <3> QED BY <1>1, <2>1, <2>2, <3>8
    <2> QED BY <2>1, <2>3, <2>4
<1> QED BY <1>2, <1>3

\* Nothing is written to a volume before Format.
LEMMA UnformattedStep ==
    ASSUME IInv, Unanswered, TableOk, NoClients, Unformatted, [Next]_vars
    PROVE  Unformatted'
<1> SUFFICES ASSUME NoHeader \in hdr'
             PROVE  (\A t \in Tx : pc'[t] = "none") /\ \A x \in Pos : homeMedia'[x] = {Blank}
    BY DEF Unformatted
<1>0. /\ TypeOK /\ Modes /\ ring \in Ring /\ NoHeader \notin Ring
      /\ NoHeader \in hdr => /\ jstate = "New"
                             /\ \A t \in Tx : pc[t] = "none"
                             /\ \A x \in Pos : homeMedia[x] = {Blank}
    BY JournalAssumption DEF IInv, TypeOK, Unformatted, Modes
<1>1. CASE Quiet
    BY <1>0, <1>1 DEF Quiet
<1>2. ASSUME NEW t \in Tx, Apply(t) \/ ApplyDone(t) \/ ApplyFailed(t) \/ EraseTx(t) PROVE FALSE
    BY <1>0, <1>2 DEF Apply, ApplyDone, ApplyFailed, EraseTx
<1>3. CASE FlushHeader \/ FlushHeaderDone \/ UnloadFlush
    BY <1>0, <1>3 DEF FlushHeader, FlushHeaderDone, HeaderWritten, UnloadFlush, CancelQueued, Modes
<1>4. CASE ReplayBlock \/ ReplayApplied \/ ReplayDone \/ ReplayFailed
    BY <1>0, <1>4 DEF ReplayBlock, ReplayApplied, ReplayDone, ReplayFailed, Modes
<1>5. CASE Crash
    <2>1. UNCHANGED <<hdr, homeMedia>> /\ pc' = [t \in Tx |-> IF t \in Active THEN "lost" ELSE pc[t]]
        BY <1>5 DEF Crash, Forget
    <2> QED BY <1>0, <2>1 DEF Active
<1> QED BY <1>1, <1>2, <1>3, <1>4, <1>5, QuietOrLoud DEF Loud

\* Who is seen on the media is old enough to have kept its blocks.
LEMMA SeenOld ==
    ASSUME HomeData, NEW t \in Tx, Seen(t, homeMedia)
    PROVE  /\ txState[t] \notin {"None", "New"}
           /\ txState[t] = "Commited" \/ pc[t] = "lost"
    BY JournalAssumption DEF HomeData, Seen, Blank, Torn

\* A transaction that is owed has entered the log, and keeps its blocks.
LEMMA OwedOld ==
    ASSUME HomeData, NEW t \in Tx, Owed(t)
    PROVE  /\ txState[t] \notin {"None", "New"}
           /\ txState[t] = "Commited" \/ pc[t] = "lost"
    BY SeenOld DEF Owed, Acked

\* A logged transaction is in the log of every header.
LogHolds == \A t \in Tx : Logged(t) => \A h \in hdr : InLog(t, h)

\* It follows from the place of its slots.
LEMMA LoggedInLog == IInv /\ HeadersLie => LogHolds
<1> SUFFICES ASSUME IInv, HeadersLie, NEW t \in Tx, Logged(t), NEW h \in hdr PROVE InLog(t, h)
    BY DEF LogHolds
<1>1. PICK k \in 0 .. Capacity : Lies(t, h, k)
    BY DEF HeadersLie
<1>2. \A j \in 1 .. TxLen(t) : log[indexList[t][j]] = {TxBlock(t, j)}
    BY DEF IInv, CommittedDurable
<1>3. Whole(t, h, k)
    BY <1>1, <1>2 DEF Lies, Whole
<1> QED BY <1>3 DEF InLog

\* So is the one that Replay has read as a whole.
ReplayHolds == mpc = "apply" => \A h \in hdr : \A w \in Tx : ReadWhole(w) => InLog(w, h)

\* It follows from the place of Replay in the log.
LEMMA ReplayedInLog == IInv /\ ReplayPos => ReplayHolds
<1> SUFFICES ASSUME IInv, ReplayPos, mpc = "apply", NEW h \in hdr, NEW w \in Tx, ReadWhole(w)
             PROVE  InLog(w, h)
    BY DEF ReplayHolds
<1>a. TypeOK
    BY DEF IInv
<1>b. rlist \in Seq(Block) /\ ring \in Ring
    BY <1>a DEF TypeOK
<1>0. /\ TxLen(w) \in Nat /\ Capacity \in Nat /\ rlist \in Seq(Block) /\ TypeOK /\ ring.size \in Nat
    BY <1>a, <1>b, TxBlockType, CapacityAssumption DEF Ring
<1>1. PICK d \in 0 .. Capacity :
            /\ h # NoHeader /\ d + ring.size = h.size /\ Len(rlist) <= d
            /\ \A i \in DOMAIN rlist : log[Cell(h, d - Len(rlist) + (i - 1))] = {rlist[i]}
    BY DEF ReplayPos
<1>2. PICK n \in Nat : n = TxLen(w) /\ n = Len(rlist) /\ DOMAIN rlist = 1 .. n
    BY <1>0 DEF ReadWhole
<1>3. PICK k \in 0 .. Capacity : k = d - n
    BY <1>0, <1>1, <1>2
<1>4. k + n <= h.size
    BY <1>0, <1>1, <1>2, <1>3
<1>5. \A j \in 1 .. n : log[Cell(h, k + (j - 1))] = {TxBlock(w, j)}
    BY <1>1, <1>2, <1>3 DEF ReadWhole
<1> QED BY <1>2, <1>4, <1>5 DEF InLog, Whole

\* A transaction in the log has a block there.
InLogHas ==
    \A w \in Tx : \A h \in Ring : InLog(w, h) =>
        \E k \in 0 .. h.size - 1 : \E b \in log[Cell(h, k)] : b.tx = w /\ b = TxBlock(w, 1)

\* It follows from TxLen: a transaction has at least a begin and a commit block.
LEMMA InLogShows == TypeOK => InLogHas
<1> SUFFICES ASSUME TypeOK, NEW w \in Tx, NEW h \in Ring, InLog(w, h)
             PROVE  \E k \in 0 .. h.size - 1 : \E b \in log[Cell(h, k)] : b.tx = w /\ b = TxBlock(w, 1)
    BY DEF InLogHas
<1>1. PICK k \in 0 .. Capacity : Whole(w, h, k)
    BY DEF InLog
<1>2. TxLen(w) \in Nat /\ TxLen(w) >= 2 /\ h.size \in Nat /\ Capacity \in Nat
    BY TxBlockType, CapacityAssumption DEF Ring
<1>3. k \in 0 .. h.size - 1 /\ 1 \in 1 .. TxLen(w) /\ k + (1 - 1) = k
    BY <1>1, <1>2 DEF Whole
<1>4. log[Cell(h, k)] = {TxBlock(w, 1)}
    BY <1>1, <1>3 DEF Whole
<1>5. TxBlock(w, 1).tx = w
    BY DEF TxBlock, BeginBlock
<1> QED BY <1>3, <1>4, <1>5

\* A transaction in the log has entered the log.
LEMMA InLogOld ==
    ASSUME TypeOK, GenuineLog, NEW w \in Tx, NEW h \in Ring, InLog(w, h)
    PROVE  txState[w] \notin {"None", "New"}
<1>1. PICK k \in 0 .. h.size - 1 : \E b \in log[Cell(h, k)] : b.tx = w
    BY InLogShows DEF InLogHas
<1>2. k \in Nat /\ k < h.size
    BY DEF Ring
<1>3. Cell(h, k) \in Slot
    BY <1>2, CellUsed
<1> QED BY <1>1, <1>3, GenuineTx DEF GenuineLog

\* A log that only settles keeps what it holds.
Settled(h) == \A i \in Used(h) : log'[i] = log[i] \/ \E b \in log[i] : log'[i] = {b}

\* A transaction that the log holds as a whole cannot be settled away.
LEMMA InLogKept ==
    ASSUME IInv, [Next]_vars, NEW w \in Tx, txState[w] \notin {"None", "New"},
           NEW h \in Ring, Settled(h), InLog(w, h)
    PROVE  InLog(w, h)'
<1>1. PICK k \in 0 .. Capacity : Whole(w, h, k)
    BY DEF InLog
<1>2. TxLen(w)' = TxLen(w) /\ \A j : TxBlock(w, j)' = TxBlock(w, j)
    BY OldKept
<1>3. PICK n \in Nat : n = TxLen(w)
    BY TxBlockType DEF IInv
<1>4. ASSUME NEW j \in 1 .. n PROVE log'[Cell(h, k + (j - 1))] = {TxBlock(w, j)}
    <2>1. PICK l \in Nat : l = k + (j - 1) /\ l < h.size
        BY <1>1, <1>3, CapacityAssumption DEF Whole, Ring
    <2>2. Cell(h, l) \in Used(h)
        BY <2>1, CellUsed
    <2>3. log[Cell(h, l)] = {TxBlock(w, j)}
        BY <1>1, <1>3, <1>4, <2>1 DEF Whole
    <2> QED BY <2>1, <2>2, <2>3 DEF Settled
<1> QED BY <1>1, <1>2, <1>3, <1>4 DEF InLog, Whole

\* What is on the media remains good for t, if no older data is written.
LEMMA MediaOkKept ==
    ASSUME IInv, [Next]_vars, NEW t \in Tx, txState[t] \notin {"None", "New"}, MediaOk(t),
           Shrinks \/ \E w \in Tx : SubmitHome(TxData(w)) /\ w \notin pred[t]
    PROVE  MediaOk(t)'
<1>0. /\ TypeOK /\ blocks'[t] = blocks[t] /\ pred'[t] = pred[t]
      /\ blocks[t] \in Seq(Pos) /\ pred[t] \subseteq Tx
    BY OldKept DEF IInv, TypeOK
<1>1. SUFFICES ASSUME NEW x \in Range(blocks[t]), NEW v \in homeMedia'[x]
               PROVE  v # Blank /\ v.tx \notin pred[t]
    BY <1>0 DEF MediaOk
<1>2. x \in Pos
    BY <1>0 DEF Range
<1>3. CASE v \in homeMedia[x]
    BY <1>1, <1>3 DEF MediaOk
<1>4. CASE v \notin homeMedia[x]
    <2>1. PICK w \in Tx : SubmitHome(TxData(w)) /\ w \notin pred[t]
        BY <1>2, <1>4 DEF Shrinks
    <2>2. v = Torn \/ (v.type = "Data" /\ v.tx = w)
        BY <1>0, <1>2, <1>4, <2>1, SubmitAdds
    <2>3. Torn # Blank /\ Torn.tx \notin pred[t] /\ Blank.type # "Data"
        BY <1>0, JournalAssumption DEF Torn, Blank
    <2> QED BY <2>1, <2>2, <2>3
<1> QED BY <1>3, <1>4

-----------------------------------------------------------------------------
(* The log or the media give a commit back                                 *)

\* A step of a journal whose log is sound, with what is known before it and of
\* the order after it.
SoundStep ==
    /\ IInv /\ IInv' /\ SeenInv /\ OrderInv /\ OrderInv' /\ LiveInMedia /\ Unformatted
    /\ HomeData /\ LogSound /\ LogSound' /\ [Next]_vars
    /\ RlistIdle /\ ReplayParses /\ NoReuse

\* What the lemmas below use of it.
LEMMA SoundFacts ==
    ASSUME SoundStep
    PROVE  /\ IInv /\ IInv' /\ Unanswered /\ OnlyShown /\ LiveInMedia /\ Unformatted /\ HomeData
           /\ LogSound /\ LogSound' /\ [Next]_vars /\ ReplayParses /\ NoReuse
           /\ PredOk /\ TableOk /\ NoClients /\ HeaderRing /\ GenuineLog /\ ApplyTx /\ ReplayPos
           /\ CompactPos /\ HeadersOrdered /\ RingOrdered /\ PastFree
           /\ ApplyTx' /\ ReplayPos' /\ HeadersLie' /\ TableOk' /\ TypeOK /\ TypeOK'
    BY DEF SoundStep, SeenInv, OrderInv, IInv

\* The headers of the next state hold what they should.
LEMMA NextHolds ==
    ASSUME SoundStep
    PROVE  LogHolds' /\ ReplayHolds' /\ InLogHas'
<1>1. IInv' /\ HeadersLie' /\ ReplayPos' /\ TypeOK'
    BY SoundFacts
<1>2. LogHolds'
    BY <1>1, LoggedInLog, PTL
<1>3. ReplayHolds'
    BY <1>1, ReplayedInLog, PTL
<1>4. InLogHas'
    BY <1>1, InLogShows, PTL
<1> QED BY <1>2, <1>3, <1>4

\* No data of a transaction that had returned before t began is written.
LEMMA NoOlder ==
    ASSUME SoundStep, NEW t \in Tx,
           ReplayBlock => \E h \in hdr' \ {NoHeader} : Free(pred[t], h, log')
    PROVE  Shrinks \/ \E w \in Tx : SubmitHome(TxData(w)) /\ w \notin pred[t]
<1>0. /\ IInv /\ IInv' /\ Unanswered /\ TableOk /\ LiveInMedia /\ ApplyTx' /\ PredOk /\ [Next]_vars
      /\ TypeOK'
    BY SoundFacts
<1>1. SUFFICES ASSUME NEW w \in Tx, SubmitHome(TxData(w)),
                      Apply(w) \/ (ReplayBlock /\ mpc' = "apply" /\ ReadWhole(w)')
               PROVE  w \notin pred[t]
    BY <1>0, SubmitCases
<1>2. CASE Apply(w)
    <2>1. pc[w] # "returned"
        BY <1>2 DEF Apply
    <2> QED BY <1>0, <2>1, UndecidedNotPred
<1>3. CASE ReplayBlock /\ mpc' = "apply" /\ ReadWhole(w)'
    <2>1. PICK h \in hdr' \ {NoHeader} : Free(pred[t], h, log')
        BY <1>3
    <2>2. InLog(w, h)' /\ h \in Ring
        BY <1>0, <1>3, NextHolds DEF ReplayHolds, TypeOK
    <2>3. \E k \in 0 .. h.size - 1 : \E b \in log'[Cell(h, k)] : b.tx = w
        BY <2>2, NextHolds DEF InLogHas, Cell
    <2> QED BY <2>1, <2>3 DEF Free
<1> QED BY <1>1, <1>2, <1>3

\* A flush of the device makes what reads return durable.
LEMMA FlushedOk ==
    ASSUME IInv, PredOk, FlushCache, [Next]_vars, NEW t \in Tx, txState[t] \notin {"None", "New"},
           Intact(t)
    PROVE  MediaOk(t)'
<1>0. /\ TypeOK /\ blocks'[t] = blocks[t] /\ pred'[t] = pred[t]
      /\ blocks[t] \in Seq(Pos) /\ pred[t] \subseteq Tx
    BY OldKept DEF IInv, TypeOK
<1>1. SUFFICES ASSUME NEW x \in Range(blocks[t]), NEW v \in homeMedia'[x]
               PROVE  v # Blank /\ v.tx \notin pred[t]
    BY <1>0 DEF MediaOk
<1>2. x \in Pos
    BY <1>0 DEF Range
<1>3. v \in homeLive[x] \/ v \in InFlight(x)
    BY <1>2 DEF FlushCache
<1>4. Torn # Blank /\ Torn.tx \notin pred[t] /\ Blank.type # "Data"
    BY <1>0, JournalAssumption DEF Torn, Blank
<1>5. CASE v \in homeLive[x]
    BY <1>1, <1>4, <1>5 DEF Intact
<1>6. CASE v \in InFlight(x)
    <2>1. PICK u \in Tx : pc[u] = "applying" /\ (v = Torn \/ v \in ValuesAt(TxData(u), x))
        BY <1>6 DEF InFlight
    <2>2. v = Torn \/ (v.type = "Data" /\ v.tx = u)
        BY <1>0, <2>1, DataAt
    <2>3. u \notin pred[t]
        BY <2>1, UndecidedNotPred
    <2> QED BY <1>4, <2>2, <2>3
<1> QED BY <1>3, <1>5, <1>6

\* A commit is reported to its client by EraseTx alone, as long as no apply fails.
LEMMA AckedFrom ==
    ASSUME SoundStep, NEW t \in Tx, pc'[t] = "returned", txState'[t] = "Commited"
    PROVE  (pc[t] = "returned" /\ txState[t] = "Commited") \/ EraseTx(t)
<1>0. /\ IInv /\ Unanswered /\ TableOk /\ [Next]_vars /\ LogSound' /\ TypeOK
    BY SoundFacts
<1>1. CASE Quiet
    BY <1>1 DEF Quiet
<1>2. ASSUME NEW s \in Tx, Apply(s) \/ ApplyDone(s) \/ EraseTx(s)
      PROVE  (pc[t] = "returned" /\ txState[t] = "Commited") \/ EraseTx(t)
    BY <1>0, <1>2 DEF Apply, ApplyDone, EraseTx, TypeOK
<1>3. ASSUME NEW s \in Tx, ApplyFailed(s) PROVE FALSE
    BY <1>0, <1>3 DEF ApplyFailed, LogSound
<1>4. CASE UnloadFlush
    <2>1. pc' = pc /\ txState' = [u \in Tx |-> IF u \in Range(txList) THEN "Canceled" ELSE txState[u]]
        BY <1>4 DEF UnloadFlush, CancelQueued
    <2> QED BY <2>1
<1>5. CASE Crash
    <2>1. txState' = txState /\ pc' = [u \in Tx |-> IF u \in Active THEN "lost" ELSE pc[u]]
        BY <1>5 DEF Crash, Forget
    <2> QED BY <2>1
<1>6. CASE FlushHeader \/ FlushHeaderDone \/ ReplayBlock \/ ReplayApplied \/ ReplayDone \/ ReplayFailed
    <2>1. pc' = pc /\ txState' = txState
        BY <1>6 DEF FlushHeader, FlushHeaderDone, ReplayBlock, ReplayApplied, ReplayDone, ReplayFailed, txVars
    <2> QED BY <2>1
<1> QED BY <1>0, <1>1, <1>2, <1>3, <1>4, <1>5, <1>6, QuietOrLoud DEF Loud

\* A transaction that is being applied is in the log.
LEMMA ApplyingLogged ==
    ASSUME SoundStep, NEW t \in Tx, txState[t] = "Commited", pc[t] \in {"waiting", "applying", "applied"},
           UNCHANGED erased, t \in txTable => t \in txTable'
    PROVE  Logged(t)'
<1>1. t \in txTable /\ t \notin erased
    BY SoundFacts DEF TableOk, IInv, TxOk
<1>2. txState'[t] = "Commited"
    BY SoundFacts, QueueStep DEF Decided
<1> QED BY <1>1, <1>2 DEF Logged

\* Who becomes owed is in the log of every header.
LEMMA NewlyOwed ==
    ASSUME SoundStep, NEW t \in Tx, Owed(t)', ~Owed(t), NEW h \in hdr'
    PROVE  InLog(t, h)'
<1>0. /\ IInv /\ IInv' /\ Unanswered /\ TableOk /\ LiveInMedia /\ ApplyTx' /\ [Next]_vars /\ TypeOK
    BY SoundFacts
<1>1. ASSUME EraseTx(t) \/ Apply(t) PROVE InLog(t, h)'
    <2>1. /\ UNCHANGED <<txTable, erased>> /\ txState[t] = "Commited"
          /\ pc[t] \in {"waiting", "applied"}
        BY <1>0, <1>1 DEF EraseTx, Apply, tableVars, histVars, IInv, TxOk
    <2>2. Logged(t)'
        BY <2>1, ApplyingLogged
    <2> QED BY <2>2, NextHolds DEF LogHolds
<1>2. CASE pc'[t] = "returned" /\ txState'[t] = "Commited"
    <2>1. EraseTx(t)
        BY <1>2, AckedFrom DEF Owed, Acked
    <2> QED BY <1>1, <2>1
<1>3. CASE ~(pc'[t] = "returned" /\ txState'[t] = "Commited")
    <2>1. PICK x \in Pos : \E v \in homeMedia'[x] : v.tx = t
        BY <1>3 DEF Owed, Acked, Seen
    <2>2. PICK v \in homeMedia'[x] : v.tx = t
        BY <2>1
    <2>3. v \notin homeMedia[x] /\ v # Torn
        BY <2>2, JournalAssumption DEF Owed, Seen, Torn
    <2>4. PICK w \in Tx : /\ SubmitHome(TxData(w))
                          /\ Apply(w) \/ (ReplayBlock /\ mpc' = "apply" /\ ReadWhole(w)')
        BY <1>0, <2>3, SubmitCases DEF Shrinks
    <2>5. w = t
        BY <1>0, <2>2, <2>3, <2>4, SubmitAdds
    <2>6. CASE Apply(w)
        BY <1>1, <2>5, <2>6
    <2>7. CASE ReplayBlock /\ mpc' = "apply" /\ ReadWhole(w)'
        BY <2>5, <2>7, NextHolds DEF ReplayHolds
    <2> QED BY <2>4, <2>6, <2>7
<1> QED BY <1>2, <1>3

\* The next headers: an old one over a log that settled, or the ring's, with a
\* flush of the device, or that of an empty volume.
LEMMA NextHeaders ==
    ASSUME SoundStep, NEW h \in hdr' \ {NoHeader}
    PROVE  /\ h \in Ring
           /\ \/ h \in hdr \ {NoHeader} /\ Settled(h)
              \/ /\ h = ring /\ jstate \in {"Running", "Stopped"} /\ log' = NextLog /\ FlushCache
                 /\ UNCHANGED <<pc, erased, toErase, homeLive>>
                 /\ FlushHeader \/ UnloadFlush
              \/ h.size = 0 /\ Format
<1>1. h \in Ring
    BY SoundFacts DEF TypeOK
<1>2. ASSUME FlushHeader \/ UnloadFlush PROVE FlushCache /\ UNCHANGED <<pc, erased, toErase, homeLive>>
    BY <1>2 DEF FlushHeader, UnloadFlush, txVars, histVars, tableVars
<1> QED BY <1>1, <1>2, SoundFacts, HeaderFrom DEF Settled

\* Nor does settling bring anything into the log.
LEMMA SettledFree ==
    ASSUME NEW h \in Ring, Settled(h), NEW S, Free(S, h, log)
    PROVE  Free(S, h, log')
<1>1. \A i \in Used(h) : log'[i] \subseteq log[i]
    BY DEF Settled
<1> QED BY <1>1, FreeShrinks

\* Where the log does not give t back, its data is durable and nothing older
\* will be replayed over it.
LEMMA CoveredStep ==
    ASSUME SoundStep, LiveOk, Covered
    PROVE  Covered'
<1> SUFFICES ASSUME NEW t \in Tx, Owed(t)', NEW h \in hdr' \ {NoHeader}, ~InLog(t, h)'
             PROVE  MediaOk(t)' /\ Free(pred'[t], h, log')
    BY DEF Covered, Free
<1>0. /\ IInv /\ IInv' /\ Unanswered /\ TableOk /\ LiveInMedia /\ ApplyTx' /\ [Next]_vars /\ PredOk
      /\ HomeData /\ PastFree /\ Unformatted
    BY SoundFacts
<1>1. Owed(t)
    BY NewlyOwed
<1>2. txState[t] \notin {"None", "New"} /\ (txState[t] = "Commited" \/ pc[t] = "lost")
    BY <1>0, <1>1, OwedOld
<1>3. pred'[t] = pred[t]
    BY <1>0, <1>2, OldKept
<1>4. CASE h \in hdr \ {NoHeader} /\ Settled(h)
    <2>1. ~InLog(t, h) /\ h \in Ring
        BY <1>0, <1>2, <1>4, InLogKept, NextHeaders
    <2>2. MediaOk(t) /\ Free(pred[t], h, log)
        BY <1>1, <1>4, <2>1 DEF Covered
    <2>3. Free(pred[t], h, log')
        BY <1>4, <2>1, <2>2, SettledFree
    <2>4. MediaOk(t)'
        BY <1>0, <1>2, <2>2, <2>3, NoOlder, MediaOkKept
    <2> QED BY <1>3, <2>3, <2>4
<1>5. CASE /\ h = ring /\ jstate \in {"Running", "Stopped"} /\ log' = NextLog /\ FlushCache
           /\ UNCHANGED <<pc, erased, toErase, homeLive>>
           /\ FlushHeader \/ UnloadFlush
    <2>1. ASSUME txState[t] = "Commited", t \in txTable, t \notin erased PROVE FALSE
        <3>1. t \in txTable'
            BY <1>0, <1>5, <2>1 DEF FlushHeader, UnloadFlush, CancelQueued, tableVars, IInv, QueueOk, Range
        <3>2. txState'[t] = "Commited"
            BY <1>0, <2>1, QueueStep DEF Decided
        <3>3. Logged(t)'
            BY <1>5, <2>1, <3>1, <3>2 DEF Logged
        <3> QED BY <3>3, NextHolds DEF LogHolds
    <2>2. ~Placed(t)
        <3> SUFFICES ASSUME Placed(t) PROVE FALSE
            OBVIOUS
        <3>1. pc[t] # "lost" /\ t \in txTable /\ t \notin erased
            BY <1>0 DEF Placed, TableOk
        <3> QED BY <1>2, <2>1, <3>1
    <2>3. Free(pred[t], h, log')
        BY <1>0, <1>2, <1>5, <2>2 DEF PastFree
    <2>4. Intact(t)
        <3>1. CASE pc[t] = "returned" /\ txState[t] = "Commited"
            BY <1>5, <3>1 DEF LiveOk, Acked
        <3>2. CASE ~(pc[t] = "returned" /\ txState[t] = "Commited")
            <4>0. txState'[t] = "Commited" => txState[t] = "Commited"
                BY <1>0, <1>5 DEF FlushHeader, UnloadFlush, CancelQueued, txVars
            <4>1. Seen(t, homeMedia')
                BY <1>5, <3>2, <4>0 DEF Owed, Acked, Seen
            <4>2. PICK x \in Pos : \E v \in homeMedia'[x] : v.tx = t
                BY <4>1 DEF Seen
            <4>3. PICK v \in homeMedia'[x] : v.tx = t
                BY <4>2
            <4>4. v \in homeLive[x] \/ v \in InFlight(x)
                BY <1>5 DEF FlushCache
            <4>5. CASE v \in homeLive[x]
                BY <1>5, <4>3, <4>5 DEF LiveOk, Seen
            <4>6. CASE v \in InFlight(x)
                <5>1. PICK u \in Tx : pc[u] = "applying" /\ (v = Torn \/ v \in ValuesAt(TxData(u), x))
                    BY <4>6 DEF InFlight
                <5>2. u = t
                    BY <1>0, <4>3, <5>1, DataAt, JournalAssumption DEF Torn, IInv
                <5>3. txState[t] = "Commited" /\ t \in txTable /\ t \notin erased
                    BY <1>0, <5>1, <5>2 DEF IInv, TxOk, TableOk
                <5> QED BY <2>1, <5>3
            <4> QED BY <4>4, <4>5, <4>6
        <3> QED BY <3>1, <3>2
    <2>5. MediaOk(t)'
        BY <1>0, <1>2, <1>5, <2>4, FlushedOk
    <2> QED BY <1>3, <2>3, <2>5
<1>6. CASE h.size = 0 /\ Format
    <2>1. NoHeader \in hdr
        BY <1>6 DEF Format
    <2>2. pc[t] = "none" /\ txState[t] = "None"
        BY <1>0, <2>1 DEF Unformatted, IInv, TxOk
    <2> QED BY <1>2, <2>2
<1> QED BY <1>4, <1>5, <1>6, NextHeaders

\* A page that may be torn is rewritten by Replay.
LEMMA TornCoveredStep ==
    ASSUME SoundStep, LiveOk, TornCovered
    PROVE  TornCovered'
<1> DEFINE Goal(h, x) == \E u \in Tx : InLog(u, h)' /\ \E i \in DOMAIN blocks'[u] : blocks'[u][i] = x
<1> SUFFICES ASSUME NEW x \in Pos, Torn \in homeMedia'[x], NEW h \in hdr' \ {NoHeader} PROVE Goal(h, x)
    BY DEF TornCovered
<1>0. /\ IInv /\ IInv' /\ Unanswered /\ TableOk /\ LiveInMedia /\ ApplyTx' /\ [Next]_vars /\ TypeOK
      /\ Unformatted /\ GenuineLog
    BY SoundFacts
<1>a. ASSUME NEW u \in Tx, txState[u] \notin {"None", "New"}, InLog(u, h)', x \in Range(blocks[u])
      PROVE  Goal(h, x)
    <2>1. blocks'[u] = blocks[u]
        BY <1>0, <1>a, OldKept
    <2> QED BY <1>a, <2>1 DEF Range
<1>1. CASE h \in hdr \ {NoHeader} /\ Settled(h)
    <2>1. CASE Torn \in homeMedia[x]
        <3>1. PICK u \in Tx : InLog(u, h) /\ \E i \in DOMAIN blocks[u] : blocks[u][i] = x
            BY <1>1, <2>1 DEF TornCovered
        <3>2. txState[u] \notin {"None", "New"} /\ h \in Ring
            BY <1>0, <3>1, InLogOld, NextHeaders
        <3>3. InLog(u, h)'
            BY <1>0, <1>1, <3>1, <3>2, InLogKept
        <3> QED BY <1>a, <3>1, <3>2, <3>3 DEF Range
    <2>2. CASE Torn \notin homeMedia[x]
        <3>1. PICK w \in Tx : /\ txState[w] \notin {"None", "New"} /\ SubmitHome(TxData(w))
                              /\ Apply(w) \/ (ReplayBlock /\ mpc' = "apply" /\ ReadWhole(w)')
            BY <1>0, <2>2, SubmitCases DEF Shrinks
        <3>2. x \in Range(blocks[w])
            BY <1>0, <2>2, <3>1, SubmitAdds
        <3>3. CASE Apply(w)
            <4>1. UNCHANGED <<txTable, erased>> /\ txState[w] = "Commited" /\ pc[w] = "waiting"
                BY <3>3 DEF Apply, tableVars, histVars
            <4>2. InLog(w, h)'
                BY <4>1, ApplyingLogged, NextHolds DEF LogHolds
            <4> QED BY <1>a, <3>1, <3>2, <4>2
        <3>4. CASE ReplayBlock /\ mpc' = "apply" /\ ReadWhole(w)'
            <4>1. InLog(w, h)'
                BY <3>4, NextHolds DEF ReplayHolds
            <4> QED BY <1>a, <3>1, <3>2, <4>1
        <3> QED BY <3>1, <3>3, <3>4
    <2> QED BY <2>1, <2>2
<1>2. CASE /\ h = ring /\ jstate \in {"Running", "Stopped"} /\ log' = NextLog /\ FlushCache
           /\ UNCHANGED <<pc, erased, toErase, homeLive>>
           /\ FlushHeader \/ UnloadFlush
    <2>1. Torn \in InFlight(x)
        BY <1>2 DEF FlushCache, LiveOk
    <2>2. PICK u \in Tx : pc[u] = "applying" /\ ValuesAt(TxData(u), x) # {}
        BY <2>1 DEF InFlight
    <2>3. txState[u] = "Commited" /\ x \in Range(blocks[u])
        BY <1>0, <2>2, DataAt DEF IInv, TxOk
    <2>4. u \in txTable => u \in txTable'
        BY <1>0, <1>2, <2>3 DEF FlushHeader, UnloadFlush, CancelQueued, tableVars, IInv, QueueOk, Range
    <2>5. InLog(u, h)'
        BY <1>2, <2>2, <2>3, <2>4, ApplyingLogged, NextHolds DEF LogHolds
    <2> QED BY <1>a, <2>3, <2>5
<1>3. CASE h.size = 0 /\ Format
    <2>1. NoHeader \in hdr /\ homeMedia' = homeMedia
        BY <1>3 DEF Format, homeVars
    <2>2. homeMedia[x] = {Blank} /\ Torn # Blank
        BY <1>0, <2>1 DEF Unformatted, Torn, Blank
    <2> QED BY <2>1, <2>2
<1> QED BY <1>1, <1>2, <1>3, NextHeaders

-----------------------------------------------------------------------------
(* CompactLog, and what reads return                                       *)

\* Only CompactLog gives slots back.
LEMMA ErasedFrom ==
    ASSUME [Next]_vars
    PROVE  erased' = erased \/ \E s \in Tx : CompactTx(s) /\ erased' = erased \cup {s}
<1> DEFINE Goal == erased' = erased \/ \E s \in Tx : CompactTx(s) /\ erased' = erased \cup {s}
<1> USE DEF mountVars, tableVars, threadVars, txVars, homeVars, histVars
<1>1. ASSUME NEW t \in Tx, BeginTx(t) PROVE Goal
    BY <1>1 DEF BeginTx
<1>2. ASSUME NEW t \in Tx, NEW page \in Pages, Write(t, page) PROVE Goal
    BY <1>2 DEF Write
<1>3. ASSUME NEW t \in Tx, Abandon(t) PROVE Goal
    BY <1>3 DEF Abandon
<1>4. ASSUME NEW t \in Tx, Commit(t) PROVE Goal
    BY <1>4 DEF Commit
<1>5. ASSUME NEW t \in Tx, CommitRefused(t) PROVE Goal
    BY <1>5 DEF CommitRefused
<1>6. ASSUME NEW t \in Tx, CommitFailed(t) PROVE Goal
    BY <1>6 DEF CommitFailed
<1>7. ASSUME NEW t \in Tx, Apply(t) PROVE Goal
    BY <1>7 DEF Apply
<1>8. ASSUME NEW t \in Tx, ApplyDone(t) PROVE Goal
    BY <1>8 DEF ApplyDone
<1>9. ASSUME NEW t \in Tx, ApplyFailed(t) PROVE Goal
    BY <1>9 DEF ApplyFailed
<1>10. ASSUME NEW t \in Tx, EraseTx(t) PROVE Goal
    BY <1>10 DEF EraseTx
<1>11. ASSUME CheckStopping PROVE Goal
    BY <1>11 DEF CheckStopping
<1>12. ASSUME NoWork PROVE Goal
    BY <1>12 DEF NoWork
<1>13. ASSUME TakeBatch PROVE Goal
    BY <1>13 DEF TakeBatch
<1>14. ASSUME WriteTx PROVE Goal
    BY <1>14 DEF WriteTx
<1>15. ASSUME NEW n \in 0 .. Capacity, WriteTxFail(n) PROVE Goal
    BY <1>15 DEF WriteTxFail
<1>16. ASSUME FlushBlocks PROVE Goal
    BY <1>16 DEF FlushBlocks
<1>17. ASSUME CompleteTx PROVE Goal
    BY <1>17 DEF CompleteTx
<1>18. ASSUME RoundDone PROVE Goal
    BY <1>18 DEF RoundDone
<1>19. ASSUME FlushHeader PROVE Goal
    BY <1>19 DEF FlushHeader
<1>20. ASSUME FlushHeaderDone PROVE Goal
    BY <1>20 DEF FlushHeaderDone
<1>21. ASSUME NEW t \in Tx, CompactTx(t) PROVE Goal
    BY <1>21 DEF CompactTx
<1>22. ASSUME CompactDone PROVE Goal
    BY <1>22 DEF CompactDone, FlushReturn
<1>23. ASSUME FlushFailed PROVE Goal
    BY <1>23 DEF FlushFailed, FlushReturn
<1>24. ASSUME Format PROVE Goal
    BY <1>24 DEF Format
<1>25. ASSUME LoadHeader PROVE Goal
    BY <1>25 DEF LoadHeader
<1>26. ASSUME ReplayBlock PROVE Goal
    BY <1>26 DEF ReplayBlock, StartRunning
<1>27. ASSUME ReplayApplied PROVE Goal
    BY <1>27 DEF ReplayApplied
<1>28. ASSUME ReplayDone PROVE Goal
    BY <1>28 DEF ReplayDone, StartRunning
<1>29. ASSUME ReplayFailed PROVE Goal
    BY <1>29 DEF ReplayFailed
<1>30. ASSUME Unload PROVE Goal
    BY <1>30 DEF Unload
<1>31. ASSUME UnloadFlush PROVE Goal
    BY <1>31 DEF UnloadFlush, CancelQueued
<1>32. ASSUME UnloadNoFlush PROVE Goal
    BY <1>32 DEF UnloadNoFlush, CancelQueued
<1>33. ASSUME Destroy PROVE Goal
    BY <1>33 DEF Destroy, Forget
<1>34. ASSUME Crash PROVE Goal
    BY <1>34 DEF Crash, Forget
<1>35. ASSUME UNCHANGED vars PROVE Goal
    BY <1>35 DEF vars
<1> QED
    BY <1>1, <1>2, <1>3, <1>4, <1>5, <1>6, <1>7, <1>8, <1>9, <1>10, <1>11,
       <1>12, <1>13, <1>14, <1>15, <1>16, <1>17, <1>18, <1>19, <1>20, <1>21, <1>22,
       <1>23, <1>24, <1>25, <1>26, <1>27, <1>28, <1>29, <1>30, <1>31, <1>32, <1>33,
       <1>34, <1>35 DEF Next, Client, CommitTail, Thread, Flush, Mount

\* What CompactLog gave back stays durable, and nothing older can be replayed.
LEMMA ErasedCleanStep ==
    ASSUME SoundStep, EraseReady, ErasedClean
    PROVE  ErasedClean'
<1> SUFFICES ASSUME NEW t \in erased' PROVE MediaOk(t)' /\ \A h \in hdr' \ {NoHeader} : Free(pred'[t], h, log')
    BY DEF ErasedClean, Free
<1>0. /\ IInv /\ IInv' /\ [Next]_vars /\ PredOk /\ PastFree /\ TypeOK /\ TypeOK' /\ Modes /\ TxOk
      /\ ReplayPos /\ CompactPos /\ RingOrdered /\ ring \in Ring /\ ring.size \in Nat
    <2>1. /\ IInv /\ IInv' /\ [Next]_vars /\ PredOk /\ PastFree /\ TypeOK /\ TypeOK' /\ ReplayPos
          /\ CompactPos /\ RingOrdered
        BY SoundFacts
    <2>2. Modes /\ TxOk
        BY <2>1 DEF IInv
    <2>3. ring \in Ring /\ ring.size \in Nat
        BY <2>1 DEF TypeOK, Ring
    <2> QED BY <2>1, <2>2, <2>3
<1>1. CASE t \in erased
    <2>1. t \in Tx /\ txState[t] = "Commited" /\ ~Placed(t)
        BY <1>0, <1>1 DEF TxOk, TypeOK, Placed
    <2>2. pred'[t] = pred[t]
        BY <1>0, <2>1, OldKept
    <2>3. ASSUME NEW h \in hdr' \ {NoHeader} PROVE Free(pred[t], h, log')
        <3>1. CASE h \in hdr \ {NoHeader} /\ Settled(h)
            BY <1>1, <3>1, SettledFree, NextHeaders DEF ErasedClean
        <3>2. CASE h = ring /\ jstate \in {"Running", "Stopped"} /\ log' = NextLog
            BY <1>0, <2>1, <3>2 DEF PastFree
        <3>3. CASE h.size = 0
            BY <3>3 DEF Free
        <3> QED BY <3>1, <3>2, <3>3, NextHeaders
    <2>4. ReplayBlock => \E h \in hdr' \ {NoHeader} : Free(pred[t], h, log')
        <3> SUFFICES ASSUME ReplayBlock PROVE \E h \in hdr' \ {NoHeader} : Free(pred[t], h, log')
            OBVIOUS
        <3>1. mpc = "replay" /\ hdr' = hdr
            BY DEF ReplayBlock
        <3>2. \E h \in hdr : h # NoHeader
            BY <1>0, <3>1 DEF ReplayPos
        <3> QED BY <2>3, <3>1, <3>2
    <2>5. MediaOk(t)
        BY <1>1 DEF ErasedClean
    <2>6. MediaOk(t)'
        BY <1>0, <2>1, <2>4, <2>5, NoOlder, MediaOkKept
    <2> QED BY <2>2, <2>3, <2>6
<1>2. CASE t \notin erased
    <2>1. t \in Tx /\ CompactTx(t)
        BY <1>0, <1>2, ErasedFrom DEF TypeOK
    <2>2. /\ fpc = "compact" /\ t \in toErase
          /\ UNCHANGED <<hdr, log, pred, homeMedia, blocks>>
        BY <2>1 DEF CompactTx, homeVars, txVars
    <2>3. MediaOk(t) /\ t \notin pred[t]
        BY <1>0, <2>1, <2>2 DEF EraseReady, PredOk
    <2>4. MediaOk(t)'
        BY <2>2, <2>3 DEF MediaOk
    <2>5. jstate \in {"Running", "Stopped"} /\ tpc # "write"
        BY <1>0, <2>2 DEF Modes, TypeOK
    <2>6. Ordered(ring, log, pred)
        BY <1>0, <2>2, <2>5, NextLogIsLog DEF RingOrdered
    <2>7. PICK n \in Nat : /\ n >= 2 /\ n <= ring.size
                           /\ \A k \in 1 .. n : log[Cell(ring, k - 1)] = {TxBlock(t, k)}
        BY <1>0, <2>1, CompactShifts
    <2>8. PICK b : log[Cell(ring, 0)] = {b} /\ b.tx = t
        <3>1. 1 \in 1 .. n /\ 1 - 1 = 0
            BY <2>7
        <3>2. log[Cell(ring, 0)] = {TxBlock(t, 1)}
            BY <2>7, <3>1
        <3>3. TxBlock(t, 1).tx = t
            BY DEF TxBlock, BeginBlock
        <3> QED BY <3>2, <3>3
    <2>9. ASSUME NEW h \in hdr \ {NoHeader} PROVE Free(pred[t], h, log)
        <3>1. PICK d \in 0 .. Capacity :
                    /\ d + ring.size = h.size
                    /\ \A k \in 0 .. ring.size - 1 : Cell(ring, k) = Cell(h, d + k)
                    /\ \A k \in 0 .. d - 1 : \A c \in log[Cell(h, k)] : \A s \in toErase : c.tx \notin pred[s]
            BY <1>0, <2>2 DEF CompactPos
        <3>2. SUFFICES ASSUME NEW k \in 0 .. h.size - 1, NEW c \in log[Cell(h, k)] PROVE c.tx \notin pred[t]
            BY DEF Free
        <3>3. d \in Nat /\ k \in Nat /\ h.size \in Nat
            BY <1>0, <3>1, CapacityAssumption
        <3>4. CASE k < d
            <4>1. k \in 0 .. d - 1
                BY <3>3, <3>4
            <4> QED BY <2>2, <3>1, <3>2, <4>1
        <3>5. CASE k >= d
            <4>1. PICK l \in 0 .. ring.size - 1 : d + l = k /\ (l = 0 \/ 0 < l)
                <5>1. k - d \in 0 .. ring.size - 1 /\ d + (k - d) = k /\ (k - d = 0 \/ 0 < k - d)
                    BY <1>0, <3>1, <3>2, <3>3, <3>5
                <5> QED BY <5>1
            <4>2. c \in log[Cell(ring, l)]
                BY <3>1, <3>2, <4>1
            <4>3. CASE l = 0
                BY <2>3, <2>8, <4>2, <4>3
            <4>4. CASE 0 < l
                <5>1. 0 \in 0 .. ring.size - 1
                    BY <1>0, <2>7
                <5> QED BY <2>1, <2>6, <2>8, <4>1, <4>2, <4>4, <5>1 DEF Ordered
            <4> QED BY <4>1, <4>3, <4>4
        <3> QED BY <3>3, <3>4, <3>5
    <2> QED BY <2>2, <2>4, <2>9
<1> QED BY <1>1, <1>2

\* When CompactLog begins, what it may give back is durable at home.
LEMMA EraseReadyStep ==
    ASSUME SoundStep, LiveOk, EraseReady
    PROVE  EraseReady'
<1> SUFFICES ASSUME fpc' \in {"header", "compact"}, NEW t \in toErase' PROVE MediaOk(t)'
    BY DEF EraseReady
<1>0. /\ IInv /\ IInv' /\ [Next]_vars /\ PredOk /\ TypeOK /\ TypeOK' /\ Modes /\ TxOk /\ Unanswered /\ TableOk
    BY SoundFacts DEF IInv
<1>a. ASSUME t \in toErase PROVE t \in Tx /\ pc[t] = "returned" /\ txState[t] = "Commited"
    BY <1>0, <1>a DEF TxOk, TypeOK
<1>1. CASE FlushHeader \/ UnloadFlush
    <2>1. FlushCache /\ toErase' = toErase
        BY <1>1 DEF FlushHeader, UnloadFlush, tableVars
    <2>2. jstate \in {"Running", "Stopped"}
        BY <1>0, <1>1 DEF FlushHeader, UnloadFlush, CancelQueued, Modes, TypeOK
    <2>3. Intact(t)
        BY <1>a, <2>1, <2>2 DEF LiveOk, Acked
    <2> QED BY <1>0, <1>a, <2>1, <2>3, FlushedOk
<1>b. ASSUME fpc \in {"header", "compact"}, toErase' \subseteq toErase, ~ReplayBlock
      PROVE  MediaOk(t)'
    <2>1. MediaOk(t)
        BY <1>b DEF EraseReady
    <2> QED BY <1>0, <1>a, <1>b, <2>1, NoOlder, MediaOkKept
<1>2. CASE Quiet
    <2>1. fpc \in {"header", "compact"} /\ toErase' \subseteq toErase
        BY <1>2 DEF Quiet
    <2>2. ~ReplayBlock
        BY <1>0, <2>1 DEF ReplayBlock, Modes
    <2> QED BY <1>b, <2>1, <2>2
<1>3. ASSUME NEW s \in Tx, Apply(s) \/ ApplyDone(s) \/ ApplyFailed(s) PROVE MediaOk(t)'
    <2>1. fpc' = fpc /\ toErase' = toErase
        BY <1>3 DEF Apply, ApplyDone, ApplyFailed, tableVars
    <2>2. ~ReplayBlock
        BY <1>0, <2>1 DEF ReplayBlock, Modes
    <2> QED BY <1>b, <2>1, <2>2
<1>4. ASSUME NEW s \in Tx, EraseTx(s) PROVE FALSE
    BY <1>4 DEF EraseTx, LockFree
<1>5. CASE FlushHeaderDone
    <2>1. fpc = "header" /\ toErase' = toErase
        BY <1>5 DEF FlushHeaderDone, tableVars
    <2>2. ~ReplayBlock
        BY <1>0, <2>1 DEF ReplayBlock, Modes
    <2> QED BY <1>b, <2>1, <2>2
<1>6. CASE ReplayBlock \/ ReplayApplied \/ ReplayDone \/ ReplayFailed
    BY <1>0, <1>6 DEF ReplayBlock, ReplayApplied, ReplayDone, ReplayFailed, Modes
<1>7. CASE Crash
    BY <1>7 DEF Crash, Forget
<1> QED BY <1>0, <1>1, <1>2, <1>3, <1>4, <1>5, <1>6, <1>7, QuietOrLoud DEF Loud

\* While the journal runs, reads return what committed.
LEMMA LiveOkStep ==
    ASSUME SoundStep, LiveOk, ReplayCovers
    PROVE  LiveOk'
<1> DEFINE Up(t) == t \in Acked \/ pc[t] = "applied" \/ Seen(t, homeLive)
<1> SUFFICES ASSUME jstate' \in {"Running", "Stopped"}
             PROVE  /\ \A x \in Pos : Torn \notin homeLive'[x]
                    /\ \A t \in Tx : Up(t)' => Intact(t)'
    BY DEF LiveOk
<1>0. /\ IInv /\ IInv' /\ [Next]_vars /\ PredOk /\ TypeOK /\ TypeOK' /\ Modes /\ TxOk /\ Unanswered
      /\ TableOk /\ NoClients /\ LiveInMedia /\ HomeData /\ ReplayParses /\ LogSound'
    BY SoundFacts DEF IInv
<1>a. ASSUME NEW t \in Tx, Up(t) PROVE txState[t] \notin {"None", "New"}
    <2>1. Seen(t, homeLive) => Seen(t, homeMedia)
        BY <1>0 DEF LiveInMedia, Seen
    <2> QED BY <1>0, <1>a, <2>1, SeenOld DEF Acked, TxOk
<1>b. ASSUME NEW t \in Tx, Up(t) PROVE blocks'[t] = blocks[t] /\ pred'[t] = pred[t]
    BY <1>0, <1>a, <1>b, OldKept
<1>1. ASSUME jstate \in {"Running", "Stopped"}, homeLive' = homeLive,
             \A u \in Tx : pc'[u] = "applied" => pc[u] = "applied"
      PROVE  /\ \A x \in Pos : Torn \notin homeLive'[x]
             /\ \A t \in Tx : Up(t)' => Intact(t)'
    <2>1. \A x \in Pos : Torn \notin homeLive'[x]
        BY <1>1 DEF LiveOk
    <2>2. ASSUME NEW t \in Tx, Up(t)' PROVE Intact(t)'
        <3>1. Up(t)
            <4>1. EraseTx(t) => pc[t] = "applied"
                BY DEF EraseTx
            <4> QED BY <1>1, <2>2, <4>1, AckedFrom DEF Acked, Seen
        <3>2. Intact(t)
            BY <1>1, <3>1 DEF LiveOk
        <3> QED BY <1>1, <1>b, <3>1, <3>2 DEF Intact
    <2> QED BY <2>1, <2>2
<1>2. CASE Quiet
    BY <1>1, <1>2 DEF Quiet
<1>3. ASSUME NEW s \in Tx, Apply(s) \/ EraseTx(s)
      PROVE  /\ \A x \in Pos : Torn \notin homeLive'[x]
             /\ \A t \in Tx : Up(t)' => Intact(t)'
    BY <1>0, <1>1, <1>3 DEF Apply, EraseTx, mountVars, homeVars, TypeOK
<1>4. ASSUME NEW s \in Tx, ApplyFailed(s) PROVE FALSE
    BY <1>0, <1>4 DEF ApplyFailed, LogSound
<1>5. ASSUME NEW s \in Tx, ApplyDone(s)
      PROVE  /\ \A x \in Pos : Torn \notin homeLive'[x]
             /\ \A t \in Tx : Up(t)' => Intact(t)'
    <2>1. /\ jstate' = jstate /\ homeLive' = CompleteHome(TxData(s)) /\ UNCHANGED <<txState, blocks, pred>>
          /\ pc' = [pc EXCEPT ![s] = "applied"] /\ pc[s] = "applying"
        BY <1>5 DEF ApplyDone, mountVars, histVars
    <2>2. ASSUME NEW x \in Pos, NEW v \in homeLive'[x]
          PROVE  \/ v \in homeLive[x] /\ x \notin Range(blocks[s])
                 \/ v.type = "Data" /\ v.tx = s /\ v # Torn
        BY <1>0, <2>1, <2>2, DataAt DEF CompleteHome
    <2>3. \A x \in Pos : Torn \notin homeLive'[x]
        BY <2>1, <2>2 DEF LiveOk
    <2>4. ASSUME NEW t \in Tx, Up(t)', NEW x \in Range(blocks[t]), NEW v \in homeLive'[x]
          PROVE  v.type = "Data" /\ v.tx \notin pred[t]
        <3>0. blocks[t] \in Seq(Pos)
            BY <1>0 DEF TypeOK
        <3>1. x \in Pos /\ blocks[t] \in Seq(Pos)
            BY <2>4, <3>0 DEF Range
        <3>2. s \notin pred[t]
            BY <1>0, <2>1, UndecidedNotPred
        <3>3. CASE v.type = "Data" /\ v.tx = s
            BY <3>2, <3>3
        <3>4. CASE v \in homeLive[x] /\ x \notin Range(blocks[s])
            <4>1. t # s
                BY <2>4, <3>4
            <4>2. Up(t)
                <5>1. CASE pc'[t] = "applied" \/ (pc'[t] = "returned" /\ txState'[t] = "Commited")
                    BY <1>0, <2>1, <4>1, <5>1 DEF Acked, TypeOK
                <5>2. CASE Seen(t, homeLive')
                    <6>1. PICK y \in Pos : \E w \in homeLive'[y] : w.tx = t
                        BY <5>2 DEF Seen
                    <6>2. \E w \in homeLive[y] : w.tx = t
                        BY <2>2, <4>1, <6>1
                    <6> QED BY <6>2 DEF Seen
                <5> QED BY <2>4, <5>1, <5>2 DEF Acked, Seen
            <4>3. Intact(t)
                BY <2>1, <4>2 DEF LiveOk
            <4> QED BY <2>4, <3>4, <4>3 DEF Intact
        <3> QED BY <2>2, <2>4, <3>1, <3>3, <3>4
    <2>5. \A t \in Tx : Up(t)' => Intact(t)'
        BY <2>1, <2>4 DEF Intact
    <2> QED BY <2>3, <2>5
<1>6. CASE FlushHeader \/ FlushHeaderDone \/ UnloadFlush
    <2>1. UNCHANGED <<jstate, homeLive, pc>>
        BY <1>6 DEF FlushHeader, FlushHeaderDone, UnloadFlush, mountVars, homeVars, txVars
    <2> QED BY <1>1, <2>1
<1>7. CASE ReplayBlock
    <2>1. mpc = "replay" /\ PopOk(ring) /\ jstate = "Replaying"
        BY <1>0, <1>7 DEF ReplayBlock, Modes
    <2>2. \A b \in log[ring.start] : ReplayStep(b) \in {"add", "apply"}
        BY <1>0, <2>1, ReplayNoCorrupt
    <2>3. jstate' = jstate
        BY <1>7, <2>2 DEF ReplayBlock
    <2> QED BY <2>1, <2>3
<1>8. CASE ReplayApplied \/ ReplayFailed
    BY <1>0, <1>8 DEF ReplayApplied, ReplayFailed, Modes
<1>9. CASE Crash
    BY <1>9 DEF Crash, Forget
<1>10. CASE ReplayDone
    <2>1. mpc = "replay" /\ ~PopOk(ring) /\ UNCHANGED <<homeLive, homeMedia, txState, blocks, pc, pred>>
        BY <1>10 DEF ReplayDone, homeVars, txVars, histVars
    <2>2. ring.size = 0 /\ ring \in Ring
        BY <1>0, <2>1 DEF PopOk, TypeOK
    <2>3. rlist = <<>>
        BY <1>0, <2>1, <2>2 DEF ReplayParses
    <2>4. ASSUME NEW u \in Tx PROVE ~Left(u)
        <3>1. TxLen(u) \in Nat /\ TxLen(u) >= 2
            BY <1>0, TxBlockType
        <3>2. ~InLog(u, ring)
            BY <2>2, <3>1, CapacityAssumption DEF InLog, Whole
        <3> QED BY <2>3, <3>2 DEF Left, Reading
    <2>5. \A x \in Pos : Torn \notin homeMedia[x]
        BY <2>1, <2>4 DEF ReplayCovers
    <2>6. ASSUME NEW t \in Tx, Up(t)' PROVE Intact(t)'
        <3>1. Seen(t, homeLive) => Seen(t, homeMedia)
            BY <1>0 DEF LiveInMedia, Seen
        <3>2. pc[t] # "applied"
            BY <1>0, <2>1 DEF NoClients, Active, Modes
        <3>3. Owed(t)
            BY <2>1, <2>6, <3>1, <3>2 DEF Owed, Acked, Seen
        <3>4. MediaOk(t)
            BY <2>1, <2>4, <3>3 DEF ReplayCovers
        <3>5. ASSUME NEW x \in Range(blocks[t]), NEW v \in homeLive[x] PROVE v.type = "Data" /\ v.tx \notin pred[t]
            <4>1. x \in Pos
                BY <1>0 DEF TypeOK, Range
            <4>2. v \in homeMedia[x] /\ v # Torn
                BY <1>0, <2>5, <4>1 DEF LiveInMedia
            <4>3. v # Blank /\ v.tx \notin pred[t]
                BY <3>4, <4>2 DEF MediaOk
            <4> QED BY <1>0, <4>1, <4>2, <4>3 DEF HomeData
        <3> QED BY <2>1, <3>5 DEF Intact
    <2>7. \A x \in Pos : Torn \notin homeLive'[x]
        BY <1>0, <2>1, <2>5 DEF LiveInMedia
    <2> QED BY <2>6, <2>7
<1> QED BY <1>0, <1>2, <1>3, <1>4, <1>5, <1>6, <1>7, <1>8, <1>9, <1>10, QuietOrLoud DEF Loud

-----------------------------------------------------------------------------
(* Replay                                                                  *)

\* What is left of the log shrinks from the front, by the slot that Replay reads.
LEMMA ReplayPops ==
    ASSUME SoundStep, ReplayBlock, mpc' \in {"replay", "apply"}
    PROVE  \E b \in log[Cell(ring, 0)] :
              /\ ring.size \in Nat /\ ring.size >= 1 /\ ring'.size = ring.size - 1
              /\ \A k \in Nat : k + 1 < ring.size => Cell(ring', k) = Cell(ring, k + 1)
              /\ \A k \in Nat : k < ring.size =>
                    /\ log'[Cell(ring, k)] \subseteq log[Cell(ring, k)]
                    /\ \A c : log[Cell(ring, k)] = {c} => log'[Cell(ring, k)] = {c}
              /\ rlist' = Append(rlist, b) /\ b \in Block
              /\ b.type = "Begin" => rlist = <<>>
              /\ mpc = "replay" /\ ReplayParses
              /\ UNCHANGED <<txState, blocks, pc, pred>>
<1>0. /\ TypeOK /\ ReplayParses
    BY SoundFacts
<1>1. /\ mpc = "replay" /\ PopOk(ring) /\ ring' = PopFront(ring)
      /\ UNCHANGED <<txState, blocks, pc, pred>>
    BY ReplayReads
<1>2. PICK b \in log[ring.start] : log' = [log EXCEPT ![ring.start] = {b}] /\ rlist' = Append(rlist, b)
    BY ReplayReads
<1>3. ring \in Ring /\ ring.size \in Nat /\ log \in [Slot -> SUBSET Block] /\ ring.start \in Slot
    BY <1>0 DEF TypeOK, Ring
<1>4. /\ ring'.size = ring.size - 1 /\ Cell(ring, 0) = ring.start /\ ring.size # 0
      /\ \A k \in Nat : k + 1 < ring.size => Cell(ring', k) = Cell(ring, k + 1)
    BY <1>1, <1>3, PopCells, FirstCell DEF PopOk
<1>5. b \in Block
    BY <1>2, <1>3
<1>6. b.type = "Begin" => rlist = <<>>
    BY <1>0, <1>1, <1>2, ReplayNoCorrupt
<1>7. ASSUME NEW k \in Nat, k < ring.size
      PROVE  /\ log'[Cell(ring, k)] \subseteq log[Cell(ring, k)]
             /\ \A c : log[Cell(ring, k)] = {c} => log'[Cell(ring, k)] = {c}
    <2>1. Cell(ring, k) \in Slot
        BY <1>3, <1>7, CellUsed
    <2> QED BY <1>2, <1>3, <2>1
<1>8. ring.size >= 1
    BY <1>3, <1>4
<1> QED BY <1>0, <1>1, <1>2, <1>3, <1>4, <1>5, <1>6, <1>7, <1>8

\* Reading does not lose what is left of a transaction in the log.
LEMMA LeftMoves ==
    ASSUME SoundStep, ReplayBlock, mpc' \in {"replay", "apply"}, NEW t \in Tx, Left(t)
    PROVE  Left(t)'
<1>0. TypeOK /\ rlist \in Seq(Block) /\ Capacity \in Nat
    BY SoundFacts, CapacityAssumption DEF TypeOK
<1>1. PICK b \in log[Cell(ring, 0)] :
              /\ ring.size \in Nat /\ ring.size >= 1 /\ ring'.size = ring.size - 1
              /\ \A k \in Nat : k + 1 < ring.size => Cell(ring', k) = Cell(ring, k + 1)
              /\ \A k \in Nat : k < ring.size =>
                    /\ log'[Cell(ring, k)] \subseteq log[Cell(ring, k)]
                    /\ \A c : log[Cell(ring, k)] = {c} => log'[Cell(ring, k)] = {c}
              /\ rlist' = Append(rlist, b) /\ b \in Block
              /\ b.type = "Begin" => rlist = <<>>
              /\ mpc = "replay" /\ ReplayParses
              /\ UNCHANGED <<txState, blocks, pc, pred>>
    BY ReplayPops
<1>2. PICK n \in Nat : n = TxLen(t) /\ n >= 2
    BY <1>0, TxBlockType
<1>3. TxLen(t)' = n /\ \A j : TxBlock(t, j)' = TxBlock(t, j)
    BY <1>1, <1>2, TxSame
<1>4. PICK l \in Nat : l = Len(rlist) /\ DOMAIN rlist = 1 .. l
    BY <1>0
<1>5. /\ rlist' # <<>> /\ Len(rlist') = l + 1 /\ DOMAIN rlist' = 1 .. l + 1 /\ rlist'[l + 1] = b
      /\ \A i \in 1 .. l : rlist'[i] = rlist[i]
    BY <1>0, <1>1, <1>4
<1>6. ASSUME NEW m \in Nat, NEW c, m + 1 < ring.size, log[Cell(ring, m + 1)] = {c}
      PROVE  log'[Cell(ring', m)] = {c}
    <2>1. PICK p \in Nat : p = m + 1 /\ p < ring.size
        BY <1>6
    <2>2. log'[Cell(ring, p)] = {c}
        BY <1>1, <1>6, <2>1
    <2>3. Cell(ring', m) = Cell(ring, p)
        BY <1>1, <1>6, <2>1
    <2> QED BY <2>2, <2>3
<1>7. ASSUME l + 1 <= n, \A i \in 1 .. l : rlist[i] = TxBlock(t, i), b = TxBlock(t, l + 1),
             n - (l + 1) <= ring.size - 1,
             \A j \in 1 .. n : j > l + 1 => log[Cell(ring, j - l - 1)] = {TxBlock(t, j)}
      PROVE  Reading(t)'
    <2>1. ASSUME NEW i \in 1 .. l + 1 PROVE rlist'[i] = TxBlock(t, i)
        <3>1. i \in 1 .. l \/ i = l + 1
            OBVIOUS
        <3> QED BY <1>5, <1>7, <3>1
    <2>2. ASSUME NEW j \in 1 .. n, j > l + 1 PROVE log'[Cell(ring', j - (l + 1) - 1)] = {TxBlock(t, j)}
        <3>1. PICK m \in Nat : m = j - (l + 1) - 1 /\ m + 1 = j - l - 1 /\ m + 1 < ring.size
            BY <1>1, <1>7, <2>2
        <3>2. log[Cell(ring, m + 1)] = {TxBlock(t, j)}
            BY <1>7, <2>2, <3>1
        <3> QED BY <1>6, <3>1, <3>2
    <2>3. n - (l + 1) <= ring'.size
        BY <1>1, <1>7
    <2> QED BY <1>3, <1>5, <1>7, <2>1, <2>2, <2>3 DEF Reading
<1>8. CASE InLog(t, ring)
    <2>1. PICK k \in 0 .. Capacity : /\ k + n <= ring.size
                                     /\ \A j \in 1 .. n : log[Cell(ring, k + (j - 1))] = {TxBlock(t, j)}
        BY <1>2, <1>8 DEF InLog, Whole
    <2>2. CASE k = 0
        <3>1. 1 \in 1 .. n /\ k + (1 - 1) = 0
            BY <1>2, <2>2
        <3>2. b = TxBlock(t, 1)
            BY <1>1, <2>1, <3>1
        <3>3. b.type = "Begin"
            BY <3>2 DEF TxBlock, BeginBlock
        <3>4. l = 0
            BY <1>1, <1>4, <3>3
        <3>5. \A j \in 1 .. n : j - l - 1 = k + (j - 1) /\ j \in Int
            BY <2>2, <3>4, <1>2
        <3>6. l + 1 = 1 /\ l + 1 <= n /\ n - (l + 1) <= ring.size - 1
            BY <1>1, <1>2, <2>1, <2>2, <3>4
        <3>7. Reading(t)'
            BY <1>7, <2>1, <3>2, <3>4, <3>5, <3>6
        <3> QED BY <3>7 DEF Left
    <2>3. CASE k # 0
        <3>1. PICK p \in 0 .. Capacity : p = k - 1
            BY <1>0, <2>1, <2>3
        <3>2. p + n <= ring'.size
            BY <1>0, <1>1, <1>2, <2>1, <3>1
        <3>3. ASSUME NEW j \in 1 .. n PROVE log'[Cell(ring', p + (j - 1))] = {TxBlock(t, j)}
            <4>1. PICK m \in Nat : m = p + (j - 1) /\ m + 1 = k + (j - 1) /\ m + 1 < ring.size
                BY <1>0, <1>1, <1>2, <2>1, <2>3, <3>1
            <4>2. log[Cell(ring, m + 1)] = {TxBlock(t, j)}
                BY <2>1, <4>1
            <4> QED BY <1>6, <4>1, <4>2
        <3>4. InLog(t, ring)'
            BY <1>3, <3>1, <3>2, <3>3 DEF InLog, Whole
        <3> QED BY <3>4 DEF Left
    <2> QED BY <2>2, <2>3
<1>9. CASE Reading(t)
    <2>1. /\ rlist # <<>> /\ l <= n /\ n - l <= ring.size
          /\ \A i \in 1 .. l : rlist[i] = TxBlock(t, i)
          /\ \A j \in 1 .. n : j > l => log[Cell(ring, j - l - 1)] = {TxBlock(t, j)}
        BY <1>2, <1>4, <1>9 DEF Reading
    <2>2. l # n
        <3> SUFFICES ASSUME l = n PROVE FALSE
            OBVIOUS
        <3>1. n \in 1 .. l /\ n > 1
            BY <1>2
        <3>2. rlist[n] = TxBlock(t, n)
            BY <2>1, <3>1
        <3>3. rlist[n].type = "Data"
            BY <1>1, <1>4, <3>1 DEF ReplayParses, Partial
        <3>4. TxBlock(t, n) = CommitBlock(t)
            BY <1>2, <3>1 DEF TxBlock
        <3>5. TxBlock(t, n).type = "Commit"
            BY <3>4 DEF CommitBlock
        <3> QED BY <3>2, <3>3, <3>5
    <2>3. l + 1 \in 1 .. n /\ l + 1 > l /\ (l + 1) - l - 1 = 0
        BY <1>2, <1>4, <2>1, <2>2
    <2>4. log[Cell(ring, (l + 1) - l - 1)] = {TxBlock(t, l + 1)}
        BY <2>1, <2>3
    <2>5. b = TxBlock(t, l + 1)
        BY <1>1, <2>3, <2>4
    <2>6. n - (l + 1) <= ring.size - 1 /\ \A j \in 1 .. n : j > l + 1 => j > l
        BY <1>1, <1>2, <1>4, <2>1
    <2>7. Reading(t)'
        BY <1>7, <2>1, <2>3, <2>5, <2>6
    <2> QED BY <2>7 DEF Left
<1> QED BY <1>8, <1>9 DEF Left

\* Nor does it bring in what is older.
LEMMA FreeMoves ==
    ASSUME SoundStep, ReplayBlock, mpc' \in {"replay", "apply"}, NEW t \in Tx, FreeLeft(t)
    PROVE  FreeLeft(t)'
<1>0. TypeOK /\ rlist \in Seq(Block)
    BY SoundFacts DEF TypeOK
<1>1. PICK b \in log[Cell(ring, 0)] :
              /\ ring.size \in Nat /\ ring.size >= 1 /\ ring'.size = ring.size - 1
              /\ \A k \in Nat : k + 1 < ring.size => Cell(ring', k) = Cell(ring, k + 1)
              /\ \A k \in Nat : k < ring.size => log'[Cell(ring, k)] \subseteq log[Cell(ring, k)]
              /\ rlist' = Append(rlist, b) /\ b \in Block
              /\ UNCHANGED <<txState, blocks, pc, pred>>
    BY ReplayPops
<1>2. PICK l \in Nat : l = Len(rlist) /\ DOMAIN rlist = 1 .. l
    BY <1>0
<1>3. DOMAIN rlist' = 1 .. l + 1 /\ rlist'[l + 1] = b /\ \A i \in 1 .. l : rlist'[i] = rlist[i]
    BY <1>0, <1>1, <1>2
<1>4. b.tx \notin pred[t]
    <2>1. 0 \in 0 .. ring.size - 1
        BY <1>1
    <2> QED BY <1>1, <2>1 DEF FreeLeft, Free
<1>5. ASSUME NEW i \in 1 .. l + 1 PROVE rlist'[i].tx \notin pred[t]
    <2>1. i \in 1 .. l \/ i = l + 1
        OBVIOUS
    <2> QED BY <1>2, <1>3, <1>4, <2>1 DEF FreeLeft
<1>6. ASSUME NEW k \in 0 .. ring'.size - 1, NEW c \in log'[Cell(ring', k)] PROVE c.tx \notin pred[t]
    <2>1. PICK m \in 0 .. ring.size - 1 : m = k + 1 /\ m \in Nat /\ m < ring.size /\ k \in Nat
        BY <1>1, <1>6
    <2>2. c \in log[Cell(ring, m)]
        BY <1>1, <1>6, <2>1
    <2> QED BY <2>1, <2>2 DEF FreeLeft, Free
<1>7. Free(pred'[t], ring', log')
    BY <1>1, <1>6 DEF Free
<1> QED BY <1>1, <1>3, <1>5, <1>7 DEF FreeLeft, Free

\* What is still to be replayed gives back every transaction whose data is not
\* durable at home.
LEMMA ReplayCoversStep ==
    ASSUME SoundStep, Covered, TornCovered, ReplayCovers
    PROVE  ReplayCovers'
<1> DEFINE Back(x) == \E u \in Tx : Left(u)' /\ \E i \in DOMAIN blocks'[u] : blocks'[u][i] = x
<1> SUFFICES ASSUME mpc' \in {"replay", "apply"}
             PROVE  /\ \A t \in Tx : Owed(t)' => Left(t)' \/ (MediaOk(t)' /\ FreeLeft(t)')
                    /\ \A x \in Pos : Torn \in homeMedia'[x] => Back(x)
    BY DEF ReplayCovers
<1>0. /\ IInv /\ IInv' /\ [Next]_vars /\ PredOk /\ TypeOK /\ TypeOK' /\ Modes /\ Unanswered /\ TableOk
      /\ NoClients /\ LiveInMedia /\ HomeData /\ GenuineLog /\ ApplyTx /\ ApplyTx' /\ ReplayPos
      /\ HeadersOrdered
    BY SoundFacts DEF IInv
<1>1. CASE LoadHeader
    <2>1. /\ ring' \in hdr \ {NoHeader} /\ rlist' = rlist /\ mpc = "idle"
          /\ UNCHANGED <<txState, blocks, pc, pred, log, homeMedia>>
        BY <1>1 DEF LoadHeader, txVars, histVars, homeVars
    <2>2. PICK h \in hdr \ {NoHeader} : h = ring'
        BY <2>1
    <2>3. rlist' = <<>> /\ DOMAIN rlist' = {}
        BY <2>1 DEF SoundStep, RlistIdle
    <2>4. ASSUME NEW u \in Tx, InLog(u, h) PROVE Left(u)'
        <3>1. TxLen(u)' = TxLen(u) /\ \A k : TxBlock(u, k)' = TxBlock(u, k)
            BY <2>1, TxSame
        <3>2. InLog(u, ring)'
            BY <2>1, <2>2, <2>4, <3>1 DEF InLog, Whole
        <3> QED BY <3>2 DEF Left
    <2>5. ASSUME NEW t \in Tx, Owed(t)' PROVE Left(t)' \/ (MediaOk(t)' /\ FreeLeft(t)')
        <3>1. Owed(t)
            BY <2>1, <2>5 DEF Owed, Acked, Seen
        <3>2. CASE InLog(t, h)
            BY <2>4, <3>2
        <3>3. CASE MediaOk(t) /\ Free(pred[t], h, log)
            <4>1. MediaOk(t)'
                BY <2>1, <3>3 DEF MediaOk
            <4>2. Free(pred'[t], ring', log')
                BY <2>1, <2>2, <3>3
            <4>3. FreeLeft(t)'
                BY <2>3, <4>2 DEF FreeLeft, Free
            <4> QED BY <4>1, <4>3
        <3> QED BY <3>1, <3>2, <3>3 DEF Covered
    <2>6. ASSUME NEW x \in Pos, Torn \in homeMedia'[x] PROVE Back(x)
        <3>1. PICK u \in Tx : InLog(u, h) /\ \E i \in DOMAIN blocks[u] : blocks[u][i] = x
            BY <2>1, <2>6 DEF TornCovered
        <3> QED BY <2>1, <2>4, <3>1
    <2> QED BY <2>5, <2>6
<1>2. CASE ReplayBlock
    <2>1. mpc = "replay" /\ UNCHANGED <<txState, blocks, pc, pred>>
        BY <1>2, ReplayReads
    <2>2. ASSUME NEW w \in Tx, ReadWhole(w)' PROVE Left(w)'
        <3>0. rlist' \in Seq(Block) /\ ring' \in Ring
            BY <1>0 DEF TypeOK
        <3>1. TxLen(w)' \in Nat /\ TxLen(w)' >= 2
            <4>1. TxLen(w) \in Nat /\ TxLen(w) >= 2 /\ TxLen(w)' = TxLen(w)
                BY <1>0, <2>1, TxBlockType, TxSame
            <4> QED BY <4>1
        <3>2. PICK l \in Nat : l = Len(rlist') /\ DOMAIN rlist' = 1 .. l /\ l = TxLen(w)' /\ l >= 2
            BY <2>2, <3>0, <3>1 DEF ReadWhole
        <3>3. l - l <= ring'.size /\ rlist' # <<>> /\ l <= l /\ \A j \in 1 .. l : ~(j > l)
            BY <3>0, <3>2 DEF Ring
        <3>4. Reading(w)'
            BY <2>2, <3>2, <3>3 DEF Reading, ReadWhole
        <3> QED BY <3>4 DEF Left
    <2>3. ASSUME NEW t \in Tx, Owed(t)' PROVE Left(t)' \/ (MediaOk(t)' /\ FreeLeft(t)')
        <3>1. CASE Owed(t) /\ Left(t)
            BY <1>2, <3>1, LeftMoves
        <3>2. CASE Owed(t) /\ MediaOk(t) /\ FreeLeft(t)
            <4>1. FreeLeft(t)'
                BY <1>2, <3>2, FreeMoves
            <4>2. Shrinks \/ \E w \in Tx : SubmitHome(TxData(w)) /\ w \notin pred[t]
                <5> SUFFICES ASSUME NEW w \in Tx, SubmitHome(TxData(w)),
                                    Apply(w) \/ (ReplayBlock /\ mpc' = "apply" /\ ReadWhole(w)')
                             PROVE  w \notin pred[t]
                    BY <1>0, SubmitCases
                <5>1. CASE Apply(w)
                    <6>1. pc[w] # "returned"
                        BY <5>1 DEF Apply
                    <6> QED BY <1>0, <6>1, UndecidedNotPred
                <5>2. CASE ReadWhole(w)'
                    <6>1. TxLen(w) \in Nat /\ TxLen(w) >= 2 /\ TxLen(w)' = TxLen(w)
                        BY <1>0, <2>1, TxBlockType, TxSame
                    <6>2. rlist' \in Seq(Block)
                        BY <1>0 DEF TypeOK
                    <6>3. 1 \in DOMAIN rlist' /\ rlist'[1] = TxBlock(w, 1)'
                        BY <5>2, <6>1, <6>2 DEF ReadWhole
                    <6>4. rlist'[1].tx = w
                        BY <6>3 DEF TxBlock, BeginBlock
                    <6> QED BY <2>1, <4>1, <6>3, <6>4 DEF FreeLeft
                <5> QED BY <5>1, <5>2
            <4>3. txState[t] \notin {"None", "New"}
                BY <1>0, <3>2, OwedOld
            <4>4. MediaOk(t)'
                BY <1>0, <3>2, <4>2, <4>3, MediaOkKept
            <4> QED BY <4>1, <4>4
        <3>3. CASE ~Owed(t)
            <4>1. pc[t] = "returned" /\ txState[t] = "Commited" <=> pc'[t] = "returned" /\ txState'[t] = "Commited"
                BY <2>1
            <4>2. PICK x \in Pos : \E v \in homeMedia'[x] : v.tx = t
                BY <2>3, <3>3, <4>1 DEF Owed, Acked, Seen
            <4>3. PICK v \in homeMedia'[x] : v.tx = t
                BY <4>2
            <4>4. v \notin homeMedia[x] /\ v # Torn
                BY <3>3, <4>3, JournalAssumption DEF Owed, Seen, Torn
            <4>5. PICK w \in Tx : /\ SubmitHome(TxData(w))
                                  /\ Apply(w) \/ (ReplayBlock /\ mpc' = "apply" /\ ReadWhole(w)')
                BY <1>0, <4>4, SubmitCases DEF Shrinks
            <4>6. w = t
                BY <1>0, <4>3, <4>4, <4>5, SubmitAdds
            <4>7. ~Apply(w)
                BY <2>1, <1>0 DEF Apply, TypeOK
            <4> QED BY <2>2, <4>5, <4>6, <4>7
        <3> QED BY <2>1, <3>1, <3>2, <3>3 DEF ReplayCovers
    <2>4. ASSUME NEW x \in Pos, Torn \in homeMedia'[x] PROVE Back(x)
        <3>1. CASE Torn \in homeMedia[x]
            <4>1. PICK u \in Tx : Left(u) /\ \E i \in DOMAIN blocks[u] : blocks[u][i] = x
                BY <2>1, <3>1 DEF ReplayCovers
            <4>2. Left(u)'
                BY <1>2, <4>1, LeftMoves
            <4> QED BY <2>1, <4>1, <4>2
        <3>2. CASE Torn \notin homeMedia[x]
            <4>1. PICK w \in Tx : /\ SubmitHome(TxData(w))
                                  /\ Apply(w) \/ (ReplayBlock /\ mpc' = "apply" /\ ReadWhole(w)')
                BY <1>0, <2>4, <3>2, SubmitCases DEF Shrinks
            <4>2. x \in Range(blocks[w])
                BY <1>0, <2>4, <3>2, <4>1, SubmitAdds
            <4>3. ~Apply(w)
                BY <2>1, <1>0 DEF Apply, TypeOK
            <4>4. Left(w)'
                BY <2>2, <4>1, <4>3
            <4> QED BY <2>1, <4>2, <4>4 DEF Range
        <3> QED BY <3>1, <3>2
    <2> QED BY <2>3, <2>4
<1>3. CASE ReplayApplied
    <2>1. /\ mpc = "apply" /\ rlist' = <<>> /\ homeMedia' = CompleteHome(Range(rlist))
          /\ UNCHANGED <<ring, log, hdr, txState, blocks, pc, pred>>
        BY <1>3 DEF ReplayApplied, txVars, histVars
    <2>2. PICK w \in Tx : ReadWhole(w) /\ txState[w] \notin {"None", "New"}
        BY <1>0, <2>1 DEF ApplyTx, ReadWhole
    <2>3. PICK n \in Nat : n = TxLen(w) /\ n >= 2 /\ Len(rlist) = n /\ DOMAIN rlist = 1 .. n
        <3>1. rlist \in Seq(Block) /\ TxLen(w) \in Nat /\ TxLen(w) >= 2
            BY <1>0, TxBlockType DEF TypeOK
        <3>2. Len(rlist) = TxLen(w)
            BY <2>2 DEF ReadWhole
        <3> QED BY <3>1, <3>2
    <2>4. ASSUME NEW x \in Pos
          PROVE  homeMedia'[x] = IF x \in Range(blocks[w]) THEN ValuesAt(TxData(w), x) ELSE homeLive[x]
        <3>1. ValuesAt(Range(rlist), x) = ValuesAt(TxData(w), x)
            BY <1>0, <2>2, ReplayedData DEF ReadWhole, TypeOK
        <3>2. ValuesAt(TxData(w), x) # {} <=> x \in Range(blocks[w])
            BY <1>0, DataAt
        <3> QED BY <2>1, <3>1, <3>2 DEF CompleteHome
    <2>5. Shrinks
        BY <1>0, <2>1, MediaCases DEF Apply, ReplayBlock, NoClients, Active, Modes
    <2>6. DOMAIN rlist' = {}
        BY <2>1
    <2>7. ASSUME NEW u \in Tx, Reading(u) PROVE u = w
        <3>1. 1 \in DOMAIN rlist /\ 1 \in 1 .. TxLen(w)
            BY <2>3
        <3>2. rlist[1] = TxBlock(u, 1) /\ rlist[1] = TxBlock(w, 1)
            BY <2>2, <2>7, <3>1 DEF Reading, ReadWhole
        <3>3. TxBlock(u, 1).tx = u /\ TxBlock(w, 1).tx = w
            BY DEF TxBlock, BeginBlock
        <3> QED BY <3>2, <3>3
    <2>8. ASSUME NEW u \in Tx, InLog(u, ring) PROVE Left(u)'
        <3>1. TxLen(u)' = TxLen(u) /\ \A k : TxBlock(u, k)' = TxBlock(u, k)
            BY <2>1, TxSame
        <3>2. InLog(u, ring)'
            BY <2>1, <2>8, <3>1 DEF InLog, Whole
        <3> QED BY <3>2 DEF Left
    <2>9. MediaOk(w)'
        <3> SUFFICES ASSUME NEW x \in Range(blocks[w]), NEW v \in homeMedia'[x]
                     PROVE  v # Blank /\ v.tx \notin pred[w]
            BY <2>1 DEF MediaOk
        <3>1. x \in Pos
            BY <1>0 DEF TypeOK, Range
        <3>2. v \in ValuesAt(TxData(w), x)
            BY <2>4, <3>1
        <3>3. v # Blank /\ v.tx = w
            BY <1>0, <3>2, DataAt
        <3> QED BY <1>0, <3>3 DEF PredOk
    <2>10. Free(pred[w], ring, log)
        <3>1. PICK h \in hdr, d \in 0 .. Capacity :
                /\ h # NoHeader
                /\ d + ring.size = h.size
                /\ \A k \in 0 .. ring.size - 1 : Cell(ring, k) = Cell(h, d + k)
                /\ Len(rlist) <= d
                /\ \A i \in DOMAIN rlist : log[Cell(h, d - Len(rlist) + (i - 1))] = {rlist[i]}
            BY <1>0, <2>1 DEF ReplayPos
        <3>2. Ordered(h, log, pred)
            BY <1>0, <3>1 DEF HeadersOrdered
        <3>3. ring.size \in Nat /\ d \in Nat /\ h.size \in Nat
            BY <1>0, <3>1, CapacityAssumption DEF TypeOK, Ring
        <3>4. PICK p \in Nat : p = d - n /\ p = d - Len(rlist) + (1 - 1) /\ p < d
            BY <2>3, <3>1, <3>3
        <3>5. 1 \in DOMAIN rlist /\ 1 \in 1 .. TxLen(w)
            BY <2>3
        <3>6. log[Cell(h, p)] = {rlist[1]} /\ rlist[1] = TxBlock(w, 1)
            BY <2>2, <3>1, <3>4, <3>5 DEF ReadWhole
        <3>7. rlist[1].tx = w
            BY <3>6 DEF TxBlock, BeginBlock
        <3>8. ASSUME NEW k \in 0 .. ring.size - 1, NEW c \in log[Cell(ring, k)] PROVE c.tx \notin pred[w]
            <4>1. PICK m \in 0 .. h.size - 1 : m = d + k /\ p < m /\ p \in 0 .. h.size - 1
                <5>0. PICK z \in Nat, e \in Nat : z = ring.size /\ e = h.size /\ d + z = e
                    BY <3>1, <3>3
                <5>0a. k \in Nat /\ k < z /\ d \in Nat /\ p \in Nat /\ p < d
                    BY <3>3, <3>4, <3>8, <5>0
                <5>1. d + k \in 0 .. h.size - 1 /\ p < d + k /\ p \in 0 .. h.size - 1
                    BY <5>0, <5>0a
                <5> QED BY <5>1
            <4>2. c \in log[Cell(h, m)]
                BY <3>1, <3>8, <4>1
            <4> QED BY <3>2, <3>6, <3>7, <4>1, <4>2 DEF Ordered
        <3> QED BY <3>8 DEF Free
    <2>11. ASSUME NEW t \in Tx, Free(pred[t], ring, log) PROVE FreeLeft(t)'
        <3>1. Free(pred'[t], ring', log')
            BY <2>1, <2>11
        <3> QED BY <2>6, <3>1 DEF FreeLeft, Free
    <2>12. ASSUME NEW t \in Tx, Owed(t)' PROVE Left(t)' \/ (MediaOk(t)' /\ FreeLeft(t)')
        <3>1. Owed(t)
            BY <2>1, <2>5, <2>12 DEF Owed, Acked, Seen, Shrinks
        <3>2. CASE InLog(t, ring)
            BY <2>8, <3>2
        <3>3. CASE Reading(t)
            BY <2>7, <2>9, <2>10, <2>11, <3>3
        <3>4. CASE MediaOk(t) /\ FreeLeft(t)
            <4>1. txState[t] \notin {"None", "New"}
                BY <1>0, <3>1, OwedOld
            <4>2. MediaOk(t)'
                BY <1>0, <2>5, <3>4, <4>1, MediaOkKept
            <4> QED BY <2>11, <3>4, <4>2 DEF FreeLeft
        <3> QED BY <2>1, <3>1, <3>2, <3>3, <3>4 DEF ReplayCovers, Left
    <2>13. ASSUME NEW x \in Pos, Torn \in homeMedia'[x] PROVE Back(x)
        <3>1. x \notin Range(blocks[w])
            BY <1>0, <2>4, <2>13, DataAt
        <3>2. Torn \in homeMedia[x]
            BY <2>5, <2>13 DEF Shrinks
        <3>3. PICK u \in Tx : Left(u) /\ \E i \in DOMAIN blocks[u] : blocks[u][i] = x
            BY <2>1, <3>2 DEF ReplayCovers
        <3>4. u # w
            BY <3>1, <3>3 DEF Range
        <3>5. Left(u)'
            BY <2>7, <2>8, <3>3, <3>4 DEF Left
        <3> QED BY <2>1, <3>3, <3>5
    <2> QED BY <2>12, <2>13
<1>4. CASE UNCHANGED vars
    <2>1. UNCHANGED <<mpc, rlist, ring, log, txState, blocks, pc, pred, homeMedia>>
        BY <1>4 DEF vars, mountVars, txVars, histVars, homeVars
    <2>2. ReplayCovers'
        <3>1. \A u \in Tx : TxLen(u)' = TxLen(u) /\ \A k : TxBlock(u, k)' = TxBlock(u, k)
            BY <2>1, TxSame
        <3>2. \A u \in Tx : InLog(u, ring)' <=> InLog(u, ring)
            BY <2>1, <3>1 DEF InLog, Whole, Cell
        <3>3. \A u \in Tx : Reading(u)' <=> Reading(u)
            BY <2>1, <3>1 DEF Reading, Cell
        <3>4. \A u \in Tx : Left(u)' <=> Left(u)
            BY <3>2, <3>3 DEF Left
        <3>5. \A u \in Tx : (FreeLeft(u)' <=> FreeLeft(u)) /\ (MediaOk(u)' <=> MediaOk(u))
            BY <2>1 DEF FreeLeft, Free, MediaOk, Cell
        <3>6. \A u \in Tx : Owed(u)' <=> Owed(u)
            BY <2>1 DEF Owed, Acked, Seen
        <3> QED BY <2>1, <3>4, <3>5, <3>6 DEF ReplayCovers
    <2> QED BY <2>2 DEF ReplayCovers
<1> QED BY <1>0, <1>1, <1>2, <1>3, <1>4, ReplayCases

-----------------------------------------------------------------------------
(* Recovery is inductive                                                   *)

\* An unformatted volume is blank.
LEMMA MediaInit == Init => MediaInv
<1> SUFFICES ASSUME Init PROVE MediaInv
    OBVIOUS
<1>0. Blank # Torn /\ Blank.tx \notin Tx
    BY JournalAssumption DEF Blank, Torn
<1>1. LiveInMedia
    <2>1. \A x \in Pos : InFlight(x) = {}
        BY DEF Init, InFlight
    <2> QED BY <2>1 DEF Init, LiveInMedia
<1>2. Unformatted
    BY DEF Init, Unformatted
<1>3. HomeData
    BY DEF Init, HomeData
<1>4. Covered /\ TornCovered /\ ErasedClean
    BY <1>0 DEF Init, Covered, TornCovered, ErasedClean
<1>5. LiveOk /\ EraseReady /\ ReplayCovers
    BY DEF Init, LiveOk, EraseReady, ReplayCovers
<1> QED BY <1>1, <1>2, <1>3, <1>4, <1>5 DEF MediaInv

\* Every step keeps every commit either in the log or durable at home.
LEMMA MediaStep ==
    IInv /\ IInv' /\ SeenInv /\ LogInv /\ OrderInv /\ OrderInv' /\ MediaInv /\ [Next]_vars => MediaInv'
<1> SUFFICES ASSUME IInv, IInv', SeenInv, LogInv, OrderInv, OrderInv', MediaInv, [Next]_vars
             PROVE  MediaInv'
    OBVIOUS
<1>0. /\ Unanswered /\ OnlyShown /\ TableOk /\ NoClients /\ ApplyTx' /\ LiveInMedia /\ Unformatted /\ RlistIdle
    BY DEF SeenInv, OrderInv, MediaInv, LogInv
<1>1. LiveInMedia'
    BY <1>0, LiveInMediaStep
<1>2. Unformatted'
    BY <1>0, UnformattedStep
<1>3. ASSUME LogSound'
      PROVE  /\ HomeData' /\ Covered' /\ TornCovered' /\ LiveOk' /\ ErasedClean'
             /\ EraseReady' /\ ReplayCovers'
    <2>1. LogSound
        BY <1>3, TaintGrows DEF LogSound
    <2>2. /\ HomeData /\ Covered /\ TornCovered /\ LiveOk /\ ErasedClean /\ EraseReady /\ ReplayCovers
          /\ ReplayParses /\ NoReuse
        BY <2>1 DEF MediaInv, LogInv
    <2>3. SoundStep
        BY <1>0, <1>3, <2>1, <2>2 DEF SoundStep
    <2>4. HomeData'
        BY <1>0, <2>1, <2>2, HomeDataStep
    <2>5. Covered' /\ TornCovered'
        BY <2>2, <2>3, CoveredStep, TornCoveredStep
    <2>6. LiveOk' /\ ReplayCovers'
        BY <2>2, <2>3, LiveOkStep, ReplayCoversStep
    <2>7. ErasedClean' /\ EraseReady'
        BY <2>2, <2>3, ErasedCleanStep, EraseReadyStep
    <2> QED BY <2>4, <2>5, <2>6, <2>7
<1> QED BY <1>1, <1>2, <1>3 DEF MediaInv

\* In every reachable state the log or the home positions give a commit back.
LEMMA MediaInductive == Spec => []MediaInv
    BY MediaInit, MediaStep, OrderInductive, SeenInductive, LogInductive, Inductive, PTL DEF Spec

\* CompactLog frees the slots of a transaction only when its data is durable at
\* home: Flush has flushed the device's cache with the header, after the client
\* had applied its blocks.  From then on no crash finds a blank page, or data
\* that the transaction had replaced, at its positions.
THEOREM ErasedAreDurable == Spec => []ErasedDurable
<1>1. MediaInv => ErasedDurable
    BY DEF MediaInv, ErasedClean, MediaOk, ErasedDurable
<1> QED BY <1>1, MediaInductive, PTL

\* Whenever the journal runs, after any number of crashes, unloads and replays,
\* every acknowledged commit is read back at its home positions, or what a later
\* one wrote there, as long as the log is sound: no round or apply failed, no
\* empty transaction was committed, no slot that the durable header covers was
\* written again.
THEOREM CommitsSurvive == Spec => []NoLostCommitIfSound
<1>1. MediaInv => NoLostCommitIfSound
    BY DEF MediaInv, LiveOk, NoLostCommitIfSound, NoLostCommit, Acked
<1> QED BY <1>1, MediaInductive, PTL

\* After any crash, in Commit, Run, Flush, Apply or Replay itself, a transaction
\* is visible at all its positions or at none: the header makes it durable as a
\* whole, and Replay applies whole transactions in the order of the commits.
THEOREM CommitsAtomic == Spec => []AllOrNothing
<1>1. MediaInv => AllOrNothing
    BY DEF MediaInv, LiveOk, AllOrNothing, Seen
<1> QED BY <1>1, MediaInductive, PTL
=============================================================================
