----------------------------- MODULE OrderProofs -----------------------------
(***************************************************************************)
(* The log is kept in the order of the commits: OrderInv is inductive.  The *)
(* slots of a transaction lie in a row, a block has none behind it of a    *)
(* transaction that had returned before its own began, CompactLog and      *)
(* Replay work through the log from its front, and what Replay applies is  *)
(* one whole transaction.  From it follows that commits which do not       *)
(* overlap leak no slot; RecoveryProofs builds on it, too.                 *)
(***************************************************************************)
EXTENDS JournalProofs

-----------------------------------------------------------------------------
(* Clients and transactions                                                *)

\* A client that has returned stays so, and a transaction that was committed or
\* refused keeps its data and its history.
LEMMA TxHistory ==
    ASSUME IInv, [Next]_vars, NEW u \in Tx
    PROVE  /\ pc[u] = "returned" => pc'[u] = "returned"
           /\ txState[u] \notin {"None", "New"} =>
                 /\ blocks'[u] = blocks[u] /\ pred'[u] = pred[u]
                 /\ txState'[u] \notin {"None", "New"}
<1>0. TypeOK /\ TxOk /\ QueueOk
    BY DEF IInv
<1> DEFINE Same == /\ pc[u] = "returned" => pc'[u] = "returned"
                   /\ txState[u] \notin {"None", "New"} =>
                         /\ blocks'[u] = blocks[u] /\ pred'[u] = pred[u]
                         /\ txState'[u] \notin {"None", "New"}
<1> USE <1>0 DEF mountVars, tableVars, threadVars, txVars, homeVars, histVars
<1>1. ASSUME NEW t \in Tx, BeginTx(t) PROVE Same
    BY <1>1 DEF BeginTx, TypeOK, TxOk
<1>2. ASSUME NEW t \in Tx, NEW page \in Pages, Write(t, page) PROVE Same
    BY <1>2 DEF Write, TypeOK
<1>3. ASSUME NEW t \in Tx, Abandon(t) PROVE Same
    BY <1>3 DEF Abandon, TypeOK
<1>4. ASSUME NEW t \in Tx, Commit(t) PROVE Same
    BY <1>4 DEF Commit, TypeOK
<1>5. ASSUME NEW t \in Tx, CommitRefused(t) PROVE Same
    BY <1>5 DEF CommitRefused, TypeOK
<1>6. ASSUME NEW t \in Tx, CommitFailed(t) PROVE Same
    BY <1>6 DEF CommitFailed, TypeOK
<1>7. ASSUME NEW t \in Tx, Apply(t) PROVE Same
    BY <1>7 DEF Apply, TypeOK
<1>8. ASSUME NEW t \in Tx, ApplyDone(t) PROVE Same
    BY <1>8 DEF ApplyDone, TypeOK
<1>9. ASSUME NEW t \in Tx, ApplyFailed(t) PROVE Same
    BY <1>9 DEF ApplyFailed, TypeOK
<1>10. ASSUME NEW t \in Tx, EraseTx(t) PROVE Same
    BY <1>10 DEF EraseTx, TypeOK
<1>11. ASSUME CheckStopping PROVE Same
    BY <1>11 DEF CheckStopping, TypeOK
<1>12. ASSUME NoWork PROVE Same
    BY <1>12 DEF NoWork, TypeOK
<1>13. ASSUME TakeBatch PROVE Same
    BY <1>13 DEF TakeBatch, TypeOK
<1>14. ASSUME WriteTx PROVE Same
    BY <1>14 DEF WriteTx, TypeOK
<1>15. ASSUME NEW n \in 0 .. Capacity, WriteTxFail(n) PROVE Same
    <2>1. /\ UNCHANGED <<blocks, pred, pc>>
          /\ txState' = [txState EXCEPT ![batch[nwritten + 1]] = "Canceled"]
        BY <1>15 DEF WriteTxFail
    <2> QED BY <2>1 DEF TypeOK
<1>16. ASSUME FlushBlocks PROVE Same
    BY <1>16 DEF FlushBlocks, TypeOK
<1>17. ASSUME CompleteTx PROVE Same
    <2>1. /\ UNCHANGED <<blocks, pred, pc>>
          /\ txState' = [txState EXCEPT ![Head(batch)] = Outcome]
        BY <1>17 DEF CompleteTx
    <2> QED BY <2>1 DEF TypeOK, Outcome
<1>18. ASSUME RoundDone PROVE Same
    BY <1>18 DEF RoundDone, TypeOK
<1>19. ASSUME FlushHeader PROVE Same
    BY <1>19 DEF FlushHeader, TypeOK
<1>20. ASSUME FlushHeaderDone PROVE Same
    BY <1>20 DEF FlushHeaderDone, TypeOK
<1>21. ASSUME NEW t \in Tx, CompactTx(t) PROVE Same
    BY <1>21 DEF CompactTx, TypeOK
<1>22. ASSUME CompactDone PROVE Same
    BY <1>22 DEF CompactDone, FlushReturn, TypeOK
<1>23. ASSUME FlushFailed PROVE Same
    BY <1>23 DEF FlushFailed, FlushReturn, TypeOK
<1>24. ASSUME Format PROVE Same
    BY <1>24 DEF Format, TypeOK
<1>25. ASSUME LoadHeader PROVE Same
    BY <1>25 DEF LoadHeader, TypeOK
<1>26. ASSUME ReplayBlock PROVE Same
    BY <1>26 DEF ReplayBlock, StartRunning, TypeOK
<1>27. ASSUME ReplayApplied PROVE Same
    BY <1>27 DEF ReplayApplied, TypeOK
<1>28. ASSUME ReplayDone PROVE Same
    BY <1>28 DEF ReplayDone, StartRunning, TypeOK
<1>29. ASSUME ReplayFailed PROVE Same
    BY <1>29 DEF ReplayFailed, TypeOK
<1>30. ASSUME Unload PROVE Same
    BY <1>30 DEF Unload, TypeOK
<1>31. ASSUME UnloadFlush PROVE Same
    BY <1>31 DEF UnloadFlush, CancelQueued, TypeOK
<1>32. ASSUME UnloadNoFlush PROVE Same
    BY <1>32 DEF UnloadNoFlush, CancelQueued, TypeOK
<1>33. ASSUME Destroy PROVE Same
    <2>1. /\ UNCHANGED <<blocks, pred, txState>>
          /\ pc[u] = "returned" => pc'[u] = "returned"
        BY <1>33 DEF Destroy, Forget, Active
    <2> QED BY <2>1
<1>34. ASSUME Crash PROVE Same
    <2>1. /\ UNCHANGED <<blocks, pred, txState>>
          /\ pc[u] = "returned" => pc'[u] = "returned"
        BY <1>34 DEF Crash, Forget, Active
    <2> QED BY <2>1
<1>35. ASSUME UNCHANGED vars PROVE Same
    BY <1>35 DEF vars, TypeOK
<1> QED
    BY <1>1, <1>2, <1>3, <1>4, <1>5, <1>6, <1>7, <1>8, <1>9, <1>10, <1>11,
       <1>12, <1>13, <1>14, <1>15, <1>16, <1>17, <1>18, <1>19, <1>20, <1>21, <1>22,
       <1>23, <1>24, <1>25, <1>26, <1>27, <1>28, <1>29, <1>30, <1>31, <1>32, <1>33,
       <1>34, <1>35 DEF Next, Client, CommitTail, Thread, Flush, Mount

\* Only Commit looks at who has returned.
LEMMA PredStep == [Next]_vars => pred' = pred \/ \E t \in Tx : Commit(t)
<1> SUFFICES ASSUME [Next]_vars PROVE pred' = pred \/ \E t \in Tx : Commit(t)
    OBVIOUS
<1> USE DEF mountVars, tableVars, threadVars, txVars, homeVars, histVars
<1>1. ASSUME NEW t \in Tx, BeginTx(t) PROVE pred' = pred \/ \E s \in Tx : Commit(s)
    BY <1>1 DEF BeginTx
<1>2. ASSUME NEW t \in Tx, NEW page \in Pages, Write(t, page) PROVE pred' = pred \/ \E s \in Tx : Commit(s)
    BY <1>2 DEF Write
<1>3. ASSUME NEW t \in Tx, Abandon(t) PROVE pred' = pred \/ \E s \in Tx : Commit(s)
    BY <1>3 DEF Abandon
<1>4. ASSUME NEW t \in Tx, Commit(t) PROVE pred' = pred \/ \E s \in Tx : Commit(s)
    BY <1>4
<1>5. ASSUME NEW t \in Tx, CommitRefused(t) PROVE pred' = pred \/ \E s \in Tx : Commit(s)
    BY <1>5 DEF CommitRefused
<1>6. ASSUME NEW t \in Tx, CommitFailed(t) PROVE pred' = pred \/ \E s \in Tx : Commit(s)
    BY <1>6 DEF CommitFailed
<1>7. ASSUME NEW t \in Tx, Apply(t) PROVE pred' = pred \/ \E s \in Tx : Commit(s)
    BY <1>7 DEF Apply
<1>8. ASSUME NEW t \in Tx, ApplyDone(t) PROVE pred' = pred \/ \E s \in Tx : Commit(s)
    BY <1>8 DEF ApplyDone
<1>9. ASSUME NEW t \in Tx, ApplyFailed(t) PROVE pred' = pred \/ \E s \in Tx : Commit(s)
    BY <1>9 DEF ApplyFailed
<1>10. ASSUME NEW t \in Tx, EraseTx(t) PROVE pred' = pred \/ \E s \in Tx : Commit(s)
    BY <1>10 DEF EraseTx
<1>11. ASSUME CheckStopping PROVE pred' = pred \/ \E s \in Tx : Commit(s)
    BY <1>11 DEF CheckStopping
<1>12. ASSUME NoWork PROVE pred' = pred \/ \E s \in Tx : Commit(s)
    BY <1>12 DEF NoWork
<1>13. ASSUME TakeBatch PROVE pred' = pred \/ \E s \in Tx : Commit(s)
    BY <1>13 DEF TakeBatch
<1>14. ASSUME WriteTx PROVE pred' = pred \/ \E s \in Tx : Commit(s)
    BY <1>14 DEF WriteTx
<1>15. ASSUME NEW n \in 0 .. Capacity, WriteTxFail(n) PROVE pred' = pred \/ \E s \in Tx : Commit(s)
    BY <1>15 DEF WriteTxFail
<1>16. ASSUME FlushBlocks PROVE pred' = pred \/ \E s \in Tx : Commit(s)
    BY <1>16 DEF FlushBlocks
<1>17. ASSUME CompleteTx PROVE pred' = pred \/ \E s \in Tx : Commit(s)
    BY <1>17 DEF CompleteTx
<1>18. ASSUME RoundDone PROVE pred' = pred \/ \E s \in Tx : Commit(s)
    BY <1>18 DEF RoundDone
<1>19. ASSUME FlushHeader PROVE pred' = pred \/ \E s \in Tx : Commit(s)
    BY <1>19 DEF FlushHeader
<1>20. ASSUME FlushHeaderDone PROVE pred' = pred \/ \E s \in Tx : Commit(s)
    BY <1>20 DEF FlushHeaderDone
<1>21. ASSUME NEW t \in Tx, CompactTx(t) PROVE pred' = pred \/ \E s \in Tx : Commit(s)
    BY <1>21 DEF CompactTx
<1>22. ASSUME CompactDone PROVE pred' = pred \/ \E s \in Tx : Commit(s)
    BY <1>22 DEF CompactDone, FlushReturn
<1>23. ASSUME FlushFailed PROVE pred' = pred \/ \E s \in Tx : Commit(s)
    BY <1>23 DEF FlushFailed, FlushReturn
<1>24. ASSUME Format PROVE pred' = pred \/ \E s \in Tx : Commit(s)
    BY <1>24 DEF Format
<1>25. ASSUME LoadHeader PROVE pred' = pred \/ \E s \in Tx : Commit(s)
    BY <1>25 DEF LoadHeader
<1>26. ASSUME ReplayBlock PROVE pred' = pred \/ \E s \in Tx : Commit(s)
    BY <1>26 DEF ReplayBlock, StartRunning
<1>27. ASSUME ReplayApplied PROVE pred' = pred \/ \E s \in Tx : Commit(s)
    BY <1>27 DEF ReplayApplied
<1>28. ASSUME ReplayDone PROVE pred' = pred \/ \E s \in Tx : Commit(s)
    BY <1>28 DEF ReplayDone, StartRunning
<1>29. ASSUME ReplayFailed PROVE pred' = pred \/ \E s \in Tx : Commit(s)
    BY <1>29 DEF ReplayFailed
<1>30. ASSUME Unload PROVE pred' = pred \/ \E s \in Tx : Commit(s)
    BY <1>30 DEF Unload
<1>31. ASSUME UnloadFlush PROVE pred' = pred \/ \E s \in Tx : Commit(s)
    BY <1>31 DEF UnloadFlush, CancelQueued
<1>32. ASSUME UnloadNoFlush PROVE pred' = pred \/ \E s \in Tx : Commit(s)
    BY <1>32 DEF UnloadNoFlush, CancelQueued
<1>33. ASSUME Destroy PROVE pred' = pred \/ \E s \in Tx : Commit(s)
    BY <1>33 DEF Destroy, Forget
<1>34. ASSUME Crash PROVE pred' = pred \/ \E s \in Tx : Commit(s)
    BY <1>34 DEF Crash, Forget
<1>35. ASSUME UNCHANGED vars PROVE pred' = pred \/ \E s \in Tx : Commit(s)
    BY <1>35 DEF vars
<1> QED
    BY <1>1, <1>2, <1>3, <1>4, <1>5, <1>6, <1>7, <1>8, <1>9, <1>10, <1>11,
       <1>12, <1>13, <1>14, <1>15, <1>16, <1>17, <1>18, <1>19, <1>20, <1>21, <1>22,
       <1>23, <1>24, <1>25, <1>26, <1>27, <1>28, <1>29, <1>30, <1>31, <1>32, <1>33,
       <1>34, <1>35 DEF Next, Client, CommitTail, Thread, Flush, Mount

\* What had returned when a transaction began stays returned and committed.
LEMMA PredOkStep == IInv /\ PredOk /\ [Next]_vars => PredOk'
<1> SUFFICES ASSUME IInv, PredOk, [Next]_vars PROVE PredOk'
    OBVIOUS
<1>1. pred \in [Tx -> SUBSET Tx]
    BY DEF IInv, TypeOK
<1>2. \A u \in Tx : pc[u] = "returned" /\ txState[u] = "Commited" =>
                    pc'[u] = "returned" /\ txState'[u] = "Commited"
    BY TxHistory, QueueStep DEF Decided
<1>3. CASE pred' = pred
    <2>1. \A t \in Tx : \A u \in pred[t] : u \in Tx
        BY <1>1
    <2> QED BY <1>2, <1>3, <2>1 DEF PredOk
<1>4. CASE \E t \in Tx : Commit(t)
    <2>1. PICK t \in Tx : Commit(t)
        BY <1>4
    <2>2. /\ pred' = [pred EXCEPT ![t] = Acked] /\ pc[t] = "open"
        BY <2>1 DEF Commit
    <2>3. \A s \in Tx : s # t => pred'[s] = pred[s]
        BY <1>1, <2>2
    <2>4. pred'[t] = Acked
        BY <1>1, <2>2
    <2>5. t \notin Acked /\ \A u \in Acked : u \in Tx /\ pc[u] = "returned" /\ txState[u] = "Commited"
        BY <2>2 DEF Acked
    <2>6. \A s \in Tx : \A u \in pred[s] : u \in Tx
        BY <1>1
    <2>7. ASSUME NEW s \in Tx, s # t
          PROVE  /\ s \notin pred'[s]
                 /\ \A u \in pred'[s] : pc'[u] = "returned" /\ txState'[u] = "Commited"
        BY <1>2, <2>3, <2>6, <2>7 DEF PredOk
    <2>8. /\ t \notin pred'[t]
          /\ \A u \in pred'[t] : pc'[u] = "returned" /\ txState'[u] = "Commited"
        BY <1>2, <2>4, <2>5
    <2> QED BY <2>7, <2>8 DEF PredOk
<1> QED BY <1>3, <1>4, PredStep

\* The table keeps the committed transactions of clients that are still at work.
LEMMA TableStep == IInv /\ TableOk /\ [Next]_vars => TableOk'
<1> SUFFICES ASSUME IInv, TableOk, [Next]_vars PROVE TableOk'
    OBVIOUS
<1>0. TypeOK /\ Modes /\ QueueOk /\ TxOk
    BY DEF IInv
<1>f. ASSUME UNCHANGED <<txTable, txState, pc>> PROVE TableOk'
    BY <1>f DEF TableOk
<1> USE <1>0 DEF mountVars, tableVars, threadVars, txVars, homeVars, histVars
<1>1. ASSUME NEW t \in Tx, BeginTx(t) PROVE TableOk'
    BY <1>1 DEF BeginTx, TableOk, TypeOK, TxOk
<1>2. ASSUME NEW t \in Tx, NEW page \in Pages, Write(t, page) PROVE TableOk'
    BY <1>2, <1>f DEF Write
<1>3. ASSUME NEW t \in Tx, Abandon(t) PROVE TableOk'
    BY <1>3 DEF Abandon, TableOk, TypeOK
<1>4. ASSUME NEW t \in Tx, Commit(t) PROVE TableOk'
    BY <1>4 DEF Commit, TableOk, TypeOK
<1>5. ASSUME NEW t \in Tx, CommitRefused(t) PROVE TableOk'
    BY <1>5 DEF CommitRefused, TableOk, TypeOK
<1>6. ASSUME NEW t \in Tx, CommitFailed(t) PROVE TableOk'
    BY <1>6 DEF CommitFailed, TableOk, TypeOK
<1>7. ASSUME NEW t \in Tx, Apply(t) PROVE TableOk'
    BY <1>7 DEF Apply, TableOk, TypeOK
<1>8. ASSUME NEW t \in Tx, ApplyDone(t) PROVE TableOk'
    BY <1>8 DEF ApplyDone, TableOk, TypeOK
<1>9. ASSUME NEW t \in Tx, ApplyFailed(t) PROVE TableOk'
    BY <1>9 DEF ApplyFailed, TableOk, TypeOK
<1>10. ASSUME NEW t \in Tx, EraseTx(t) PROVE TableOk'
    BY <1>10 DEF EraseTx, TableOk, TypeOK
<1>11. ASSUME CheckStopping PROVE TableOk'
    BY <1>11, <1>f DEF CheckStopping
<1>12. ASSUME NoWork PROVE TableOk'
    BY <1>12, <1>f DEF NoWork
<1>13. ASSUME TakeBatch PROVE TableOk'
    BY <1>13, <1>f DEF TakeBatch
<1>14. ASSUME WriteTx PROVE TableOk'
    BY <1>14, <1>f DEF WriteTx
<1>15. ASSUME NEW n \in 0 .. Capacity, WriteTxFail(n) PROVE TableOk'
    <2> DEFINE u == batch[nwritten + 1]
    <2>1. /\ txState' = [txState EXCEPT ![u] = "Canceled"] /\ pc' = pc
          /\ txTable' = txTable \ {u} /\ tpc = "write" /\ nwritten < Len(batch)
        BY <1>15 DEF WriteTxFail
    <2>2. u \in Tx /\ txState[u] \notin {"Commited", "New"}
        <3>1. /\ nwritten \in Nat /\ Len(batch) \in Nat /\ DOMAIN batch = 1 .. Len(batch)
              /\ batch \in Seq(Tx)
            BY DEF TypeOK
        <3>2. nwritten + 1 \in DOMAIN batch
            BY <2>1, <3>1
        <3> QED BY <3>1, <3>2 DEF QueueOk
    <2> HIDE DEF u
    <2> QED BY <2>1, <2>2 DEF TableOk, TypeOK
<1>16. ASSUME FlushBlocks PROVE TableOk'
    BY <1>16, <1>f DEF FlushBlocks
<1>17. ASSUME CompleteTx PROVE TableOk'
    <2> DEFINE u == Head(batch)
    <2>1. /\ txState' = [txState EXCEPT ![u] = Outcome] /\ pc' = pc
          /\ txTable' = IF berr THEN txTable \ {u} ELSE txTable
        BY <1>17 DEF CompleteTx
    <2>2. /\ u \in Tx /\ txState[u] \notin {"Commited", "New"} /\ (~berr => u \in txTable)
        <3>1. batch \in Seq(Tx) /\ batch # <<>>
            BY <1>17 DEF CompleteTx, TypeOK
        <3>2. 1 \in DOMAIN batch /\ u = batch[1] /\ u \in Tx
            BY <3>1
        <3> QED BY <3>2 DEF QueueOk
    <2> HIDE DEF u
    <2> QED BY <2>1, <2>2 DEF TableOk, TypeOK, Outcome
<1>18. ASSUME RoundDone PROVE TableOk'
    BY <1>18, <1>f DEF RoundDone
<1>19. ASSUME FlushHeader PROVE TableOk'
    BY <1>19, <1>f DEF FlushHeader
<1>20. ASSUME FlushHeaderDone PROVE TableOk'
    BY <1>20, <1>f DEF FlushHeaderDone
<1>21. ASSUME NEW t \in Tx, CompactTx(t) PROVE TableOk'
    BY <1>21, <1>f DEF CompactTx
<1>22. ASSUME CompactDone PROVE TableOk'
    BY <1>22, <1>f DEF CompactDone
<1>23. ASSUME FlushFailed PROVE TableOk'
    BY <1>23, <1>f DEF FlushFailed
<1>24. ASSUME Format PROVE TableOk'
    BY <1>24, <1>f DEF Format
<1>25. ASSUME LoadHeader PROVE TableOk'
    BY <1>25, <1>f DEF LoadHeader
<1>26. ASSUME ReplayBlock PROVE TableOk'
    BY <1>26, <1>f DEF ReplayBlock
<1>27. ASSUME ReplayApplied PROVE TableOk'
    BY <1>27, <1>f DEF ReplayApplied
<1>28. ASSUME ReplayDone PROVE TableOk'
    BY <1>28, <1>f DEF ReplayDone
<1>29. ASSUME ReplayFailed PROVE TableOk'
    BY <1>29, <1>f DEF ReplayFailed
<1>30. ASSUME Unload PROVE TableOk'
    BY <1>30, <1>f DEF Unload
<1>31. ASSUME UnloadFlush PROVE TableOk'
    <2>1. /\ pc' = pc
          /\ txState' = [s \in Tx |-> IF s \in Range(txList) THEN "Canceled" ELSE txState[s]]
          /\ txTable' = txTable \ Range(txList)
        BY <1>31 DEF UnloadFlush, CancelQueued
    <2>2. \A s \in Range(txList) : txState[s] = "Commiting"
        BY DEF QueueOk, Range
    <2> QED BY <2>1, <2>2 DEF TableOk
<1>32. ASSUME UnloadNoFlush PROVE TableOk'
    <2>1. /\ pc' = pc
          /\ txState' = [s \in Tx |-> IF s \in Range(txList) THEN "Canceled" ELSE txState[s]]
          /\ txTable' = txTable \ Range(txList)
        BY <1>32 DEF UnloadNoFlush, CancelQueued
    <2>2. \A s \in Range(txList) : txState[s] = "Commiting"
        BY DEF QueueOk, Range
    <2> QED BY <2>1, <2>2 DEF TableOk
<1>33. ASSUME Destroy PROVE TableOk'
    <2>1. /\ txTable' = {} /\ txState' = txState
          /\ \A s \in Tx : pc'[s] = IF s \in Active THEN "lost" ELSE pc[s]
        BY <1>33 DEF Destroy, Forget
    <2> QED BY <2>1 DEF TableOk, Active
<1>34. ASSUME Crash PROVE TableOk'
    <2>1. /\ txTable' = {} /\ txState' = txState
          /\ \A s \in Tx : pc'[s] = IF s \in Active THEN "lost" ELSE pc[s]
        BY <1>34 DEF Crash, Forget
    <2> QED BY <2>1 DEF TableOk, Active
<1>35. ASSUME UNCHANGED vars PROVE TableOk'
    BY <1>35, <1>f DEF vars
<1> QED
    BY <1>1, <1>2, <1>3, <1>4, <1>5, <1>6, <1>7, <1>8, <1>9, <1>10, <1>11,
       <1>12, <1>13, <1>14, <1>15, <1>16, <1>17, <1>18, <1>19, <1>20, <1>21, <1>22,
       <1>23, <1>24, <1>25, <1>26, <1>27, <1>28, <1>29, <1>30, <1>31, <1>32, <1>33,
       <1>34, <1>35 DEF Next, Client, CommitTail, Thread, Flush, Mount

\* CompactLog empties TxToErase before Run reports the next commit, so what had
\* returned before a committed transaction began is not waiting to be erased.
LEMMA EraseOrderStep == IInv /\ PredOk /\ EraseOrder /\ [Next]_vars => EraseOrder'
<1> SUFFICES ASSUME IInv, PredOk, EraseOrder, [Next]_vars PROVE EraseOrder'
    OBVIOUS
<1>0. TypeOK /\ Modes /\ QueueOk /\ TxOk
    BY DEF IInv
<1> DEFINE Reported(u) == \/ txState[u] = "Commited"
                          \/ tpc = "complete" /\ ~berr /\ \E i \in DOMAIN batch : batch[i] = u
<1>f. ASSUME \A u \in txTable' : Reported(u)' => u \in txTable /\ Reported(u),
             toErase' \subseteq toErase
      PROVE  EraseOrder'
    <2> SUFFICES ASSUME NEW u \in txTable', Reported(u)' PROVE toErase' \cap pred'[u] = {}
        BY DEF EraseOrder
    <2>1. u \in txTable /\ Reported(u) /\ u \in Tx
        BY <1>f, <1>0 DEF TypeOK
    <2>2. txState[u] \notin {"None", "New"}
        BY <2>1, <1>0 DEF QueueOk
    <2>3. pred'[u] = pred[u]
        BY <2>1, <2>2, TxHistory
    <2> QED BY <1>f, <2>1, <2>3 DEF EraseOrder
<1>e. toErase' = {} => EraseOrder'
    BY DEF EraseOrder
<1> USE <1>0 DEF mountVars, tableVars, threadVars, txVars, homeVars, histVars
<1>1. ASSUME NEW t \in Tx, BeginTx(t) PROVE EraseOrder'
    <2>1. \A u \in txTable' : Reported(u)' => u \in txTable /\ Reported(u)
        BY <1>1 DEF BeginTx, TypeOK, TxOk, QueueOk
    <2> QED BY <1>1, <1>f, <2>1 DEF BeginTx
<1>2. ASSUME NEW t \in Tx, NEW page \in Pages, Write(t, page) PROVE EraseOrder'
    BY <1>2, <1>f DEF Write
<1>3. ASSUME NEW t \in Tx, Abandon(t) PROVE EraseOrder'
    BY <1>3, <1>f DEF Abandon
<1>4. ASSUME NEW t \in Tx, Commit(t) PROVE EraseOrder'
    <2>1. \A u \in txTable' : Reported(u)' => u \in txTable /\ Reported(u)
        BY <1>4 DEF Commit, TypeOK
    <2> QED BY <1>4, <1>f, <2>1 DEF Commit
<1>5. ASSUME NEW t \in Tx, CommitRefused(t) PROVE EraseOrder'
    <2>1. \A u \in txTable' : Reported(u)' => u \in txTable /\ Reported(u)
        BY <1>5 DEF CommitRefused, TypeOK
    <2> QED BY <1>5, <1>f, <2>1 DEF CommitRefused
<1>6. ASSUME NEW t \in Tx, CommitFailed(t) PROVE EraseOrder'
    BY <1>6, <1>f DEF CommitFailed
<1>7. ASSUME NEW t \in Tx, Apply(t) PROVE EraseOrder'
    BY <1>7, <1>f DEF Apply
<1>8. ASSUME NEW t \in Tx, ApplyDone(t) PROVE EraseOrder'
    BY <1>8, <1>f DEF ApplyDone
<1>9. ASSUME NEW t \in Tx, ApplyFailed(t) PROVE EraseOrder'
    BY <1>9, <1>f DEF ApplyFailed
<1>10. ASSUME NEW t \in Tx, EraseTx(t) PROVE EraseOrder'
    <2>1. \A u \in txTable' : Reported(u)' => u \in txTable /\ Reported(u)
        BY <1>10 DEF EraseTx
    <2>2. CASE toErase' = toErase
        BY <1>f, <2>1, <2>2
    <2>3. CASE toErase' = toErase \cup {t}
        <3> SUFFICES ASSUME NEW u \in txTable', Reported(u)' PROVE toErase' \cap pred'[u] = {}
            BY DEF EraseOrder
        <3>1. u \in txTable /\ Reported(u) /\ u \in Tx /\ pred' = pred /\ pc[t] = "applied"
            BY <1>10, <2>1 DEF EraseTx, TypeOK
        <3>2. t \notin pred[u]
            BY <3>1 DEF PredOk
        <3> QED BY <2>3, <3>1, <3>2 DEF EraseOrder
    <2> QED BY <1>10, <2>2, <2>3 DEF EraseTx
<1>11. ASSUME CheckStopping PROVE EraseOrder'
    BY <1>11, <1>f DEF CheckStopping
<1>12. ASSUME NoWork PROVE EraseOrder'
    BY <1>12, <1>f DEF NoWork
<1>13. ASSUME TakeBatch PROVE EraseOrder'
    BY <1>13, <1>f DEF TakeBatch
<1>14. ASSUME WriteTx PROVE EraseOrder'
    BY <1>14, <1>f DEF WriteTx
<1>15. ASSUME NEW n \in 0 .. Capacity, WriteTxFail(n) PROVE EraseOrder'
    <2>1. /\ txState' = [txState EXCEPT ![batch[nwritten + 1]] = "Canceled"]
          /\ txTable' \subseteq txTable /\ berr' = TRUE /\ toErase' = toErase
        BY <1>15 DEF WriteTxFail
    <2>2. \A u \in txTable' : Reported(u)' => u \in txTable /\ Reported(u)
        BY <2>1 DEF TypeOK
    <2> QED BY <1>f, <2>1, <2>2
<1>16. ASSUME FlushBlocks PROVE EraseOrder'
    BY <1>16, <1>f DEF FlushBlocks
<1>17. ASSUME CompleteTx PROVE EraseOrder'
    <2>1. /\ txState' = [txState EXCEPT ![Head(batch)] = Outcome] /\ tpc = "complete"
          /\ txTable' \subseteq txTable /\ UNCHANGED <<tpc, berr, toErase>>
          /\ batch' = Tail(batch) /\ batch # <<>> /\ batch \in Seq(Tx)
        BY <1>17 DEF CompleteTx, TypeOK
    <2>2. Head(batch) = batch[1] /\ 1 \in DOMAIN batch
        BY <2>1
    <2>3. \A i \in DOMAIN batch' : i + 1 \in DOMAIN batch /\ batch'[i] = batch[i + 1]
        BY <2>1
    <2>4. ASSUME NEW u \in txTable', Reported(u)' PROVE u \in txTable /\ Reported(u)
        <3>1. CASE txState'[u] = "Commited"
            BY <2>1, <2>2, <3>1 DEF TypeOK, Outcome
        <3>2. CASE ~berr' /\ \E i \in DOMAIN batch' : batch'[i] = u
            BY <2>1, <2>3, <3>2
        <3> QED BY <2>1, <2>4, <3>1, <3>2
    <2> QED BY <1>f, <2>1, <2>4
<1>18. ASSUME RoundDone PROVE EraseOrder'
    BY <1>18, <1>f DEF RoundDone
<1>19. ASSUME FlushHeader PROVE EraseOrder'
    BY <1>19, <1>f DEF FlushHeader
<1>20. ASSUME FlushHeaderDone PROVE EraseOrder'
    BY <1>20, <1>f DEF FlushHeaderDone
<1>21. ASSUME NEW t \in Tx, CompactTx(t) PROVE EraseOrder'
    BY <1>21, <1>f DEF CompactTx
<1>22. ASSUME CompactDone PROVE EraseOrder'
    BY <1>22, <1>e DEF CompactDone
<1>23. ASSUME FlushFailed PROVE EraseOrder'
    <2>1. /\ UNCHANGED <<txState, batch, txTable, toErase>>
          /\ (tpc' = tpc /\ berr' = berr) \/ berr' = TRUE
        BY <1>23 DEF FlushFailed, FlushReturn
    <2> QED BY <1>f, <2>1
<1>24. ASSUME Format PROVE EraseOrder'
    BY <1>24, <1>f DEF Format
<1>25. ASSUME LoadHeader PROVE EraseOrder'
    BY <1>25, <1>f DEF LoadHeader
<1>26. ASSUME ReplayBlock PROVE EraseOrder'
    <2>1. UNCHANGED <<txState, batch, txTable, toErase, berr>> /\ (tpc' = tpc \/ tpc' # "complete")
        BY <1>26 DEF ReplayBlock, StartRunning
    <2> QED BY <1>f, <2>1
<1>27. ASSUME ReplayApplied PROVE EraseOrder'
    BY <1>27, <1>f DEF ReplayApplied
<1>28. ASSUME ReplayDone PROVE EraseOrder'
    BY <1>28, <1>f DEF ReplayDone, StartRunning
<1>29. ASSUME ReplayFailed PROVE EraseOrder'
    BY <1>29, <1>f DEF ReplayFailed
<1>30. ASSUME Unload PROVE EraseOrder'
    BY <1>30, <1>f DEF Unload
<1>31. ASSUME UnloadFlush PROVE EraseOrder'
    <2>1. /\ UNCHANGED <<batch, toErase>> /\ tpc' = "none"
          /\ txState' = [s \in Tx |-> IF s \in Range(txList) THEN "Canceled" ELSE txState[s]]
          /\ txTable' = txTable \ Range(txList)
        BY <1>31 DEF UnloadFlush, CancelQueued
    <2> QED BY <1>f, <2>1 DEF TypeOK
<1>32. ASSUME UnloadNoFlush PROVE EraseOrder'
    <2>1. /\ UNCHANGED <<batch, toErase>> /\ tpc' = "none"
          /\ txState' = [s \in Tx |-> IF s \in Range(txList) THEN "Canceled" ELSE txState[s]]
          /\ txTable' = txTable \ Range(txList)
        BY <1>32 DEF UnloadNoFlush, CancelQueued
    <2> QED BY <1>f, <2>1 DEF TypeOK
<1>33. ASSUME Destroy PROVE EraseOrder'
    BY <1>33, <1>e DEF Destroy, Forget
<1>34. ASSUME Crash PROVE EraseOrder'
    BY <1>34, <1>e DEF Crash, Forget
<1>35. ASSUME UNCHANGED vars PROVE EraseOrder'
    BY <1>35, <1>f DEF vars
<1> QED
    BY <1>1, <1>2, <1>3, <1>4, <1>5, <1>6, <1>7, <1>8, <1>9, <1>10, <1>11,
       <1>12, <1>13, <1>14, <1>15, <1>16, <1>17, <1>18, <1>19, <1>20, <1>21, <1>22,
       <1>23, <1>24, <1>25, <1>26, <1>27, <1>28, <1>29, <1>30, <1>31, <1>32, <1>33,
       <1>34, <1>35 DEF Next, Client, CommitTail, Thread, Flush, Mount

\* A block that WriteTx made stays one: its transaction keeps its data.
LEMMA GenuineKept ==
    ASSUME IInv, [Next]_vars, NEW b, Genuine(b)
    PROVE  Genuine(b)'
<1>1. CASE b \in {Blank, Torn}
    BY <1>1 DEF Genuine
<1>2. ASSUME NEW t \in Tx, txState[t] \notin {"None", "New"}, NEW k \in 1 .. TxLen(t), b = TxBlock(t, k)
      PROVE  Genuine(b)'
    <2>1. blocks'[t] = blocks[t] /\ txState'[t] \notin {"None", "New"}
        BY <1>2, TxHistory
    <2>2. TxBlock(t, k)' = TxBlock(t, k) /\ TxLen(t)' = TxLen(t)
        BY <2>1, TxSame
    <2> QED BY <1>2, <2>1, <2>2 DEF Genuine
<1> QED BY <1>1, <1>2 DEF Genuine

\* Only WriteTx makes blocks for the log, and Replay reads only what is there.
LEMMA GenuineStep == IInv /\ GenuineLog /\ [Next]_vars => GenuineLog'
<1> SUFFICES ASSUME IInv, GenuineLog, [Next]_vars PROVE GenuineLog'
    OBVIOUS
<1>0. TypeOK /\ Modes /\ QueueOk /\ TxOk
    BY DEF IInv
<1>a. /\ \A i \in Slot : \A b \in log[i] : Genuine(b)'
      /\ \A b : (\E k \in DOMAIN rlist : b = rlist[k]) => Genuine(b)'
    BY GenuineKept DEF GenuineLog
<1>c. ASSUME \A b : (\E k \in DOMAIN rlist' : b = rlist'[k]) => Genuine(b)'
      PROVE  \A k \in DOMAIN rlist' : Genuine(rlist[k])'
    <2> SUFFICES ASSUME NEW k \in DOMAIN rlist' PROVE Genuine(rlist[k])'
        OBVIOUS
    <2>1. PICK b : b = rlist'[k]
        OBVIOUS
    <2>2. Genuine(b)'
        BY <1>c, <2>1
    <2> QED BY <2>1, <2>2 DEF Genuine
<1>f. ASSUME log' = log, rlist' = rlist \/ rlist' = <<>> PROVE GenuineLog'
    <2>1. \A k \in DOMAIN rlist' : \E j \in DOMAIN rlist : rlist'[k] = rlist[j]
        BY <1>f
    <2> QED BY <1>a, <1>c, <1>f, <2>1 DEF GenuineLog
<1>b. ASSUME (tpc = "write" /\ nwritten = Len(batch)) \/ fpc = "blocks", NEW i, NEW b \in BatchBlock(i)
      PROVE  Genuine(b)'
    <2>1. PICK t \in Range(batch) : \E k \in {j \in DOMAIN indexList[t] : indexList[t][j] = i} : b = TxBlock(t, k)
        BY <1>b DEF BatchBlock
    <2>2. PICK j \in DOMAIN batch : batch[j] = t
        BY <2>1 DEF Range
    <2>3. t \in Tx /\ Placed(t)
        BY <1>b, <2>2, BatchPlaced
    <2>4. DOMAIN indexList[t] = 1 .. TxLen(t)
        BY <2>3, PlacedDomain
    <2>5. txState[t] \notin {"None", "New"}
        <3>1. txState[t] = "Commiting" \/ txState[t] = "Canceled"
            BY <1>0, <2>2 DEF QueueOk
        <3> QED BY <3>1
    <2>6. Genuine(b)
        BY <2>1, <2>3, <2>4, <2>5 DEF Genuine
    <2> QED BY <2>6, GenuineKept
<1>t. Genuine(Torn)'
    BY DEF Genuine
<1> USE <1>0 DEF mountVars, tableVars, threadVars, txVars, homeVars, histVars
<1>1. ASSUME NEW t \in Tx, BeginTx(t) PROVE GenuineLog'
    BY <1>1, <1>f DEF BeginTx
<1>2. ASSUME NEW t \in Tx, NEW page \in Pages, Write(t, page) PROVE GenuineLog'
    BY <1>2, <1>f DEF Write
<1>3. ASSUME NEW t \in Tx, Abandon(t) PROVE GenuineLog'
    BY <1>3, <1>f DEF Abandon
<1>4. ASSUME NEW t \in Tx, Commit(t) PROVE GenuineLog'
    BY <1>4, <1>f DEF Commit
<1>5. ASSUME NEW t \in Tx, CommitRefused(t) PROVE GenuineLog'
    BY <1>5, <1>f DEF CommitRefused
<1>6. ASSUME NEW t \in Tx, CommitFailed(t) PROVE GenuineLog'
    BY <1>6, <1>f DEF CommitFailed
<1>7. ASSUME NEW t \in Tx, Apply(t) PROVE GenuineLog'
    BY <1>7, <1>f DEF Apply
<1>8. ASSUME NEW t \in Tx, ApplyDone(t) PROVE GenuineLog'
    BY <1>8, <1>f DEF ApplyDone
<1>9. ASSUME NEW t \in Tx, ApplyFailed(t) PROVE GenuineLog'
    BY <1>9, <1>f DEF ApplyFailed
<1>10. ASSUME NEW t \in Tx, EraseTx(t) PROVE GenuineLog'
    BY <1>10, <1>f DEF EraseTx
<1>11. ASSUME CheckStopping PROVE GenuineLog'
    BY <1>11, <1>f DEF CheckStopping
<1>12. ASSUME NoWork PROVE GenuineLog'
    BY <1>12, <1>f DEF NoWork
<1>13. ASSUME TakeBatch PROVE GenuineLog'
    BY <1>13, <1>f DEF TakeBatch
<1>14. ASSUME WriteTx PROVE GenuineLog'
    BY <1>14, <1>f DEF WriteTx
<1>15. ASSUME NEW n \in 0 .. Capacity, WriteTxFail(n) PROVE GenuineLog'
    BY <1>15, <1>f DEF WriteTxFail
<1>16. ASSUME FlushBlocks PROVE GenuineLog'
    <2>1. /\ log' = [i \in Slot |-> log[i] \cup
                   (IF i \in BatchSlots THEN BatchBlock(i) \cup {Torn} ELSE {})]
          /\ rlist' = rlist /\ tpc = "write" /\ nwritten = Len(batch)
        BY <1>16 DEF FlushBlocks
    <2>2. \A i \in Slot : \A b \in log'[i] : Genuine(b)'
        BY <1>a, <1>b, <1>t, <2>1
    <2> QED BY <1>a, <1>c, <2>1, <2>2 DEF GenuineLog
<1>17. ASSUME CompleteTx PROVE GenuineLog'
    BY <1>17, <1>f DEF CompleteTx
<1>18. ASSUME RoundDone PROVE GenuineLog'
    BY <1>18, <1>f DEF RoundDone
<1>19. ASSUME FlushHeader PROVE GenuineLog'
    <2>1. /\ log' = [i \in Slot |-> IF i \in BatchSlots THEN BatchBlock(i) ELSE log[i]]
          /\ rlist' = rlist /\ fpc = "blocks"
        BY <1>19 DEF FlushHeader, WrittenBlock
    <2>2. \A i \in Slot : \A b \in log'[i] : Genuine(b)'
        BY <1>a, <1>b, <2>1
    <2> QED BY <1>a, <1>c, <2>1, <2>2 DEF GenuineLog
<1>20. ASSUME FlushHeaderDone PROVE GenuineLog'
    BY <1>20, <1>f DEF FlushHeaderDone
<1>21. ASSUME NEW t \in Tx, CompactTx(t) PROVE GenuineLog'
    BY <1>21, <1>f DEF CompactTx
<1>22. ASSUME CompactDone PROVE GenuineLog'
    BY <1>22, <1>f DEF CompactDone, FlushReturn
<1>23. ASSUME FlushFailed PROVE GenuineLog'
    BY <1>23, <1>f DEF FlushFailed, FlushReturn
<1>24. ASSUME Format PROVE GenuineLog'
    BY <1>24, <1>f DEF Format
<1>25. ASSUME LoadHeader PROVE GenuineLog'
    BY <1>25, <1>f DEF LoadHeader
<1>26. ASSUME ReplayBlock PROVE GenuineLog'
    <2>1. PICK b \in log[ring.start] :
             /\ log' = [log EXCEPT ![ring.start] = {b}]
             /\ rlist' = Append(rlist, b) \/ rlist' = <<>>
        BY <1>26 DEF ReplayBlock, StartRunning
    <2>2. ring.start \in Slot /\ log \in [Slot -> SUBSET Block] /\ rlist \in Seq(Block)
        BY DEF TypeOK, Ring
    <2>3. Genuine(b)'
        BY <1>a, <2>1, <2>2
    <2>4. \A i \in Slot : \A c \in log'[i] : Genuine(c)'
        BY <1>a, <2>1, <2>2, <2>3
    <2>5. \A k \in DOMAIN rlist' : rlist'[k] = b \/ \E j \in DOMAIN rlist : rlist'[k] = rlist[j]
        BY <2>1, <2>2
    <2>6. \A c : (\E k \in DOMAIN rlist' : c = rlist'[k]) => Genuine(c)'
        BY <1>a, <2>3, <2>5
    <2> QED BY <1>c, <2>4, <2>6 DEF GenuineLog
<1>27. ASSUME ReplayApplied PROVE GenuineLog'
    BY <1>27, <1>f DEF ReplayApplied
<1>28. ASSUME ReplayDone PROVE GenuineLog'
    BY <1>28, <1>f DEF ReplayDone, StartRunning
<1>29. ASSUME ReplayFailed PROVE GenuineLog'
    BY <1>29, <1>f DEF ReplayFailed
<1>30. ASSUME Unload PROVE GenuineLog'
    BY <1>30, <1>f DEF Unload
<1>31. ASSUME UnloadFlush PROVE GenuineLog'
    BY <1>31, <1>f DEF UnloadFlush, CancelQueued
<1>32. ASSUME UnloadNoFlush PROVE GenuineLog'
    BY <1>32, <1>f DEF UnloadNoFlush, CancelQueued
<1>33. ASSUME Destroy PROVE GenuineLog'
    BY <1>33, <1>f DEF Destroy, Forget
<1>34. ASSUME Crash PROVE GenuineLog'
    BY <1>34, <1>f DEF Crash, Forget
<1>35. ASSUME UNCHANGED vars PROVE GenuineLog'
    BY <1>35, <1>f DEF vars
<1> QED
    BY <1>1, <1>2, <1>3, <1>4, <1>5, <1>6, <1>7, <1>8, <1>9, <1>10, <1>11,
       <1>12, <1>13, <1>14, <1>15, <1>16, <1>17, <1>18, <1>19, <1>20, <1>21, <1>22,
       <1>23, <1>24, <1>25, <1>26, <1>27, <1>28, <1>29, <1>30, <1>31, <1>32, <1>33,
       <1>34, <1>35 DEF Next, Client, CommitTail, Thread, Flush, Mount

\* A round fails only where the log is not sound any more.
LEMMA NoErrorStep ==
    ASSUME ~berr, [Next]_vars, LogSound'
    PROVE  ~berr'
<1> USE DEF LogSound, mountVars, tableVars, threadVars, txVars, homeVars, histVars
<1>1. ASSUME NEW t \in Tx, BeginTx(t) PROVE ~berr'
    BY <1>1 DEF BeginTx
<1>2. ASSUME NEW t \in Tx, NEW page \in Pages, Write(t, page) PROVE ~berr'
    BY <1>2 DEF Write
<1>3. ASSUME NEW t \in Tx, Abandon(t) PROVE ~berr'
    BY <1>3 DEF Abandon
<1>4. ASSUME NEW t \in Tx, Commit(t) PROVE ~berr'
    BY <1>4 DEF Commit
<1>5. ASSUME NEW t \in Tx, CommitRefused(t) PROVE ~berr'
    BY <1>5 DEF CommitRefused
<1>6. ASSUME NEW t \in Tx, CommitFailed(t) PROVE ~berr'
    BY <1>6 DEF CommitFailed
<1>7. ASSUME NEW t \in Tx, Apply(t) PROVE ~berr'
    BY <1>7 DEF Apply
<1>8. ASSUME NEW t \in Tx, ApplyDone(t) PROVE ~berr'
    BY <1>8 DEF ApplyDone
<1>9. ASSUME NEW t \in Tx, ApplyFailed(t) PROVE ~berr'
    BY <1>9 DEF ApplyFailed
<1>10. ASSUME NEW t \in Tx, EraseTx(t) PROVE ~berr'
    BY <1>10 DEF EraseTx
<1>11. ASSUME CheckStopping PROVE ~berr'
    BY <1>11 DEF CheckStopping
<1>12. ASSUME NoWork PROVE ~berr'
    BY <1>12 DEF NoWork
<1>13. ASSUME TakeBatch PROVE ~berr'
    BY <1>13 DEF TakeBatch
<1>14. ASSUME WriteTx PROVE ~berr'
    BY <1>14 DEF WriteTx
<1>15. ASSUME NEW n \in 0 .. Capacity, WriteTxFail(n) PROVE ~berr'
    BY <1>15 DEF WriteTxFail
<1>16. ASSUME FlushBlocks PROVE ~berr'
    BY <1>16 DEF FlushBlocks
<1>17. ASSUME CompleteTx PROVE ~berr'
    BY <1>17 DEF CompleteTx
<1>18. ASSUME RoundDone PROVE ~berr'
    BY <1>18 DEF RoundDone
<1>19. ASSUME FlushHeader PROVE ~berr'
    BY <1>19 DEF FlushHeader
<1>20. ASSUME FlushHeaderDone PROVE ~berr'
    BY <1>20 DEF FlushHeaderDone
<1>21. ASSUME NEW t \in Tx, CompactTx(t) PROVE ~berr'
    BY <1>21 DEF CompactTx
<1>22. ASSUME CompactDone PROVE ~berr'
    BY <1>22 DEF CompactDone, FlushReturn
<1>23. ASSUME FlushFailed PROVE ~berr'
    BY <1>23 DEF FlushFailed, FlushReturn
<1>24. ASSUME Format PROVE ~berr'
    BY <1>24 DEF Format
<1>25. ASSUME LoadHeader PROVE ~berr'
    BY <1>25 DEF LoadHeader
<1>26. ASSUME ReplayBlock PROVE ~berr'
    BY <1>26 DEF ReplayBlock, StartRunning
<1>27. ASSUME ReplayApplied PROVE ~berr'
    BY <1>27 DEF ReplayApplied
<1>28. ASSUME ReplayDone PROVE ~berr'
    BY <1>28 DEF ReplayDone, StartRunning
<1>29. ASSUME ReplayFailed PROVE ~berr'
    BY <1>29 DEF ReplayFailed
<1>30. ASSUME Unload PROVE ~berr'
    BY <1>30 DEF Unload
<1>31. ASSUME UnloadFlush PROVE ~berr'
    BY <1>31 DEF UnloadFlush, CancelQueued
<1>32. ASSUME UnloadNoFlush PROVE ~berr'
    BY <1>32 DEF UnloadNoFlush, CancelQueued
<1>33. ASSUME Destroy PROVE ~berr'
    BY <1>33 DEF Destroy, Forget
<1>34. ASSUME Crash PROVE ~berr'
    BY <1>34 DEF Crash, Forget
<1>35. ASSUME UNCHANGED vars PROVE ~berr'
    BY <1>35 DEF vars
<1> QED
    BY <1>1, <1>2, <1>3, <1>4, <1>5, <1>6, <1>7, <1>8, <1>9, <1>10, <1>11,
       <1>12, <1>13, <1>14, <1>15, <1>16, <1>17, <1>18, <1>19, <1>20, <1>21, <1>22,
       <1>23, <1>24, <1>25, <1>26, <1>27, <1>28, <1>29, <1>30, <1>31, <1>32, <1>33,
       <1>34, <1>35 DEF Next, Client, CommitTail, Thread, Flush, Mount

-----------------------------------------------------------------------------
(* Who has slots, and who moves the ring                                   *)

\* Only WriteTx gives a transaction slots.
LEMMA PlacedBefore ==
    ASSUME IInv, [Next]_vars, NEW u \in Tx, Placed(u)'
    PROVE  \/ Placed(u) /\ indexList'[u] = indexList[u]
           \/ WriteTx /\ u = batch[nwritten + 1]
<1>0. TypeOK /\ Modes /\ QueueOk /\ TxOk
    BY DEF IInv
<1> DEFINE Had == Placed(u) /\ indexList'[u] = indexList[u]
<1> DEFINE Goal == Had \/ (WriteTx /\ u = batch[nwritten + 1])
<1>f. ASSUME UNCHANGED <<txTable, erased, txState, indexList, tpc, nwritten, batch, berr>>
      PROVE  Goal
    BY <1>f DEF Placed, InRound
<1>e. txTable' # {}
    BY DEF Placed
<1> USE <1>0 DEF mountVars, tableVars, threadVars, txVars, homeVars, histVars
<1>1. ASSUME NEW t \in Tx, BeginTx(t) PROVE Goal
    <2>1. UNCHANGED <<indexList, tpc, nwritten, batch, berr, erased>>
          /\ txTable' = txTable \cup {t} /\ txState' = [txState EXCEPT ![t] = "New"]
        BY <1>1 DEF BeginTx
    <2>2. txState[t] = "None"
        BY <1>1 DEF BeginTx, TxOk
    <2>3. ~InRound(t)
        BY <2>2, RoundUndecided
    <2>4. InRound(u)' <=> InRound(u)
        BY <2>1 DEF InRound
    <2>5. u # t
        BY <2>1, <2>3, <2>4 DEF Placed, TypeOK
    <2> QED BY <2>1, <2>4, <2>5 DEF Placed, TypeOK
<1>2. ASSUME NEW t \in Tx, NEW page \in Pages, Write(t, page) PROVE Goal
    BY <1>2, <1>f DEF Write
<1>3. ASSUME NEW t \in Tx, Abandon(t) PROVE Goal
    BY <1>3, <1>f DEF Abandon
<1>4. ASSUME NEW t \in Tx, Commit(t) PROVE Goal
    BY <1>4 DEF Commit, Placed, InRound, TypeOK
<1>5. ASSUME NEW t \in Tx, CommitRefused(t) PROVE Goal
    BY <1>5 DEF CommitRefused, Placed, InRound, TypeOK
<1>6. ASSUME NEW t \in Tx, CommitFailed(t) PROVE Goal
    BY <1>6, <1>f DEF CommitFailed
<1>7. ASSUME NEW t \in Tx, Apply(t) PROVE Goal
    BY <1>7, <1>f DEF Apply
<1>8. ASSUME NEW t \in Tx, ApplyDone(t) PROVE Goal
    BY <1>8, <1>f DEF ApplyDone
<1>9. ASSUME NEW t \in Tx, ApplyFailed(t) PROVE Goal
    BY <1>9, <1>f DEF ApplyFailed
<1>10. ASSUME NEW t \in Tx, EraseTx(t) PROVE Goal
    BY <1>10, <1>f DEF EraseTx
<1>11. ASSUME CheckStopping PROVE Goal
    BY <1>11 DEF CheckStopping, Placed, InRound
<1>12. ASSUME NoWork PROVE Goal
    BY <1>12 DEF NoWork, Placed, InRound
<1>13. ASSUME TakeBatch PROVE Goal
    BY <1>13 DEF TakeBatch, Placed, InRound
<1>14. ASSUME WriteTx PROVE Goal
    <2>1. /\ tpc = "write" /\ nwritten \in Nat /\ nwritten < Len(batch)
          /\ nwritten + 1 \in DOMAIN batch /\ DOMAIN batch = 1 .. Len(batch)
          /\ indexList' = [indexList EXCEPT ![batch[nwritten + 1]] =
                              Pushed(ring, TxLen(batch[nwritten + 1]))]
          /\ nwritten' = nwritten + 1
          /\ UNCHANGED <<txTable, erased, txState, tpc, batch, berr>>
        BY <1>14 DEF WriteTx, TypeOK
    <2>2. \A j \in 1 .. nwritten' : j \in 1 .. nwritten \/ j = nwritten + 1
        BY <2>1
    <2>3. CASE u # batch[nwritten + 1]
        <3>1. InRound(u)' => InRound(u)
            BY <2>1, <2>2, <2>3 DEF InRound
        <3>2. indexList'[u] = indexList[u]
            BY <2>1, <2>3 DEF TypeOK
        <3> QED BY <2>1, <3>1, <3>2 DEF Placed
    <2> QED BY <1>14, <2>3
<1>15. ASSUME NEW n \in 0 .. Capacity, WriteTxFail(n) PROVE Goal
    <2>1. /\ indexList' = [indexList EXCEPT ![batch[nwritten + 1]] = <<>>]
          /\ txState' = [txState EXCEPT ![batch[nwritten + 1]] = "Canceled"]
          /\ txTable' = txTable \ {batch[nwritten + 1]} /\ tpc' = "complete" /\ berr' = TRUE
          /\ erased' = erased
        BY <1>15 DEF WriteTxFail
    <2>2. ~InRound(u)'
        BY <2>1 DEF InRound
    <2> QED BY <2>1, <2>2 DEF Placed, TypeOK
<1>16. ASSUME FlushBlocks PROVE Goal
    BY <1>16 DEF FlushBlocks, Placed, InRound, TypeOK
<1>17. ASSUME CompleteTx PROVE Goal
    <2> DEFINE t == Head(batch)
    <2>1. /\ tpc = "complete" /\ t = batch[1] /\ 1 \in DOMAIN batch /\ t \in Tx
          /\ \A i \in DOMAIN Tail(batch) : i + 1 \in DOMAIN batch
                  /\ Tail(batch)[i] = batch[i + 1]
        BY <1>17 DEF CompleteTx, TypeOK
    <2>2. /\ txState' = [txState EXCEPT ![t] = Outcome]
          /\ txTable' = IF berr THEN txTable \ {t} ELSE txTable
          /\ batch' = Tail(batch)
          /\ UNCHANGED <<indexList, tpc, berr, erased>>
        BY <1>17 DEF CompleteTx
    <2> HIDE DEF t
    <2>3. InRound(u)' => InRound(u)
        BY <2>1, <2>2 DEF InRound
    <2>4. ~berr => InRound(t)
        BY <2>1 DEF InRound
    <2> QED BY <2>2, <2>3, <2>4 DEF Placed, TypeOK
<1>18. ASSUME RoundDone PROVE Goal
    BY <1>18 DEF RoundDone, Placed, InRound
<1>19. ASSUME FlushHeader PROVE Goal
    BY <1>19, <1>f DEF FlushHeader
<1>20. ASSUME FlushHeaderDone PROVE Goal
    BY <1>20, <1>f DEF FlushHeaderDone
<1>21. ASSUME NEW t \in Tx, CompactTx(t) PROVE Goal
    BY <1>21 DEF CompactTx, Placed, InRound
<1>22. ASSUME CompactDone PROVE Goal
    BY <1>22 DEF CompactDone, FlushReturn, Placed, InRound, Modes
<1>23. ASSUME FlushFailed PROVE Goal
    BY <1>23 DEF FlushFailed, FlushReturn, Placed, InRound, Modes
<1>24. ASSUME Format PROVE Goal
    BY <1>24, <1>f DEF Format
<1>25. ASSUME LoadHeader PROVE Goal
    BY <1>25, <1>e DEF LoadHeader, Modes
<1>26. ASSUME ReplayBlock PROVE Goal
    BY <1>26, <1>e DEF ReplayBlock, StartRunning, Modes
<1>27. ASSUME ReplayApplied PROVE Goal
    BY <1>27, <1>f DEF ReplayApplied
<1>28. ASSUME ReplayDone PROVE Goal
    BY <1>28, <1>e DEF ReplayDone, StartRunning, Modes
<1>29. ASSUME ReplayFailed PROVE Goal
    BY <1>29, <1>f DEF ReplayFailed
<1>30. ASSUME Unload PROVE Goal
    BY <1>30, <1>f DEF Unload
<1>31. ASSUME UnloadFlush PROVE Goal
    <2>1. /\ UNCHANGED <<indexList, batch, erased>> /\ tpc' = "none"
          /\ txTable' \subseteq txTable
          /\ txState'[u] \in {"Canceled", txState[u]}
        BY <1>31 DEF UnloadFlush, CancelQueued
    <2> QED BY <2>1 DEF Placed, InRound
<1>32. ASSUME UnloadNoFlush PROVE Goal
    <2>1. /\ UNCHANGED <<indexList, batch, erased>> /\ tpc' = "none"
          /\ txTable' \subseteq txTable
          /\ txState'[u] \in {"Canceled", txState[u]}
        BY <1>32 DEF UnloadNoFlush, CancelQueued
    <2> QED BY <2>1 DEF Placed, InRound
<1>33. ASSUME Destroy PROVE Goal
    BY <1>33, <1>e DEF Destroy, Forget
<1>34. ASSUME Crash PROVE Goal
    BY <1>34, <1>e DEF Crash, Forget
<1>35. ASSUME UNCHANGED vars PROVE Goal
    BY <1>35, <1>f DEF vars
<1> QED
    BY <1>1, <1>2, <1>3, <1>4, <1>5, <1>6, <1>7, <1>8, <1>9, <1>10, <1>11,
       <1>12, <1>13, <1>14, <1>15, <1>16, <1>17, <1>18, <1>19, <1>20, <1>21, <1>22,
       <1>23, <1>24, <1>25, <1>26, <1>27, <1>28, <1>29, <1>30, <1>31, <1>32, <1>33,
       <1>34, <1>35 DEF Next, Client, CommitTail, Thread, Flush, Mount

\* A transaction becomes durable in the log when its header is written.
LEMMA LoggedBefore ==
    ASSUME IInv, [Next]_vars, NEW u \in Tx, Logged(u)'
    PROVE  Logged(u) \/ FlushHeaderDone
<1>0. TypeOK /\ Modes /\ QueueOk /\ TxOk
    BY DEF IInv
<1> DEFINE Goal == Logged(u) \/ FlushHeaderDone
<1>f. ASSUME UNCHANGED <<txTable, erased, txState, batch, fpc, tpc, berr, mpc>>
      PROVE  Goal
    BY <1>f DEF Logged
<1>e. txTable' # {}
    BY DEF Logged
<1> USE <1>0 DEF mountVars, tableVars, threadVars, txVars, homeVars, histVars
<1>1. ASSUME NEW t \in Tx, BeginTx(t) PROVE Goal
    <2>1. UNCHANGED <<fpc, tpc, batch, berr, mpc, erased>>
          /\ txTable' = txTable \cup {t} /\ txState' = [txState EXCEPT ![t] = "New"]
        BY <1>1 DEF BeginTx
    <2>2. txState[t] = "None"
        BY <1>1 DEF BeginTx, TxOk
    <2>3. txState'[t] = "New" /\ (u # t => txState'[u] = txState[u])
        BY <2>1 DEF TypeOK
    <2>4. tpc = "complete" /\ ~berr => t \notin Range(batch)
        BY <2>2 DEF QueueOk, Range
    <2>5. fpc = "none"
        BY <1>1 DEF BeginTx, LockFree
    <2> QED BY <2>1, <2>3, <2>4, <2>5 DEF Logged
<1>2. ASSUME NEW t \in Tx, NEW page \in Pages, Write(t, page) PROVE Goal
    BY <1>2, <1>f DEF Write
<1>3. ASSUME NEW t \in Tx, Abandon(t) PROVE Goal
    BY <1>3, <1>f DEF Abandon
<1>4. ASSUME NEW t \in Tx, Commit(t) PROVE Goal
    BY <1>4 DEF Commit, Logged, TypeOK
<1>5. ASSUME NEW t \in Tx, CommitRefused(t) PROVE Goal
    BY <1>5 DEF CommitRefused, Logged, TypeOK
<1>6. ASSUME NEW t \in Tx, CommitFailed(t) PROVE Goal
    BY <1>6, <1>f DEF CommitFailed
<1>7. ASSUME NEW t \in Tx, Apply(t) PROVE Goal
    BY <1>7, <1>f DEF Apply
<1>8. ASSUME NEW t \in Tx, ApplyDone(t) PROVE Goal
    BY <1>8, <1>f DEF ApplyDone
<1>9. ASSUME NEW t \in Tx, ApplyFailed(t) PROVE Goal
    BY <1>9, <1>f DEF ApplyFailed
<1>10. ASSUME NEW t \in Tx, EraseTx(t) PROVE Goal
    BY <1>10, <1>f DEF EraseTx
<1>11. ASSUME CheckStopping PROVE Goal
    BY <1>11 DEF CheckStopping, Logged
<1>12. ASSUME NoWork PROVE Goal
    BY <1>12 DEF NoWork, Logged
<1>13. ASSUME TakeBatch PROVE Goal
    BY <1>13 DEF TakeBatch, Logged, Modes
<1>14. ASSUME WriteTx PROVE Goal
    BY <1>14, <1>f DEF WriteTx
<1>15. ASSUME NEW n \in 0 .. Capacity, WriteTxFail(n) PROVE Goal
    <2>1. /\ tpc = "write"
          /\ txState' = [txState EXCEPT ![batch[nwritten + 1]] = "Canceled"]
          /\ txTable' \subseteq txTable /\ tpc' = "complete" /\ berr' = TRUE
          /\ UNCHANGED <<erased, fpc>>
        BY <1>15 DEF WriteTxFail
    <2>2. fpc = "none"
        BY <2>1 DEF Modes
    <2> QED BY <2>1, <2>2 DEF Logged, TypeOK
<1>16. ASSUME FlushBlocks PROVE Goal
    BY <1>16 DEF FlushBlocks, Logged, Modes
<1>17. ASSUME CompleteTx PROVE Goal
    <2> DEFINE t == Head(batch)
    <2>1. /\ tpc = "complete" /\ t = batch[1] /\ 1 \in DOMAIN batch /\ t \in Tx
          /\ \A i \in DOMAIN Tail(batch) : i + 1 \in DOMAIN batch
                  /\ Tail(batch)[i] = batch[i + 1]
        BY <1>17 DEF CompleteTx, TypeOK
    <2>2. /\ txState' = [txState EXCEPT ![t] = Outcome]
          /\ txTable' = IF berr THEN txTable \ {t} ELSE txTable
          /\ batch' = Tail(batch)
          /\ UNCHANGED <<tpc, fpc, mpc, berr, erased>>
        BY <1>17 DEF CompleteTx
    <2> HIDE DEF t
    <2>3. t \in Range(batch) /\ Range(batch') \subseteq Range(batch)
        BY <2>1, <2>2 DEF Range
    <2>4. fpc = "none"
        BY <2>1 DEF Modes
    <2> QED BY <2>1, <2>2, <2>3, <2>4 DEF Logged, TypeOK
<1>18. ASSUME RoundDone PROVE Goal
    BY <1>18 DEF RoundDone, Logged
<1>19. ASSUME FlushHeader PROVE Goal
    <2>1. /\ fpc = "blocks" /\ fpc' = "header" /\ UNCHANGED <<txTable, erased, txState, tpc, batch>>
        BY <1>19 DEF FlushHeader
    <2>2. tpc = "flush"
        BY <2>1 DEF Modes, TypeOK
    <2> QED BY <2>1, <2>2 DEF Logged
<1>20. ASSUME FlushHeaderDone PROVE Goal
    BY <1>20
<1>21. ASSUME NEW t \in Tx, CompactTx(t) PROVE Goal
    BY <1>21 DEF CompactTx, Logged
<1>22. ASSUME CompactDone PROVE Goal
    BY <1>22 DEF CompactDone, FlushReturn, Logged, Modes
<1>23. ASSUME FlushFailed PROVE Goal
    BY <1>23 DEF FlushFailed, FlushReturn, Logged, Modes
<1>24. ASSUME Format PROVE Goal
    BY <1>24, <1>e DEF Format, Modes
<1>25. ASSUME LoadHeader PROVE Goal
    BY <1>25, <1>e DEF LoadHeader, Modes
<1>26. ASSUME ReplayBlock PROVE Goal
    BY <1>26, <1>e DEF ReplayBlock, StartRunning, Modes
<1>27. ASSUME ReplayApplied PROVE Goal
    BY <1>27, <1>e DEF ReplayApplied, Modes
<1>28. ASSUME ReplayDone PROVE Goal
    BY <1>28, <1>e DEF ReplayDone, StartRunning, Modes
<1>29. ASSUME ReplayFailed PROVE Goal
    BY <1>29, <1>e DEF ReplayFailed, Modes
<1>30. ASSUME Unload PROVE Goal
    BY <1>30 DEF Unload, Logged, LockFree
<1>31. ASSUME UnloadFlush PROVE Goal
    <2>1. /\ UNCHANGED <<batch, erased>> /\ tpc' = "none"
          /\ txTable' \subseteq txTable
          /\ txState'[u] \in {"Canceled", txState[u]}
          /\ mpc' = "flush" \/ (fpc' = fpc /\ mpc = "join")
        BY <1>31 DEF UnloadFlush, CancelQueued
    <2>2. mpc = "join" => fpc # "compact"
        BY <1>31 DEF UnloadFlush, CancelQueued, Modes
    <2> QED BY <2>1, <2>2 DEF Logged
<1>32. ASSUME UnloadNoFlush PROVE Goal
    <2>1. /\ UNCHANGED <<batch, erased>> /\ tpc' = "none"
          /\ txTable' \subseteq txTable
          /\ txState'[u] \in {"Canceled", txState[u]}
          /\ mpc' = "flush" \/ (fpc' = fpc /\ mpc = "join")
        BY <1>32 DEF UnloadNoFlush, CancelQueued
    <2>2. mpc = "join" => fpc # "compact"
        BY <1>32 DEF UnloadNoFlush, CancelQueued, Modes
    <2> QED BY <2>1, <2>2 DEF Logged
<1>33. ASSUME Destroy PROVE Goal
    BY <1>33, <1>e DEF Destroy, Forget
<1>34. ASSUME Crash PROVE Goal
    BY <1>34, <1>e DEF Crash, Forget
<1>35. ASSUME UNCHANGED vars PROVE Goal
    BY <1>35, <1>f DEF vars
<1> QED
    BY <1>1, <1>2, <1>3, <1>4, <1>5, <1>6, <1>7, <1>8, <1>9, <1>10, <1>11,
       <1>12, <1>13, <1>14, <1>15, <1>16, <1>17, <1>18, <1>19, <1>20, <1>21, <1>22,
       <1>23, <1>24, <1>25, <1>26, <1>27, <1>28, <1>29, <1>30, <1>31, <1>32, <1>33,
       <1>34, <1>35 DEF Next, Client, CommitTail, Thread, Flush, Mount

\* Who moves the ring, as long as there are transactions.
LEMMA RingCases ==
    ASSUME IInv, [Next]_vars
    PROVE  \/ ring' = ring \/ txTable' = {} \/ WriteTx
           \/ \E n \in 0 .. Capacity : WriteTxFail(n)
           \/ \E t \in Tx : CompactTx(t)
<1>0. Modes
    BY DEF IInv
<1> DEFINE Goal == \/ ring' = ring \/ txTable' = {} \/ WriteTx
                   \/ \E m \in 0 .. Capacity : WriteTxFail(m)
                   \/ \E s \in Tx : CompactTx(s)
<1> USE <1>0 DEF mountVars, tableVars, threadVars, txVars, homeVars, histVars
<1>1. ASSUME NEW t \in Tx, BeginTx(t) PROVE Goal
    BY <1>1 DEF BeginTx
<1>2. ASSUME NEW t \in Tx, NEW page \in Pages, Write(t, page) PROVE Goal
    BY <1>2 DEF Write
<1>3. ASSUME NEW t \in Tx, Abandon(t) PROVE Goal
    BY <1>3 DEF Abandon
<1>4. ASSUME NEW t \in Tx, Commit(t) PROVE Goal
    BY <1>4 DEF Commit
<1>5. ASSUME NEW t \in Tx, CommitRefused(t) PROVE Goal
    BY <1>5 DEF CommitRefused
<1>6. ASSUME NEW t \in Tx, CommitFailed(t) PROVE Goal
    BY <1>6 DEF CommitFailed
<1>7. ASSUME NEW t \in Tx, Apply(t) PROVE Goal
    BY <1>7 DEF Apply
<1>8. ASSUME NEW t \in Tx, ApplyDone(t) PROVE Goal
    BY <1>8 DEF ApplyDone
<1>9. ASSUME NEW t \in Tx, ApplyFailed(t) PROVE Goal
    BY <1>9 DEF ApplyFailed
<1>10. ASSUME NEW t \in Tx, EraseTx(t) PROVE Goal
    BY <1>10 DEF EraseTx
<1>11. ASSUME CheckStopping PROVE Goal
    BY <1>11 DEF CheckStopping
<1>12. ASSUME NoWork PROVE Goal
    BY <1>12 DEF NoWork
<1>13. ASSUME TakeBatch PROVE Goal
    BY <1>13 DEF TakeBatch
<1>14. ASSUME WriteTx PROVE Goal
    BY <1>14
<1>15. ASSUME NEW n \in 0 .. Capacity, WriteTxFail(n) PROVE Goal
    BY <1>15
<1>16. ASSUME FlushBlocks PROVE Goal
    BY <1>16 DEF FlushBlocks
<1>17. ASSUME CompleteTx PROVE Goal
    BY <1>17 DEF CompleteTx
<1>18. ASSUME RoundDone PROVE Goal
    BY <1>18 DEF RoundDone
<1>19. ASSUME FlushHeader PROVE Goal
    BY <1>19 DEF FlushHeader
<1>20. ASSUME FlushHeaderDone PROVE Goal
    BY <1>20 DEF FlushHeaderDone
<1>21. ASSUME NEW t \in Tx, CompactTx(t) PROVE Goal
    BY <1>21
<1>22. ASSUME CompactDone PROVE Goal
    BY <1>22 DEF CompactDone, FlushReturn
<1>23. ASSUME FlushFailed PROVE Goal
    BY <1>23 DEF FlushFailed, FlushReturn
<1>24. ASSUME Format PROVE Goal
    BY <1>24 DEF Format
<1>25. ASSUME LoadHeader PROVE Goal
    BY <1>25 DEF LoadHeader, Modes
<1>26. ASSUME ReplayBlock PROVE Goal
    BY <1>26 DEF ReplayBlock, StartRunning, Modes
<1>27. ASSUME ReplayApplied PROVE Goal
    BY <1>27 DEF ReplayApplied
<1>28. ASSUME ReplayDone PROVE Goal
    BY <1>28 DEF ReplayDone, StartRunning
<1>29. ASSUME ReplayFailed PROVE Goal
    BY <1>29 DEF ReplayFailed
<1>30. ASSUME Unload PROVE Goal
    BY <1>30 DEF Unload
<1>31. ASSUME UnloadFlush PROVE Goal
    BY <1>31 DEF UnloadFlush, CancelQueued
<1>32. ASSUME UnloadNoFlush PROVE Goal
    BY <1>32 DEF UnloadNoFlush, CancelQueued
<1>33. ASSUME Destroy PROVE Goal
    BY <1>33 DEF Destroy, Forget
<1>34. ASSUME Crash PROVE Goal
    BY <1>34 DEF Crash, Forget
<1>35. ASSUME UNCHANGED vars PROVE Goal
    BY <1>35 DEF vars
<1> QED
    BY <1>1, <1>2, <1>3, <1>4, <1>5, <1>6, <1>7, <1>8, <1>9, <1>10, <1>11,
       <1>12, <1>13, <1>14, <1>15, <1>16, <1>17, <1>18, <1>19, <1>20, <1>21, <1>22,
       <1>23, <1>24, <1>25, <1>26, <1>27, <1>28, <1>29, <1>30, <1>31, <1>32, <1>33,
       <1>34, <1>35 DEF Next, Client, CommitTail, Thread, Flush, Mount

\* The only new header is that of the ring.
LEMMA HeaderCases ==
    ASSUME IInv, [Next]_vars
    PROVE  txTable' = {} \/ \A h \in hdr' : h \in hdr \/ h = ring'
<1>0. Modes
    BY DEF IInv
<1> DEFINE Goal == txTable' = {} \/ \A h \in hdr' : h \in hdr \/ h = ring'
<1> USE <1>0 DEF mountVars, tableVars, threadVars, txVars, homeVars, histVars
<1>1. ASSUME NEW t \in Tx, BeginTx(t) PROVE Goal
    BY <1>1 DEF BeginTx
<1>2. ASSUME NEW t \in Tx, NEW page \in Pages, Write(t, page) PROVE Goal
    BY <1>2 DEF Write
<1>3. ASSUME NEW t \in Tx, Abandon(t) PROVE Goal
    BY <1>3 DEF Abandon
<1>4. ASSUME NEW t \in Tx, Commit(t) PROVE Goal
    BY <1>4 DEF Commit
<1>5. ASSUME NEW t \in Tx, CommitRefused(t) PROVE Goal
    BY <1>5 DEF CommitRefused
<1>6. ASSUME NEW t \in Tx, CommitFailed(t) PROVE Goal
    BY <1>6 DEF CommitFailed
<1>7. ASSUME NEW t \in Tx, Apply(t) PROVE Goal
    BY <1>7 DEF Apply
<1>8. ASSUME NEW t \in Tx, ApplyDone(t) PROVE Goal
    BY <1>8 DEF ApplyDone
<1>9. ASSUME NEW t \in Tx, ApplyFailed(t) PROVE Goal
    BY <1>9 DEF ApplyFailed
<1>10. ASSUME NEW t \in Tx, EraseTx(t) PROVE Goal
    BY <1>10 DEF EraseTx
<1>11. ASSUME CheckStopping PROVE Goal
    BY <1>11 DEF CheckStopping
<1>12. ASSUME NoWork PROVE Goal
    BY <1>12 DEF NoWork
<1>13. ASSUME TakeBatch PROVE Goal
    BY <1>13 DEF TakeBatch
<1>14. ASSUME WriteTx PROVE Goal
    BY <1>14 DEF WriteTx
<1>15. ASSUME NEW n \in 0 .. Capacity, WriteTxFail(n) PROVE Goal
    BY <1>15 DEF WriteTxFail
<1>16. ASSUME FlushBlocks PROVE Goal
    BY <1>16 DEF FlushBlocks
<1>17. ASSUME CompleteTx PROVE Goal
    BY <1>17 DEF CompleteTx
<1>18. ASSUME RoundDone PROVE Goal
    BY <1>18 DEF RoundDone
<1>19. ASSUME FlushHeader PROVE Goal
    BY <1>19 DEF FlushHeader
<1>20. ASSUME FlushHeaderDone PROVE Goal
    BY <1>20 DEF FlushHeaderDone, HeaderWritten
<1>21. ASSUME NEW t \in Tx, CompactTx(t) PROVE Goal
    BY <1>21 DEF CompactTx
<1>22. ASSUME CompactDone PROVE Goal
    BY <1>22 DEF CompactDone, FlushReturn
<1>23. ASSUME FlushFailed PROVE Goal
    BY <1>23 DEF FlushFailed, FlushReturn
<1>24. ASSUME Format PROVE Goal
    BY <1>24 DEF Format, Modes
<1>25. ASSUME LoadHeader PROVE Goal
    BY <1>25 DEF LoadHeader, Modes
<1>26. ASSUME ReplayBlock PROVE Goal
    BY <1>26 DEF ReplayBlock, StartRunning
<1>27. ASSUME ReplayApplied PROVE Goal
    BY <1>27 DEF ReplayApplied
<1>28. ASSUME ReplayDone PROVE Goal
    BY <1>28 DEF ReplayDone, StartRunning
<1>29. ASSUME ReplayFailed PROVE Goal
    BY <1>29 DEF ReplayFailed
<1>30. ASSUME Unload PROVE Goal
    BY <1>30 DEF Unload
<1>31. ASSUME UnloadFlush PROVE Goal
    BY <1>31 DEF UnloadFlush, CancelQueued
<1>32. ASSUME UnloadNoFlush PROVE Goal
    BY <1>32 DEF UnloadNoFlush, CancelQueued
<1>33. ASSUME Destroy PROVE Goal
    BY <1>33 DEF Destroy, Forget
<1>34. ASSUME Crash PROVE Goal
    BY <1>34 DEF Crash, Forget
<1>35. ASSUME UNCHANGED vars PROVE Goal
    BY <1>35 DEF vars
<1> QED
    BY <1>1, <1>2, <1>3, <1>4, <1>5, <1>6, <1>7, <1>8, <1>9, <1>10, <1>11,
       <1>12, <1>13, <1>14, <1>15, <1>16, <1>17, <1>18, <1>19, <1>20, <1>21, <1>22,
       <1>23, <1>24, <1>25, <1>26, <1>27, <1>28, <1>29, <1>30, <1>31, <1>32, <1>33,
       <1>34, <1>35 DEF Next, Client, CommitTail, Thread, Flush, Mount

-----------------------------------------------------------------------------
(* Transactions lie in a row                                               *)

\* Different cells of a ring are different slots.
LEMMA CellInj ==
    ASSUME NEW r \in Ring, NEW j \in Nat, NEW k \in Nat, j < r.size, k < r.size,
           Cell(r, j) = Cell(r, k)
    PROVE  j = k
<1>1. r.start \in Nat /\ r.start < Capacity /\ r.size \in Nat /\ r.size <= Capacity /\ Capacity \in Nat
    BY CapacityAssumption DEF Ring, Slot
<1>2. /\ r.start + j \in Nat /\ r.start + j < Capacity + Capacity
      /\ r.start + k \in Nat /\ r.start + k < Capacity + Capacity
    BY <1>1
<1>3. PICK a \in Nat, b \in Nat : a = r.start + j /\ b = r.start + k
    BY <1>2
<1>4. /\ Wrap(a) = IF a < Capacity THEN a ELSE a - Capacity
      /\ Wrap(b) = IF b < Capacity THEN b ELSE b - Capacity
    <2>1. a < 2 * Capacity /\ b < 2 * Capacity
        BY <1>1, <1>2, <1>3
    <2> QED BY <1>1, <1>3, <2>1, ModOnce DEF Wrap
<1>5. Wrap(a) = Wrap(b)
    BY <1>3 DEF Cell
<1> QED BY <1>1, <1>3, <1>4, <1>5

\* A placed transaction keeps its blocks.
LEMMA PlacedKept ==
    ASSUME IInv, [Next]_vars, NEW u \in Tx, Placed(u)
    PROVE  /\ blocks'[u] = blocks[u] /\ pred'[u] = pred[u]
           /\ TxLen(u)' = TxLen(u) /\ \A k : TxBlock(u, k)' = TxBlock(u, k)
<1>1. txState[u] \notin {"None", "New"}
    BY RoundUndecided DEF Placed
<1>2. blocks'[u] = blocks[u] /\ pred'[u] = pred[u]
    BY <1>1, TxHistory
<1> QED BY <1>2, TxSame

\* A transaction stays where it lies when the ring grows.
LEMMA LiesPushed ==
    ASSUME IInv, [Next]_vars, NEW u \in Tx, Placed(u), indexList'[u] = indexList[u],
           NEW n \in Nat, n <= Capacity - ring.size, ring' = PushMany(ring, n),
           NEW k \in 0 .. Capacity, Lies(u, ring, k)
    PROVE  Lies(u, ring, k)'
<1>1. /\ ring'.size = ring.size + n /\ \A i \in Nat : Cell(ring', i) = Cell(ring, i)
    BY PushCells DEF IInv, TypeOK, RingsOk
<1>2. TxLen(u) \in Nat /\ ring.size \in Nat
    BY TxBlockType, CapacityAssumption DEF IInv, TypeOK, Ring
<1>3. TxLen(u)' = TxLen(u)
    BY PlacedKept
<1>4. k + TxLen(u) <= ring'.size
    BY <1>1, <1>2 DEF Lies
<1>5. \A j \in 1 .. TxLen(u) : k + (j - 1) \in Nat
    BY <1>2
<1>6. \A j \in 1 .. TxLen(u) : indexList'[u][j] = Cell(ring', k + (j - 1))
    BY <1>1, <1>5 DEF Lies
<1> QED BY <1>3, <1>4, <1>6 DEF Lies, Cell

\* The slots of a placed transaction lie in a row behind the front of the ring:
\* WriteTx pushes them one after another, and CompactLog takes only whole
\* transactions away.
LEMMA RingLiesStep ==
    ASSUME IInv, IInv', RingLies, [Next]_vars
    PROVE  RingLies'
<1> SUFFICES ASSUME NEW u \in Tx, Placed(u)' PROVE \E k \in 0 .. Capacity : Lies(u, ring, k)'
    BY DEF RingLies
<1>a. TypeOK /\ TypeOK' /\ RingOk(ring)
    BY DEF IInv, RingsOk
<1>b. ring \in Ring /\ ring' \in Ring
    BY <1>a DEF TypeOK
<1>0. /\ TypeOK /\ ring \in Ring /\ ring' \in Ring /\ ring.size \in Nat /\ ring.size <= Capacity
      /\ Capacity \in Nat /\ RingOk(ring)
    BY <1>a, <1>b, CapacityAssumption DEF Ring
<1>1. CASE WriteTx /\ u = batch[nwritten + 1]
    <2>1. PICK n \in Nat : n = TxLen(u)
        BY <1>0, TxBlockType
    <2>2. /\ n <= Capacity - ring.size /\ indexList' = [indexList EXCEPT ![u] = Pushed(ring, n)]
          /\ ring' = PushMany(ring, n) /\ blocks' = blocks
        BY <1>1, <2>1 DEF WriteTx, txVars
    <2>3. /\ PushMany(ring, n).size = ring.size + n
          /\ \A k \in Nat : Cell(PushMany(ring, n), k) = Cell(ring, k)
          /\ \A k \in 1 .. n : Pushed(ring, n)[k] = Cell(ring, ring.size + (k - 1))
        BY <1>0, <2>2, PushCells
    <2>4. indexList'[u] = Pushed(ring, n)
        BY <1>0, <2>2 DEF TypeOK
    <2>5. TxLen(u)' = n
        BY <2>1, <2>2, TxSame
    <2>6. PICK s \in 0 .. Capacity : s = ring.size
        BY <1>0
    <2>7. s + n <= ring'.size /\ \A j \in 1 .. n : s + (j - 1) \in Nat
        BY <2>2, <2>3, <2>6
    <2>8. \A j \in 1 .. n : indexList'[u][j] = Cell(ring', s + (j - 1))
        BY <2>2, <2>3, <2>4, <2>6, <2>7
    <2>9. Lies(u, ring, s)'
        BY <2>5, <2>7, <2>8 DEF Lies, Cell
    <2> QED BY <2>9
<1>2. CASE Placed(u) /\ indexList'[u] = indexList[u]
    <2>1. PICK k \in 0 .. Capacity : Lies(u, ring, k)
        BY <1>2 DEF RingLies
    <2>2. TxLen(u)' = TxLen(u) /\ TxLen(u) \in Nat /\ TxLen(u) >= 2
        BY <1>0, <1>2, PlacedKept, TxBlockType
    <2>3. CASE ring' = ring
        <3>1. Lies(u, ring, k)'
            BY <1>2, <2>1, <2>2, <2>3 DEF Lies, Cell
        <3> QED BY <3>1
    <2>4. CASE txTable' = {}
        BY <2>4 DEF Placed
    <2>5. CASE WriteTx
        <3>1. PICK t : t = batch[nwritten + 1]
            OBVIOUS
        <3>2. t \in Tx
            <4>1. batch \in Seq(Tx) /\ nwritten \in Nat /\ nwritten < Len(batch)
                BY <1>0, <2>5 DEF TypeOK, WriteTx
            <4>2. nwritten + 1 \in 1 .. Len(batch)
                BY <4>1
            <4> QED BY <3>1, <4>1, <4>2
        <3>3. PICK n \in Nat : n = TxLen(t)
            BY <1>0, <3>2, TxBlockType
        <3>4. n <= Capacity - ring.size /\ ring' = PushMany(ring, n)
            BY <2>5, <3>1, <3>3 DEF WriteTx
        <3>5. Lies(u, ring, k)'
            BY <1>2, <2>1, <3>3, <3>4, LiesPushed
        <3> QED BY <3>5
    <2>6. CASE \E n \in 0 .. Capacity : WriteTxFail(n)
        <3>1. PICK n \in 0 .. Capacity : WriteTxFail(n)
            BY <2>6
        <3>2. n <= Capacity - ring.size /\ ring' = PushMany(ring, n) /\ n \in Nat
            BY <1>0, <3>1 DEF WriteTxFail
        <3>3. Lies(u, ring, k)'
            BY <1>2, <2>1, <3>2, LiesPushed
        <3> QED BY <3>3
    <2>7. CASE \E t \in Tx : CompactTx(t)
        <3>1. PICK t \in Tx : CompactTx(t)
            BY <2>7
        <3>2. /\ t \in toErase /\ EraseOk(ring, indexList[t]) /\ ring' = Erase(ring, indexList[t])
              /\ erased' = erased \cup {t}
            BY <3>1 DEF CompactTx
        <3>3. Placed(t) /\ u # t
            BY <3>2 DEF IInv, TxOk, Placed
        <3>4. PICK m \in Nat : m = TxLen(t) /\ m >= 2
            BY <1>0, TxBlockType
        <3>5. PICK list \in Seq(Slot) : list = indexList[t]
            BY <1>0 DEF TypeOK
        <3>6. m = Len(list) /\ EraseOk(ring, list) /\ ring' = Erase(ring, list)
            BY <3>2, <3>3, <3>4, <3>5 DEF IInv, PlacedInRing
        <3>7. /\ m <= ring.size /\ Erase(ring, list).size = ring.size - m
              /\ \A i \in Nat : m + i < ring.size => Cell(Erase(ring, list), i) = Cell(ring, m + i)
              /\ \A i \in 1 .. m : list[i] = Cell(ring, i - 1)
            BY <1>0, <3>4, <3>5, <3>6, EraseCells, Zenon
        <3>8. k >= m
            <4> SUFFICES ASSUME k < m PROVE FALSE
                BY <3>4
            <4>1. k + 1 \in 1 .. m /\ (k + 1) - 1 = k /\ k + (1 - 1) = k /\ 1 \in 1 .. TxLen(u)
                BY <2>2, <3>4
            <4>2. indexList[t][k + 1] = Cell(ring, k)
                BY <3>5, <3>7, <4>1
            <4>3. indexList[u][1] = Cell(ring, k)
                BY <2>1, <4>1 DEF Lies
            <4> QED BY <1>2, <3>3, <3>4, <4>1, <4>2, <4>3 DEF IInv, PlacedDisjoint
        <3>9. PICK l \in 0 .. Capacity : l = k - m
            BY <1>0, <2>1, <3>4, <3>8
        <3>10. k + TxLen(u) <= ring.size
            BY <2>1 DEF Lies
        <3>11. l + TxLen(u) <= ring'.size
            BY <1>0, <2>2, <3>4, <3>6, <3>7, <3>9, <3>10
        <3>12. ASSUME NEW j \in 1 .. TxLen(u) PROVE indexList[u][j] = Cell(ring', l + (j - 1))
            <4>0. PICK n \in Nat : n = TxLen(u)
                BY <2>2
            <4>0a. PICK z \in Nat : z = ring.size
                BY <1>0
            <4>0b. /\ l \in Nat /\ k \in Nat /\ m \in Nat /\ n \in Nat /\ z \in Nat
                   /\ k = l + m /\ k + n <= z
                BY <1>0, <2>1, <3>4, <3>9, <3>10, <4>0, <4>0a
            <4>0c. j \in Nat /\ j >= 1 /\ j <= n
                BY <4>0
            <4>1. l + (j - 1) \in Nat /\ m + (l + (j - 1)) < ring.size /\ m + (l + (j - 1)) = k + (j - 1)
                <5>1. PICK i \in Nat : i = j - 1 /\ i < n
                    BY <4>0, <4>0c
                <5>2. l + i \in Nat /\ m + (l + i) < z /\ m + (l + i) = k + i
                    BY <4>0b, <5>1
                <5> QED BY <4>0a, <5>1, <5>2
            <4>2. Cell(ring', l + (j - 1)) = Cell(ring, k + (j - 1))
                BY <3>6, <3>7, <4>1
            <4> QED BY <2>1, <4>2 DEF Lies
        <3>13. Lies(u, ring, l)'
            BY <1>2, <2>2, <3>11, <3>12 DEF Lies, Cell
        <3> QED BY <3>13
    <2> QED BY <2>3, <2>4, <2>5, <2>6, <2>7, RingCases
<1> QED BY <1>1, <1>2, PlacedBefore

\* A transaction in the log lies in a row in every header that a crash may leave.
LEMMA HeadersLieStep ==
    ASSUME IInv, IInv', RingLies', HeadersLie, [Next]_vars
    PROVE  HeadersLie'
<1> SUFFICES ASSUME NEW u \in Tx, Logged(u)', NEW h \in hdr'
             PROVE  \E k \in 0 .. Capacity : Lies(u, h, k)'
    BY DEF HeadersLie
<1>1. txTable' # {}
    BY DEF Logged
<1>2. Placed(u)'
    <2>1. (fpc = "compact" /\ mpc # "flush" => tpc = "flush")'
        BY DEF IInv, Modes
    <2> QED BY <2>1 DEF Logged, Placed, InRound, Range
<1>3. CASE h = ring'
    <2>1. PICK k \in 0 .. Capacity : Lies(u, ring, k)'
        BY <1>2 DEF RingLies
    <2>2. Lies(u, h, k)'
        BY <1>3, <2>1 DEF Lies, Cell
    <2> QED BY <2>2
<1>4. CASE h \in hdr /\ h # ring'
    <2>1. ~FlushHeaderDone
        BY <1>4 DEF FlushHeaderDone, HeaderWritten
    <2>2. Logged(u) /\ Placed(u)
        BY <2>1, LoggedBefore, LoggedPlaced
    <2>3. indexList'[u] = indexList[u]
        <3>1. WriteTx => u # batch[nwritten + 1]
            <4>1. ASSUME WriteTx, u = batch[nwritten + 1] PROVE FALSE
                <5>1. tpc = "write" /\ txState[u] = "Commiting"
                    BY <4>1 DEF WriteTx
                <5> QED BY <2>2, <5>1 DEF Logged, IInv, Modes
            <4> QED BY <4>1
        <3> QED BY <1>2, <3>1, PlacedBefore
    <2>4. TxLen(u)' = TxLen(u)
        BY <2>2, PlacedKept
    <2>5. PICK k \in 0 .. Capacity : Lies(u, h, k)
        BY <1>4, <2>2 DEF HeadersLie
    <2>6. Lies(u, h, k)'
        BY <2>3, <2>4, <2>5 DEF Lies, Cell
    <2> QED BY <2>6
<1> QED BY <1>1, <1>3, <1>4, HeaderCases

-----------------------------------------------------------------------------
(* What the slots will hold                                                *)

\* WriteTx puts the blocks of its transaction behind what the slots will hold.
LEMMA WriteTxPushes ==
    ASSUME IInv, IInv', WriteTx
    PROVE  \E t \in Tx : \E n \in Nat :
              /\ t = batch[nwritten + 1] /\ txState[t] = "Commiting"
              /\ n = TxLen(t) /\ n >= 2 /\ ring'.size = ring.size + n
              /\ \A k \in Nat : Cell(ring', k) = Cell(ring, k)
              /\ \A k \in Nat : k < ring.size => NextLog'[Cell(ring, k)] = NextLog[Cell(ring, k)]
              /\ \A k \in 1 .. n : NextLog'[Cell(ring, ring.size + (k - 1))] = {TxBlock(t, k)}
<1>0. /\ batch \in Seq(Tx) /\ nwritten \in Nat /\ nwritten < Len(batch)
    BY DEF WriteTx, IInv, TypeOK
<1>0a. nwritten + 1 \in DOMAIN batch /\ batch[nwritten + 1] \in Tx
    BY <1>0
<1>0b. PICK t \in Tx : t = batch[nwritten + 1]
    BY <1>0a
<1>1. /\ tpc = "write" /\ nwritten < Len(batch) /\ txState[t] = "Commiting"
      /\ TxLen(t) <= Capacity - ring.size
      /\ indexList' = [indexList EXCEPT ![t] = Pushed(ring, TxLen(t))]
      /\ ring' = PushMany(ring, TxLen(t))
      /\ nwritten' = nwritten + 1
      /\ UNCHANGED <<tpc, batch, berr, fpc, blocks, log>>
    BY <1>0b DEF WriteTx, threadVars, txVars
<1>2. /\ ring \in Ring /\ RingOk(ring) /\ ring' \in Ring /\ ring.size \in Nat
      /\ batch \in Seq(Tx) /\ nwritten \in Nat /\ indexList \in [Tx -> Seq(Slot)]
      /\ Len(batch) \in Nat /\ DOMAIN batch = 1 .. Len(batch)
    BY CapacityAssumption DEF IInv, RingsOk, TypeOK, Ring
<1>3. nwritten + 1 \in DOMAIN batch /\ t \in Tx
    BY <1>0a
<1>4. PICK n \in Nat : n = TxLen(t) /\ n >= 2
    BY <1>3, TxBlockType DEF IInv
<1>5. fpc # "blocks"
    BY <1>1 DEF IInv, Modes
<1>6. ~InRound(t)
    <2> SUFFICES ASSUME InRound(t) PROVE FALSE
        OBVIOUS
    <2>1. PICK j \in 1 .. nwritten : batch[j] = t
        BY <1>1 DEF InRound
    <2>2. j \in DOMAIN batch /\ j # nwritten + 1
        BY <1>1, <1>2
    <2> QED BY <1>0b, <1>3, <2>1, <2>2 DEF IInv, QueueOk
<1>7. \A u \in Tx : InRound(u)' <=> InRound(u) \/ u = t
    <2>1. \A j : j \in 1 .. nwritten' <=> j \in 1 .. nwritten \/ j = nwritten + 1
        BY <1>1, <1>2
    <2> QED BY <1>0b, <1>1, <2>1 DEF InRound
<1>8. \A u \in Tx : u # t => indexList'[u] = indexList[u]
    BY <1>1, <1>2
<1>9. indexList'[t] = Pushed(ring, n)
    BY <1>1, <1>2, <1>3, <1>4
<1>10. \A u : TxLen(u)' = TxLen(u) /\ \A k : TxBlock(u, k)' = TxBlock(u, k)
    BY <1>1 DEF TxLen, TxBlock, BeginBlock, DataBlock, CommitBlock
<1>11. n <= Capacity - ring.size
    BY <1>1, <1>4
<1>12. /\ \A j, k \in 1 .. n : Pushed(ring, n)[j] = Pushed(ring, n)[k] => j = k
       /\ \A k \in 1 .. n : Pushed(ring, n)[k] \notin Used(ring)
       /\ ring'.size = ring.size + n
       /\ \A k \in Nat : Cell(ring', k) = Cell(ring, k)
       /\ \A k \in 1 .. n : Pushed(ring, n)[k] = Cell(ring, ring.size + (k - 1))
       /\ \A k \in 1 .. n : Pushed(ring, n)[k] \in Slot
    <2>1. ring' = PushMany(ring, n)
        BY <1>1, <1>4
    <2>2. Pushed(ring, n) \in Seq(Slot) /\ DOMAIN Pushed(ring, n) = 1 .. n
        BY <1>2, <1>11, PushedSlots
    <2>3. \A k \in 1 .. n : Pushed(ring, n)[k] \in Slot
        BY <2>2
    <2>4. /\ \A j, k \in 1 .. n : Pushed(ring, n)[j] = Pushed(ring, n)[k] => j = k
          /\ \A k \in 1 .. n : Pushed(ring, n)[k] \notin Used(ring)
        BY <1>2, <1>11, PushLemma
    <2> QED BY <1>2, <1>11, <2>1, <2>3, <2>4, PushCells
    \* What the round already had is inside the used part of the ring.
<1>13. \A u \in Tx : InRound(u) => \A k \in 1 .. TxLen(u) : indexList[u][k] \in Used(ring)
    BY RoundPlaced DEF IInv, PlacedInRing
<1> DEFINE S(u, i) == {TxBlock(u, k) : k \in {j \in 1 .. TxLen(u) : indexList[u][j] = i}}
<1>14. \A i : /\ RoundBlock(i) = UNION {S(u, i) : u \in {v \in Tx : InRound(v)}}
              /\ RoundBlock(i)' = UNION {S(u, i)' : u \in {v \in Tx : InRound(v)'}}
    BY DEF RoundBlock
<1>15. \A u \in Tx : u # t => \A i : S(u, i)' = S(u, i)
    BY <1>8, <1>10
<1>16. \A i \in Used(ring) : S(t, i)' = {}
    <2>1. \A i : S(t, i)' = {TxBlock(t, k) : k \in {j \in 1 .. n : Pushed(ring, n)[j] = i}}
        BY <1>4, <1>9, <1>10
    <2> QED BY <1>12, <2>1
<1>17. \A k \in 1 .. n : \A i : i = Pushed(ring, n)[k] => S(t, i)' = {TxBlock(t, k)}
    <2> TAKE k \in 1 .. n
    <2> TAKE i
    <2> HAVE i = Pushed(ring, n)[k]
    <2>1. S(t, i)' = {TxBlock(t, j) : j \in {m \in 1 .. n : Pushed(ring, n)[m] = i}}
        BY <1>4, <1>9, <1>10
    <2> QED BY <1>12, <2>1
<1> HIDE DEF S
<1>18. \A i \in Used(ring) : RoundBlock(i)' = RoundBlock(i)
    <2> TAKE i \in Used(ring)
    <2>1. \A b : b \in RoundBlock(i)' <=> \E u \in Tx : InRound(u)' /\ b \in S(u, i)'
        BY <1>14
    <2>2. \A b : b \in RoundBlock(i) <=> \E u \in Tx : InRound(u) /\ b \in S(u, i)
        BY <1>14
    <2>3. \A b : b \in RoundBlock(i)' <=> b \in RoundBlock(i)
        BY <1>6, <1>7, <1>15, <1>16, <2>1, <2>2
    <2> QED BY <2>3
<1>19. \A k \in 1 .. n : \A i : i = Pushed(ring, n)[k] => RoundBlock(i)' = {TxBlock(t, k)}
    <2> TAKE k \in 1 .. n
    <2> TAKE i
    <2> HAVE i = Pushed(ring, n)[k]
    <2>1. \A b : b \in RoundBlock(i)' <=> \E u \in Tx : InRound(u)' /\ b \in S(u, i)'
        BY <1>14
    <2>2. \A u \in Tx : InRound(u) => S(u, i) = {}
        <3>1. i \notin Used(ring)
            BY <1>12
        <3> QED BY <1>13, <3>1 DEF S
    <2>3. \A b : b \in RoundBlock(i)' <=> b \in {TxBlock(t, k)}
        BY <1>6, <1>7, <1>15, <1>17, <2>1, <2>2
    <2> QED BY <2>3
<1>20. \A k \in Nat : k < ring.size => NextLog'[Cell(ring, k)] = NextLog[Cell(ring, k)]
    <2> TAKE k \in Nat
    <2> HAVE k < ring.size
    <2>1. PICK i : i = Cell(ring, k) /\ i \in Used(ring) /\ i \in Slot
        BY <1>2, CellUsed
    <2>2. RoundBlock(i)' = RoundBlock(i)
        BY <1>18, <2>1
    <2>3. NextLog'[i] = NextLog[i]
        BY <1>1, <2>1, <2>2 DEF NextLog
    <2> QED BY <2>1, <2>3
<1>21. \A k \in 1 .. n : NextLog'[Cell(ring, ring.size + (k - 1))] = {TxBlock(t, k)}
    <2> TAKE k \in 1 .. n
    <2>1. PICK i : i = Pushed(ring, n)[k] /\ i \in Slot /\ i = Cell(ring, ring.size + (k - 1))
        BY <1>12
    <2>2. RoundBlock(i)' = {TxBlock(t, k)}
        BY <1>19, <2>1
    <2>3. NextLog'[i] = {TxBlock(t, k)}
        BY <1>1, <2>1, <2>2 DEF NextLog
    <2> QED BY <2>1, <2>3
<1> QED BY <1>0b, <1>1, <1>4, <1>12, <1>20, <1>21

\* CompactLog takes the blocks of one transaction off the front of the ring.
LEMMA CompactShifts ==
    ASSUME IInv, IInv', NEW t \in Tx, CompactTx(t)
    PROVE  \E n \in Nat :
              /\ n = TxLen(t) /\ n >= 2 /\ n <= ring.size /\ ring'.size = ring.size - n
              /\ \A k \in Nat : n + k < ring.size => Cell(ring', k) = Cell(ring, n + k)
              /\ \A k \in 1 .. n : indexList[t][k] = Cell(ring, k - 1)
              /\ \A k \in 1 .. n : log[Cell(ring, k - 1)] = {TxBlock(t, k)}
<1>1. /\ t \in toErase /\ EraseOk(ring, indexList[t]) /\ ring' = Erase(ring, indexList[t])
    BY DEF CompactTx
<1>2. /\ ring \in Ring /\ ring' \in Ring /\ ring.size \in Nat /\ ring'.size \in Nat
      /\ indexList[t] \in Seq(Slot)
    BY CapacityAssumption DEF IInv, TypeOK, Ring
<1>3. Logged(t)
    BY <1>1 DEF IInv, TxOk, Logged
<1>4. PICK n \in Nat : n = TxLen(t) /\ n >= 2
    BY TxBlockType DEF IInv
<1>5. /\ n = Len(indexList[t])
      /\ \A k \in 1 .. n : log[indexList[t][k]] = {TxBlock(t, k)}
    BY <1>3, <1>4 DEF IInv, CommittedDurable
<1>6. /\ n <= ring.size /\ ring'.size = ring.size - n
      /\ \A k \in Nat : n + k < ring.size => Cell(ring', k) = Cell(ring, n + k)
      /\ \A k \in 1 .. n : indexList[t][k] = Cell(ring, k - 1)
    <2>1. PICK list \in Seq(Slot) : list = indexList[t]
        BY <1>2
    <2>2. EraseOk(ring, list) /\ ring' = Erase(ring, list) /\ n = Len(list)
        BY <1>1, <1>5, <2>1
    <2>3. /\ n <= ring.size /\ Erase(ring, list).size = ring.size - n
          /\ \A k \in Nat : n + k < ring.size => Cell(Erase(ring, list), k) = Cell(ring, n + k)
          /\ \A k \in 1 .. n : list[k] = Cell(ring, k - 1)
        <3>1. ring \in Ring /\ n \in Nat /\ list \in Seq(Slot)
            BY <1>2, <1>4, <2>1
        <3>2. EraseOk(ring, list) /\ n = Len(list)
            BY <2>2
        <3> QED BY <3>1, <3>2, EraseCells, Zenon
    <2> QED BY <2>1, <2>2, <2>3
<1>7. \A k \in 1 .. n : log[Cell(ring, k - 1)] = {TxBlock(t, k)}
    BY <1>5, <1>6
<1> QED BY <1>4, <1>6, <1>7

\* How the ring and what its slots will hold may change in a sound log.
LEMMA RingFrom ==
    ASSUME IInv, IInv', ReplayParses, [Next]_vars, LogSound', jstate' \in {"Running", "Stopped"}
    PROVE  \/ ring'.size = 0
           \/ /\ jstate \in {"Running", "Stopped"}
              /\ \/ ring' = ring /\ NextLog' = NextLog
                 \/ WriteTx
                 \/ NextLog = log /\ NextLog' = log /\ \E t \in Tx : CompactTx(t)
<1>0. TypeOK /\ Modes
    BY DEF IInv
<1> DEFINE Goal == \/ ring'.size = 0
                   \/ /\ jstate \in {"Running", "Stopped"}
                      /\ \/ ring' = ring /\ NextLog' = NextLog
                         \/ WriteTx
                         \/ NextLog = log /\ NextLog' = log /\ \E s \in Tx : CompactTx(s)
<1>s. jstate \in {"Running", "Stopped"} /\ ring' = ring /\ NextLog' = NextLog => Goal
    OBVIOUS
<1>b. ASSUME jstate \in {"Running", "Stopped"},
             UNCHANGED <<ring, log, tpc, fpc, batch, nwritten, berr, indexList>>
      PROVE  Goal
    <2>1. NextLog' = NextLog
        BY <1>b, NextLogKept
    <2> QED BY <1>b, <2>1
<1>c. ASSUME tpc' # "write", fpc' # "blocks" PROVE NextLog' = log'
    <2>1. log' \in [Slot -> SUBSET Block]
        BY DEF IInv, TypeOK
    <2> QED BY <1>c, <2>1 DEF NextLog
<1>d. ASSUME jstate \in {"Running", "Stopped"}, UNCHANGED <<ring, log>>,
             tpc # "write", fpc # "blocks", tpc' # "write", fpc' # "blocks"
      PROVE  Goal
    <2>1. NextLog = log
        BY <1>0, <1>d, NextLogIsLog
    <2> QED BY <1>c, <1>d, <2>1
<1> USE <1>0 DEF mountVars, tableVars, threadVars, txVars, homeVars, histVars
<1>1. ASSUME NEW t \in Tx, BeginTx(t) PROVE Goal
    BY <1>1, <1>b DEF BeginTx
<1>2. ASSUME NEW t \in Tx, NEW page \in Pages, Write(t, page) PROVE Goal
    BY <1>2, <1>b DEF Write
<1>3. ASSUME NEW t \in Tx, Abandon(t) PROVE Goal
    BY <1>3, <1>b DEF Abandon
<1>4. ASSUME NEW t \in Tx, Commit(t) PROVE Goal
    BY <1>4, <1>b DEF Commit
<1>5. ASSUME NEW t \in Tx, CommitRefused(t) PROVE Goal
    BY <1>5, <1>b DEF CommitRefused
<1>6. ASSUME NEW t \in Tx, CommitFailed(t) PROVE Goal
    BY <1>6, <1>b DEF CommitFailed
<1>7. ASSUME NEW t \in Tx, Apply(t) PROVE Goal
    BY <1>7, <1>b DEF Apply
<1>8. ASSUME NEW t \in Tx, ApplyDone(t) PROVE Goal
    BY <1>8, <1>b DEF ApplyDone
<1>9. ASSUME NEW t \in Tx, ApplyFailed(t) PROVE Goal
    BY <1>9, <1>b DEF ApplyFailed
<1>10. ASSUME NEW t \in Tx, EraseTx(t) PROVE Goal
    BY <1>10, <1>b DEF EraseTx
<1>11. ASSUME CheckStopping PROVE Goal
    BY <1>11, <1>d DEF CheckStopping, Modes
<1>12. ASSUME NoWork PROVE Goal
    BY <1>12, <1>d DEF NoWork, Modes
<1>13. ASSUME TakeBatch PROVE Goal
    <2>1. /\ tpc' = "write" /\ nwritten' = 0 /\ UNCHANGED <<ring, log, fpc, jstate>>
          /\ tpc = "wait"
        BY <1>13 DEF TakeBatch
    <2>2. \A u \in Tx : ~InRound(u)'
        <3>1. 1 .. 0 = {}
            OBVIOUS
        <3> QED BY <2>1, <3>1 DEF InRound
    <2>3. \A i : RoundBlock(i)' = {}
        BY <2>2 DEF RoundBlock
    <2>4. log \in [Slot -> SUBSET Block]
        BY DEF TypeOK
    <2>5. NextLog' = log
        BY <2>1, <2>3, <2>4 DEF NextLog
    <2>6. NextLog = log
        BY <2>1, NextLogIsLog DEF Modes
    <2> QED BY <1>13, <1>s, <2>1, <2>5, <2>6
<1>14. ASSUME WriteTx PROVE Goal
    BY <1>14 DEF WriteTx
<1>15. ASSUME NEW n \in 0 .. Capacity, WriteTxFail(n) PROVE Goal
    BY <1>15 DEF WriteTxFail, LogSound
<1>16. ASSUME FlushBlocks PROVE Goal
    <2>1. /\ tpc = "write" /\ nwritten = Len(batch) /\ tpc' = "flush" /\ fpc' = "blocks"
          /\ UNCHANGED <<ring, jstate, batch, nwritten, berr, indexList, blocks>>
          /\ log' = [i \in Slot |-> log[i] \cup
                   (IF i \in BatchSlots THEN BatchBlock(i) \cup {Torn} ELSE {})]
        BY <1>16 DEF FlushBlocks
    <2>2. {u \in Tx : InRound(u)'} = {u \in Tx : InRound(u)}
        <3>1. DOMAIN batch = 1 .. nwritten
            BY <2>1 DEF TypeOK
        <3> QED BY <2>1, <3>1 DEF InRound
    <2>3. \A i : RoundBlock(i)' = RoundBlock(i)
        <3>1. \A u : TxLen(u)' = TxLen(u) /\ \A k : TxBlock(u, k)' = TxBlock(u, k)
            BY <2>1 DEF TxLen, TxBlock, BeginBlock, DataBlock, CommitBlock
        <3> QED BY <2>1, <2>2, <3>1 DEF RoundBlock
    <2>4. \A i \in Slot : RoundBlock(i) = {} => log'[i] = log[i]
        BY <2>1, RoundIsBatch
    <2>5. NextLog' = NextLog
        BY <2>1, <2>3, <2>4 DEF NextLog
    <2> QED BY <1>s, <2>1, <2>5
<1>17. ASSUME CompleteTx PROVE Goal
    BY <1>17, <1>d DEF CompleteTx, Modes
<1>18. ASSUME RoundDone PROVE Goal
    BY <1>18, <1>d DEF RoundDone, Modes
<1>19. ASSUME FlushHeader PROVE Goal
    <2>1. /\ fpc = "blocks" /\ fpc' = "header" /\ UNCHANGED <<ring, jstate, tpc>>
          /\ log' = [i \in Slot |-> IF i \in BatchSlots THEN BatchBlock(i) ELSE log[i]]
        BY <1>19 DEF FlushHeader, WrittenBlock
    <2>2. log' = NextLog
        BY <2>1, RoundIsBatch DEF NextLog
    <2>3. tpc # "write"
        BY <2>1 DEF Modes
    <2> QED BY <1>s, <1>c, <2>1, <2>2, <2>3
<1>20. ASSUME FlushHeaderDone PROVE Goal
    BY <1>20, <1>d DEF FlushHeaderDone, Modes
<1>21. ASSUME NEW t \in Tx, CompactTx(t) PROVE Goal
    <2>1. UNCHANGED <<tpc, fpc, log, jstate>> /\ fpc = "compact"
        BY <1>21 DEF CompactTx
    <2>2. tpc # "write"
        BY <2>1 DEF Modes
    <2>3. NextLog = log
        BY <2>1, <2>2, NextLogIsLog
    <2>4. NextLog' = log
        BY <1>c, <2>1, <2>2
    <2> QED BY <1>21, <2>1, <2>3, <2>4
<1>22. ASSUME CompactDone PROVE Goal
    BY <1>22, <1>d DEF CompactDone, FlushReturn, Modes
<1>23. ASSUME FlushFailed PROVE Goal
    BY <1>23 DEF FlushFailed, LogSound
<1>24. ASSUME Format PROVE Goal
    BY <1>24 DEF Format
<1>25. ASSUME LoadHeader PROVE Goal
    BY <1>25 DEF LoadHeader
<1>26. ASSUME ReplayBlock PROVE Goal
    <2>1. mpc = "replay" /\ PopOk(ring) /\ jstate = "Replaying"
        BY <1>26 DEF ReplayBlock, Modes
    <2>2. \A b \in log[ring.start] : ReplayStep(b) \in {"add", "apply"}
        BY <2>1, ReplayNoCorrupt
    <2>3. jstate' = jstate
        BY <1>26, <2>2 DEF ReplayBlock
    <2> QED BY <2>1, <2>3
<1>27. ASSUME ReplayApplied PROVE Goal
    BY <1>27 DEF ReplayApplied, Modes
<1>28. ASSUME ReplayDone PROVE Goal
    BY <1>28 DEF ReplayDone, PopOk
<1>29. ASSUME ReplayFailed PROVE Goal
    BY <1>29 DEF ReplayFailed, Modes
<1>30. ASSUME Unload PROVE Goal
    BY <1>30, <1>b DEF Unload
<1>31. ASSUME UnloadFlush PROVE Goal
    BY <1>31, <1>d DEF UnloadFlush, CancelQueued, Modes
<1>32. ASSUME UnloadNoFlush PROVE Goal
    BY <1>32, <1>d DEF UnloadNoFlush, CancelQueued, Modes
<1>33. ASSUME Destroy PROVE Goal
    BY <1>33 DEF Destroy, Forget
<1>34. ASSUME Crash PROVE Goal
    BY <1>34 DEF Crash, Forget
<1>35. ASSUME UNCHANGED vars PROVE Goal
    BY <1>35, <1>b DEF vars
<1> QED
    BY <1>1, <1>2, <1>3, <1>4, <1>5, <1>6, <1>7, <1>8, <1>9, <1>10, <1>11,
       <1>12, <1>13, <1>14, <1>15, <1>16, <1>17, <1>18, <1>19, <1>20, <1>21, <1>22,
       <1>23, <1>24, <1>25, <1>26, <1>27, <1>28, <1>29, <1>30, <1>31, <1>32, <1>33,
       <1>34, <1>35 DEF Next, Client, CommitTail, Thread, Flush, Mount

\* Where the headers come from in a sound log: the slots that an old one covers
\* do not change, unless a read settles them, and a new one describes the ring
\* and goes with a flush of the device.
LEMMA HeaderFrom ==
    ASSUME IInv, NoReuse, HeaderRing, [Next]_vars, LogSound', NEW h \in hdr' \ {NoHeader}
    PROVE  \/ h \in hdr /\ \A i \in Used(h) : log'[i] = log[i] \/ \E b \in log[i] : log'[i] = {b}
           \/ /\ h = ring /\ jstate \in {"Running", "Stopped"} /\ log' = NextLog
              /\ FlushHeader \/ UnloadFlush
           \/ h.size = 0 /\ Format
<1>0. /\ TypeOK /\ Modes /\ ring \in Ring /\ hdr \subseteq Ring \cup {NoHeader}
      /\ log \in [Slot -> SUBSET Block]
    BY DEF IInv, TypeOK
<1> DEFINE Goal == \/ h \in hdr /\ \A i \in Used(h) : log'[i] = log[i] \/ \E b \in log[i] : log'[i] = {b}
                   \/ /\ h = ring /\ jstate \in {"Running", "Stopped"} /\ log' = NextLog
                      /\ FlushHeader \/ UnloadFlush
                   \/ h.size = 0 /\ Format
<1>u. h \in hdr => Used(h) \subseteq Slot
    BY <1>0, SlotsUsed
<1>b. log' = log /\ h \in hdr => Goal
    OBVIOUS
<1> USE <1>0 DEF mountVars, tableVars, threadVars, txVars, homeVars, histVars
<1>1. ASSUME NEW t \in Tx, BeginTx(t) PROVE Goal
    BY <1>1, <1>b DEF BeginTx
<1>2. ASSUME NEW t \in Tx, NEW page \in Pages, Write(t, page) PROVE Goal
    BY <1>2, <1>b DEF Write
<1>3. ASSUME NEW t \in Tx, Abandon(t) PROVE Goal
    BY <1>3, <1>b DEF Abandon
<1>4. ASSUME NEW t \in Tx, Commit(t) PROVE Goal
    BY <1>4, <1>b DEF Commit
<1>5. ASSUME NEW t \in Tx, CommitRefused(t) PROVE Goal
    BY <1>5, <1>b DEF CommitRefused
<1>6. ASSUME NEW t \in Tx, CommitFailed(t) PROVE Goal
    BY <1>6, <1>b DEF CommitFailed
<1>7. ASSUME NEW t \in Tx, Apply(t) PROVE Goal
    BY <1>7, <1>b DEF Apply
<1>8. ASSUME NEW t \in Tx, ApplyDone(t) PROVE Goal
    BY <1>8, <1>b DEF ApplyDone
<1>9. ASSUME NEW t \in Tx, ApplyFailed(t) PROVE Goal
    BY <1>9, <1>b DEF ApplyFailed
<1>10. ASSUME NEW t \in Tx, EraseTx(t) PROVE Goal
    BY <1>10, <1>b DEF EraseTx
<1>11. ASSUME CheckStopping PROVE Goal
    BY <1>11, <1>b DEF CheckStopping
<1>12. ASSUME NoWork PROVE Goal
    BY <1>12, <1>b DEF NoWork
<1>13. ASSUME TakeBatch PROVE Goal
    BY <1>13, <1>b DEF TakeBatch
<1>14. ASSUME WriteTx PROVE Goal
    BY <1>14, <1>b DEF WriteTx
<1>15. ASSUME NEW n \in 0 .. Capacity, WriteTxFail(n) PROVE Goal
    BY <1>15, <1>b DEF WriteTxFail
<1>16. ASSUME FlushBlocks PROVE Goal
    <2>1. /\ hdr' = hdr
          /\ log' = [i \in Slot |-> log[i] \cup
                   (IF i \in BatchSlots THEN BatchBlock(i) \cup {Torn} ELSE {})]
          /\ taint' = taint \cup (IF BatchSlots \cap Exposed # {} THEN {"reused"} ELSE {})
        BY <1>16 DEF FlushBlocks
    <2>2. BatchSlots \cap Exposed = {}
        BY <2>1 DEF LogSound
    <2>3. \A i \in Used(h) : i \notin BatchSlots
        BY <2>1, <2>2 DEF Exposed
    <2>4. \A i \in Used(h) : log'[i] = log[i]
        BY <1>u, <2>1, <2>3
    <2> QED BY <2>1, <2>4
<1>17. ASSUME CompleteTx PROVE Goal
    BY <1>17, <1>b DEF CompleteTx
<1>18. ASSUME RoundDone PROVE Goal
    BY <1>18, <1>b DEF RoundDone
<1>19. ASSUME FlushHeader PROVE Goal
    <2>1. /\ fpc = "blocks" /\ hdr' = hdr \cup {ring} /\ FlushCache
          /\ log' = [i \in Slot |-> IF i \in BatchSlots THEN BatchBlock(i) ELSE log[i]]
        BY <1>19 DEF FlushHeader, WrittenBlock
    <2>2. CASE h \in hdr
        <3>1. \A i : i \in BatchSlots =>
                  \E u \in Tx : InRound(u) /\ \E k \in 1 .. TxLen(u) : indexList[u][k] = i
            <4>1. \A i : i \in BatchSlots => RoundBlock(i) # {}
                BY <2>1, RoundIsBatch
            <4> QED BY <4>1 DEF RoundBlock
        <3>2. \A i \in Used(h) : i \notin BatchSlots
            BY <2>1, <2>2, <3>1 DEF NoReuse
        <3>3. \A i \in Used(h) : log'[i] = log[i]
            BY <1>u, <2>1, <2>2, <3>2
        <3> QED BY <2>2, <3>3
    <2>3. CASE h = ring
        <3>1. jstate \in {"Running", "Stopped"}
            BY <2>1 DEF Modes, TypeOK
        <3>2. log' = NextLog
            BY <2>1, RoundIsBatch DEF NextLog
        <3> QED BY <1>19, <2>1, <2>3, <3>1, <3>2
    <2> QED BY <2>1, <2>2, <2>3
<1>20. ASSUME FlushHeaderDone PROVE Goal
    BY <1>20, <1>b DEF FlushHeaderDone, HeaderWritten, HeaderRing
<1>21. ASSUME NEW t \in Tx, CompactTx(t) PROVE Goal
    BY <1>21, <1>b DEF CompactTx
<1>22. ASSUME CompactDone PROVE Goal
    BY <1>22, <1>b DEF CompactDone, FlushReturn
<1>23. ASSUME FlushFailed PROVE Goal
    BY <1>23, <1>b DEF FlushFailed, FlushReturn
<1>24. ASSUME Format PROVE Goal
    BY <1>24 DEF Format, EmptyRing
<1>25. ASSUME LoadHeader PROVE Goal
    <2>1. log' = log /\ hdr' \subseteq hdr
        BY <1>25 DEF LoadHeader
    <2> QED BY <1>b, <2>1
<1>26. ASSUME ReplayBlock PROVE Goal
    <2>1. PICK b \in log[ring.start] : log' = [log EXCEPT ![ring.start] = {b}]
        BY <1>26 DEF ReplayBlock
    <2>2. hdr' = hdr /\ ring.start \in Slot
        BY <1>26 DEF ReplayBlock, Ring
    <2>3. \A i \in Slot : log'[i] = log[i] \/ \E c \in log[i] : log'[i] = {c}
        BY <2>1, <2>2
    <2> QED BY <1>u, <2>2, <2>3
<1>27. ASSUME ReplayApplied PROVE Goal
    BY <1>27, <1>b DEF ReplayApplied
<1>28. ASSUME ReplayDone PROVE Goal
    BY <1>28, <1>b DEF ReplayDone, StartRunning
<1>29. ASSUME ReplayFailed PROVE Goal
    BY <1>29, <1>b DEF ReplayFailed
<1>30. ASSUME Unload PROVE Goal
    BY <1>30, <1>b DEF Unload
<1>31. ASSUME UnloadFlush PROVE Goal
    <2>1. hdr' = hdr \cup {ring} /\ log' = log /\ FlushCache /\ tpc = "exited"
        BY <1>31 DEF UnloadFlush, CancelQueued
    <2>2. NextLog = log /\ jstate \in {"Running", "Stopped"}
        BY <2>1, NextLogIsLog DEF Modes, TypeOK
    <2> QED BY <1>31, <1>b, <2>1, <2>2
<1>32. ASSUME UnloadNoFlush PROVE Goal
    BY <1>32, <1>b DEF UnloadNoFlush, CancelQueued
<1>33. ASSUME Destroy PROVE Goal
    BY <1>33, <1>b DEF Destroy, Forget
<1>34. ASSUME Crash PROVE Goal
    BY <1>34, <1>b DEF Crash, Forget
<1>35. ASSUME UNCHANGED vars PROVE Goal
    BY <1>35, <1>b DEF vars
<1> QED
    BY <1>1, <1>2, <1>3, <1>4, <1>5, <1>6, <1>7, <1>8, <1>9, <1>10, <1>11,
       <1>12, <1>13, <1>14, <1>15, <1>16, <1>17, <1>18, <1>19, <1>20, <1>21, <1>22,
       <1>23, <1>24, <1>25, <1>26, <1>27, <1>28, <1>29, <1>30, <1>31, <1>32, <1>33,
       <1>34, <1>35 DEF Next, Client, CommitTail, Thread, Flush, Mount

-----------------------------------------------------------------------------
(* Before, during and after a round                                        *)

\* Clients come with BeginTx, and only while the journal runs.
LEMMA NoClientsStep == IInv /\ NoClients /\ [Next]_vars => NoClients'
<1> SUFFICES ASSUME IInv, NoClients, [Next]_vars, jstate' \in {"New", "Replaying"}
             PROVE  Active' = {}
    BY DEF NoClients
<1>0. TypeOK /\ Modes
    BY DEF IInv
<1>f. ASSUME jstate \in {"New", "Replaying"}, pc' = pc PROVE Active' = {}
    BY <1>f DEF NoClients, Active
<1> USE <1>0 DEF mountVars, tableVars, threadVars, txVars, homeVars, histVars
<1>1. ASSUME NEW t \in Tx, BeginTx(t) PROVE Active' = {}
    BY <1>1, <1>f DEF BeginTx
<1>2. ASSUME NEW t \in Tx, NEW page \in Pages, Write(t, page) PROVE Active' = {}
    BY <1>2, <1>f DEF Write
<1>3. ASSUME NEW t \in Tx, Abandon(t) PROVE Active' = {}
    BY <1>3 DEF Abandon, NoClients, Active
<1>4. ASSUME NEW t \in Tx, Commit(t) PROVE Active' = {}
    BY <1>4 DEF Commit, NoClients, Active
<1>5. ASSUME NEW t \in Tx, CommitRefused(t) PROVE Active' = {}
    BY <1>5 DEF CommitRefused, NoClients, Active
<1>6. ASSUME NEW t \in Tx, CommitFailed(t) PROVE Active' = {}
    BY <1>6 DEF CommitFailed, NoClients, Active
<1>7. ASSUME NEW t \in Tx, Apply(t) PROVE Active' = {}
    BY <1>7 DEF Apply, NoClients, Active
<1>8. ASSUME NEW t \in Tx, ApplyDone(t) PROVE Active' = {}
    BY <1>8 DEF ApplyDone, NoClients, Active
<1>9. ASSUME NEW t \in Tx, ApplyFailed(t) PROVE Active' = {}
    BY <1>9 DEF ApplyFailed, NoClients, Active
<1>10. ASSUME NEW t \in Tx, EraseTx(t) PROVE Active' = {}
    BY <1>10 DEF EraseTx, NoClients, Active
<1>11. ASSUME CheckStopping PROVE Active' = {}
    BY <1>11, <1>f DEF CheckStopping
<1>12. ASSUME NoWork PROVE Active' = {}
    BY <1>12, <1>f DEF NoWork
<1>13. ASSUME TakeBatch PROVE Active' = {}
    BY <1>13, <1>f DEF TakeBatch
<1>14. ASSUME WriteTx PROVE Active' = {}
    BY <1>14, <1>f DEF WriteTx
<1>15. ASSUME NEW n \in 0 .. Capacity, WriteTxFail(n) PROVE Active' = {}
    BY <1>15, <1>f DEF WriteTxFail
<1>16. ASSUME FlushBlocks PROVE Active' = {}
    BY <1>16, <1>f DEF FlushBlocks
<1>17. ASSUME CompleteTx PROVE Active' = {}
    BY <1>17, <1>f DEF CompleteTx
<1>18. ASSUME RoundDone PROVE Active' = {}
    BY <1>18, <1>f DEF RoundDone
<1>19. ASSUME FlushHeader PROVE Active' = {}
    BY <1>19, <1>f DEF FlushHeader
<1>20. ASSUME FlushHeaderDone PROVE Active' = {}
    BY <1>20, <1>f DEF FlushHeaderDone
<1>21. ASSUME NEW t \in Tx, CompactTx(t) PROVE Active' = {}
    BY <1>21, <1>f DEF CompactTx
<1>22. ASSUME CompactDone PROVE Active' = {}
    BY <1>22, <1>f DEF CompactDone, FlushReturn
<1>23. ASSUME FlushFailed PROVE Active' = {}
    BY <1>23, <1>f DEF FlushFailed, FlushReturn
<1>24. ASSUME Format PROVE Active' = {}
    BY <1>24, <1>f DEF Format
<1>25. ASSUME LoadHeader PROVE Active' = {}
    BY <1>25, <1>f DEF LoadHeader, Modes
<1>26. ASSUME ReplayBlock PROVE Active' = {}
    BY <1>26, <1>f DEF ReplayBlock, StartRunning, Modes
<1>27. ASSUME ReplayApplied PROVE Active' = {}
    BY <1>27, <1>f DEF ReplayApplied, Modes
<1>28. ASSUME ReplayDone PROVE Active' = {}
    BY <1>28, <1>f DEF ReplayDone, StartRunning, Modes
<1>29. ASSUME ReplayFailed PROVE Active' = {}
    BY <1>29, <1>f DEF ReplayFailed, Modes
<1>30. ASSUME Unload PROVE Active' = {}
    BY <1>30, <1>f DEF Unload
<1>31. ASSUME UnloadFlush PROVE Active' = {}
    BY <1>31, <1>f DEF UnloadFlush, CancelQueued
<1>32. ASSUME UnloadNoFlush PROVE Active' = {}
    BY <1>32, <1>f DEF UnloadNoFlush, CancelQueued
<1>33. ASSUME Destroy PROVE Active' = {}
    BY <1>33 DEF Destroy, Forget, Active
<1>34. ASSUME Crash PROVE Active' = {}
    BY <1>34 DEF Crash, Forget, Active
<1>35. ASSUME UNCHANGED vars PROVE Active' = {}
    BY <1>35, <1>f DEF vars
<1> QED
    BY <1>1, <1>2, <1>3, <1>4, <1>5, <1>6, <1>7, <1>8, <1>9, <1>10, <1>11,
       <1>12, <1>13, <1>14, <1>15, <1>16, <1>17, <1>18, <1>19, <1>20, <1>21, <1>22,
       <1>23, <1>24, <1>25, <1>26, <1>27, <1>28, <1>29, <1>30, <1>31, <1>32, <1>33,
       <1>34, <1>35 DEF Next, Client, CommitTail, Thread, Flush, Mount

\* The header that is being written describes the ring until it is there.
LEMMA HeaderRingStep == IInv /\ HeaderRing /\ [Next]_vars => HeaderRing'
<1> SUFFICES ASSUME IInv, HeaderRing, [Next]_vars, fpc' = "header" PROVE ring' \in hdr'
    BY DEF HeaderRing
<1>0. Modes
    BY DEF IInv
<1>f. ASSUME UNCHANGED <<fpc, ring, hdr>> PROVE ring' \in hdr'
    BY <1>f DEF HeaderRing
<1> USE <1>0 DEF mountVars, tableVars, threadVars, txVars, homeVars, histVars
<1>1. ASSUME NEW t \in Tx, BeginTx(t) PROVE ring' \in hdr'
    BY <1>1, <1>f DEF BeginTx
<1>2. ASSUME NEW t \in Tx, NEW page \in Pages, Write(t, page) PROVE ring' \in hdr'
    BY <1>2, <1>f DEF Write
<1>3. ASSUME NEW t \in Tx, Abandon(t) PROVE ring' \in hdr'
    BY <1>3, <1>f DEF Abandon
<1>4. ASSUME NEW t \in Tx, Commit(t) PROVE ring' \in hdr'
    BY <1>4, <1>f DEF Commit
<1>5. ASSUME NEW t \in Tx, CommitRefused(t) PROVE ring' \in hdr'
    BY <1>5, <1>f DEF CommitRefused
<1>6. ASSUME NEW t \in Tx, CommitFailed(t) PROVE ring' \in hdr'
    BY <1>6, <1>f DEF CommitFailed
<1>7. ASSUME NEW t \in Tx, Apply(t) PROVE ring' \in hdr'
    BY <1>7, <1>f DEF Apply
<1>8. ASSUME NEW t \in Tx, ApplyDone(t) PROVE ring' \in hdr'
    BY <1>8, <1>f DEF ApplyDone
<1>9. ASSUME NEW t \in Tx, ApplyFailed(t) PROVE ring' \in hdr'
    BY <1>9, <1>f DEF ApplyFailed
<1>10. ASSUME NEW t \in Tx, EraseTx(t) PROVE ring' \in hdr'
    BY <1>10, <1>f DEF EraseTx
<1>11. ASSUME CheckStopping PROVE ring' \in hdr'
    BY <1>11, <1>f DEF CheckStopping
<1>12. ASSUME NoWork PROVE ring' \in hdr'
    BY <1>12, <1>f DEF NoWork
<1>13. ASSUME TakeBatch PROVE ring' \in hdr'
    BY <1>13, <1>f DEF TakeBatch
<1>14. ASSUME WriteTx PROVE ring' \in hdr'
    BY <1>14, <1>f DEF WriteTx, Modes
<1>15. ASSUME NEW n \in 0 .. Capacity, WriteTxFail(n) PROVE ring' \in hdr'
    BY <1>15, <1>f DEF WriteTxFail, Modes
<1>16. ASSUME FlushBlocks PROVE ring' \in hdr'
    BY <1>16, <1>f DEF FlushBlocks
<1>17. ASSUME CompleteTx PROVE ring' \in hdr'
    BY <1>17, <1>f DEF CompleteTx
<1>18. ASSUME RoundDone PROVE ring' \in hdr'
    BY <1>18, <1>f DEF RoundDone
<1>19. ASSUME FlushHeader PROVE ring' \in hdr'
    BY <1>19, <1>f DEF FlushHeader
<1>20. ASSUME FlushHeaderDone PROVE ring' \in hdr'
    BY <1>20, <1>f DEF FlushHeaderDone
<1>21. ASSUME NEW t \in Tx, CompactTx(t) PROVE ring' \in hdr'
    BY <1>21, <1>f DEF CompactTx
<1>22. ASSUME CompactDone PROVE ring' \in hdr'
    BY <1>22, <1>f DEF CompactDone, FlushReturn
<1>23. ASSUME FlushFailed PROVE ring' \in hdr'
    BY <1>23, <1>f DEF FlushFailed, FlushReturn
<1>24. ASSUME Format PROVE ring' \in hdr'
    BY <1>24, <1>f DEF Format, Modes
<1>25. ASSUME LoadHeader PROVE ring' \in hdr'
    BY <1>25, <1>f DEF LoadHeader, Modes
<1>26. ASSUME ReplayBlock PROVE ring' \in hdr'
    BY <1>26, <1>f DEF ReplayBlock, StartRunning, Modes
<1>27. ASSUME ReplayApplied PROVE ring' \in hdr'
    BY <1>27, <1>f DEF ReplayApplied
<1>28. ASSUME ReplayDone PROVE ring' \in hdr'
    BY <1>28, <1>f DEF ReplayDone, StartRunning
<1>29. ASSUME ReplayFailed PROVE ring' \in hdr'
    BY <1>29, <1>f DEF ReplayFailed
<1>30. ASSUME Unload PROVE ring' \in hdr'
    BY <1>30, <1>f DEF Unload
<1>31. ASSUME UnloadFlush PROVE ring' \in hdr'
    BY <1>31, <1>f DEF UnloadFlush, CancelQueued
<1>32. ASSUME UnloadNoFlush PROVE ring' \in hdr'
    BY <1>32, <1>f DEF UnloadNoFlush, CancelQueued
<1>33. ASSUME Destroy PROVE ring' \in hdr'
    BY <1>33, <1>f DEF Destroy, Forget
<1>34. ASSUME Crash PROVE ring' \in hdr'
    BY <1>34, <1>f DEF Crash, Forget
<1>35. ASSUME UNCHANGED vars PROVE ring' \in hdr'
    BY <1>35, <1>f DEF vars
<1> QED
    BY <1>1, <1>2, <1>3, <1>4, <1>5, <1>6, <1>7, <1>8, <1>9, <1>10, <1>11,
       <1>12, <1>13, <1>14, <1>15, <1>16, <1>17, <1>18, <1>19, <1>20, <1>21, <1>22,
       <1>23, <1>24, <1>25, <1>26, <1>27, <1>28, <1>29, <1>30, <1>31, <1>32, <1>33,
       <1>34, <1>35 DEF Next, Client, CommitTail, Thread, Flush, Mount

\* In a sound log a transaction that is past its round loses its slots only to
\* CompactLog, as long as the journal runs.
LEMMA Unplaced ==
    ASSUME IInv, [Next]_vars, LogSound', ~berr, jstate' \in {"Running", "Stopped"},
           NEW u \in Tx, txState'[u] = "Commited" \/ pc'[u] = "lost", ~Placed(u)'
    PROVE  \/ (txState[u] = "Commited" \/ pc[u] = "lost") /\ ~Placed(u)
           \/ CompactTx(u)
<1>0. TypeOK /\ Modes /\ QueueOk /\ TxOk
    BY DEF IInv
<1> DEFINE Goal == \/ (txState[u] = "Commited" \/ pc[u] = "lost") /\ ~Placed(u)
                   \/ CompactTx(u)
<1>f. ASSUME UNCHANGED <<txTable, erased, tpc, nwritten, batch, berr>>,
             txState'[u] = txState[u], pc'[u] = "lost" => pc[u] = "lost"
      PROVE  Goal
    BY <1>f DEF Placed, InRound
<1>e. ASSUME txTable = {}, txState'[u] = txState[u], pc'[u] = "lost" => pc[u] = "lost"
      PROVE  Goal
    BY <1>e DEF Placed
<1> USE <1>0 DEF mountVars, tableVars, threadVars, txVars, homeVars, histVars
<1>1. ASSUME NEW t \in Tx, BeginTx(t) PROVE Goal
    <2>1. /\ txState' = [txState EXCEPT ![t] = "New"] /\ pc' = [pc EXCEPT ![t] = "open"]
          /\ txTable' = txTable \cup {t} /\ UNCHANGED <<erased, tpc, nwritten, batch, berr>>
        BY <1>1 DEF BeginTx
    <2>2. u # t /\ txState'[u] = txState[u] /\ pc'[u] = pc[u]
        BY <2>1 DEF TypeOK
    <2> QED BY <2>1, <2>2 DEF Placed, InRound
<1>2. ASSUME NEW t \in Tx, NEW page \in Pages, Write(t, page) PROVE Goal
    BY <1>2, <1>f DEF Write
<1>3. ASSUME NEW t \in Tx, Abandon(t) PROVE Goal
    BY <1>3, <1>f DEF Abandon, TypeOK
<1>4. ASSUME NEW t \in Tx, Commit(t) PROVE Goal
    <2>1. /\ \E s : txState' = [txState EXCEPT ![t] = s] /\ s \in {"Commiting", "Canceled"}
          /\ \E s : pc' = [pc EXCEPT ![t] = s] /\ s \in {"waiting", "returned"}
          /\ txTable \ {t} \subseteq txTable' /\ UNCHANGED <<erased, tpc, nwritten, batch, berr>>
        BY <1>4 DEF Commit
    <2>2. u # t /\ txState'[u] = txState[u] /\ pc'[u] = pc[u]
        BY <2>1 DEF TypeOK
    <2> QED BY <2>1, <2>2 DEF Placed, InRound
<1>5. ASSUME NEW t \in Tx, CommitRefused(t) PROVE Goal
    <2>1. /\ \E s : txState' = [txState EXCEPT ![t] = s] /\ s \in {"Commiting", "Canceled"}
          /\ \E s : pc' = [pc EXCEPT ![t] = s] /\ s \in {"waiting", "returned"}
          /\ txTable \ {t} \subseteq txTable' /\ UNCHANGED <<erased, tpc, nwritten, batch, berr>>
        BY <1>5 DEF CommitRefused
    <2>2. u # t /\ txState'[u] = txState[u] /\ pc'[u] = pc[u]
        BY <2>1 DEF TypeOK
    <2> QED BY <2>1, <2>2 DEF Placed, InRound
<1>6. ASSUME NEW t \in Tx, CommitFailed(t) PROVE Goal
    BY <1>6, <1>f DEF CommitFailed, TypeOK
<1>7. ASSUME NEW t \in Tx, Apply(t) PROVE Goal
    BY <1>7, <1>f DEF Apply, TypeOK
<1>8. ASSUME NEW t \in Tx, ApplyDone(t) PROVE Goal
    BY <1>8, <1>f DEF ApplyDone, TypeOK
<1>9. ASSUME NEW t \in Tx, ApplyFailed(t) PROVE Goal
    BY <1>9, <1>f DEF ApplyFailed, TypeOK
<1>10. ASSUME NEW t \in Tx, EraseTx(t) PROVE Goal
    BY <1>10, <1>f DEF EraseTx, TypeOK
<1>11. ASSUME CheckStopping PROVE Goal
    BY <1>11 DEF CheckStopping, Placed, InRound, Modes
<1>12. ASSUME NoWork PROVE Goal
    BY <1>12 DEF NoWork, Placed, InRound, Modes
<1>13. ASSUME TakeBatch PROVE Goal
    BY <1>13 DEF TakeBatch, Placed, InRound, Modes
<1>14. ASSUME WriteTx PROVE Goal
    <2>1. /\ tpc = "write" /\ nwritten \in Nat /\ nwritten' = nwritten + 1
          /\ UNCHANGED <<txTable, erased, txState, tpc, batch, berr, pc>>
        BY <1>14 DEF WriteTx, TypeOK
    <2>2. \A j \in 1 .. nwritten : j \in 1 .. nwritten'
        BY <2>1
    <2> QED BY <2>1, <2>2 DEF Placed, InRound
<1>15. ASSUME NEW n \in 0 .. Capacity, WriteTxFail(n) PROVE Goal
    BY <1>15 DEF WriteTxFail, LogSound
<1>16. ASSUME FlushBlocks PROVE Goal
    <2>1. /\ tpc = "write" /\ nwritten = Len(batch) /\ tpc' = "flush" /\ DOMAIN batch = 1 .. nwritten
          /\ UNCHANGED <<txTable, erased, txState, batch, berr, pc>>
        BY <1>16 DEF FlushBlocks, TypeOK
    <2> QED BY <2>1 DEF Placed, InRound
<1>17. ASSUME CompleteTx PROVE Goal
    <2> DEFINE t == Head(batch)
    <2>1. /\ tpc = "complete" /\ t = batch[1] /\ 1 \in DOMAIN batch /\ t \in Tx
          /\ \A i \in DOMAIN batch : i # 1 => \E j \in DOMAIN Tail(batch) : Tail(batch)[j] = batch[i]
        <3>1. tpc = "complete" /\ batch # <<>> /\ batch \in Seq(Tx)
            BY <1>17 DEF CompleteTx, TypeOK
        <3>2. ASSUME NEW i \in DOMAIN batch, i # 1 PROVE i - 1 \in DOMAIN Tail(batch) /\ Tail(batch)[i - 1] = batch[i]
            BY <3>1, <3>2
        <3> QED BY <3>1, <3>2
    <2>2. /\ txState' = [txState EXCEPT ![t] = "Commited"] /\ txTable' = txTable
          /\ batch' = Tail(batch) /\ UNCHANGED <<tpc, berr, erased, pc>>
        BY <1>17 DEF CompleteTx, Outcome
    <2> HIDE DEF t
    <2>3. t \in txTable /\ t \notin erased
        BY <2>1 DEF QueueOk, TxOk
    <2>4. u # t
        BY <2>2, <2>3 DEF Placed, TypeOK
    <2>5. txState'[u] = txState[u]
        BY <2>1, <2>2, <2>4 DEF TypeOK
    <2>6. InRound(u) => InRound(u)'
        BY <2>1, <2>2, <2>4 DEF InRound
    <2> QED BY <2>2, <2>5, <2>6 DEF Placed
<1>18. ASSUME RoundDone PROVE Goal
    BY <1>18 DEF RoundDone, Placed, InRound, Modes
<1>19. ASSUME FlushHeader PROVE Goal
    BY <1>19, <1>f DEF FlushHeader
<1>20. ASSUME FlushHeaderDone PROVE Goal
    BY <1>20, <1>f DEF FlushHeaderDone
<1>21. ASSUME NEW t \in Tx, CompactTx(t) PROVE Goal
    <2>1. UNCHANGED <<txTable, txState, tpc, nwritten, batch, berr, pc>> /\ erased' = erased \cup {t}
        BY <1>21 DEF CompactTx
    <2>2. CASE u = t
        BY <1>21, <2>2
    <2>3. CASE u # t
        BY <2>1, <2>3 DEF Placed, InRound
    <2> QED BY <2>2, <2>3
<1>22. ASSUME CompactDone PROVE Goal
    <2>1. /\ UNCHANGED <<txTable, erased, txState, nwritten, batch, pc>> /\ fpc = "compact"
          /\ \/ tpc' = "complete" /\ berr' = FALSE
             \/ mpc = "flush" /\ UNCHANGED <<tpc, berr>>
        BY <1>22 DEF CompactDone, FlushReturn
    <2>2. InRound(u) => InRound(u)'
        BY <2>1 DEF InRound, Modes
    <2> QED BY <2>1, <2>2 DEF Placed
<1>23. ASSUME FlushFailed PROVE Goal
    BY <1>23 DEF FlushFailed, LogSound
<1>24. ASSUME Format PROVE Goal
    BY <1>24, <1>f DEF Format
<1>25. ASSUME LoadHeader PROVE Goal
    BY <1>25, <1>f DEF LoadHeader
<1>26. ASSUME ReplayBlock PROVE Goal
    BY <1>26, <1>e DEF ReplayBlock, Modes
<1>27. ASSUME ReplayApplied PROVE Goal
    BY <1>27, <1>f DEF ReplayApplied
<1>28. ASSUME ReplayDone PROVE Goal
    BY <1>28, <1>e DEF ReplayDone, Modes
<1>29. ASSUME ReplayFailed PROVE Goal
    BY <1>29, <1>f DEF ReplayFailed
<1>30. ASSUME Unload PROVE Goal
    BY <1>30, <1>f DEF Unload
<1>31. ASSUME UnloadFlush PROVE Goal
    <2>1. /\ tpc = "exited" /\ txTable' = txTable \ Range(txList)
          /\ txState' = [t \in Tx |-> IF t \in Range(txList) THEN "Canceled" ELSE txState[t]]
          /\ UNCHANGED <<erased, batch, pc>>
        BY <1>31 DEF UnloadFlush, CancelQueued
    <2>2. u \in Range(txList) => txState[u] = "Commiting" /\ txState'[u] = "Canceled"
        BY <2>1 DEF QueueOk, Range
    <2>3. ~InRound(u)
        BY <2>1 DEF InRound
    <2> QED BY <2>1, <2>2, <2>3 DEF Placed
<1>32. ASSUME UnloadNoFlush PROVE Goal
    <2>1. /\ tpc = "exited" /\ txTable' = txTable \ Range(txList)
          /\ txState' = [t \in Tx |-> IF t \in Range(txList) THEN "Canceled" ELSE txState[t]]
          /\ UNCHANGED <<erased, batch, pc>>
        BY <1>32 DEF UnloadNoFlush, CancelQueued
    <2>2. u \in Range(txList) => txState[u] = "Commiting" /\ txState'[u] = "Canceled"
        BY <2>1 DEF QueueOk, Range
    <2>3. ~InRound(u)
        BY <2>1 DEF InRound
    <2> QED BY <2>1, <2>2, <2>3 DEF Placed
<1>33. ASSUME Destroy PROVE Goal
    BY <1>33 DEF Destroy, Forget
<1>34. ASSUME Crash PROVE Goal
    BY <1>34 DEF Crash, Forget
<1>35. ASSUME UNCHANGED vars PROVE Goal
    BY <1>35, <1>f DEF vars
<1> QED
    BY <1>1, <1>2, <1>3, <1>4, <1>5, <1>6, <1>7, <1>8, <1>9, <1>10, <1>11,
       <1>12, <1>13, <1>14, <1>15, <1>16, <1>17, <1>18, <1>19, <1>20, <1>21, <1>22,
       <1>23, <1>24, <1>25, <1>26, <1>27, <1>28, <1>29, <1>30, <1>31, <1>32, <1>33,
       <1>34, <1>35 DEF Next, Client, CommitTail, Thread, Flush, Mount

\* During Replay nothing else happens.
LEMMA ReplayCases ==
    ASSUME IInv, NoClients, [Next]_vars, mpc' \in {"replay", "apply"}
    PROVE  LoadHeader \/ ReplayBlock \/ ReplayApplied \/ UNCHANGED vars
<1>0. Modes
    BY DEF IInv
<1> DEFINE Goal == LoadHeader \/ ReplayBlock \/ ReplayApplied \/ UNCHANGED vars
<1>a. mpc \in {"replay", "apply"} => /\ jstate = "Replaying" /\ tpc = "none" /\ fpc = "none"
                                     /\ \A t \in Tx : pc[t] \notin {"open", "waiting", "applying", "applied"}
    BY <1>0 DEF Modes, NoClients, Active
<1> USE <1>0 DEF mountVars, tableVars, threadVars, txVars, homeVars, histVars
<1>1. ASSUME NEW t \in Tx, BeginTx(t) PROVE Goal
    BY <1>1, <1>a DEF BeginTx
<1>2. ASSUME NEW t \in Tx, NEW page \in Pages, Write(t, page) PROVE Goal
    BY <1>2, <1>a DEF Write
<1>3. ASSUME NEW t \in Tx, Abandon(t) PROVE Goal
    BY <1>3, <1>a DEF Abandon
<1>4. ASSUME NEW t \in Tx, Commit(t) PROVE Goal
    BY <1>4, <1>a DEF Commit
<1>5. ASSUME NEW t \in Tx, CommitRefused(t) PROVE Goal
    BY <1>5, <1>a DEF CommitRefused
<1>6. ASSUME NEW t \in Tx, CommitFailed(t) PROVE Goal
    BY <1>6, <1>a DEF CommitFailed
<1>7. ASSUME NEW t \in Tx, Apply(t) PROVE Goal
    BY <1>7, <1>a DEF Apply
<1>8. ASSUME NEW t \in Tx, ApplyDone(t) PROVE Goal
    BY <1>8, <1>a DEF ApplyDone
<1>9. ASSUME NEW t \in Tx, ApplyFailed(t) PROVE Goal
    BY <1>9, <1>a DEF ApplyFailed
<1>10. ASSUME NEW t \in Tx, EraseTx(t) PROVE Goal
    BY <1>10, <1>a DEF EraseTx
<1>11. ASSUME CheckStopping PROVE Goal
    BY <1>11, <1>a DEF CheckStopping
<1>12. ASSUME NoWork PROVE Goal
    BY <1>12, <1>a DEF NoWork
<1>13. ASSUME TakeBatch PROVE Goal
    BY <1>13, <1>a DEF TakeBatch
<1>14. ASSUME WriteTx PROVE Goal
    BY <1>14, <1>a DEF WriteTx
<1>15. ASSUME NEW n \in 0 .. Capacity, WriteTxFail(n) PROVE Goal
    BY <1>15, <1>a DEF WriteTxFail
<1>16. ASSUME FlushBlocks PROVE Goal
    BY <1>16, <1>a DEF FlushBlocks
<1>17. ASSUME CompleteTx PROVE Goal
    BY <1>17, <1>a DEF CompleteTx
<1>18. ASSUME RoundDone PROVE Goal
    BY <1>18, <1>a DEF RoundDone
<1>19. ASSUME FlushHeader PROVE Goal
    BY <1>19, <1>a DEF FlushHeader
<1>20. ASSUME FlushHeaderDone PROVE Goal
    BY <1>20, <1>a DEF FlushHeaderDone
<1>21. ASSUME NEW t \in Tx, CompactTx(t) PROVE Goal
    BY <1>21, <1>a DEF CompactTx
<1>22. ASSUME CompactDone PROVE Goal
    BY <1>22, <1>a DEF CompactDone, FlushReturn
<1>23. ASSUME FlushFailed PROVE Goal
    BY <1>23, <1>a DEF FlushFailed, FlushReturn
<1>24. ASSUME Format PROVE Goal
    BY <1>24, <1>a DEF Format
<1>25. ASSUME LoadHeader PROVE Goal
    BY <1>25
<1>26. ASSUME ReplayBlock PROVE Goal
    BY <1>26
<1>27. ASSUME ReplayApplied PROVE Goal
    BY <1>27
<1>28. ASSUME ReplayDone PROVE Goal
    BY <1>28, <1>a DEF ReplayDone, StartRunning
<1>29. ASSUME ReplayFailed PROVE Goal
    BY <1>29, <1>a DEF ReplayFailed
<1>30. ASSUME Unload PROVE Goal
    BY <1>30, <1>a DEF Unload
<1>31. ASSUME UnloadFlush PROVE Goal
    BY <1>31, <1>a DEF UnloadFlush, CancelQueued
<1>32. ASSUME UnloadNoFlush PROVE Goal
    BY <1>32, <1>a DEF UnloadNoFlush, CancelQueued
<1>33. ASSUME Destroy PROVE Goal
    BY <1>33, <1>a DEF Destroy, Forget
<1>34. ASSUME Crash PROVE Goal
    BY <1>34, <1>a DEF Crash, Forget
<1>35. ASSUME UNCHANGED vars PROVE Goal
    BY <1>35
<1> QED
    BY <1>1, <1>2, <1>3, <1>4, <1>5, <1>6, <1>7, <1>8, <1>9, <1>10, <1>11,
       <1>12, <1>13, <1>14, <1>15, <1>16, <1>17, <1>18, <1>19, <1>20, <1>21, <1>22,
       <1>23, <1>24, <1>25, <1>26, <1>27, <1>28, <1>29, <1>30, <1>31, <1>32, <1>33,
       <1>34, <1>35 DEF Next, Client, CommitTail, Thread, Flush, Mount

\* CompactLog runs under the journal's lock.
LEMMA CompactCases ==
    ASSUME IInv, [Next]_vars, fpc' = "compact"
    PROVE  \/ FlushHeaderDone \/ \E t \in Tx : CompactTx(t)
           \/ fpc = "compact" /\ UNCHANGED <<ring, log, hdr, toErase>>
<1>0. Modes
    BY DEF IInv
<1> DEFINE Goal == \/ FlushHeaderDone \/ \E s \in Tx : CompactTx(s)
                   \/ fpc = "compact" /\ UNCHANGED <<ring, log, hdr, toErase>>
<1> USE <1>0 DEF mountVars, tableVars, threadVars, txVars, homeVars, histVars
<1>1. ASSUME NEW t \in Tx, BeginTx(t) PROVE Goal
    BY <1>1 DEF BeginTx
<1>2. ASSUME NEW t \in Tx, NEW page \in Pages, Write(t, page) PROVE Goal
    BY <1>2 DEF Write
<1>3. ASSUME NEW t \in Tx, Abandon(t) PROVE Goal
    BY <1>3 DEF Abandon
<1>4. ASSUME NEW t \in Tx, Commit(t) PROVE Goal
    BY <1>4 DEF Commit
<1>5. ASSUME NEW t \in Tx, CommitRefused(t) PROVE Goal
    BY <1>5 DEF CommitRefused
<1>6. ASSUME NEW t \in Tx, CommitFailed(t) PROVE Goal
    BY <1>6 DEF CommitFailed
<1>7. ASSUME NEW t \in Tx, Apply(t) PROVE Goal
    BY <1>7 DEF Apply
<1>8. ASSUME NEW t \in Tx, ApplyDone(t) PROVE Goal
    BY <1>8 DEF ApplyDone
<1>9. ASSUME NEW t \in Tx, ApplyFailed(t) PROVE Goal
    BY <1>9 DEF ApplyFailed
<1>10. ASSUME NEW t \in Tx, EraseTx(t) PROVE Goal
    BY <1>10 DEF EraseTx, LockFree
<1>11. ASSUME CheckStopping PROVE Goal
    BY <1>11 DEF CheckStopping
<1>12. ASSUME NoWork PROVE Goal
    BY <1>12 DEF NoWork
<1>13. ASSUME TakeBatch PROVE Goal
    BY <1>13 DEF TakeBatch
<1>14. ASSUME WriteTx PROVE Goal
    BY <1>14 DEF WriteTx, Modes
<1>15. ASSUME NEW n \in 0 .. Capacity, WriteTxFail(n) PROVE Goal
    BY <1>15 DEF WriteTxFail, Modes
<1>16. ASSUME FlushBlocks PROVE Goal
    BY <1>16 DEF FlushBlocks, Modes
<1>17. ASSUME CompleteTx PROVE Goal
    BY <1>17 DEF CompleteTx
<1>18. ASSUME RoundDone PROVE Goal
    BY <1>18 DEF RoundDone
<1>19. ASSUME FlushHeader PROVE Goal
    BY <1>19 DEF FlushHeader
<1>20. ASSUME FlushHeaderDone PROVE Goal
    BY <1>20
<1>21. ASSUME NEW t \in Tx, CompactTx(t) PROVE Goal
    BY <1>21
<1>22. ASSUME CompactDone PROVE Goal
    BY <1>22 DEF CompactDone, FlushReturn
<1>23. ASSUME FlushFailed PROVE Goal
    BY <1>23 DEF FlushFailed, FlushReturn
<1>24. ASSUME Format PROVE Goal
    BY <1>24 DEF Format, Modes
<1>25. ASSUME LoadHeader PROVE Goal
    BY <1>25 DEF LoadHeader, Modes
<1>26. ASSUME ReplayBlock PROVE Goal
    BY <1>26 DEF ReplayBlock, StartRunning, Modes
<1>27. ASSUME ReplayApplied PROVE Goal
    BY <1>27 DEF ReplayApplied
<1>28. ASSUME ReplayDone PROVE Goal
    BY <1>28 DEF ReplayDone, StartRunning
<1>29. ASSUME ReplayFailed PROVE Goal
    BY <1>29 DEF ReplayFailed
<1>30. ASSUME Unload PROVE Goal
    BY <1>30 DEF Unload
<1>31. ASSUME UnloadFlush PROVE Goal
    BY <1>31 DEF UnloadFlush, CancelQueued, Modes
<1>32. ASSUME UnloadNoFlush PROVE Goal
    BY <1>32 DEF UnloadNoFlush, CancelQueued, Modes
<1>33. ASSUME Destroy PROVE Goal
    BY <1>33 DEF Destroy, Forget
<1>34. ASSUME Crash PROVE Goal
    BY <1>34 DEF Crash, Forget
<1>35. ASSUME UNCHANGED vars PROVE Goal
    BY <1>35 DEF vars
<1> QED
    BY <1>1, <1>2, <1>3, <1>4, <1>5, <1>6, <1>7, <1>8, <1>9, <1>10, <1>11,
       <1>12, <1>13, <1>14, <1>15, <1>16, <1>17, <1>18, <1>19, <1>20, <1>21, <1>22,
       <1>23, <1>24, <1>25, <1>26, <1>27, <1>28, <1>29, <1>30, <1>31, <1>32, <1>33,
       <1>34, <1>35 DEF Next, Client, CommitTail, Thread, Flush, Mount

-----------------------------------------------------------------------------
(* The order of the log                                                    *)

\* A transaction that has entered the log keeps its blocks and its history.
LEMMA OldKept ==
    ASSUME IInv, [Next]_vars, NEW u \in Tx, txState[u] \notin {"None", "New"}
    PROVE  /\ blocks'[u] = blocks[u] /\ pred'[u] = pred[u] /\ txState'[u] \notin {"None", "New"}
           /\ TxLen(u)' = TxLen(u) /\ \A k : TxBlock(u, k)' = TxBlock(u, k)
<1>1. blocks'[u] = blocks[u] /\ pred'[u] = pred[u] /\ txState'[u] \notin {"None", "New"}
    BY TxHistory
<1> QED BY <1>1, TxSame

\* The transaction of a block in the log has entered the log.
LEMMA GenuineTx ==
    ASSUME TypeOK, NEW b, Genuine(b), b.tx \in Tx
    PROVE  /\ txState[b.tx] \notin {"None", "New"}
           /\ \E k \in 1 .. TxLen(b.tx) : b = TxBlock(b.tx, k)
<1>1. b \notin {Blank, Torn}
    BY JournalAssumption DEF Blank, Torn
<1>2. PICK t \in Tx : /\ txState[t] \notin {"None", "New"}
                      /\ \E k \in 1 .. TxLen(t) : b = TxBlock(t, k)
    BY <1>1 DEF Genuine
<1>3. \A k : TxBlock(t, k).tx = t
    BY DEF TxBlock, BeginBlock, CommitBlock, DataBlock
<1> QED BY <1>2, <1>3

\* What the slots will hold are blocks that WriteTx made, too.
LEMMA GenuineNext ==
    ASSUME IInv, GenuineLog, NEW i \in Slot, NEW b \in NextLog[i]
    PROVE  Genuine(b)
<1>1. CASE b \in log[i]
    BY <1>1 DEF GenuineLog
<1>2. CASE b \in RoundBlock(i)
    <2>1. PICK t \in Tx : InRound(t) /\ \E k \in 1 .. TxLen(t) : b = TxBlock(t, k)
        BY <1>2 DEF RoundBlock
    <2>2. txState[t] = "Commiting"
        BY <2>1, RoundUndecided
    <2> QED BY <2>1, <2>2 DEF Genuine
<1> QED BY <1>1, <1>2 DEF NextLog

\* Fewer possible contents cannot break the order.
LEMMA OrderShrinks ==
    ASSUME NEW r \in Ring, NEW c, NEW d, NEW p, NEW q, \A i \in Used(r) : d[i] \subseteq c[i],
           \A i \in Used(r) : \A a \in c[i] : a.tx \in Tx => q[a.tx] = p[a.tx],
           Ordered(r, c, p)
    PROVE  Ordered(r, d, q)
<1>1. r.size \in Nat
    BY CapacityAssumption DEF Ring
<1> SUFFICES ASSUME NEW k \in 0 .. r.size - 1, NEW l \in 0 .. r.size - 1, k < l,
                    NEW a \in d[Cell(r, k)], NEW b \in d[Cell(r, l)], a.tx \in Tx
             PROVE  b.tx \notin q[a.tx]
    BY DEF Ordered
<1>2. k \in Nat /\ l \in Nat /\ k < r.size /\ l < r.size
    BY <1>1
<1>3. /\ Cell(r, k) \in Used(r) /\ Cell(r, l) \in Used(r) /\ Cell(r, k) \in Slot
    BY <1>2, CellUsed
<1>4. a \in c[Cell(r, k)] /\ b \in c[Cell(r, l)]
    BY <1>3
<1> QED BY <1>3, <1>4 DEF Ordered

\* The same for the absence of a set of transactions.
LEMMA FreeShrinks ==
    ASSUME NEW r \in Ring, NEW c, NEW d, NEW S, \A i \in Used(r) : d[i] \subseteq c[i],
           Free(S, r, c)
    PROVE  Free(S, r, d)
<1>1. r.size \in Nat
    BY CapacityAssumption DEF Ring
<1> SUFFICES ASSUME NEW k \in 0 .. r.size - 1, NEW b \in d[Cell(r, k)] PROVE b.tx \notin S
    BY DEF Free
<1>2. k \in Nat /\ k < r.size
    BY <1>1
<1>3. b \in c[Cell(r, k)]
    BY <1>2, CellUsed
<1> QED BY <1>3 DEF Free

\* Both survive when the front moves on.
LEMMA OrderDrops ==
    ASSUME NEW r \in Ring, NEW q \in Ring, NEW c, NEW n \in Nat, NEW p, NEW S,
           n <= r.size, q.size = r.size - n,
           \A k \in Nat : n + k < r.size => Cell(q, k) = Cell(r, n + k)
    PROVE  /\ Ordered(r, c, p) => Ordered(q, c, p)
           /\ Free(S, r, c) => Free(S, q, c)
<1>1. r.size \in Nat /\ q.size \in Nat
    BY CapacityAssumption DEF Ring
<1>2. \A k \in 0 .. q.size - 1 : n + k \in 0 .. r.size - 1 /\ Cell(q, k) = Cell(r, n + k)
    BY <1>1
<1>3. ASSUME Ordered(r, c, p) PROVE Ordered(q, c, p)
    <2> SUFFICES ASSUME NEW k \in 0 .. q.size - 1, NEW l \in 0 .. q.size - 1, k < l,
                        NEW a \in c[Cell(q, k)], NEW b \in c[Cell(q, l)], a.tx \in Tx
                 PROVE  b.tx \notin p[a.tx]
        BY DEF Ordered
    <2>1. n + k < n + l
        BY <1>1
    <2> QED BY <1>2, <1>3, <2>1 DEF Ordered
<1>4. ASSUME Free(S, r, c) PROVE Free(S, q, c)
    BY <1>2, <1>4 DEF Free
<1> QED BY <1>3, <1>4

\* q is r with n more slots, which hold blocks of w.
Grown(r, q, c, d, n, w) ==
    /\ q.size = r.size + n /\ \A k \in Nat : Cell(q, k) = Cell(r, k)
    /\ \A k \in Nat : k < r.size => d[Cell(r, k)] = c[Cell(r, k)]
    /\ \A k \in 1 .. n : \A b \in d[Cell(r, r.size + (k - 1))] : b.tx = w

\* The cells of a ring that has grown hold what they held, or blocks of w.
LEMMA GrownCells ==
    ASSUME NEW r \in Ring, NEW q \in Ring, NEW c, NEW d, NEW n \in Nat, NEW w,
           Grown(r, q, c, d, n, w)
    PROVE  \A k \in 0 .. q.size - 1 : k \in Nat /\
              \/ k \in 0 .. r.size - 1 /\ d[Cell(q, k)] = c[Cell(r, k)]
              \/ k >= r.size /\ \A b \in d[Cell(q, k)] : b.tx = w
<1>1. r.size \in Nat /\ q.size \in Nat
    BY CapacityAssumption DEF Ring
<1>g. /\ q.size = r.size + n /\ \A k \in Nat : Cell(q, k) = Cell(r, k)
      /\ \A k \in Nat : k < r.size => d[Cell(r, k)] = c[Cell(r, k)]
      /\ \A k \in 1 .. n : \A b \in d[Cell(r, r.size + (k - 1))] : b.tx = w
    BY DEF Grown
<1>2. \A k \in 0 .. q.size - 1 : k \in Nat /\
         \/ k \in 0 .. r.size - 1 /\ d[Cell(q, k)] = c[Cell(r, k)]
         \/ k >= r.size /\ \A b \in d[Cell(q, k)] : b.tx = w
    <2> TAKE k \in 0 .. q.size - 1
    <2>1. k \in Nat
        BY <1>1, <1>g
    <2>2. CASE k < r.size
        BY <1>g, <1>1, <2>1, <2>2
    <2>3. CASE k >= r.size
        <3>1. PICK j \in Nat : j = k - r.size + 1
            BY <1>g, <1>1, <2>1, <2>3
        <3>2. j \in 1 .. n /\ r.size + (j - 1) = k
            BY <1>g, <1>1, <2>1, <2>3, <3>1
        <3> QED BY <1>g, <2>1, <2>3, <3>2
    <2> QED BY <1>g, <1>1, <2>1, <2>2, <2>3
<1> QED BY <1>2

\* And when blocks are pushed whose transaction nobody had seen return.
LEMMA OrderGrows ==
    ASSUME NEW r \in Ring, NEW q \in Ring, NEW c, NEW d, NEW n \in Nat, NEW w,
           Grown(r, q, c, d, n, w),
           NEW p, Ordered(r, c, p), \A u \in Tx : w \notin p[u]
    PROVE  Ordered(q, d, p)
<1>1. r.size \in Nat /\ q.size \in Nat
    BY CapacityAssumption DEF Ring
<1>2. \A k \in 0 .. q.size - 1 : k \in Nat /\
         \/ k \in 0 .. r.size - 1 /\ d[Cell(q, k)] = c[Cell(r, k)]
         \/ k >= r.size /\ \A b \in d[Cell(q, k)] : b.tx = w
    BY GrownCells
<1> SUFFICES ASSUME NEW k \in 0 .. q.size - 1, NEW l \in 0 .. q.size - 1, k < l,
                    NEW a \in d[Cell(q, k)], NEW b \in d[Cell(q, l)], a.tx \in Tx
             PROVE  b.tx \notin p[a.tx]
    BY DEF Ordered
<1>3. CASE b.tx = w
    BY <1>3
<1>4. CASE b.tx # w
    <2>1. l \in 0 .. r.size - 1 /\ b \in c[Cell(r, l)]
        BY <1>2, <1>4
    <2>2. k \in 0 .. r.size - 1 /\ a \in c[Cell(r, k)]
        BY <1>1, <1>2, <2>1
    <2> QED BY <2>1, <2>2 DEF Ordered
<1> QED BY <1>3, <1>4

\* The same for the absence of a set of transactions.
LEMMA FreeGrows ==
    ASSUME NEW r \in Ring, NEW q \in Ring, NEW c, NEW d, NEW n \in Nat, NEW w,
           Grown(r, q, c, d, n, w),
           NEW S, Free(S, r, c), w \notin S
    PROVE  Free(S, q, d)
<1>1. \A k \in 0 .. q.size - 1 : k \in Nat /\
         \/ k \in 0 .. r.size - 1 /\ d[Cell(q, k)] = c[Cell(r, k)]
         \/ k >= r.size /\ \A b \in d[Cell(q, k)] : b.tx = w
    BY GrownCells
<1> QED BY <1>1 DEF Free

\* A transaction on its way into the log has not returned: nobody waits on it.
LEMMA UndecidedNotPred ==
    ASSUME PredOk, NEW w \in Tx, txState[w] # "Commited" \/ pc[w] # "returned"
    PROVE  \A u \in Tx : w \notin pred[u]
BY DEF PredOk

\* The ring stays in the order of the commits.
LEMMA RingOrderedStep ==
    ASSUME IInv, IInv', PredOk, GenuineLog, ReplayParses, RingOrdered, [Next]_vars, LogSound'
    PROVE  RingOrdered'
<1> SUFFICES ASSUME jstate' \in {"Running", "Stopped"} PROVE Ordered(ring', NextLog', pred')
    BY DEF RingOrdered
<1>0. ring \in Ring /\ ring' \in Ring /\ ring.size \in Nat /\ TypeOK
    BY CapacityAssumption DEF IInv, TypeOK, Ring
<1>1. CASE ring'.size = 0
    BY <1>1 DEF Ordered
<1>2. ASSUME jstate \in {"Running", "Stopped"}, ring' = ring, NextLog' = NextLog
      PROVE  Ordered(ring', NextLog', pred')
    <2>1. \A i \in Used(ring) : \A a \in NextLog[i] : a.tx \in Tx => pred'[a.tx] = pred[a.tx]
        <3> SUFFICES ASSUME NEW i \in Used(ring), NEW a \in NextLog[i], a.tx \in Tx
                     PROVE  pred'[a.tx] = pred[a.tx]
            OBVIOUS
        <3>1. txState[a.tx] \notin {"None", "New"}
            BY <1>0, SlotsUsed, GenuineNext, GenuineTx
        <3> QED BY <3>1, OldKept
    <2>2. Ordered(ring, NextLog, pred)
        BY <1>2 DEF RingOrdered
    <2>3. \A i \in Used(ring) : NextLog[i] \subseteq NextLog[i]
        OBVIOUS
    <2>4. Ordered(ring, NextLog, pred')
        BY <1>0, <2>1, <2>2, <2>3, OrderShrinks
    <2> QED BY <1>2, <2>4
<1>3. ASSUME jstate \in {"Running", "Stopped"}, WriteTx PROVE Ordered(ring', NextLog', pred')
    <2>1. PICK t \in Tx, n \in Nat :
              /\ txState[t] = "Commiting" /\ ring'.size = ring.size + n
              /\ \A k \in Nat : Cell(ring', k) = Cell(ring, k)
              /\ \A k \in Nat : k < ring.size => NextLog'[Cell(ring, k)] = NextLog[Cell(ring, k)]
              /\ \A k \in 1 .. n : NextLog'[Cell(ring, ring.size + (k - 1))] = {TxBlock(t, k)}
        BY <1>3, WriteTxPushes
    <2>2. \A k : TxBlock(t, k).tx = t
        BY DEF TxBlock, BeginBlock, CommitBlock, DataBlock
    <2>3. \A k \in 1 .. n : \A b \in NextLog'[Cell(ring, ring.size + (k - 1))] : b.tx = t
        BY <2>1, <2>2
    <2>4. \A u \in Tx : t \notin pred[u]
        BY <2>1, UndecidedNotPred
    <2>5. Ordered(ring, NextLog, pred)
        BY <1>3 DEF RingOrdered
    <2>6. Grown(ring, ring', NextLog, NextLog', n, t)
        BY <2>1, <2>3 DEF Grown
    <2>7. Ordered(ring', NextLog', pred)
        BY <1>0, <2>1, <2>4, <2>5, <2>6, OrderGrows
    <2>8. pred' = pred
        BY <1>3 DEF WriteTx, histVars
    <2> QED BY <2>7, <2>8
<1>4. ASSUME jstate \in {"Running", "Stopped"}, NextLog = log, NextLog' = log,
             NEW t \in Tx, CompactTx(t)
      PROVE  Ordered(ring', NextLog', pred')
    <2>1. PICK n \in Nat : /\ n <= ring.size /\ ring'.size = ring.size - n
                           /\ \A k \in Nat : n + k < ring.size => Cell(ring', k) = Cell(ring, n + k)
        BY <1>4, CompactShifts
    <2>2. Ordered(ring, log, pred)
        BY <1>4 DEF RingOrdered
    <2>3. Ordered(ring', log, pred)
        BY <1>0, <2>1, <2>2, OrderDrops
    <2>4. pred' = pred
        BY <1>4 DEF CompactTx
    <2> QED BY <1>4, <2>3, <2>4
<1> QED BY <1>1, <1>2, <1>3, <1>4, RingFrom

\* So does the log that a header describes.
LEMMA HeadersOrderedStep ==
    ASSUME IInv, IInv', GenuineLog, GenuineLog', NoReuse, HeaderRing, HeadersOrdered, RingOrdered,
           [Next]_vars, LogSound'
    PROVE  HeadersOrdered'
<1> SUFFICES ASSUME NEW h \in hdr' \ {NoHeader} PROVE Ordered(h, log', pred')
    BY DEF HeadersOrdered
<1>0. h \in Ring /\ Used(h) \subseteq Slot /\ TypeOK
    BY SlotsUsed DEF IInv, TypeOK
<1>1. ASSUME NEW c, \A i \in Used(h) : log'[i] \subseteq c[i], Ordered(h, c, pred),
             \A i \in Slot : \A a \in c[i] : Genuine(a)
      PROVE  Ordered(h, log', pred')
    <2>2. \A i \in Used(h) : \A a \in c[i] : a.tx \in Tx => pred'[a.tx] = pred[a.tx]
        <3> SUFFICES ASSUME NEW i \in Used(h), NEW a \in c[i], a.tx \in Tx
                     PROVE  pred'[a.tx] = pred[a.tx]
            OBVIOUS
        <3>1. txState[a.tx] \notin {"None", "New"}
            BY <1>0, <1>1, GenuineTx
        <3> QED BY <3>1, OldKept
    <2> QED BY <1>0, <1>1, <2>2, OrderShrinks
<1>2. CASE h \in hdr /\ \A i \in Used(h) : log'[i] = log[i] \/ \E b \in log[i] : log'[i] = {b}
    <2>1. Ordered(h, log, pred)
        BY <1>2 DEF HeadersOrdered
    <2>2. \A i \in Used(h) : log'[i] \subseteq log[i]
        BY <1>2
    <2>3. \A i \in Slot : \A a \in log[i] : Genuine(a)
        BY DEF GenuineLog
    <2> QED BY <1>1, <2>1, <2>2, <2>3
<1>3. CASE h = ring /\ jstate \in {"Running", "Stopped"} /\ log' = NextLog
    <2>1. Ordered(h, NextLog, pred)
        BY <1>3 DEF RingOrdered
    <2>2. \A i \in Used(h) : log'[i] \subseteq NextLog[i]
        BY <1>3
    <2>3. \A i \in Slot : \A a \in NextLog[i] : Genuine(a)
        BY GenuineNext
    <2> QED BY <1>1, <2>1, <2>2, <2>3
<1>4. CASE h.size = 0
    BY <1>4 DEF Ordered
<1> QED BY <1>2, <1>3, <1>4, HeaderFrom

-----------------------------------------------------------------------------
(* CompactLog                                                              *)

\* A transaction whose slots CompactLog has given back finds nothing in the ring
\* that had returned before it began: that was in front of it.
LEMMA PastFreeStep ==
    ASSUME IInv, IInv', PredOk, ReplayParses, RingOrdered, PastFree, ~berr, [Next]_vars, LogSound'
    PROVE  PastFree'
<1> SUFFICES ASSUME jstate' \in {"Running", "Stopped"}, NEW t \in Tx,
                    txState'[t] = "Commited" \/ pc'[t] = "lost", ~Placed(t)'
             PROVE  Free(pred'[t], ring', NextLog')
    BY DEF PastFree
<1>0. ring \in Ring /\ ring' \in Ring /\ ring.size \in Nat /\ ring'.size \in Nat /\ TypeOK
    BY CapacityAssumption DEF IInv, TypeOK, Ring
<1>1. pred'[t] = pred[t]
    <2>1. ASSUME NEW s \in Tx, Commit(s) PROVE pred'[t] = pred[t]
        BY <1>0, <2>1 DEF Commit, TypeOK
    <2> QED BY <2>1, PredStep
<1>2. CASE ring'.size = 0
    BY <1>2 DEF Free
<1>3. CASE CompactTx(t)
    <2>1. /\ fpc = "compact" /\ UNCHANGED <<tpc, fpc, log, jstate>>
        BY <1>3 DEF CompactTx, threadVars, mountVars
    <2>2. tpc # "write" /\ tpc' # "write"
        BY <2>1 DEF IInv, Modes
    <2>3. NextLog = log
        BY <1>0, <2>1, <2>2, NextLogIsLog
    <2>4. NextLog' = log
        <3>1. log' \in [Slot -> SUBSET Block]
            BY DEF IInv, TypeOK
        <3> QED BY <2>1, <2>2, <3>1 DEF NextLog
    <2>5. Ordered(ring, log, pred)
        BY <2>1, <2>3 DEF RingOrdered
    <2>6. PICK n \in Nat : /\ n >= 2 /\ n <= ring.size /\ ring'.size = ring.size - n
                           /\ \A k \in Nat : n + k < ring.size => Cell(ring', k) = Cell(ring, n + k)
                           /\ \A k \in 1 .. n : log[Cell(ring, k - 1)] = {TxBlock(t, k)}
        BY <1>3, CompactShifts
    <2>7. TxBlock(t, 1) \in log[Cell(ring, 0)] /\ TxBlock(t, 1).tx = t
        BY <2>6 DEF TxBlock, BeginBlock
    <2>8. ASSUME NEW k \in 0 .. ring'.size - 1, NEW b \in log[Cell(ring', k)]
          PROVE  b.tx \notin pred[t]
        <3>1. /\ k \in Nat /\ n + k < ring.size /\ n + k \in 0 .. ring.size - 1
              /\ 0 \in 0 .. ring.size - 1 /\ 0 < n + k
            BY <1>0, <2>6
        <3>2. b \in log[Cell(ring, n + k)]
            BY <2>6, <2>8, <3>1
        <3> QED BY <2>5, <2>7, <3>1, <3>2 DEF Ordered
    <2> QED BY <1>1, <2>4, <2>8 DEF Free
<1>4. ASSUME jstate \in {"Running", "Stopped"}, txState[t] = "Commited" \/ pc[t] = "lost", ~Placed(t)
      PROVE  Free(pred[t], ring', NextLog')
    <2>1. Free(pred[t], ring, NextLog)
        BY <1>4 DEF PastFree
    <2>2. CASE ring' = ring /\ NextLog' = NextLog
        BY <2>1, <2>2
    <2>3. CASE WriteTx
        <3>1. PICK s \in Tx, n \in Nat :
                  /\ txState[s] = "Commiting" /\ ring'.size = ring.size + n
                  /\ \A k \in Nat : Cell(ring', k) = Cell(ring, k)
                  /\ \A k \in Nat : k < ring.size => NextLog'[Cell(ring, k)] = NextLog[Cell(ring, k)]
                  /\ \A k \in 1 .. n : NextLog'[Cell(ring, ring.size + (k - 1))] = {TxBlock(s, k)}
            BY <2>3, WriteTxPushes
        <3>2. \A k : TxBlock(s, k).tx = s
            BY DEF TxBlock, BeginBlock, CommitBlock, DataBlock
        <3>3. Grown(ring, ring', NextLog, NextLog', n, s)
            BY <3>1, <3>2 DEF Grown
        <3>4. s \notin pred[t]
            BY <3>1, UndecidedNotPred
        <3> QED BY <1>0, <2>1, <3>1, <3>3, <3>4, FreeGrows
    <2>4. ASSUME NextLog = log, NextLog' = log, NEW s \in Tx, CompactTx(s)
          PROVE  Free(pred[t], ring', NextLog')
        <3>1. PICK n \in Nat : /\ n <= ring.size /\ ring'.size = ring.size - n
                               /\ \A k \in Nat : n + k < ring.size => Cell(ring', k) = Cell(ring, n + k)
            BY <2>4, CompactShifts
        <3>2. Free(pred[t], ring', log)
            BY <1>0, <2>1, <2>4, <3>1, OrderDrops
        <3> QED BY <2>4, <3>2
    <2> QED BY <1>2, <2>2, <2>3, <2>4, <1>1, RingFrom
<1> QED
    <2>1. ring'.size = 0 \/ jstate \in {"Running", "Stopped"}
        BY RingFrom
    <2> QED BY <1>1, <1>2, <1>3, <1>4, <2>1, Unplaced

\* CompactLog works its way through the log that the durable header describes:
\* what it gave back is not older than what it is still to give back.
LEMMA CompactPosStep ==
    ASSUME IInv, IInv', EraseOrder, CompactPos, [Next]_vars
    PROVE  CompactPos'
<1> SUFFICES ASSUME fpc' = "compact"
             PROVE  \E h \in hdr' : \E d \in 0 .. Capacity :
                       /\ hdr' = {h} /\ h # NoHeader
                       /\ d + ring'.size = h.size
                       /\ \A k \in 0 .. ring'.size - 1 : Cell(ring', k) = Cell(h, d + k)
                       /\ \A k \in 0 .. d - 1 : \A b \in log'[Cell(h, k)] : \A t \in toErase' :
                             b.tx \notin pred'[t]
    BY DEF CompactPos, Cell
<1>0. /\ ring \in Ring /\ ring' \in Ring /\ ring.size \in Nat /\ ring'.size \in Nat /\ TypeOK /\ TxOk
      /\ Capacity \in Nat /\ ring.size <= Capacity /\ toErase \subseteq Tx
    BY CapacityAssumption DEF IInv, TypeOK, Ring
<1>1. CASE FlushHeaderDone
    <2>1. hdr' = {ring} /\ ring' = ring
        BY <1>1 DEF FlushHeaderDone, HeaderWritten
    <2>2. ring # NoHeader /\ 0 \in 0 .. Capacity /\ 0 + ring.size = ring.size
        BY <1>0, JournalAssumption
    <2>3. \A k \in 0 .. ring.size - 1 : 0 + k = k
        BY <1>0
    <2>4. 0 .. 0 - 1 = {}
        OBVIOUS
    <2> QED BY <2>1, <2>2, <2>3, <2>4
<1>2. ASSUME fpc = "compact", UNCHANGED <<log, hdr>>, toErase' \subseteq toErase,
             NEW h \in hdr, NEW d \in 0 .. Capacity, NEW e \in 0 .. Capacity,
             hdr = {h}, h # NoHeader,
             d + ring.size = h.size, e + ring'.size = h.size,
             \A k \in 0 .. ring'.size - 1 : Cell(ring', k) = Cell(h, e + k),
             \A k \in 0 .. d - 1 : \A b \in log[Cell(h, k)] : \A t \in toErase : b.tx \notin pred[t],
             \A k \in 0 .. e - 1 : k >= d => \A b \in log[Cell(h, k)] : \A t \in toErase' : b.tx \notin pred[t]
      PROVE  /\ hdr' = {h} /\ h \in hdr'
             /\ \A k \in 0 .. e - 1 : \A b \in log'[Cell(h, k)] : \A t \in toErase' : b.tx \notin pred'[t]
    <2>1. \A t \in toErase' : pred'[t] = pred[t]
        <3>1. \A t \in toErase : txState[t] = "Commited"
            BY <1>0 DEF TxOk
        <3> QED BY <1>0, <1>2, <3>1, OldKept
    <2>2. \A k \in 0 .. e - 1 : k \in 0 .. d - 1 \/ k >= d
        OBVIOUS
    <2> QED BY <1>2, <2>1, <2>2
<1>3. CASE fpc = "compact" /\ UNCHANGED <<ring, log, hdr, toErase>>
    <2>1. PICK h \in hdr, d \in 0 .. Capacity :
              /\ hdr = {h} /\ h # NoHeader /\ d + ring.size = h.size
              /\ \A k \in 0 .. ring.size - 1 : Cell(ring, k) = Cell(h, d + k)
              /\ \A k \in 0 .. d - 1 : \A b \in log[Cell(h, k)] : \A t \in toErase : b.tx \notin pred[t]
        BY <1>3 DEF CompactPos
    <2>2. \A k \in 0 .. d - 1 : ~(k >= d)
        OBVIOUS
    <2>3. /\ hdr' = {h} /\ h \in hdr'
          /\ \A k \in 0 .. d - 1 : \A b \in log'[Cell(h, k)] : \A t \in toErase' : b.tx \notin pred'[t]
        BY <1>2, <1>3, <2>1, <2>2
    <2> QED BY <1>3, <2>1, <2>3
<1>4. ASSUME NEW s \in Tx, CompactTx(s)
      PROVE  \E h \in hdr' : \E d \in 0 .. Capacity :
                       /\ hdr' = {h} /\ h # NoHeader
                       /\ d + ring'.size = h.size
                       /\ \A k \in 0 .. ring'.size - 1 : Cell(ring', k) = Cell(h, d + k)
                       /\ \A k \in 0 .. d - 1 : \A b \in log'[Cell(h, k)] : \A t \in toErase' :
                             b.tx \notin pred'[t]
    <2>1. /\ fpc = "compact" /\ s \in toErase /\ toErase' = toErase \ {s} /\ UNCHANGED <<log, hdr>>
        BY <1>4 DEF CompactTx
    <2>2. PICK h \in hdr, d \in 0 .. Capacity :
              /\ hdr = {h} /\ h # NoHeader /\ d + ring.size = h.size
              /\ \A k \in 0 .. ring.size - 1 : Cell(ring, k) = Cell(h, d + k)
              /\ \A k \in 0 .. d - 1 : \A b \in log[Cell(h, k)] : \A t \in toErase : b.tx \notin pred[t]
        BY <2>1 DEF CompactPos
    <2>3. PICK n \in Nat : /\ n <= ring.size /\ ring'.size = ring.size - n
                           /\ \A k \in Nat : n + k < ring.size => Cell(ring', k) = Cell(ring, n + k)
                           /\ \A k \in 1 .. n : log[Cell(ring, k - 1)] = {TxBlock(s, k)}
        BY <1>4, CompactShifts
    <2>4. h \in Ring /\ h.size \in Nat /\ h.size <= Capacity
        BY <1>0, <2>2, CapacityAssumption DEF TypeOK, Ring
    <2>5. PICK e \in 0 .. Capacity : e = d + n
        BY <1>0, <2>2, <2>3, <2>4
    <2>6. e + ring'.size = h.size
        BY <1>0, <2>2, <2>3, <2>4, <2>5
    <2>7. \A k \in 0 .. ring'.size - 1 : Cell(ring', k) = Cell(h, e + k)
        <3> TAKE k \in 0 .. ring'.size - 1
        <3>1. k \in Nat /\ n + k < ring.size /\ n + k \in 0 .. ring.size - 1 /\ d + (n + k) = e + k
            BY <1>0, <2>3, <2>5
        <3> QED BY <2>2, <2>3, <3>1
    <2>8. \A t \in toErase' : s \notin pred[t]
        BY <2>1 DEF EraseOrder, IInv, TxOk, TypeOK
    <2>9. ASSUME NEW k \in 0 .. e - 1, k >= d, NEW b \in log[Cell(h, k)], NEW t \in toErase'
          PROVE  b.tx \notin pred[t]
        <3>1. PICK j \in Nat : j = k - d + 1
            BY <2>9
        <3>2. j \in 1 .. n /\ j - 1 \in 0 .. ring.size - 1 /\ d + (j - 1) = k
            BY <1>0, <2>3, <2>5, <2>9, <3>1
        <3>3. b = TxBlock(s, j)
            BY <2>2, <2>3, <2>9, <3>2
        <3>4. b.tx = s
            BY <3>3 DEF TxBlock, BeginBlock, CommitBlock, DataBlock
        <3> QED BY <2>8, <3>4
    <2>10. /\ hdr' = {h} /\ h \in hdr'
           /\ \A k \in 0 .. e - 1 : \A b \in log'[Cell(h, k)] : \A t \in toErase' : b.tx \notin pred'[t]
        BY <1>2, <2>1, <2>2, <2>6, <2>7, <2>9
    <2> QED BY <2>2, <2>6, <2>7, <2>10
<1> QED BY <1>1, <1>3, <1>4, CompactCases

-----------------------------------------------------------------------------
(* Replay                                                                  *)

\* What one step of Replay does, when it goes on.
LEMMA ReplayReads ==
    ASSUME ReplayBlock, mpc' \in {"replay", "apply"}
    PROVE  /\ mpc = "replay" /\ PopOk(ring) /\ ring' = PopFront(ring)
           /\ UNCHANGED <<hdr, txState, blocks, pc, pred, homeLive, jstate>>
           /\ \E b \in log[ring.start] :
                 /\ log' = [log EXCEPT ![ring.start] = {b}] /\ rlist' = Append(rlist, b)
                 /\ mpc' = ReplayStep(b) \/ (mpc' = "replay" /\ ReplayStep(b) = "add")
                 /\ mpc' = "apply" => SubmitHome(Range(rlist))
                 /\ mpc' = "replay" => homeMedia' = homeMedia
<1>1. /\ mpc = "replay" /\ PopOk(ring) /\ ring' = PopFront(ring)
      /\ UNCHANGED <<hdr, txState, blocks, pc, pred, homeLive>>
    BY DEF ReplayBlock, txVars
<1>2. PICK b \in log[ring.start] :
          /\ log' = [log EXCEPT ![ring.start] = {b}]
          /\ ReplayStep(b) = "add" => rlist' = Append(rlist, b) /\ UNCHANGED <<jstate, mpc, homeMedia>>
          /\ ReplayStep(b) = "apply" =>
                /\ rlist' = Append(rlist, b) /\ mpc' = "apply" /\ SubmitHome(Range(rlist))
                /\ UNCHANGED jstate
          /\ ReplayStep(b) \notin {"add", "apply"} => StartRunning
    BY DEF ReplayBlock
<1>3. CASE ReplayStep(b) = "add"
    BY <1>1, <1>2, <1>3
<1>4. CASE ReplayStep(b) = "apply"
    BY <1>1, <1>2, <1>4
<1>5. CASE ReplayStep(b) \notin {"add", "apply"}
    BY <1>2, <1>5 DEF StartRunning
<1> QED BY <1>3, <1>4, <1>5

\* Replay keeps its place in the log of the header that Load read.
LEMMA ReplayPosStep ==
    ASSUME IInv, IInv', RlistIdle, NoClients, ReplayPos, [Next]_vars
    PROVE  ReplayPos'
<1> DEFINE Pos2(h, d) == /\ hdr' = {h} /\ h # NoHeader
                         /\ d + ring'.size = h.size
                         /\ \A k \in 0 .. ring'.size - 1 : Cell(ring', k) = Cell(h, d + k)
                         /\ Len(rlist') <= d
                         /\ \A i \in DOMAIN rlist' : log'[Cell(h, d - Len(rlist') + (i - 1))] = {rlist'[i]}
<1> SUFFICES ASSUME mpc' \in {"replay", "apply"}
             PROVE  \E h \in hdr' : \E d \in 0 .. Capacity : Pos2(h, d)
    BY DEF ReplayPos, Cell
<1>0. /\ ring \in Ring /\ ring' \in Ring /\ ring.size \in Nat /\ ring'.size \in Nat /\ TypeOK /\ Modes
      /\ Capacity \in Nat /\ ring.size <= Capacity /\ rlist \in Seq(Block) /\ log \in [Slot -> SUBSET Block]
    BY CapacityAssumption DEF IInv, TypeOK, Ring
<1>1. CASE LoadHeader
    <2>1. hdr' = {ring'} /\ ring' # NoHeader /\ rlist' = rlist /\ mpc = "idle"
        BY <1>1 DEF LoadHeader
    <2>2. rlist' = <<>> /\ Len(rlist') = 0 /\ DOMAIN rlist' = {}
        BY <2>1 DEF RlistIdle
    <2>3. 0 \in 0 .. Capacity /\ 0 + ring'.size = ring'.size /\ \A k \in 0 .. ring'.size - 1 : 0 + k = k
        BY <1>0
    <2>4. Pos2(ring', 0)
        BY <2>1, <2>2, <2>3
    <2> QED BY <2>1, <2>3, <2>4
<1>2. ASSUME mpc \in {"replay", "apply"}
      PROVE  \E h \in hdr : \E d \in 0 .. Capacity :
                /\ hdr = {h} /\ h # NoHeader /\ h \in Ring
                /\ d + ring.size = h.size
                /\ \A k \in 0 .. ring.size - 1 : Cell(ring, k) = Cell(h, d + k)
                /\ Len(rlist) <= d
                /\ \A i \in DOMAIN rlist : log[Cell(h, d - Len(rlist) + (i - 1))] = {rlist[i]}
    <2>1. \A h \in hdr : h # NoHeader => h \in Ring
        BY <1>0 DEF TypeOK
    <2> QED BY <1>0, <1>2, <2>1 DEF ReplayPos
<1>3. CASE ReplayBlock
    <2>1. mpc = "replay" /\ PopOk(ring) /\ ring' = PopFront(ring) /\ hdr' = hdr
        BY <1>3, ReplayReads
    <2>2. PICK b \in log[ring.start] : log' = [log EXCEPT ![ring.start] = {b}] /\ rlist' = Append(rlist, b)
        BY <1>3, ReplayReads
    <2>3. PICK h \in hdr, d \in 0 .. Capacity :
                /\ hdr = {h} /\ h # NoHeader /\ h \in Ring
                /\ d + ring.size = h.size
                /\ \A k \in 0 .. ring.size - 1 : Cell(ring, k) = Cell(h, d + k)
                /\ Len(rlist) <= d
                /\ \A i \in DOMAIN rlist : log[Cell(h, d - Len(rlist) + (i - 1))] = {rlist[i]}
        BY <1>2, <2>1
    <2>4. /\ ring'.size = ring.size - 1 /\ ring.size # 0 /\ Cell(ring, 0) = ring.start /\ ring.start \in Slot
          /\ \A k \in Nat : k + 1 < ring.size => Cell(ring', k) = Cell(ring, k + 1)
        BY <1>0, <2>1, PopCells, FirstCell DEF PopOk, Ring
    <2>5. h.size \in Nat /\ h.size <= Capacity
        BY <2>3, CapacityAssumption DEF Ring
    <2>6. PICK e \in 0 .. Capacity : e = d + 1
        BY <1>0, <2>3, <2>4, <2>5
    <2>7. PICK l \in Nat : l = Len(rlist) /\ DOMAIN rlist = 1 .. l
        BY <1>0
    <2>8. b \in Block
        BY <1>0, <2>4
    <2>9. /\ Len(rlist') = l + 1 /\ rlist'[l + 1] = b /\ DOMAIN rlist' = 1 .. l + 1
          /\ \A k \in 1 .. l : rlist'[k] = rlist[k]
        BY <1>0, <2>2, <2>7, <2>8
    <2>10. \A k \in 0 .. ring'.size - 1 : Cell(ring', k) = Cell(h, e + k)
        <3> TAKE k \in 0 .. ring'.size - 1
        <3>1. k \in Nat /\ k + 1 < ring.size /\ k + 1 \in 0 .. ring.size - 1 /\ d + (k + 1) = e + k
            BY <1>0, <2>4, <2>6
        <3> QED BY <2>3, <2>4, <3>1
    <2>11. ASSUME NEW i \in 1 .. l + 1 PROVE log'[Cell(h, e - (l + 1) + (i - 1))] = {rlist'[i]}
        <3>1. CASE i \in 1 .. l
            <4>0. l <= d /\ d < h.size /\ i \in Nat /\ i >= 1 /\ i <= l /\ d \in Nat
                BY <1>0, <2>3, <2>4, <2>5, <2>7, <3>1
            <4>1a. PICK j \in Nat : j = d - l + (i - 1) /\ j < h.size
                BY <2>5, <2>7, <4>0
            <4>1. j \in Nat /\ j = d - l + (i - 1) /\ j = e - (l + 1) + (i - 1) /\ j < h.size
                BY <2>6, <2>7, <4>0, <4>1a
            <4>2. log[Cell(h, j)] = {rlist[i]} /\ Cell(h, j) \in Slot
                BY <2>3, <2>7, <3>1, <4>1, CellUsed
            <4>3. log'[Cell(h, j)] = {rlist[i]}
                BY <1>0, <2>2, <2>4, <4>2
            <4> QED BY <2>9, <3>1, <4>1, <4>3
        <3>2. CASE i = l + 1
            <4>1. e - (l + 1) + (i - 1) = d + 0 /\ 0 \in 0 .. ring.size - 1
                BY <1>0, <2>4, <2>6, <2>7, <3>2
            <4>2. Cell(h, d + 0) = ring.start
                BY <2>3, <2>4, <4>1
            <4>3. log'[ring.start] = {b}
                BY <1>0, <2>2, <2>4
            <4> QED BY <2>9, <3>2, <4>1, <4>2, <4>3
        <3> QED BY <3>1, <3>2
    <2>12. e + ring'.size = h.size /\ l + 1 <= e
        BY <1>0, <2>3, <2>4, <2>5, <2>6, <2>7
    <2>13. Pos2(h, e)
        BY <2>1, <2>3, <2>9, <2>10, <2>11, <2>12
    <2> QED BY <2>1, <2>13
<1>4. CASE ReplayApplied
    <2>1. mpc = "apply" /\ UNCHANGED <<ring, log, hdr>> /\ rlist' = <<>>
        BY <1>4 DEF ReplayApplied
    <2>2. PICK h \in hdr, d \in 0 .. Capacity :
                /\ hdr = {h} /\ h # NoHeader /\ h \in Ring
                /\ d + ring.size = h.size
                /\ \A k \in 0 .. ring.size - 1 : Cell(ring, k) = Cell(h, d + k)
        BY <1>2, <2>1
    <2>3. Len(rlist') = 0 /\ DOMAIN rlist' = {}
        BY <2>1
    <2>4. Pos2(h, d)
        BY <2>1, <2>2, <2>3
    <2> QED BY <2>1, <2>4
<1>5. CASE UNCHANGED vars
    <2>1. UNCHANGED <<ring, log, hdr, rlist, mpc>>
        BY <1>5 DEF vars, mountVars
    <2> QED BY <1>2, <2>1
<1> QED BY <1>1, <1>3, <1>4, <1>5, ReplayCases

\* A block of a transaction tells which one it is.
LEMMA BlockIs ==
    ASSUME TypeOK, NEW t \in Tx, NEW k \in 1 .. TxLen(t), NEW b, b = TxBlock(t, k)
    PROVE  /\ b.tx = t
           /\ b.type = "Begin" => k = 1
           /\ b.type = "Commit" => k = TxLen(t) /\ b.index = TxLen(t) - 2
           /\ b.type = "Data" => b.index = k - 2 /\ k # 1 /\ k # TxLen(t) /\ b = DataBlock(t, k - 1)
           /\ b.type \in {"Begin", "Commit", "Data"}
<1>1. PICK l \in Nat : l = Len(blocks[t])
    BY DEF TypeOK
<1>2. TxLen(t) = l + 2
    BY <1>1 DEF TxLen
<1>3. CASE k = 1
    BY <1>3 DEF TxBlock, BeginBlock
<1>4. CASE k # 1 /\ k = l + 2
    <2>1. b = CommitBlock(t) /\ TxLen(t) - 2 = l
        BY <1>2, <1>4 DEF TxBlock
    <2> QED BY <1>1, <1>2, <1>4, <2>1 DEF CommitBlock
<1>5. CASE k # 1 /\ k # l + 2
    <2>1. b = DataBlock(t, k - 1) /\ (k - 1) - 1 = k - 2
        BY <1>2, <1>5 DEF TxBlock
    <2> QED BY <1>2, <1>5, <2>1 DEF DataBlock
<1> QED BY <1>3, <1>4, <1>5

\* The blocks that pass the tests of Replay are those of one transaction.
LEMMA ReplayedIs ==
    ASSUME TypeOK, NEW bs \in Seq(Block), ReplayOk(bs), \A k \in DOMAIN bs : Genuine(bs[k])
    PROVE  \E t \in Tx : /\ txState[t] \notin {"None", "New"} /\ Len(bs) = TxLen(t)
                         /\ \A k \in 1 .. TxLen(t) : bs[k] = TxBlock(t, k)
<1>1. PICK n \in Nat : n = Len(bs) /\ DOMAIN bs = 1 .. n
    OBVIOUS
<1>2. /\ n >= 3 /\ bs[1].type = "Begin"
      /\ bs[n].type = "Commit" /\ bs[n].tx = bs[1].tx /\ bs[n].index = n - 2
      /\ \A k \in 2 .. n - 1 :
            bs[k].type = "Data" /\ bs[k].tx = bs[1].tx /\ bs[k].index = k - 2
    BY <1>1 DEF ReplayOk
<1>3. \A k \in 1 .. n : bs[k].type \in {"Begin", "Commit", "Data"} =>
          \E t \in Tx : /\ txState[t] \notin {"None", "New"}
                        /\ \E j \in 1 .. TxLen(t) : bs[k] = TxBlock(t, j)
    BY <1>1 DEF Genuine, Blank, Torn
<1>4. PICK t \in Tx : /\ txState[t] \notin {"None", "New"}
                      /\ \E j \in 1 .. TxLen(t) : bs[1] = TxBlock(t, j)
    BY <1>2, <1>3
<1>5. PICK j \in 1 .. TxLen(t) : bs[1] = TxBlock(t, j)
    BY <1>4
<1>6. j = 1 /\ bs[1].tx = t
    BY <1>2, <1>5, BlockIs
<1>7. TxLen(t) = n /\ bs[n] = TxBlock(t, n)
    <2>1. PICK u \in Tx : \E i \in 1 .. TxLen(u) : bs[n] = TxBlock(u, i)
        BY <1>2, <1>3
    <2>2. PICK i \in 1 .. TxLen(u) : bs[n] = TxBlock(u, i)
        BY <2>1
    <2>3. u = t /\ i = TxLen(u) /\ n - 2 = TxLen(u) - 2
        BY <1>2, <1>6, <2>2, BlockIs
    <2>4. TxLen(u) \in Nat
        BY TxBlockType
    <2> QED BY <2>2, <2>3, <2>4
<1>8. ASSUME NEW k \in 1 .. n PROVE bs[k] = TxBlock(t, k)
    <2>1. CASE k = 1
        BY <1>5, <1>6, <2>1
    <2>2. CASE k = n
        BY <1>7, <2>2
    <2>3. CASE k # 1 /\ k # n
        <3>0. k \in 2 .. n - 1
            BY <1>1, <2>3
        <3>1. PICK u \in Tx : \E i \in 1 .. TxLen(u) : bs[k] = TxBlock(u, i)
            BY <1>2, <1>3, <3>0
        <3>2. PICK i \in 1 .. TxLen(u) : bs[k] = TxBlock(u, i)
            BY <3>1
        <3>3. u = t /\ k - 2 = i - 2
            BY <1>2, <1>6, <3>0, <3>2, BlockIs
        <3>4. i = k
            <4>1. i \in Int /\ k \in Int
                BY <3>2, <1>1
            <4> QED BY <3>3, <4>1
        <3> QED BY <3>2, <3>3, <3>4
    <2> QED BY <2>1, <2>2, <2>3
<1> QED BY <1>1, <1>4, <1>7, <1>8

\* What Replay applies is one whole transaction.
LEMMA ApplyTxStep ==
    ASSUME IInv, IInv', NoClients, GenuineLog, ApplyTx, [Next]_vars
    PROVE  ApplyTx'
<1> SUFFICES ASSUME mpc' = "apply" PROVE ApplyTx'
    BY DEF ApplyTx
<1>0. TypeOK /\ rlist' \in Seq(Block) /\ ring \in Ring /\ ring.start \in Slot /\ rlist \in Seq(Block)
      /\ log \in [Slot -> SUBSET Block]
    BY DEF IInv, TypeOK, Ring
<1>1. CASE ReplayBlock
    <2>1. PICK b \in log[ring.start] : rlist' = Append(rlist, b) /\ ReplayStep(b) = "apply"
        BY <1>1, ReplayReads
    <2>2. ReplayOk(rlist')
        <3>1. ReplayStep(b) = "apply" => ReplayOk(Append(rlist, b))
            BY DEF ReplayStep
        <3> QED BY <2>1, <3>1
    <2>3. \A k \in DOMAIN rlist' : Genuine(rlist'[k])
        <3>1. b \in Block /\ Genuine(b)
            BY <1>0 DEF GenuineLog
        <3>2. \A k \in DOMAIN rlist' : rlist'[k] = b \/ (k \in DOMAIN rlist /\ rlist'[k] = rlist[k])
            BY <1>0, <2>1, <3>1
        <3> QED BY <3>1, <3>2 DEF GenuineLog
    <2>4. PICK bs \in Seq(Block) : bs = rlist'
        BY <1>0
    <2>5. PICK t \in Tx : /\ txState[t] \notin {"None", "New"} /\ Len(bs) = TxLen(t)
                          /\ \A k \in 1 .. TxLen(t) : bs[k] = TxBlock(t, k)
        BY <1>0, <2>2, <2>3, <2>4, ReplayedIs
    <2>6. TxLen(t)' = TxLen(t) /\ txState'[t] \notin {"None", "New"} /\ \A k : TxBlock(t, k)' = TxBlock(t, k)
        BY <2>5, OldKept
    <2> QED BY <2>4, <2>5, <2>6 DEF ApplyTx
<1>2. CASE UNCHANGED vars
    <2>1. UNCHANGED <<rlist, mpc, txState, blocks>>
        BY <1>2 DEF vars, mountVars, txVars
    <2>2. \A u \in Tx : TxLen(u)' = TxLen(u) /\ \A k : TxBlock(u, k)' = TxBlock(u, k)
        BY <2>1, TxSame
    <2> QED BY <2>1, <2>2 DEF ApplyTx
<1>3. ~LoadHeader /\ ~ReplayApplied
    BY DEF LoadHeader, ReplayApplied
<1> QED BY <1>1, <1>2, <1>3, ReplayCases

-----------------------------------------------------------------------------
(* The order is inductive                                                  *)

\* An unformatted volume has an empty log and no history.
LEMMA OrderInit == Init => OrderInv
<1> SUFFICES ASSUME Init PROVE OrderInv
    OBVIOUS
<1>1. PredOk /\ TableOk /\ NoClients /\ HeaderRing /\ EraseOrder
    BY DEF Init, PredOk, TableOk, NoClients, HeaderRing, EraseOrder, Active
<1>2. GenuineLog
    BY DEF Init, GenuineLog, Genuine
<1>3. RingLies /\ HeadersLie
    BY DEF Init, RingLies, HeadersLie, Placed, Logged
<1>4. ApplyTx /\ ReplayPos /\ CompactPos
    BY DEF Init, ApplyTx, ReplayPos, CompactPos
<1>5. ~berr /\ HeadersOrdered /\ RingOrdered /\ PastFree
    BY DEF Init, HeadersOrdered, RingOrdered, PastFree
<1> QED BY <1>1, <1>2, <1>3, <1>4, <1>5 DEF OrderInv

\* Every step keeps the order of the log.
LEMMA OrderStep == IInv /\ IInv' /\ LogInv /\ OrderInv /\ [Next]_vars => OrderInv'
<1> SUFFICES ASSUME IInv, IInv', LogInv, OrderInv, [Next]_vars PROVE OrderInv'
    OBVIOUS
<1>0. /\ PredOk /\ TableOk /\ NoClients /\ HeaderRing /\ EraseOrder /\ GenuineLog
      /\ RingLies /\ HeadersLie /\ ApplyTx /\ ReplayPos /\ CompactPos /\ RlistIdle
    BY DEF OrderInv, LogInv
<1>1. PredOk' /\ TableOk' /\ EraseOrder'
    BY <1>0, PredOkStep, TableStep, EraseOrderStep
<1>2. NoClients' /\ HeaderRing'
    BY <1>0, NoClientsStep, HeaderRingStep
<1>3. GenuineLog'
    BY <1>0, GenuineStep
<1>4. RingLies'
    BY <1>0, RingLiesStep
<1>5. HeadersLie'
    BY <1>0, <1>4, HeadersLieStep
<1>6. ApplyTx' /\ ReplayPos' /\ CompactPos'
    BY <1>0, ApplyTxStep, ReplayPosStep, CompactPosStep
<1>7. ASSUME LogSound' PROVE ~berr' /\ HeadersOrdered' /\ RingOrdered' /\ PastFree'
    <2>1. LogSound
        BY <1>7, TaintGrows DEF LogSound
    <2>2. ~berr /\ HeadersOrdered /\ RingOrdered /\ PastFree /\ ReplayParses /\ NoReuse
        BY <2>1 DEF OrderInv, LogInv
    <2>3. ~berr' /\ RingOrdered' /\ PastFree'
        BY <1>0, <1>7, <2>2, NoErrorStep, RingOrderedStep, PastFreeStep
    <2>4. HeadersOrdered'
        BY <1>0, <1>3, <1>7, <2>2, HeadersOrderedStep
    <2> QED BY <2>3, <2>4
<1> QED BY <1>1, <1>2, <1>3, <1>4, <1>5, <1>6, <1>7 DEF OrderInv

\* The log is in the order of the commits in every reachable state.
LEMMA OrderInductive == Spec => []OrderInv
    BY OrderInit, OrderStep, LogInductive, Inductive, PTL DEF Spec

-----------------------------------------------------------------------------
(* Commits that do not overlap leak no slot                                *)

\* In a sound log no round cancels a transaction, and Unload cancels those in
\* the queue when the journal does not run any more.
LEMMA NotCanceledStep ==
    ASSUME IInv, NoClients, NotCanceled, ~berr, [Next]_vars
    PROVE  NotCanceled'
<1> SUFFICES ASSUME LogSound', jstate' = "Running", NEW u \in Tx, pc'[u] = "waiting"
             PROVE  txState'[u] # "Canceled"
    BY DEF NotCanceled
<1>0. TypeOK /\ Modes
    BY DEF IInv
<1>s. LogSound /\ (jstate = "Running" => NotCanceled) /\ "leaked" \notin taint'
    BY TaintGrows DEF LogSound
<1>f. ASSUME jstate = "Running", txState'[u] = txState[u], pc'[u] = pc[u]
      PROVE  txState'[u] # "Canceled"
    BY <1>f, <1>s DEF NotCanceled
<1> USE <1>0 DEF mountVars, tableVars, threadVars, txVars, homeVars, histVars
<1>1. ASSUME NEW t \in Tx, BeginTx(t) PROVE txState'[u] # "Canceled"
    BY <1>1, <1>f, <1>s DEF BeginTx, TypeOK, NotCanceled
<1>2. ASSUME NEW t \in Tx, NEW page \in Pages, Write(t, page) PROVE txState'[u] # "Canceled"
    BY <1>2, <1>f DEF Write
<1>3. ASSUME NEW t \in Tx, Abandon(t) PROVE txState'[u] # "Canceled"
    BY <1>3, <1>f, <1>s DEF Abandon, TypeOK, NotCanceled
<1>4. ASSUME NEW t \in Tx, Commit(t) PROVE txState'[u] # "Canceled"
    BY <1>4, <1>f, <1>s DEF Commit, TypeOK, NotCanceled
<1>5. ASSUME NEW t \in Tx, CommitRefused(t) PROVE txState'[u] # "Canceled"
    BY <1>5, <1>f, <1>s DEF CommitRefused, TypeOK, NotCanceled
<1>6. ASSUME NEW t \in Tx, CommitFailed(t) PROVE txState'[u] # "Canceled"
    BY <1>6, <1>f, <1>s DEF CommitFailed, TypeOK, NotCanceled
<1>7. ASSUME NEW t \in Tx, Apply(t) PROVE txState'[u] # "Canceled"
    BY <1>7, <1>f, <1>s DEF Apply, TypeOK, NotCanceled
<1>8. ASSUME NEW t \in Tx, ApplyDone(t) PROVE txState'[u] # "Canceled"
    BY <1>8, <1>f, <1>s DEF ApplyDone, TypeOK, NotCanceled
<1>9. ASSUME NEW t \in Tx, ApplyFailed(t) PROVE txState'[u] # "Canceled"
    BY <1>9, <1>f, <1>s DEF ApplyFailed, TypeOK, NotCanceled
<1>10. ASSUME NEW t \in Tx, EraseTx(t) PROVE txState'[u] # "Canceled"
    BY <1>10, <1>f, <1>s DEF EraseTx, TypeOK, NotCanceled
<1>11. ASSUME CheckStopping PROVE txState'[u] # "Canceled"
    BY <1>11, <1>f DEF CheckStopping
<1>12. ASSUME NoWork PROVE txState'[u] # "Canceled"
    BY <1>12, <1>f DEF NoWork
<1>13. ASSUME TakeBatch PROVE txState'[u] # "Canceled"
    BY <1>13, <1>f DEF TakeBatch
<1>14. ASSUME WriteTx PROVE txState'[u] # "Canceled"
    BY <1>14, <1>f DEF WriteTx
<1>15. ASSUME NEW n \in 0 .. Capacity, WriteTxFail(n) PROVE txState'[u] # "Canceled"
    BY <1>15, <1>s DEF WriteTxFail
<1>16. ASSUME FlushBlocks PROVE txState'[u] # "Canceled"
    BY <1>16, <1>f DEF FlushBlocks
<1>17. ASSUME CompleteTx PROVE txState'[u] # "Canceled"
    <2>1. txState' = [txState EXCEPT ![Head(batch)] = "Commited"] /\ pc' = pc /\ jstate' = jstate
        BY <1>17 DEF CompleteTx, Outcome
    <2> QED BY <1>f, <2>1 DEF TypeOK
<1>18. ASSUME RoundDone PROVE txState'[u] # "Canceled"
    BY <1>18, <1>f DEF RoundDone
<1>19. ASSUME FlushHeader PROVE txState'[u] # "Canceled"
    BY <1>19, <1>f DEF FlushHeader
<1>20. ASSUME FlushHeaderDone PROVE txState'[u] # "Canceled"
    BY <1>20, <1>f DEF FlushHeaderDone
<1>21. ASSUME NEW t \in Tx, CompactTx(t) PROVE txState'[u] # "Canceled"
    BY <1>21, <1>f DEF CompactTx
<1>22. ASSUME CompactDone PROVE txState'[u] # "Canceled"
    BY <1>22, <1>f DEF CompactDone, FlushReturn
<1>23. ASSUME FlushFailed PROVE txState'[u] # "Canceled"
    BY <1>23, <1>s DEF FlushFailed
<1>24. ASSUME Format PROVE txState'[u] # "Canceled"
    BY <1>24 DEF Format, Modes
<1>25. ASSUME LoadHeader PROVE txState'[u] # "Canceled"
    BY <1>25 DEF LoadHeader, Modes
<1>26. ASSUME ReplayBlock PROVE txState'[u] # "Canceled"
    BY <1>26 DEF ReplayBlock, Modes, NoClients, Active
<1>27. ASSUME ReplayApplied PROVE txState'[u] # "Canceled"
    BY <1>27 DEF ReplayApplied, Modes
<1>28. ASSUME ReplayDone PROVE txState'[u] # "Canceled"
    BY <1>28 DEF ReplayDone, Modes, NoClients, Active
<1>29. ASSUME ReplayFailed PROVE txState'[u] # "Canceled"
    BY <1>29 DEF ReplayFailed, Modes
<1>30. ASSUME Unload PROVE txState'[u] # "Canceled"
    BY <1>30 DEF Unload
<1>31. ASSUME UnloadFlush PROVE txState'[u] # "Canceled"
    BY <1>31 DEF UnloadFlush, CancelQueued, Modes
<1>32. ASSUME UnloadNoFlush PROVE txState'[u] # "Canceled"
    BY <1>32 DEF UnloadNoFlush, CancelQueued, Modes
<1>33. ASSUME Destroy PROVE txState'[u] # "Canceled"
    BY <1>33 DEF Destroy, Forget
<1>34. ASSUME Crash PROVE txState'[u] # "Canceled"
    BY <1>34 DEF Crash, Forget
<1>35. ASSUME UNCHANGED vars PROVE txState'[u] # "Canceled"
    BY <1>35, <1>f DEF vars
<1> QED
    BY <1>1, <1>2, <1>3, <1>4, <1>5, <1>6, <1>7, <1>8, <1>9, <1>10, <1>11,
       <1>12, <1>13, <1>14, <1>15, <1>16, <1>17, <1>18, <1>19, <1>20, <1>21, <1>22,
       <1>23, <1>24, <1>25, <1>26, <1>27, <1>28, <1>29, <1>30, <1>31, <1>32, <1>33,
       <1>34, <1>35 DEF Next, Client, CommitTail, Thread, Flush, Mount

\* t's commit has begun, and it did not fail.
Began(t) == pc[t] \in {"waiting", "applying", "applied"} \/ (pc[t] = "returned" /\ txState[t] = "Commited")

\* It stays so as long as the journal runs and the log is sound.
LEMMA BeganStays ==
    ASSUME IInv, Unanswered, NotCanceled, LogSound', jstate = "Running", jstate' = "Running",
           [Next]_vars, NEW u \in Tx, Began(u)
    PROVE  Began(u)'
<1>0. TypeOK /\ Modes /\ TxOk
    BY DEF IInv
<1>s. LogSound /\ taint' \subseteq {"corrupt"}
    BY TaintGrows DEF LogSound
<1>d. txState[u] = "Commited" => txState'[u] = "Commited"
    BY QueueStep DEF Decided
<1>f. ASSUME pc'[u] = pc[u] PROVE Began(u)'
    BY <1>f, <1>d DEF Began
<1> USE <1>0 DEF mountVars, tableVars, threadVars, txVars, homeVars, histVars
<1>1. ASSUME NEW t \in Tx, BeginTx(t) PROVE Began(u)'
    BY <1>1, <1>d DEF BeginTx, TypeOK, TxOk, Began
<1>2. ASSUME NEW t \in Tx, NEW page \in Pages, Write(t, page) PROVE Began(u)'
    BY <1>2, <1>f DEF Write
<1>3. ASSUME NEW t \in Tx, Abandon(t) PROVE Began(u)'
    BY <1>3, <1>d DEF Abandon, TypeOK, TxOk, Began
<1>4. ASSUME NEW t \in Tx, Commit(t) PROVE Began(u)'
    BY <1>4, <1>d DEF Commit, TypeOK, TxOk, Began
<1>5. ASSUME NEW t \in Tx, CommitRefused(t) PROVE Began(u)'
    BY <1>5, <1>d DEF CommitRefused, TypeOK, TxOk, Began
<1>6. ASSUME NEW t \in Tx, CommitFailed(t) PROVE Began(u)'
    <2>1. event[t] /\ txState[t] # "Commited" /\ pc[t] = "waiting" /\ pc' = [pc EXCEPT ![t] = "returned"]
        BY <1>6 DEF CommitFailed
    <2>2. txState[t] # "Canceled"
        BY <1>s, <2>1 DEF NotCanceled
    <2>3. txState[t] \in {"None", "New", "Commiting"}
        BY <2>1, <2>2 DEF TypeOK
    <2> QED BY <2>1, <2>3 DEF Unanswered
<1>7. ASSUME NEW t \in Tx, Apply(t) PROVE Began(u)'
    BY <1>7, <1>d DEF Apply, TypeOK, TxOk, Began
<1>8. ASSUME NEW t \in Tx, ApplyDone(t) PROVE Began(u)'
    BY <1>8, <1>d DEF ApplyDone, TypeOK, TxOk, Began
<1>9. ASSUME NEW t \in Tx, ApplyFailed(t) PROVE Began(u)'
    BY <1>9, <1>s DEF ApplyFailed
<1>10. ASSUME NEW t \in Tx, EraseTx(t) PROVE Began(u)'
    BY <1>10, <1>d DEF EraseTx, TypeOK, TxOk, Began
<1>11. ASSUME CheckStopping PROVE Began(u)'
    BY <1>11, <1>f DEF CheckStopping
<1>12. ASSUME NoWork PROVE Began(u)'
    BY <1>12, <1>f DEF NoWork
<1>13. ASSUME TakeBatch PROVE Began(u)'
    BY <1>13, <1>f DEF TakeBatch
<1>14. ASSUME WriteTx PROVE Began(u)'
    BY <1>14, <1>f DEF WriteTx
<1>15. ASSUME NEW n \in 0 .. Capacity, WriteTxFail(n) PROVE Began(u)'
    BY <1>15, <1>f DEF WriteTxFail
<1>16. ASSUME FlushBlocks PROVE Began(u)'
    BY <1>16, <1>f DEF FlushBlocks
<1>17. ASSUME CompleteTx PROVE Began(u)'
    BY <1>17, <1>f DEF CompleteTx
<1>18. ASSUME RoundDone PROVE Began(u)'
    BY <1>18, <1>f DEF RoundDone
<1>19. ASSUME FlushHeader PROVE Began(u)'
    BY <1>19, <1>f DEF FlushHeader
<1>20. ASSUME FlushHeaderDone PROVE Began(u)'
    BY <1>20, <1>f DEF FlushHeaderDone
<1>21. ASSUME NEW t \in Tx, CompactTx(t) PROVE Began(u)'
    BY <1>21, <1>f DEF CompactTx
<1>22. ASSUME CompactDone PROVE Began(u)'
    BY <1>22, <1>f DEF CompactDone, FlushReturn
<1>23. ASSUME FlushFailed PROVE Began(u)'
    BY <1>23, <1>f DEF FlushFailed, FlushReturn
<1>24. ASSUME Format PROVE Began(u)'
    BY <1>24, <1>f DEF Format
<1>25. ASSUME LoadHeader PROVE Began(u)'
    BY <1>25, <1>f DEF LoadHeader
<1>26. ASSUME ReplayBlock PROVE Began(u)'
    BY <1>26, <1>f DEF ReplayBlock, StartRunning
<1>27. ASSUME ReplayApplied PROVE Began(u)'
    BY <1>27, <1>f DEF ReplayApplied
<1>28. ASSUME ReplayDone PROVE Began(u)'
    BY <1>28, <1>f DEF ReplayDone, StartRunning
<1>29. ASSUME ReplayFailed PROVE Began(u)'
    BY <1>29, <1>f DEF ReplayFailed
<1>30. ASSUME Unload PROVE Began(u)'
    BY <1>30, <1>f DEF Unload
<1>31. ASSUME UnloadFlush PROVE Began(u)'
    BY <1>31, <1>f DEF UnloadFlush, CancelQueued
<1>32. ASSUME UnloadNoFlush PROVE Began(u)'
    BY <1>32, <1>f DEF UnloadNoFlush, CancelQueued
<1>33. ASSUME Destroy PROVE Began(u)'
    BY <1>33 DEF Destroy, Forget
<1>34. ASSUME Crash PROVE Began(u)'
    BY <1>34 DEF Crash, Forget
<1>35. ASSUME UNCHANGED vars PROVE Began(u)'
    BY <1>35, <1>f DEF vars
<1> QED
    BY <1>1, <1>2, <1>3, <1>4, <1>5, <1>6, <1>7, <1>8, <1>9, <1>10, <1>11,
       <1>12, <1>13, <1>14, <1>15, <1>16, <1>17, <1>18, <1>19, <1>20, <1>21, <1>22,
       <1>23, <1>24, <1>25, <1>26, <1>27, <1>28, <1>29, <1>30, <1>31, <1>32, <1>33,
       <1>34, <1>35 DEF Next, Client, CommitTail, Thread, Flush, Mount

\* What has its slots keeps them until CompactLog, and is not forgotten before.
LEMMA KeptStays ==
    ASSUME IInv, Unanswered, TableOk, ~berr, ~AllocMayFail, LogSound', jstate' = "Running",
           [Next]_vars, NEW u \in Tx, Kept(u), ~CompactTx(u)
    PROVE  Placed(u)' /\ (CompactDone \/ Kept(u)')
<1>0. TypeOK /\ Modes /\ QueueOk /\ TxOk
    BY DEF IInv
<1> DEFINE Goal == Placed(u)' /\ (CompactDone \/ Kept(u)')
<1>s. taint' \subseteq {"corrupt"}
    BY DEF LogSound
<1>p. /\ Placed(u) /\ u \in txTable /\ u \notin erased /\ pc[u] # "lost"
      /\ txState[u] = "Commited" \/ (InRound(u) /\ txState[u] = "Commiting" /\ pc[u] = "waiting")
    BY RoundUndecided DEF Kept, Placed, TableOk, Unanswered
<1>d. txState[u] = "Commited" => txState'[u] = "Commited"
    BY QueueStep DEF Decided
<1>f. ASSUME UNCHANGED <<txTable, erased, txState, tpc, nwritten, batch, berr, toErase>>, pc'[u] = pc[u]
      PROVE  Goal
    BY <1>f DEF Kept, Placed, InRound
<1>t. txTable # {}
    BY <1>p
<1> USE <1>0 DEF mountVars, tableVars, threadVars, txVars, homeVars, histVars
<1>1. ASSUME NEW t \in Tx, BeginTx(t) PROVE Goal
    BY <1>1, <1>p DEF BeginTx, Kept, Placed, InRound, TypeOK, TxOk
<1>2. ASSUME NEW t \in Tx, NEW page \in Pages, Write(t, page) PROVE Goal
    BY <1>2, <1>f DEF Write
<1>3. ASSUME NEW t \in Tx, Abandon(t) PROVE Goal
    BY <1>3 DEF Abandon
<1>4. ASSUME NEW t \in Tx, Commit(t) PROVE Goal
    <2>1. txState[t] = "New" /\ txState' = [txState EXCEPT ![t] = "Commiting"] /\ pc' = [pc EXCEPT ![t] = "waiting"]
          /\ UNCHANGED <<txTable, erased, tpc, nwritten, batch, berr, toErase>>
        BY <1>4 DEF Commit
    <2>2. u # t /\ txState'[u] = txState[u] /\ pc'[u] = pc[u]
        BY <1>p, <2>1 DEF TypeOK
    <2> QED BY <2>1, <2>2 DEF Kept, Placed, InRound
<1>5. ASSUME NEW t \in Tx, CommitRefused(t) PROVE Goal
    <2>1. txState[t] = "New" /\ txState' = [txState EXCEPT ![t] = "Canceled"] /\ pc' = [pc EXCEPT ![t] = "returned"]
          /\ txTable' = txTable \ {t} /\ UNCHANGED <<erased, tpc, nwritten, batch, berr, toErase>>
        BY <1>5 DEF CommitRefused
    <2>2. u # t /\ txState'[u] = txState[u] /\ pc'[u] = pc[u]
        BY <1>p, <2>1 DEF TypeOK
    <2> QED BY <2>1, <2>2 DEF Kept, Placed, InRound
<1>6. ASSUME NEW t \in Tx, CommitFailed(t) PROVE Goal
    <2>1. event[t] /\ txState[t] # "Commited" /\ pc' = [pc EXCEPT ![t] = "returned"]
          /\ UNCHANGED <<txTable, erased, txState, tpc, nwritten, batch, berr, toErase>>
        BY <1>6 DEF CommitFailed
    <2>2. u # t
        BY <1>p, <2>1 DEF Unanswered
    <2> QED BY <1>f, <2>1, <2>2 DEF TypeOK
<1>7. ASSUME NEW t \in Tx, Apply(t) PROVE Goal
    BY <1>7 DEF Apply, Kept, Placed, InRound, TypeOK
<1>8. ASSUME NEW t \in Tx, ApplyDone(t) PROVE Goal
    BY <1>8 DEF ApplyDone, Kept, Placed, InRound, TypeOK
<1>9. ASSUME NEW t \in Tx, ApplyFailed(t) PROVE Goal
    BY <1>9, <1>s DEF ApplyFailed
<1>10. ASSUME NEW t \in Tx, EraseTx(t) PROVE Goal
    <2>1. /\ pc' = [pc EXCEPT ![t] = "returned"] /\ pc[t] = "applied"
          /\ UNCHANGED <<txTable, erased, txState, tpc, nwritten, batch, berr>>
        BY <1>10 DEF EraseTx
    <2>2. \/ t \in txTable /\ toErase' = toErase \cup {t}
          \/ t \notin txTable /\ toErase' = toErase
        BY <1>10 DEF EraseTx
    <2>3. Placed(u)'
        BY <1>p, <2>1 DEF Placed, InRound
    <2> QED BY <1>p, <2>1, <2>2, <2>3 DEF Kept, TypeOK
<1>11. ASSUME CheckStopping PROVE Goal
    <2>1. UNCHANGED <<txTable, erased, txState, pc, toErase>> /\ tpc \in {"check", "wait", "complete"}
          /\ (tpc = "complete" => batch = <<>>)
        BY <1>11 DEF CheckStopping
    <2>2. ~InRound(u)
        BY <2>1 DEF InRound, Modes
    <2> QED BY <1>p, <2>1, <2>2 DEF Kept, Placed
<1>12. ASSUME NoWork PROVE Goal
    <2>1. UNCHANGED <<txTable, erased, txState, pc, toErase>> /\ tpc \in {"check", "wait", "complete"}
          /\ (tpc = "complete" => batch = <<>>)
        BY <1>12 DEF NoWork
    <2>2. ~InRound(u)
        BY <2>1 DEF InRound, Modes
    <2> QED BY <1>p, <2>1, <2>2 DEF Kept, Placed
<1>13. ASSUME TakeBatch PROVE Goal
    <2>1. UNCHANGED <<txTable, erased, txState, pc, toErase>> /\ tpc \in {"check", "wait", "complete"}
          /\ (tpc = "complete" => batch = <<>>)
        BY <1>13 DEF TakeBatch
    <2>2. ~InRound(u)
        BY <2>1 DEF InRound, Modes
    <2> QED BY <1>p, <2>1, <2>2 DEF Kept, Placed
<1>14. ASSUME WriteTx PROVE Goal
    <2>1. /\ UNCHANGED <<txTable, erased, txState, pc, toErase, tpc, batch, berr>>
          /\ nwritten' = nwritten + 1 /\ nwritten \in Nat
        BY <1>14 DEF WriteTx, TypeOK
    <2>2. InRound(u) => InRound(u)'
        BY <2>1 DEF InRound
    <2> QED BY <2>1, <2>2 DEF Kept, Placed
<1>15. ASSUME NEW n \in 0 .. Capacity, WriteTxFail(n) PROVE Goal
    BY <1>15, <1>s DEF WriteTxFail
<1>16. ASSUME FlushBlocks PROVE Goal
    <2>1. /\ UNCHANGED <<txTable, erased, txState, pc, toErase, batch, berr>>
          /\ tpc = "write" /\ tpc' = "flush" /\ nwritten = Len(batch) /\ DOMAIN batch = 1 .. Len(batch)
        BY <1>16 DEF FlushBlocks, TypeOK
    <2>2. InRound(u) => InRound(u)'
        BY <2>1 DEF InRound
    <2> QED BY <2>1, <2>2 DEF Kept, Placed
<1>17. ASSUME CompleteTx PROVE Goal
    <2> DEFINE t == Head(batch)
    <2>1. /\ UNCHANGED <<txTable, erased, pc, toErase, tpc, berr>> /\ tpc = "complete" /\ batch # <<>>
          /\ txState' = [txState EXCEPT ![t] = "Commited"] /\ batch' = Tail(batch) /\ batch \in Seq(Tx)
        BY <1>17 DEF CompleteTx, Outcome, TypeOK
    <2>2. ASSUME InRound(u), u # t PROVE InRound(u)'
        <3>1. PICK i \in DOMAIN batch : batch[i] = u
            BY <2>1, <2>2 DEF InRound
        <3>2. i # 1
            BY <2>1, <2>2, <3>1
        <3>3. i - 1 \in DOMAIN Tail(batch) /\ Tail(batch)[i - 1] = u
            BY <2>1, <3>1, <3>2
        <3> QED BY <2>1, <3>3 DEF InRound
    <2>3. t \in Tx /\ (u = t => txState'[u] = "Commited")
        BY <2>1 DEF TypeOK
    <2> HIDE DEF t
    <2>4. Placed(u)'
        BY <1>p, <1>d, <2>1, <2>2, <2>3 DEF Placed
    <2> QED BY <2>1, <2>4 DEF Kept
<1>18. ASSUME RoundDone PROVE Goal
    <2>1. UNCHANGED <<txTable, erased, txState, pc, toErase>> /\ tpc \in {"check", "wait", "complete"}
          /\ (tpc = "complete" => batch = <<>>)
        BY <1>18 DEF RoundDone
    <2>2. ~InRound(u)
        BY <2>1 DEF InRound, Modes
    <2> QED BY <1>p, <2>1, <2>2 DEF Kept, Placed
<1>19. ASSUME FlushHeader PROVE Goal
    BY <1>19, <1>f DEF FlushHeader
<1>20. ASSUME FlushHeaderDone PROVE Goal
    BY <1>20, <1>f DEF FlushHeaderDone
<1>21. ASSUME NEW t \in Tx, CompactTx(t) PROVE Goal
    <2>1. u # t
        BY <1>21
    <2>2. /\ UNCHANGED <<txTable, txState, pc, tpc, batch, berr, nwritten>>
          /\ toErase' = toErase \ {t} /\ erased' = erased \cup {t}
        BY <1>21 DEF CompactTx
    <2>3. Placed(u)'
        BY <1>p, <2>1, <2>2 DEF Placed, InRound
    <2> QED BY <2>1, <2>2, <2>3 DEF Kept
<1>22. ASSUME CompactDone PROVE Goal
    <2>1. /\ UNCHANGED <<txTable, erased, txState, nwritten, batch, pc>> /\ fpc = "compact"
          /\ \/ tpc' = "complete" /\ berr' = FALSE
             \/ mpc = "flush" /\ UNCHANGED <<tpc, berr>>
        BY <1>22 DEF CompactDone, FlushReturn
    <2>2. InRound(u) => InRound(u)'
        BY <2>1 DEF InRound, Modes
    <2> QED BY <1>22, <2>1, <2>2, <1>p DEF Placed
<1>23. ASSUME FlushFailed PROVE Goal
    BY <1>23, <1>s DEF FlushFailed
<1>24. ASSUME Format PROVE Goal
    BY <1>24, <1>t DEF Format, Modes
<1>25. ASSUME LoadHeader PROVE Goal
    BY <1>25, <1>t DEF LoadHeader, Modes
<1>26. ASSUME ReplayBlock PROVE Goal
    BY <1>26, <1>t DEF ReplayBlock, Modes
<1>27. ASSUME ReplayApplied PROVE Goal
    BY <1>27, <1>t DEF ReplayApplied, Modes
<1>28. ASSUME ReplayDone PROVE Goal
    BY <1>28, <1>t DEF ReplayDone, Modes
<1>29. ASSUME ReplayFailed PROVE Goal
    BY <1>29, <1>t DEF ReplayFailed, Modes
<1>30. ASSUME Unload PROVE Goal
    BY <1>30 DEF Unload
<1>31. ASSUME UnloadFlush PROVE Goal
    BY <1>31 DEF UnloadFlush, CancelQueued, Modes
<1>32. ASSUME UnloadNoFlush PROVE Goal
    BY <1>32 DEF UnloadNoFlush, CancelQueued, Modes
<1>33. ASSUME Destroy PROVE Goal
    BY <1>33 DEF Destroy, Forget
<1>34. ASSUME Crash PROVE Goal
    BY <1>34 DEF Crash, Forget
<1>35. ASSUME UNCHANGED vars PROVE Goal
    BY <1>35, <1>f DEF vars
<1> QED
    BY <1>1, <1>2, <1>3, <1>4, <1>5, <1>6, <1>7, <1>8, <1>9, <1>10, <1>11,
       <1>12, <1>13, <1>14, <1>15, <1>16, <1>17, <1>18, <1>19, <1>20, <1>21, <1>22,
       <1>23, <1>24, <1>25, <1>26, <1>27, <1>28, <1>29, <1>30, <1>31, <1>32, <1>33,
       <1>34, <1>35 DEF Next, Client, CommitTail, Thread, Flush, Mount

\* Serial, of the commits that have begun.
LEMMA SerialIs ==
    Serial <=> \A t, u \in Tx : Began(t) /\ Began(u) => t = u \/ t \in pred[u] \/ u \in pred[t]
<1> DEFINE B == Acked \cup {t \in Active : pc[t] # "open"}
<1>1. \A t : t \in B <=> t \in Tx /\ Began(t)
    BY DEF Began, Acked, Active
<1>2. Serial <=> \A t, u \in B : t = u \/ t \in pred[u] \/ u \in pred[t]
    BY DEF Serial
<1> HIDE DEF B
<1> QED BY <1>1, <1>2

\* Commits that do not overlap now did not overlap before.
LEMMA SerialBefore ==
    ASSUME IInv, Unanswered, NotCanceled, LogSound', jstate = "Running", jstate' = "Running",
           [Next]_vars, Serial'
    PROVE  Serial
<1>1. (\A t, u \in Tx : Began(t) /\ Began(u) => t = u \/ t \in pred[u] \/ u \in pred[t])'
    BY SerialIs, PTL
<1>2. ASSUME NEW u \in Tx, Began(u) PROVE Began(u)' /\ pred'[u] = pred[u]
    <2>1. Began(u)'
        BY <1>2, BeganStays
    <2>2. ASSUME NEW t \in Tx, Commit(t) PROVE pred'[u] = pred[u]
        BY <1>2, <2>2 DEF Commit, Began, IInv, TypeOK
    <2> QED BY <2>1, <2>2, PredStep
<1>3. \A t, u \in Tx : Began(t) /\ Began(u) => t = u \/ t \in pred[u] \/ u \in pred[t]
    BY <1>1, <1>2
<1> QED BY <1>3, SerialIs

\* A transaction that has its slots is on its way through Commit, or waits for
\* CompactLog.
LEMMA KeptIs ==
    ASSUME IInv, Unanswered, TableOk, NEW u \in Tx, Kept(u)
    PROVE  /\ u \in toErase \/ pc[u] \in {"waiting", "applying", "applied"}
           /\ Began(u)
           /\ txState[u] = "Commited" \/ (InRound(u) /\ txState[u] = "Commiting")
<1>1. txState[u] = "Commited" \/ (InRound(u) /\ txState[u] = "Commiting")
    BY RoundUndecided DEF Kept, Placed
<1>2. u \in txTable /\ pc[u] # "lost" /\ (txState[u] = "Commiting" => pc[u] = "waiting")
    BY DEF Kept, Placed, TableOk, Unanswered
<1>3. TxOk /\ TypeOK
    BY DEF IInv
<1>4. CASE u \in toErase
    BY <1>1, <1>3, <1>4 DEF TxOk, Began
<1>5. CASE u \notin toErase
    <2>1. pc[u] \in {"waiting", "applying", "applied"}
        BY <1>1, <1>2, <1>3, <1>5 DEF Kept, TxOk, TableOk, TypeOK
    <2> QED BY <1>1, <2>1 DEF Began
<1> QED BY <1>1, <1>4, <1>5

\* During CompactLog it is in the log.
LEMMA KeptLogged ==
    ASSUME IInv, Unanswered, TableOk, NEW u \in Tx, Kept(u), fpc = "compact"
    PROVE  Logged(u)
<1>1. txState[u] = "Commited" \/ InRound(u)
    BY KeptIs
<1>2. u \in txTable /\ u \notin erased
    BY DEF Kept, Placed
<1>3. CASE InRound(u)
    <2>1. tpc = "flush" /\ mpc # "flush" /\ \E j \in DOMAIN batch : batch[j] = u
        BY <1>3 DEF InRound, IInv, Modes
    <2> QED BY <1>2, <2>1 DEF Logged, Range
<1> QED BY <1>1, <1>2, <1>3 DEF Logged

\* Who owns the front of the ring can be erased.
LEMMA FrontErasable ==
    ASSUME IInv, RingLies, NEW u \in Tx, Placed(u), ring.size # 0,
           NEW j \in 1 .. TxLen(u), indexList[u][j] = Cell(ring, 0)
    PROVE  EraseOk(ring, indexList[u]) /\ indexList[u][1] = Cell(ring, 0)
<1>0. TypeOK /\ ring \in Ring /\ TxLen(u) \in Nat /\ TxLen(u) >= 2
    <2>1. TypeOK
        BY DEF IInv
    <2> QED BY <2>1, TxBlockType DEF TypeOK
<1>1. PICK n \in Nat : n = TxLen(u) /\ n >= 2
    BY <1>0
<1>2. PICK k \in 0 .. Capacity : Lies(u, ring, k)
    BY DEF RingLies
<1>3. k + n <= ring.size /\ \A i \in 1 .. n : indexList[u][i] = Cell(ring, k + (i - 1))
    BY <1>1, <1>2 DEF Lies
<1>4. ring.size \in Nat /\ ring.start \in Nat /\ Capacity \in Nat
    BY <1>0, CapacityAssumption DEF Ring, Slot
<1>5. k \in Nat /\ j \in Nat /\ j >= 1 /\ j <= n
    BY <1>1, <1>4
<1>6. PICK m \in Nat : m = k + (j - 1) /\ m < ring.size
    BY <1>1, <1>3, <1>4, <1>5
<1>7. m = 0
    <2>1. Cell(ring, m) = Cell(ring, 0) /\ 0 < ring.size
        BY <1>1, <1>3, <1>4, <1>6
    <2> QED BY <1>0, <1>6, <2>1, CellInj
<1>8. k = 0 /\ n <= ring.size
    BY <1>3, <1>4, <1>5, <1>6, <1>7
<1>9. Len(indexList[u]) = n
    BY <1>1 DEF IInv, PlacedInRing
<1>10. ASSUME NEW i \in 1 .. n PROVE indexList[u][i] = Wrap(ring.start + i - 1)
    <2>1. indexList[u][i] = Cell(ring, 0 + (i - 1))
        BY <1>3, <1>8
    <2>2. ring.start + (0 + (i - 1)) = ring.start + i - 1
        BY <1>1, <1>4
    <2> QED BY <2>1, <2>2 DEF Cell
<1>11. indexList[u][1] = Cell(ring, 0)
    <2>1. 1 \in 1 .. n /\ 0 + (1 - 1) = 0
        BY <1>1
    <2> QED BY <1>3, <1>8, <2>1
<1> QED BY <1>8, <1>9, <1>10, <1>11 DEF EraseOk

\* CompactLog empties TxToErase: if something were left there, the front of the
\* ring would be owned by a commit that has not returned, and that began before
\* the one that is left had returned, or after it and yet in front of it.
LEMMA CompactLeavesNone ==
    ASSUME IInv, Unanswered, TableOk, PredOk, RingLies, RingOrdered, Serial, jstate = "Running", CompactDone,
           \A i \in Used(ring) : \E t \in Tx : Kept(t) /\ \E k \in 1 .. TxLen(t) : indexList[t][k] = i,
           NEW t \in toErase
    PROVE  FALSE
<1>0. TypeOK /\ ring \in Ring /\ t \in Tx /\ TxOk /\ ring.size \in Nat /\ Modes
    <2>1. TypeOK /\ TxOk /\ Modes
        BY DEF IInv
    <2> QED BY <2>1, CapacityAssumption DEF TypeOK, Ring
<1>1. fpc = "compact" /\ \A s \in toErase : ~EraseOk(ring, indexList[s])
    BY DEF CompactDone
<1>2. Kept(t) /\ Placed(t) /\ Began(t) /\ Logged(t)
    <2>1. Kept(t)
        BY <1>0 DEF TxOk, Kept, Placed
    <2> QED BY <1>0, <1>1, <2>1, KeptIs, KeptLogged DEF Kept
<1>3. PICK n \in Nat : n = TxLen(t) /\ n >= 2
    BY <1>0, TxBlockType
<1>4. PICK l \in 0 .. Capacity : Lies(t, ring, l)
    BY <1>0, <1>2 DEF RingLies
<1>5. l \in Nat /\ l < ring.size /\ indexList[t][1] = Cell(ring, l)
    <2>1. l + n <= ring.size /\ 1 \in 1 .. n /\ \A i \in 1 .. n : indexList[t][i] = Cell(ring, l + (i - 1))
        BY <1>3, <1>4 DEF Lies
    <2>2. l \in Nat /\ l < ring.size /\ l + (1 - 1) = l
        BY <1>0, <1>3, <1>4, <2>1, CapacityAssumption
    <2> QED BY <2>1, <2>2
<1>6. ring.size # 0 /\ Cell(ring, 0) \in Used(ring)
    <2>1. 0 < ring.size
        BY <1>0, <1>5
    <2> QED BY <1>0, <2>1, CellUsed
<1>7. PICK u \in Tx, j \in Nat : Kept(u) /\ j \in 1 .. TxLen(u) /\ indexList[u][j] = Cell(ring, 0)
    BY <1>6
<1>8. EraseOk(ring, indexList[u]) /\ indexList[u][1] = Cell(ring, 0)
    BY <1>6, <1>7, FrontErasable DEF Kept
<1>9. u \notin toErase /\ pc[u] # "returned" /\ Began(u) /\ u # t /\ Logged(u)
    <2>1. u \notin toErase
        BY <1>1, <1>8
    <2> QED BY <1>1, <1>7, <2>1, KeptIs, KeptLogged
<1>10. t \in pred[u]
    <2>1. u \notin pred[t]
        BY <1>0, <1>9 DEF PredOk
    <2> QED BY <1>0, <1>2, <1>9, <2>1, SerialIs
<1>11. log[Cell(ring, 0)] = {TxBlock(u, 1)} /\ log[Cell(ring, l)] = {TxBlock(t, 1)}
    <2>1. 1 \in 1 .. TxLen(t) /\ 1 \in 1 .. TxLen(u)
        BY <1>0, TxBlockType
    <2> QED BY <1>0, <1>2, <1>5, <1>8, <1>9, <2>1 DEF IInv, CommittedDurable
<1>12. TxBlock(u, 1).tx = u /\ TxBlock(t, 1).tx = t
    BY DEF TxBlock, BeginBlock
<1>13. l # 0
    BY <1>9, <1>11, <1>12
<1>14. Ordered(ring, log, pred)
    <2>1. NextLog = log
        BY <1>0, <1>1, NextLogIsLog DEF Modes
    <2> QED BY <2>1 DEF RingOrdered
<1>15. 0 \in 0 .. ring.size - 1 /\ l \in 0 .. ring.size - 1 /\ 0 < l
    BY <1>0, <1>5, <1>6, <1>13
<1> QED BY <1>10, <1>11, <1>12, <1>14, <1>15 DEF Ordered

\* Who moves the ring while the journal runs, and how it comes to run.
LEMMA RunningCases ==
    ASSUME IInv, [Next]_vars, jstate' = "Running"
    PROVE  \/ jstate = "Running" /\ ring' = ring
           \/ jstate = "Running" /\ WriteTx
           \/ \E n \in 0 .. Capacity : WriteTxFail(n)
           \/ jstate = "Running" /\ \E t \in Tx : CompactTx(t)
           \/ ReplayDone
           \/ "corrupt" \in taint'
<1>0. Modes
    BY DEF IInv
<1> DEFINE Goal == \/ jstate = "Running" /\ ring' = ring
                   \/ jstate = "Running" /\ WriteTx
                   \/ \E m \in 0 .. Capacity : WriteTxFail(m)
                   \/ jstate = "Running" /\ \E s \in Tx : CompactTx(s)
                   \/ ReplayDone
                   \/ "corrupt" \in taint'
<1> USE <1>0 DEF mountVars, tableVars, threadVars, txVars, homeVars, histVars
<1>1. ASSUME NEW t \in Tx, BeginTx(t) PROVE Goal
    BY <1>1 DEF BeginTx
<1>2. ASSUME NEW t \in Tx, NEW page \in Pages, Write(t, page) PROVE Goal
    BY <1>2 DEF Write
<1>3. ASSUME NEW t \in Tx, Abandon(t) PROVE Goal
    BY <1>3 DEF Abandon
<1>4. ASSUME NEW t \in Tx, Commit(t) PROVE Goal
    BY <1>4 DEF Commit
<1>5. ASSUME NEW t \in Tx, CommitRefused(t) PROVE Goal
    BY <1>5 DEF CommitRefused
<1>6. ASSUME NEW t \in Tx, CommitFailed(t) PROVE Goal
    BY <1>6 DEF CommitFailed
<1>7. ASSUME NEW t \in Tx, Apply(t) PROVE Goal
    BY <1>7 DEF Apply
<1>8. ASSUME NEW t \in Tx, ApplyDone(t) PROVE Goal
    BY <1>8 DEF ApplyDone
<1>9. ASSUME NEW t \in Tx, ApplyFailed(t) PROVE Goal
    BY <1>9 DEF ApplyFailed
<1>10. ASSUME NEW t \in Tx, EraseTx(t) PROVE Goal
    BY <1>10 DEF EraseTx
<1>11. ASSUME CheckStopping PROVE Goal
    BY <1>11 DEF CheckStopping
<1>12. ASSUME NoWork PROVE Goal
    BY <1>12 DEF NoWork
<1>13. ASSUME TakeBatch PROVE Goal
    BY <1>13 DEF TakeBatch
<1>14. ASSUME WriteTx PROVE Goal
    BY <1>14 DEF WriteTx
<1>15. ASSUME NEW n \in 0 .. Capacity, WriteTxFail(n) PROVE Goal
    BY <1>15 DEF WriteTxFail
<1>16. ASSUME FlushBlocks PROVE Goal
    BY <1>16 DEF FlushBlocks
<1>17. ASSUME CompleteTx PROVE Goal
    BY <1>17 DEF CompleteTx
<1>18. ASSUME RoundDone PROVE Goal
    BY <1>18 DEF RoundDone
<1>19. ASSUME FlushHeader PROVE Goal
    BY <1>19 DEF FlushHeader
<1>20. ASSUME FlushHeaderDone PROVE Goal
    BY <1>20 DEF FlushHeaderDone
<1>21. ASSUME NEW t \in Tx, CompactTx(t) PROVE Goal
    BY <1>21 DEF CompactTx
<1>22. ASSUME CompactDone PROVE Goal
    BY <1>22 DEF CompactDone, FlushReturn
<1>23. ASSUME FlushFailed PROVE Goal
    BY <1>23 DEF FlushFailed, FlushReturn
<1>24. ASSUME Format PROVE Goal
    BY <1>24 DEF Format
<1>25. ASSUME LoadHeader PROVE Goal
    BY <1>25 DEF LoadHeader, Modes
<1>26. ASSUME ReplayBlock PROVE Goal
    <2>1. PICK b \in log[ring.start] :
              \/ ReplayStep(b) \in {"add", "apply"} /\ jstate' = jstate
              \/ ReplayStep(b) \notin {"add", "apply"} /\ taint' = taint \cup {"corrupt"}
        BY <1>26 DEF ReplayBlock
    <2>2. jstate = "Replaying"
        BY <1>26 DEF ReplayBlock, Modes
    <2> QED BY <2>1, <2>2
<1>27. ASSUME ReplayApplied PROVE Goal
    BY <1>27 DEF ReplayApplied, Modes
<1>28. ASSUME ReplayDone PROVE Goal
    BY <1>28
<1>29. ASSUME ReplayFailed PROVE Goal
    BY <1>29 DEF ReplayFailed, Modes
<1>30. ASSUME Unload PROVE Goal
    BY <1>30 DEF Unload
<1>31. ASSUME UnloadFlush PROVE Goal
    BY <1>31 DEF UnloadFlush, CancelQueued, Modes
<1>32. ASSUME UnloadNoFlush PROVE Goal
    BY <1>32 DEF UnloadNoFlush, CancelQueued, Modes
<1>33. ASSUME Destroy PROVE Goal
    BY <1>33 DEF Destroy, Forget
<1>34. ASSUME Crash PROVE Goal
    BY <1>34 DEF Crash, Forget
<1>35. ASSUME UNCHANGED vars PROVE Goal
    BY <1>35 DEF vars
<1> QED
    BY <1>1, <1>2, <1>3, <1>4, <1>5, <1>6, <1>7, <1>8, <1>9, <1>10, <1>11,
       <1>12, <1>13, <1>14, <1>15, <1>16, <1>17, <1>18, <1>19, <1>20, <1>21, <1>22,
       <1>23, <1>24, <1>25, <1>26, <1>27, <1>28, <1>29, <1>30, <1>31, <1>32, <1>33,
       <1>34, <1>35 DEF Next, Client, CommitTail, Thread, Flush, Mount

\* A slot that WriteTx has pushed belongs to the transaction that it wrote.
LEMMA WriteTxKeeps ==
    ASSUME IInv, Unanswered, WriteTx, NEW i \in Used(ring'), i \notin Used(ring)
    PROVE  \E t \in Tx : Kept(t)' /\ \E k \in 1 .. TxLen(t)' : indexList'[t][k] = i
<1>0. TypeOK /\ QueueOk /\ TxOk /\ RingOk(ring)
    BY DEF IInv, RingsOk
<1>1. PICK p \in Nat : p = nwritten + 1 /\ p \in DOMAIN batch /\ p \in 1 .. nwritten'
    <2>1. nwritten \in Nat /\ nwritten < Len(batch) /\ Len(batch) \in Nat /\ DOMAIN batch = 1 .. Len(batch)
          /\ nwritten' = nwritten + 1
        BY <1>0 DEF WriteTx, TypeOK
    <2> QED BY <2>1
<1>2. PICK w \in Tx : w = batch[p]
    BY <1>0, <1>1 DEF TypeOK
<1>3. PICK n \in Nat : n = TxLen(w)
    BY <1>0, TxBlockType
<1>4. /\ tpc' = "write" /\ batch' = batch /\ txState[w] = "Commiting" /\ n <= Capacity - ring.size
      /\ indexList' = [indexList EXCEPT ![w] = Pushed(ring, n)] /\ ring' = PushMany(ring, n)
      /\ UNCHANGED <<txTable, erased, txState, blocks, pc>> /\ tpc = "write"
    BY <1>1, <1>2, <1>3 DEF WriteTx, tableVars, histVars
<1>5. w \in txTable /\ w \notin erased /\ pc[w] # "returned"
    BY <1>0, <1>1, <1>2, <1>4 DEF QueueOk, TxOk, Unanswered
<1>6. Kept(w)'
    BY <1>1, <1>2, <1>4, <1>5 DEF Kept, Placed, InRound
<1>7. ring \in Ring /\ ring.size \in Nat /\ Capacity \in Nat
    BY <1>0, CapacityAssumption DEF TypeOK, Ring
<1>8. /\ ring'.size = ring.size + n /\ \A k \in Nat : Cell(ring', k) = Cell(ring, k)
      /\ \A k \in 1 .. n : Pushed(ring, n)[k] = Cell(ring, ring.size + (k - 1))
    BY <1>0, <1>4, <1>7, PushCells
<1>9. PICK k \in Nat : k < ring.size + n /\ i = Cell(ring, k)
    <2>1. PICK k \in 0 .. ring'.size - 1 : i = Cell(ring', k)
        BY DEF Used, Cell
    <2>2. k \in Nat /\ k < ring.size + n
        BY <1>7, <1>8, <2>1
    <2> QED BY <1>8, <2>1, <2>2
<1>10. k >= ring.size
    <2> SUFFICES ASSUME k < ring.size PROVE FALSE
        BY <1>7, <1>9
    <2> QED BY <1>7, <1>9, CellUsed
<1>11. PICK j \in 1 .. n : ring.size + (j - 1) = k
    <2>1. k - ring.size + 1 \in 1 .. n /\ ring.size + ((k - ring.size + 1) - 1) = k
        BY <1>3, <1>7, <1>9, <1>10
    <2> QED BY <2>1
<1>12. indexList'[w] = Pushed(ring, n) /\ TxLen(w)' = n
    BY <1>0, <1>3, <1>4 DEF TypeOK, TxLen
<1>13. indexList'[w][j] = i
    BY <1>8, <1>9, <1>11, <1>12
<1> QED BY <1>6, <1>12, <1>13

\* No slot leaks: each slot in use is that of a transaction on its way through
\* Commit, or of one that CompactLog will give back.
LEMMA SlotsKeptStep ==
    ASSUME IInv, Unanswered, OrderInv, NotCanceled, SlotsKept, [Next]_vars,
           LogSound' => "corrupt" \notin taint'
    PROVE  SlotsKept'
<1> SUFFICES ASSUME jstate' = "Running", Serial', LogSound', ~AllocMayFail, NEW i \in Used(ring')
             PROVE  \E t \in Tx : Kept(t)' /\ \E k \in 1 .. TxLen(t)' : indexList'[t][k] = i
    BY DEF SlotsKept
<1>0. /\ TypeOK /\ TxOk /\ RingOk(ring) /\ ring \in Ring /\ TableOk /\ PredOk /\ RingLies /\ LogSound
      /\ ~berr /\ RingOrdered /\ "leaked" \notin taint' /\ "corrupt" \notin taint'
    <2>1. TypeOK /\ TxOk /\ RingOk(ring) /\ TableOk /\ PredOk /\ RingLies
        BY DEF IInv, RingsOk, OrderInv
    <2>2. LogSound /\ "leaked" \notin taint' /\ "corrupt" \notin taint'
        BY TaintGrows DEF LogSound
    <2>3. ~berr /\ RingOrdered
        BY <2>2 DEF OrderInv
    <2> QED BY <2>1, <2>2, <2>3 DEF TypeOK
<1>1. CASE ReplayDone
    <2>1. ring'.size = 0 /\ ring' = ring
        BY <1>1 DEF ReplayDone, PopOk
    <2>2. Used(ring') = {}
        BY <2>1 DEF Used
    <2> QED BY <2>2
<1>2. ASSUME jstate = "Running"
      PROVE  \A s \in Used(ring) : \E t \in Tx : Kept(t) /\ \E k \in 1 .. TxLen(t) : indexList[t][k] = s
    <2>1. Serial
        BY <1>2, SerialBefore
    <2> QED BY <1>0, <1>2, <2>1 DEF SlotsKept
<1>3. ASSUME NEW t \in Tx, Kept(t), ~CompactTx(t), ~WriteTx \/ t # batch[nwritten + 1]
      PROVE  /\ Placed(t)' /\ (CompactDone \/ Kept(t)')
             /\ indexList'[t] = indexList[t] /\ TxLen(t)' = TxLen(t)
    <2>1. Placed(t)' /\ (CompactDone \/ Kept(t)')
        BY <1>0, <1>3, KeptStays
    <2> QED BY <1>3, <2>1, PlacedBefore, PlacedKept DEF Kept
<1>4. CASE jstate = "Running" /\ WriteTx
    <2>1. CASE i \in Used(ring)
        <3>1. PICK t \in Tx : Kept(t) /\ \E k \in 1 .. TxLen(t) : indexList[t][k] = i
            BY <1>2, <1>4, <2>1
        <3>2. t # batch[nwritten + 1]
            <4> SUFFICES ASSUME t = batch[nwritten + 1] PROVE FALSE
                OBVIOUS
            <4>1. /\ tpc = "write" /\ txState[t] = "Commiting" /\ nwritten \in Nat /\ nwritten < Len(batch)
                  /\ DOMAIN batch = 1 .. Len(batch) /\ Len(batch) \in Nat
                BY <1>0, <1>4 DEF WriteTx, TypeOK
            <4>2. PICK j \in 1 .. nwritten : batch[j] = t
                BY <3>1, <4>1 DEF Kept, Placed, InRound
            <4>3. j \in DOMAIN batch /\ nwritten + 1 \in DOMAIN batch /\ j # nwritten + 1
                BY <4>1, <4>2
            <4> QED BY <4>2, <4>3 DEF IInv, QueueOk
        <3>3. fpc = "none"
            BY <1>4 DEF WriteTx, IInv, Modes
        <3>4. ~CompactTx(t) /\ ~CompactDone
            BY <3>3 DEF CompactTx, CompactDone
        <3> QED BY <1>3, <3>1, <3>2, <3>4
    <2> QED BY <1>4, <2>1, WriteTxKeeps
<1>5. ASSUME jstate = "Running", NEW s \in Tx, CompactTx(s)
      PROVE  \E t \in Tx : Kept(t)' /\ \E k \in 1 .. TxLen(t)' : indexList'[t][k] = i
    <2>1. PICK list \in Seq(Slot) : list = indexList[s]
        BY <1>0 DEF TypeOK
    <2>2. EraseOk(ring, list) /\ ring' = Erase(ring, list) /\ s \in toErase /\ fpc = "compact"
          /\ toErase' # toErase
        BY <1>5, <2>1 DEF CompactTx
    <2>3. i \in Used(ring) /\ \A k \in DOMAIN list : list[k] # i
        <3>1. PICK n \in Nat : n = Len(list) /\ DOMAIN list = 1 .. n
            BY <2>1
        <3>2. /\ n <= ring.size /\ ring'.size = ring.size - n
              /\ \A k \in Nat : n + k < ring.size => Cell(ring', k) = Cell(ring, n + k)
              /\ \A k \in 1 .. n : list[k] = Cell(ring, k - 1)
            <4>0. ring \in Ring /\ list \in Seq(Slot) /\ EraseOk(ring, list) /\ n = Len(list)
                BY <1>0, <2>1, <2>2, <3>1
            <4>1. /\ n <= ring.size /\ Erase(ring, list).size = ring.size - n
                  /\ \A k \in Nat : n + k < ring.size => Cell(Erase(ring, list), k) = Cell(ring, n + k)
                  /\ \A k \in 1 .. n : list[k] = Cell(ring, k - 1)
                BY <4>0, EraseCells, Zenon
            <4> QED BY <2>2, <4>1
        <3>3. ring.size \in Nat
            BY <1>0, CapacityAssumption DEF Ring
        <3>4. PICK k \in 0 .. ring'.size - 1 : i = Cell(ring', k)
            BY DEF Used, Cell
        <3>5. k \in Nat /\ n + k < ring.size /\ n + k \in Nat
            BY <3>1, <3>2, <3>3, <3>4
        <3>6. i = Cell(ring, n + k)
            BY <3>2, <3>4, <3>5
        <3>7. ASSUME NEW j \in 1 .. n PROVE list[j] # i
            <4>1. PICK m \in Nat : m = j - 1 /\ m < n /\ m < ring.size
                BY <3>1, <3>2, <3>3
            <4>2. list[j] = Cell(ring, m)
                BY <3>2, <4>1
            <4>3. m # n + k
                BY <3>1, <3>5, <4>1
            <4> QED BY <1>0, <3>5, <3>6, <4>1, <4>2, <4>3, CellInj
        <3> QED BY <1>0, <3>1, <3>5, <3>6, <3>7, CellUsed
    <2>4. PICK t \in Tx : Kept(t) /\ \E k \in 1 .. TxLen(t) : indexList[t][k] = i
        BY <1>2, <1>5, <2>3
    <2>5. t # s
        BY <2>1, <2>3, <2>4, PlacedDomain DEF Kept
    <2>6. ~CompactTx(t) /\ ~WriteTx
        <3>1. ~WriteTx
            BY <2>2 DEF WriteTx, IInv, Modes
        <3>2. erased' = erased \cup {s} /\ t \notin erased
            BY <1>5, <2>4 DEF CompactTx, Kept, Placed
        <3> QED BY <2>5, <3>1, <3>2 DEF CompactTx
    <2>7. ~CompactDone
        BY <1>5, <2>2 DEF CompactTx, CompactDone, FlushReturn
    <2> QED BY <1>3, <2>4, <2>6, <2>7
<1>6. CASE jstate = "Running" /\ ring' = ring /\ ~WriteTx /\ ~\E s \in Tx : CompactTx(s)
    <2>1. PICK t \in Tx : Kept(t) /\ \E k \in 1 .. TxLen(t) : indexList[t][k] = i
        BY <1>2, <1>6
    <2>2. /\ Placed(t)' /\ (CompactDone \/ Kept(t)')
          /\ indexList'[t] = indexList[t] /\ TxLen(t)' = TxLen(t)
        BY <1>3, <1>6, <2>1
    <2>3. CASE CompactDone
        <3>1. t \notin toErase
            <4>1. Serial
                BY <1>6, SerialBefore
            <4> QED BY <1>0, <1>2, <1>6, <2>3, <4>1, CompactLeavesNone
        <3>2. pc' = pc
            BY <2>3 DEF CompactDone, txVars
        <3> QED BY <2>1, <2>2, <3>1, <3>2 DEF Kept
    <2> QED BY <2>1, <2>2, <2>3
<1> QED BY <1>0, <1>1, <1>4, <1>5, <1>6, RunningCases DEF WriteTxFail

\* Both in one.
LEMMA LeakInductive == Spec => []LeakInv
<1>1. Init => LeakInv
    BY DEF Init, LeakInv, NotCanceled, SlotsKept
<1>2. IInv /\ SeenInv /\ LogInv' /\ OrderInv /\ LeakInv /\ [Next]_vars => LeakInv'
    <2> SUFFICES ASSUME IInv, SeenInv, LogInv', OrderInv, LeakInv, [Next]_vars PROVE LeakInv'
        OBVIOUS
    <2>1. Unanswered /\ NoClients /\ NotCanceled /\ SlotsKept
        BY DEF SeenInv, OrderInv, LeakInv
    <2>2. NotCanceled'
        <3>1. CASE LogSound'
            <4>1. ~berr
                BY <3>1, TaintGrows DEF LogSound, OrderInv
            <4> QED BY <2>1, <4>1, NotCanceledStep
        <3> QED BY <3>1 DEF NotCanceled
    <2>3. LogSound' => "corrupt" \notin taint'
        BY DEF LogInv
    <2>4. SlotsKept'
        BY <2>1, <2>3, SlotsKeptStep
    <2> QED BY <2>2, <2>4 DEF LeakInv
<1> QED BY <1>1, <1>2, Inductive, SeenInductive, LogInductive, OrderInductive, PTL DEF Spec

\* With one commit at a time no slot of the log leaks: each slot in use belongs to
\* the round that Run is writing, to a transaction whose client is still in Commit,
\* or to one that EraseTx has queued for CompactLog, which leaves none of them
\* behind although it clears TxToErase when it stops.
THEOREM SlotsDoNotLeak == Spec => []NoSlotLeak
<1>1. IInv /\ SeenInv /\ OrderInv /\ LeakInv => NoSlotLeak
    <2> SUFFICES ASSUME IInv, SeenInv, OrderInv, LeakInv, jstate = "Running", Serial, LogSound,
                        ~AllocMayFail, NEW i \in Used(ring)
                 PROVE  \E t \in Range(batch) \cup toErase \cup {u \in Active : txState[u] = "Commited"} :
                            i \in Range(indexList[t])
        BY DEF NoSlotLeak
    <2>1. PICK t \in Tx : Kept(t) /\ \E k \in 1 .. TxLen(t) : indexList[t][k] = i
        BY DEF LeakInv, SlotsKept
    <2>2. i \in Range(indexList[t])
        BY <2>1, PlacedDomain DEF Kept, Range
    <2>3. /\ t \in toErase \/ pc[t] \in {"waiting", "applying", "applied"}
          /\ txState[t] = "Commited" \/ InRound(t)
        BY <2>1, KeptIs DEF SeenInv, OrderInv
    <2>4. InRound(t) => t \in Range(batch)
        <3>1. DOMAIN batch = 1 .. Len(batch) /\ Len(batch) \in Nat /\ nwritten \in Nat
              /\ (tpc = "write" => nwritten <= Len(batch))
            BY DEF IInv, TypeOK, Modes
        <3>2. \A j \in 1 .. nwritten : tpc = "write" => j \in DOMAIN batch
            BY <3>1
        <3> QED BY <3>2 DEF InRound, Range
    <2> QED BY <2>1, <2>2, <2>3, <2>4 DEF Active
<1> QED BY <1>1, Inductive, SeenInductive, OrderInductive, LeakInductive, PTL
=============================================================================
