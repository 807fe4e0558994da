------------------------------- MODULE Journal -------------------------------
(***************************************************************************)
(* The write-ahead journal of a kstor volume (kstor/journal.cpp): client   *)
(* threads that open, fill and commit transactions, the journal thread     *)
(* that writes the queued transactions into a circular log and flushes the *)
(* log header behind them, the thread that mounts (Load, Replay) and       *)
(* unmounts (Unload) the journal, and a block device with a volatile       *)
(* write cache that a power failure empties.                               *)
(*                                                                         *)
(* Device.  The content of an address after a power failure is one of the  *)
(* values written to it since it was last known durable, so the device is  *)
(* a SET of possible contents for each address: a write adds its value     *)
(* (and Torn, a half-written page), a completed flush leaves one.  log and *)
(* hdr hold what the media may contain; a read settles the value.  For the *)
(* home locations of the data, homeLive is what a read returns and         *)
(* homeMedia what survives.  Writes of the header are taken to be atomic.  *)
(***************************************************************************)
EXTENDS RingBuffer, FiniteSets, Functions

CONSTANTS
    Tx, NoTx,        \* transaction ids (random GUIDs: never reused)
    NoHeader,        \* header block of an unformatted volume
    Pos, NoPos,      \* home positions, each the target of one data block
    Pages,           \* pages a client may write: sequences over Pos, one
                     \* element for each data block Transaction::Write cuts
    MaxPages,        \* bound: pages a client writes into one transaction
    MaxOpen,         \* bound: transactions between BeginTx and return
    MaxCrashes,      \* bound: power failures
    IoMayFail,       \* a bio may complete with an error
    AllocMayFail,    \* a kernel allocation may fail
    EmptyCommits,    \* clients may commit a transaction without data
    VolumeLocked     \* clients hold Volume::Lock shared, Unload exclusive

ASSUME JournalAssumption ==
    /\ NoTx \notin Tx
    /\ NoHeader \notin Ring
    /\ NoPos \notin Pos
    /\ Pages \subseteq Seq(Pos)
    /\ MaxPages \in Nat /\ MaxOpen \in Nat /\ MaxCrashes \in Nat
    /\ {IoMayFail, AllocMayFail, EmptyCommits, VolumeLocked} \subseteq BOOLEAN

VARIABLES
    jstate,      \* Journal::State (Stopping and Stopped are the same number)
    ring,        \* LogRb
    txTable,     \* TxTable: transactions that BeginTx made, until unlinked
    txList,      \* TxList: queue of transactions to commit
    toErase,     \* TxToErase: applied transactions whose slots may be freed
    mpc,         \* mounting thread: inside Load, Unload, or idle
    rlist,       \* Replay: blocks of the transaction being reassembled
    tpc,         \* journal thread
    batch,       \* Run: local txList, the transactions of this round
    nwritten,    \* how many of them Journal::WriteTx has placed in the log
    berr,        \* Run: local err is an error
    fpc,         \* where Flush is (it holds Journal::Lock throughout)
    txState,     \* Transaction::State
    blocks,      \* Transaction::DataBlockList, as the positions it targets
    indexList,   \* Transaction::IndexList
    event,       \* Transaction::CommitEvent is set
    pc,          \* client thread of the transaction
    log, hdr, homeLive, homeMedia,   \* the device
    crashes,     \* power failures so far
    pred,        \* history: transactions that had returned when t committed
    erased,      \* history: transactions whose slots CompactLog gave back
    taint        \* history: what has happened that the log does not survive

mountVars  == <<jstate, mpc, rlist>>
tableVars  == <<txTable, txList, toErase>>
threadVars == <<tpc, batch, nwritten, berr>>
txVars     == <<txState, blocks, indexList, event, pc>>
homeVars   == <<homeLive, homeMedia>>
histVars   == <<crashes, pred, erased, taint>>
vars == <<mountVars, ring, tableVars, threadVars, fpc, txVars,
          log, hdr, homeVars, histVars>>

-----------------------------------------------------------------------------
(* Blocks of the log and values of the home positions                      *)

Block == [type  : {"Begin", "Data", "Commit", "Blank", "Torn"},
          tx    : Tx \cup {NoTx},
          index : Nat,
          pos   : Pos \cup {NoPos}]

\* Never written, and half written: a page whose hash does not match.
Blank == [type |-> "Blank", tx |-> NoTx, index |-> 0, pos |-> NoPos]
Torn  == [type |-> "Torn",  tx |-> NoTx, index |-> 0, pos |-> NoPos]

BeginBlock(t)  == [type |-> "Begin", tx |-> t, index |-> 0, pos |-> NoPos]
DataBlock(t, i) ==
    [type |-> "Data", tx |-> t, index |-> i - 1, pos |-> blocks[t][i]]
\* In a commit block the index field is BlockCount.
CommitBlock(t) ==
    [type |-> "Commit", tx |-> t, index |-> Len(blocks[t]), pos |-> NoPos]

\* Begin, data and commit block of t, and the k-th of them.
TxLen(t) == Len(blocks[t]) + 2
TxBlock(t, k) == IF k = 1 THEN BeginBlock(t)
                 ELSE IF k = TxLen(t) THEN CommitBlock(t)
                 ELSE DataBlock(t, k - 1)

\* What the blocks in bs write to position x.  ApplyBlocks submits them in
\* parallel, so two blocks for one position land in either order.
ValuesAt(bs, x) == {b \in bs : b.type = "Data" /\ b.pos = x}

TxData(t) == {DataBlock(t, i) : i \in 1 .. Len(blocks[t])}

-----------------------------------------------------------------------------
(* Device operations                                                       *)

\* bios for bs are submitted: their targets may already be overwritten.
SubmitHome(bs) ==
    homeMedia' = [x \in Pos |-> IF ValuesAt(bs, x) = {} THEN homeMedia[x]
                                ELSE homeMedia[x] \cup ValuesAt(bs, x) \cup {Torn}]

\* The bios of bs completed: reads return the new values.
CompleteHome(bs) ==
    [x \in Pos |-> IF ValuesAt(bs, x) = {} THEN homeLive[x] ELSE ValuesAt(bs, x)]

\* Some of the bios of bs failed: the outcome at their targets is unknown.
FailHome(bs) ==
    [x \in Pos |-> IF ValuesAt(bs, x) = {} THEN homeLive[x]
                   ELSE homeLive[x] \cup ValuesAt(bs, x) \cup {Torn}]

\* The writes a client's ApplyBlocks has in flight.
InFlight(x) ==
    UNION {ValuesAt(TxData(t), x) \cup
             (IF ValuesAt(TxData(t), x) = {} THEN {} ELSE {Torn}) :
           t \in {u \in Tx : pc[u] = "applying"}}

\* Mutant of FlushCache: the header is written without PREFLUSH.
NoPreflush == homeMedia' = homeMedia

\* A flush makes every completed write durable; those in flight stay open.
FlushCache == homeMedia' = [x \in Pos |-> homeLive[x] \cup InFlight(x)]

-----------------------------------------------------------------------------
Init ==
    /\ jstate = "New" /\ mpc = "idle" /\ rlist = <<>>
    /\ ring = EmptyRing
    /\ txTable = {} /\ txList = <<>> /\ toErase = {}
    /\ tpc = "none" /\ batch = <<>> /\ nwritten = 0 /\ berr = FALSE
    /\ fpc = "none"
    /\ txState = [t \in Tx |-> "None"] /\ blocks = [t \in Tx |-> <<>>]
    /\ indexList = [t \in Tx |-> <<>>] /\ event = [t \in Tx |-> FALSE]
    /\ pc = [t \in Tx |-> "none"]
    /\ log = [i \in Slot |-> {Blank}] /\ hdr = {NoHeader}
    /\ homeLive = [x \in Pos |-> {Blank}] /\ homeMedia = [x \in Pos |-> {Blank}]
    /\ crashes = 0 /\ pred = [t \in Tx |-> {}] /\ erased = {} /\ taint = {}

\* Journal::Lock is free: Flush is the one operation that holds it over I/O.
LockFree == fpc = "none"

Active == {t \in Tx : pc[t] \in {"open", "waiting", "applying", "applied"}}

\* Transactions whose Commit has returned success.
Acked == {t \in Tx : pc[t] = "returned" /\ txState[t] = "Commited"}

-----------------------------------------------------------------------------
(* Client threads                                                          *)

BeginTx(t) ==
    /\ pc[t] = "none" /\ jstate = "Running" /\ LockFree
    /\ Cardinality(Active) < MaxOpen
    /\ pc' = [pc EXCEPT ![t] = "open"]
    /\ txState' = [txState EXCEPT ![t] = "New"]
    /\ txTable' = txTable \cup {t}
    /\ UNCHANGED <<mountVars, ring, txList, toErase, threadVars, fpc, blocks,
                   indexList, event, log, hdr, homeVars, histVars>>

\* Transaction::Write: a page becomes data blocks at the end of the list.
Write(t, page) ==
    /\ pc[t] = "open" /\ txState[t] = "New"
    /\ Len(blocks[t]) + Len(page) <= MaxPages * Len(page)
    /\ blocks' = [blocks EXCEPT ![t] = @ \o page]
    /\ UNCHANGED <<mountVars, ring, tableVars, threadVars, fpc, txState,
                   indexList, event, pc, log, hdr, homeVars, histVars>>

\* A page or a Write failed: the client returns without Commit.  The table
\* keeps its transaction.
Abandon(t) ==
    /\ pc[t] = "open" /\ AllocMayFail
    /\ pc' = [pc EXCEPT ![t] = "returned"]
    /\ UNCHANGED <<mountVars, ring, tableVars, threadVars, fpc, txState, blocks,
                   indexList, event, log, hdr, homeVars, histVars>>

\* Transaction::Commit up to CommitEvent.Wait, with Journal::StartCommitTx.
Commit(t) ==
    /\ pc[t] = "open" /\ txState[t] = "New" /\ LockFree
    /\ EmptyCommits \/ blocks[t] # <<>>
    /\ t \in txTable
    /\ txState' = [txState EXCEPT ![t] = "Commiting"]
    /\ txList' = Append(txList, t)
    /\ pc' = [pc EXCEPT ![t] = "waiting"]
    /\ pred' = [pred EXCEPT ![t] = Acked]
    /\ taint' = taint \cup (IF blocks[t] = <<>> THEN {"empty"} ELSE {})
    /\ UNCHANGED <<mountVars, ring, txTable, toErase, threadVars, fpc, blocks,
                   indexList, event, log, hdr, homeVars, crashes, erased>>

\* StartCommitTx cannot queue the transaction: it is unlinked and canceled.
CommitRefused(t) ==
    /\ pc[t] = "open" /\ txState[t] = "New" /\ LockFree
    /\ t \notin txTable \/ AllocMayFail
    /\ txState' = [txState EXCEPT ![t] = "Canceled"]
    /\ txTable' = txTable \ {t}
    /\ pc' = [pc EXCEPT ![t] = "returned"]
    /\ UNCHANGED <<mountVars, ring, txList, toErase, threadVars, fpc, blocks,
                   indexList, event, log, hdr, homeVars, histVars>>

\* CommitEvent is set and the commit failed: Commit returns its result.
CommitFailed(t) ==
    /\ pc[t] = "waiting" /\ event[t] /\ txState[t] # "Commited"
    /\ pc' = [pc EXCEPT ![t] = "returned"]
    /\ UNCHANGED <<mountVars, ring, tableVars, threadVars, fpc, txState, blocks,
                   indexList, event, log, hdr, homeVars, histVars>>

\* CommitEvent is set and t is in the log: Commit submits the data blocks to
\* their home positions, without a flush.
Apply(t) ==
    /\ pc[t] = "waiting" /\ event[t] /\ txState[t] = "Commited"
    /\ pc' = [pc EXCEPT ![t] = "applying"]
    /\ SubmitHome(TxData(t))
    /\ UNCHANGED <<mountVars, ring, tableVars, threadVars, fpc, txState, blocks,
                   indexList, event, log, hdr, homeLive, histVars>>

ApplyDone(t) ==
    /\ pc[t] = "applying"
    /\ pc' = [pc EXCEPT ![t] = "applied"]
    /\ homeLive' = CompleteHome(TxData(t))
    /\ UNCHANGED <<mountVars, ring, tableVars, threadVars, fpc, txState, blocks,
                   indexList, event, log, hdr, homeMedia, histVars>>

\* An apply error is only traced: Commit returns success and keeps the slots.
ApplyFailed(t) ==
    /\ pc[t] = "applying" /\ (IoMayFail \/ AllocMayFail)
    /\ pc' = [pc EXCEPT ![t] = "returned"]
    /\ homeLive' = FailHome(TxData(t))
    /\ taint' = taint \cup {"unapplied"}
    /\ UNCHANGED <<mountVars, ring, tableVars, threadVars, fpc, txState, blocks,
                   indexList, event, log, hdr, homeMedia, crashes, pred, erased>>

\* Journal::EraseTx, then Commit returns success.  A transaction that is not
\* in the table, or that cannot be queued, keeps its slots.
EraseTx(t) ==
    /\ pc[t] = "applied" /\ LockFree
    /\ pc' = [pc EXCEPT ![t] = "returned"]
    /\ \/ t \in txTable /\ toErase' = toErase \cup {t}
       \/ (t \notin txTable \/ AllocMayFail) /\ UNCHANGED toErase
    /\ UNCHANGED <<mountVars, ring, txTable, txList, threadVars, fpc, txState,
                   blocks, indexList, event, log, hdr, homeVars, histVars>>

-----------------------------------------------------------------------------
(* Journal thread: Journal::Run                                            *)

\* The loop condition: IsStopping is set by Unload's StopAndWait.
CheckStopping ==
    /\ tpc = "check"
    /\ tpc' = IF mpc = "join" THEN "exited" ELSE "wait"
    /\ UNCHANGED <<mountVars, ring, tableVars, batch, nwritten, berr, fpc, txVars,
                   log, hdr, homeVars, histVars>>

\* TxListEvent.Wait(10) timed out, or the event is still set, with no work.
NoWork ==
    /\ tpc = "wait" /\ txList = <<>>
    /\ tpc' = "check"
    /\ UNCHANGED <<mountVars, ring, tableVars, batch, nwritten, berr, fpc, txVars,
                   log, hdr, homeVars, histVars>>

TakeBatch ==
    /\ tpc = "wait" /\ txList # <<>>
    /\ tpc' = "write" /\ batch' = txList /\ nwritten' = 0
    /\ txList' = <<>>
    /\ UNCHANGED <<mountVars, ring, txTable, toErase, berr, fpc, txVars,
                   log, hdr, homeVars, histVars>>

\* Transaction::WriteTx: one slot for the begin block, each data block and the
\* commit block.  Only bios are prepared; nothing reaches the device yet.
WriteTx ==
    LET t == batch[nwritten + 1] IN
    /\ tpc = "write" /\ nwritten < Len(batch) /\ txState[t] = "Commiting"
    /\ TxLen(t) <= Capacity - ring.size
    /\ indexList' = [indexList EXCEPT ![t] = Pushed(ring, TxLen(t))]
    /\ ring' = PushMany(ring, TxLen(t))
    /\ nwritten' = nwritten + 1
    /\ UNCHANGED <<mountVars, tableVars, tpc, batch, berr, fpc, txState, blocks,
                   event, pc, log, hdr, homeVars, histVars>>

\* The fail path of WriteTx after n slots were taken: the log is full, or an
\* allocation failed.  The slots are not returned to the ring.
WriteTxFail(n) ==
    LET t == batch[nwritten + 1] IN
    /\ tpc = "write" /\ nwritten < Len(batch)
    /\ \/ n = Capacity - ring.size /\ n < TxLen(t)
       \/ AllocMayFail /\ n <= TxLen(t) /\ n <= Capacity - ring.size
    /\ ring' = PushMany(ring, n)
    /\ indexList' = [indexList EXCEPT ![t] = <<>>]
    /\ txState' = [txState EXCEPT ![t] = "Canceled"]
    /\ txTable' = txTable \ {t}
    /\ event' = [event EXCEPT ![t] = TRUE]
    /\ tpc' = "complete" /\ berr' = TRUE
    /\ taint' = taint \cup {"leaked"}
    /\ UNCHANGED <<mountVars, txList, toErase, batch, nwritten, fpc, blocks, pc,
                   log, hdr, homeVars, crashes, pred, erased>>

\* Mutants of Outcome: the error of the round is ignored, or invented.
OutcomeIgnoresError == "Commited"
OutcomeAlwaysError == "Canceled"

\* The state OnCommitCompleteLocked gives a transaction of this round.
Outcome == IF berr THEN "Canceled" ELSE "Commited"

\* OnCommitComplete for the head of the batch.
CompleteTx ==
    LET t == Head(batch) IN
    /\ tpc = "complete" /\ batch # <<>>
    /\ txState' = [txState EXCEPT ![t] = Outcome]
    /\ txTable' = IF berr THEN txTable \ {t} ELSE txTable
    /\ event' = [event EXCEPT ![t] = TRUE]
    /\ batch' = Tail(batch)
    /\ UNCHANGED <<mountVars, ring, txList, toErase, tpc, nwritten, berr, fpc,
                   blocks, indexList, pc, log, hdr, homeVars, histVars>>

RoundDone ==
    /\ tpc = "complete" /\ batch = <<>>
    /\ tpc' = "check"
    /\ UNCHANGED <<mountVars, ring, tableVars, batch, nwritten, berr, fpc, txVars,
                   log, hdr, homeVars, histVars>>

-----------------------------------------------------------------------------
(* Journal::Flush, called by the journal thread and by Unload.  The header *)
(* it writes describes the ring, which does not change until CompactLog.   *)

\* The slots that the bios of the batch write, and the block each one gets.
BatchSlots == UNION {Range(indexList[t]) : t \in Range(batch)}
BatchBlock(i) ==
    UNION {{TxBlock(t, k) : k \in {j \in DOMAIN indexList[t] : indexList[t][j] = i}} :
           t \in Range(batch)}

\* Mutant of WrittenBlock: the header does not wait for the blocks.
WrittenBlockNoWait(i) == log[i]

\* What slot i of the batch holds once its bio has completed and is flushed.
WrittenBlock(i) == BatchBlock(i)

\* Slots that a crash now would make Load read.
Exposed == UNION {Used(h) : h \in hdr \ {NoHeader}}

\* SubmitWait submits everything but the header, in parallel.
FlushBlocks ==
    /\ tpc = "write" /\ nwritten = Len(batch)
    /\ tpc' = "flush" /\ fpc' = "blocks"
    /\ log' = [i \in Slot |-> log[i] \cup
                   (IF i \in BatchSlots THEN BatchBlock(i) \cup {Torn} ELSE {})]
    /\ taint' = taint \cup (IF BatchSlots \cap Exposed # {} THEN {"reused"} ELSE {})
    /\ UNCHANGED <<mountVars, ring, tableVars, batch, nwritten, berr, txVars,
                   hdr, homeVars, crashes, pred, erased>>

\* The blocks completed; the header follows with PREFLUSH and FUA, so it is
\* written after every completed write is durable.
FlushHeader ==
    /\ fpc = "blocks"
    /\ fpc' = "header"
    /\ log' = [i \in Slot |-> IF i \in BatchSlots THEN WrittenBlock(i) ELSE log[i]]
    /\ FlushCache
    /\ hdr' = hdr \cup {ring}
    /\ UNCHANGED <<mountVars, ring, tableVars, threadVars, txVars, homeLive, histVars>>

\* Mutant of HeaderWritten: the header write is not FUA.
HeaderNoFua == hdr

\* A completed FUA write of the header leaves the new one.
HeaderWritten == {ring}

\* The header is durable; CompactLog starts.
FlushHeaderDone ==
    /\ fpc = "header"
    /\ fpc' = "compact"
    /\ hdr' = HeaderWritten
    /\ UNCHANGED <<mountVars, ring, tableVars, threadVars, txVars, log, homeVars, histVars>>

\* Mutant of CompactTx: committed transactions go before they are applied.
CompactUnapplied(t) ==
    /\ fpc = "compact" /\ t \in txTable /\ txState[t] = "Commited"
    /\ EraseOk(ring, indexList[t]) /\ t \notin erased
    /\ ring' = Erase(ring, indexList[t])
    /\ toErase' = toErase \ {t}
    /\ erased' = erased \cup {t}
    /\ UNCHANGED <<mountVars, txTable, txList, threadVars, fpc, txVars,
                   log, hdr, homeVars, crashes, pred, taint>>

\* CompactLog: a transaction whose slots are at the front of the ring goes.
CompactTx(t) ==
    /\ fpc = "compact" /\ t \in toErase /\ EraseOk(ring, indexList[t])
    /\ ring' = Erase(ring, indexList[t])
    /\ toErase' = toErase \ {t}
    /\ erased' = erased \cup {t}
    /\ UNCHANGED <<mountVars, txTable, txList, threadVars, fpc, txVars,
                   log, hdr, homeVars, crashes, pred, taint>>

\* Flush returns to Run or to Unload, which then stops.
FlushReturn(err) ==
    /\ fpc' = "none"
    /\ IF mpc = "flush"
       THEN mpc' = "idle" /\ UNCHANGED <<tpc, berr>>
       ELSE tpc' = "complete" /\ berr' = err /\ UNCHANGED mpc

\* A whole pass over TxToErase erased nothing: the rest is forgotten.
CompactDone ==
    /\ fpc = "compact" /\ \A t \in toErase : ~EraseOk(ring, indexList[t])
    /\ toErase' = {}
    /\ FlushReturn(FALSE)
    /\ UNCHANGED <<jstate, rlist, ring, txTable, txList, batch, nwritten, txVars,
                   log, hdr, homeVars, histVars>>

\* A block write, the flush or the header write fails; or Flush has no memory
\* for the header page and writes nothing.
FlushFailed ==
    /\ \/ fpc \in {"blocks", "header"} /\ IoMayFail
       \/ tpc = "write" /\ nwritten = Len(batch) /\ AllocMayFail
    /\ FlushReturn(TRUE)
    /\ taint' = taint \cup {"leaked"} \cup (IF LockFree THEN {} ELSE {"ioerror"})
    /\ UNCHANGED <<jstate, rlist, ring, tableVars, batch, nwritten, txVars,
                   log, hdr, homeVars, crashes, pred, erased>>

-----------------------------------------------------------------------------
(* Mounting thread: Format, Load, Replay, Unload                           *)

\* Format writes the header of an empty log, with PREFLUSH and FUA.
Format ==
    /\ jstate = "New" /\ mpc = "idle" /\ hdr = {NoHeader}
    /\ hdr' = {EmptyRing} \/ (IoMayFail /\ hdr' = {NoHeader, EmptyRing})
    /\ UNCHANGED <<mountVars, ring, tableVars, threadVars, fpc, txVars,
                   log, homeVars, histVars>>

\* Load reads the header and resets the ring from it, or fails.
LoadHeader ==
    /\ jstate = "New" /\ mpc = "idle" /\ hdr # {NoHeader}
    /\ \/ \E h \in hdr :
            /\ hdr' = {h}
            /\ IF h # NoHeader /\ ResetOk(h)
               THEN ring' = h /\ jstate' = "Replaying" /\ mpc' = "replay"
               ELSE UNCHANGED <<ring, jstate>> /\ mpc' = "failed"
       \/ /\ (IoMayFail \/ AllocMayFail) /\ mpc' = "failed"
          /\ UNCHANGED <<hdr, ring, jstate>>
    /\ UNCHANGED <<rlist, tableVars, threadVars, fpc, txVars, log, homeVars, histVars>>

\* The tests of Replay(blockList) on the blocks of one transaction.
ReplayOk(bs) ==
    LET n == Len(bs) IN
    /\ n >= 3
    /\ bs[1].type = "Begin"
    /\ bs[n].type = "Commit" /\ bs[n].tx = bs[1].tx /\ bs[n].index = n - 2
    /\ \A k \in 2 .. n - 1 :
          bs[k].type = "Data" /\ bs[k].tx = bs[1].tx /\ bs[k].index = k - 2

\* What Replay() does with block b after the blocks in rlist.
ReplayStep(b) ==
    CASE b.type = "Begin"  /\ rlist = <<>>     -> "add"
      [] b.type = "Data"   /\ rlist # <<>>     -> "add"
      [] b.type = "Commit" /\ Len(rlist) >= 2
           /\ ReplayOk(Append(rlist, b))       -> "apply"
      [] OTHER                                 -> "corrupt"

\* The end of Load: the journal thread starts.  DataCorrupt from Replay is
\* treated as the end of the log.  The result of Thread::Start is not looked
\* at: without memory for the task the journal runs without its thread.
StartRunning ==
    /\ rlist' = <<>>
    /\ \/ /\ jstate' = "Running" /\ mpc' = "idle"
          /\ tpc' = "check" \/ (AllocMayFail /\ tpc' = "exited")
       \/ AllocMayFail /\ mpc' = "failed" /\ UNCHANGED <<jstate, tpc>>

\* Replay() pops the next slot and reads its block.
ReplayBlock ==
    /\ mpc = "replay" /\ PopOk(ring)
    /\ ring' = PopFront(ring)
    /\ \E b \in log[ring.start] :
        /\ log' = [log EXCEPT ![ring.start] = {b}]
        /\ CASE ReplayStep(b) = "add" ->
                  /\ rlist' = Append(rlist, b)
                  /\ UNCHANGED <<jstate, mpc, tpc, homeMedia, taint>>
             [] ReplayStep(b) = "apply" ->
                  /\ rlist' = Append(rlist, b) /\ mpc' = "apply"
                  /\ SubmitHome(Range(rlist))
                  /\ UNCHANGED <<jstate, tpc, taint>>
             [] OTHER ->
                  /\ StartRunning
                  /\ taint' = taint \cup {"corrupt"}
                  /\ UNCHANGED homeMedia
    /\ UNCHANGED <<tableVars, batch, nwritten, berr, fpc, txVars, hdr, homeLive,
                   crashes, pred, erased>>

\* ApplyBlocks with preflushFua: the last bio leaves everything durable.
ReplayApplied ==
    /\ mpc = "apply"
    /\ mpc' = "replay" /\ rlist' = <<>>
    /\ homeLive' = CompleteHome(Range(rlist))
    /\ homeMedia' = CompleteHome(Range(rlist))
    /\ UNCHANGED <<jstate, ring, tableVars, threadVars, fpc, txVars, log, hdr, histVars>>

ReplayDone ==
    /\ mpc = "replay" /\ ~PopOk(ring)
    /\ StartRunning
    /\ UNCHANGED <<ring, tableVars, batch, nwritten, berr, fpc, txVars, log, hdr,
                   homeVars, histVars>>

\* A read, an apply or an allocation fails: Load fails, State stays Replaying.
ReplayFailed ==
    /\ mpc \in {"replay", "apply"} /\ (IoMayFail \/ AllocMayFail)
    /\ mpc' = "failed" /\ rlist' = <<>>
    /\ homeLive' = FailHome(IF mpc = "apply" THEN Range(rlist) ELSE {})
    /\ UNCHANGED <<jstate, ring, tableVars, threadVars, fpc, txVars, log, hdr,
                   homeMedia, histVars>>

\* Mutant of MayUnload: Volume::Unload does not take Volume::Lock.
UnloadUnlocked == TRUE

\* Volume::Unload takes Volume::Lock, which a client's TestJournal holds
\* shared from BeginTx to the return of Commit.
MayUnload == VolumeLocked => Active = {}

\* Unload: State leaves Running, then StopAndWait.
Unload ==
    /\ mpc = "idle" /\ jstate = "Running" /\ LockFree
    /\ MayUnload
    /\ jstate' = "Stopped" /\ mpc' = "join"
    /\ UNCHANGED <<rlist, ring, tableVars, threadVars, fpc, txVars, log, hdr,
                   homeVars, histVars>>

\* The thread is gone: queued transactions are canceled.  Transaction::Cancel
\* does not set their CommitEvent.
CancelQueued ==
    /\ mpc = "join" /\ tpc = "exited"
    /\ tpc' = "none"
    /\ txState' = [t \in Tx |-> IF t \in Range(txList) THEN "Canceled" ELSE txState[t]]
    /\ txTable' = txTable \ Range(txList)
    /\ txList' = <<>>

\* Then Flush submits the header alone ...
UnloadFlush ==
    /\ CancelQueued
    /\ mpc' = "flush" /\ fpc' = "header"
    /\ FlushCache
    /\ hdr' = hdr \cup {ring}
    /\ UNCHANGED <<jstate, rlist, ring, toErase, batch, nwritten, berr, blocks,
                   indexList, event, pc, log, homeLive, histVars>>

\* ... or has no memory for it; State becomes Stopped all the same.
UnloadNoFlush ==
    /\ AllocMayFail
    /\ CancelQueued
    /\ mpc' = "idle"
    /\ UNCHANGED <<jstate, rlist, ring, toErase, batch, nwritten, berr, fpc, blocks,
                   indexList, event, pc, log, hdr, homeVars, histVars>>

\* Everything in memory is gone: a new Journal object, in state New.
Forget ==
    /\ jstate' = "New" /\ mpc' = "idle" /\ rlist' = <<>>
    /\ ring' = EmptyRing
    /\ txTable' = {} /\ txList' = <<>> /\ toErase' = {}
    /\ tpc' = "none" /\ batch' = <<>> /\ nwritten' = 0 /\ berr' = FALSE
    /\ fpc' = "none"
    /\ indexList' = [t \in Tx |-> <<>>]
    /\ pc' = [t \in Tx |-> IF t \in Active THEN "lost" ELSE pc[t]]
    /\ UNCHANGED <<txState, blocks, event, log, hdr, pred, erased, taint>>

\* The volume object is destroyed after Unload or a failed Load; a later
\* mount starts from a new one.
Destroy ==
    /\ mpc = "failed" \/ (mpc = "idle" /\ jstate = "Stopped")
    /\ Active = {}
    /\ Forget
    /\ UNCHANGED <<homeVars, crashes>>

\* Power failure: what the media may hold is what reads may now return.
Crash ==
    /\ crashes < MaxCrashes /\ hdr # {NoHeader}
    /\ crashes' = crashes + 1
    /\ Forget
    /\ homeLive' = homeMedia
    /\ UNCHANGED homeMedia

-----------------------------------------------------------------------------
Client(t) ==
    \/ BeginTx(t) \/ (\E page \in Pages : Write(t, page))
    \/ Abandon(t) \/ Commit(t) \/ CommitRefused(t)

\* The part of Commit after the wait: it runs without further input.
CommitTail(t) ==
    \/ CommitFailed(t) \/ Apply(t) \/ ApplyDone(t) \/ ApplyFailed(t) \/ EraseTx(t)

Flush ==
    \/ FlushHeader \/ FlushHeaderDone \/ (\E t \in Tx : CompactTx(t))
    \/ CompactDone \/ FlushFailed

Thread ==
    \/ CheckStopping \/ NoWork \/ TakeBatch \/ WriteTx
    \/ (\E n \in 0 .. Capacity : WriteTxFail(n))
    \/ FlushBlocks \/ CompleteTx \/ RoundDone

Mount ==
    \/ Format \/ LoadHeader \/ ReplayBlock \/ ReplayApplied \/ ReplayDone
    \/ ReplayFailed \/ Unload \/ UnloadFlush \/ UnloadNoFlush \/ Destroy

Next ==
    \/ \E t \in Tx : Client(t) \/ CommitTail(t)
    \/ Thread \/ Flush \/ Mount \/ Crash

Spec == Init /\ [][Next]_vars

\* Threads that can run do run: the kernel schedules them, bios complete.
Fairness ==
    /\ WF_vars(Thread) /\ WF_vars(Flush)
    /\ \A t \in Tx : WF_vars(CommitTail(t))

FairSpec == Spec /\ Fairness

-----------------------------------------------------------------------------
(* Properties                                                              *)

\* Every variable holds what its C++ counterpart can hold; in particular the
\* indices of LogRb, and every slot WriteTx hands out, stay inside the log.
TypeOK ==
    /\ jstate \in {"New", "Replaying", "Running", "Stopped"}
    /\ mpc \in {"idle", "replay", "apply", "failed", "join", "flush"}
    /\ rlist \in Seq(Block)
    /\ ring \in Ring
    /\ txTable \subseteq Tx /\ txList \in Seq(Tx) /\ toErase \subseteq Tx
    /\ tpc \in {"none", "check", "wait", "write", "flush", "complete", "exited"}
    /\ batch \in Seq(Tx) /\ nwritten \in Nat /\ berr \in BOOLEAN
    /\ fpc \in {"none", "blocks", "header", "compact"}
    /\ txState \in [Tx -> {"None", "New", "Commiting", "Commited", "Canceled"}]
    /\ blocks \in [Tx -> Seq(Pos)]
    /\ indexList \in [Tx -> Seq(Slot)]
    /\ event \in [Tx -> BOOLEAN]
    /\ pc \in [Tx -> {"none", "open", "waiting", "applying", "applied",
                      "returned", "lost"}]
    /\ log \in [Slot -> SUBSET Block]
    /\ hdr \subseteq Ring \cup {NoHeader}
    /\ homeLive \in [Pos -> SUBSET Block] /\ homeMedia \in [Pos -> SUBSET Block]
    /\ crashes \in Nat
    /\ pred \in [Tx -> SUBSET Tx] /\ erased \subseteq Tx
    /\ taint \subseteq {"empty", "reused", "leaked", "ioerror", "unapplied", "corrupt"}

\* Nothing has happened that the log is known not to survive: no transaction
\* without data was committed, no slot that the durable header still covers
\* was overwritten, no slot was taken by a commit that then failed.
LogSound == taint \subseteq {"corrupt"}

\* A read of what t wrote returns t's data, or that of a transaction which was
\* not finished when t's commit began.
Intact(t) ==
    \A x \in Range(blocks[t]) : \A v \in homeLive[x] :
        v.type = "Data" /\ v.tx \notin pred[t]

\* A commit that returned success is there whenever the journal runs: also
\* after any number of power failures at any point of Commit, Run, Flush,
\* Replay or Unload (journal.cpp, Commit: "tx already commited into log").
NoLostCommit == jstate = "Running" => \A t \in Acked : Intact(t)

\* The same for executions in which the log stayed sound.
NoLostCommitIfSound == LogSound => NoLostCommit

\* A commit that returned success is not lost because an earlier one failed and
\* left its slots in the ring, as Commit says of it: "Return success despite
\* apply/erase tx errors / due to tx already commited into log".
NoLostCommitAfterFailure == taint \subseteq {"corrupt", "leaked"} => NoLostCommit

\* Whatever the moment of the power failure, a transaction is replayed as a
\* whole or not at all: once one of its blocks is visible all of them are.
AllOrNothing ==
    jstate = "Running" /\ LogSound =>
        \A t \in Tx : (\E x \in Pos : \E v \in homeLive[x] : v.tx = t) => Intact(t)

\* Load may treat DataCorrupt as the end of the log because the header is
\* written after the blocks it covers: a sound log has no corrupt block.
SoundLogReplays == "corrupt" \in taint => ~LogSound

\* A transaction whose Commit returned an error, or that its client gave up, is
\* never seen, not even after a later header covered the slots it had taken.
\* (A device error may leave its blocks in the log; lack of memory or of log
\* space may not.)
FailedNeverVisible ==
    "ioerror" \notin taint =>
        \A t \in Tx : pc[t] = "returned" /\ txState[t] # "Commited" =>
            \A x \in Pos : \A v \in homeLive[x] : v.tx # t

\* Transactions that Run has reported, or is about to report, as committed,
\* and whose slots CompactLog has not given back.
Logged(t) ==
    /\ t \in txTable /\ t \notin erased
    /\ \/ txState[t] = "Commited"
       \/ /\ t \in Range(batch)
          /\ (fpc = "compact" /\ mpc # "flush") \/ (tpc = "complete" /\ ~berr)

\* Every committed transaction is durable in the log until CompactLog: each of
\* its slots certainly holds its block, and every header that a crash could
\* leave on the media covers them.  This needs no assumption on failures.
CommittedDurable ==
    \A t \in Tx : Logged(t) =>
        /\ Len(indexList[t]) = TxLen(t)
        /\ \A k \in 1 .. TxLen(t) : log[indexList[t][k]] = {TxBlock(t, k)}
        /\ \A h \in hdr : h # NoHeader /\ Range(indexList[t]) \subseteq Used(h)

\* CompactLog gives slots back only after the home positions are durable: a
\* power failure cannot bring back what was there before the transaction.
ErasedDurable ==
    LogSound => \A t \in erased : \A x \in Range(blocks[t]) : \A v \in homeMedia[x] :
        v # Blank /\ v.tx \notin pred[t]

\* No two commits overlapped: one had returned when the other began.
Serial ==
    LET began == Acked \cup {t \in Active : pc[t] # "open"}
    IN  \A t, u \in began : t = u \/ t \in pred[u] \/ u \in pred[t]

\* With one commit at a time, as behind Volume::TestJournal, no slot leaks:
\* each slot in use belongs to a transaction on its way to CompactLog.
NoSlotLeak ==
    jstate = "Running" /\ Serial /\ LogSound /\ ~AllocMayFail =>
        Used(ring) \subseteq UNION {Range(indexList[t]) :
            t \in Range(batch) \cup toErase \cup
                  {u \in Active : txState[u] = "Commited"}}

\* A transaction that was committed or canceled stays so: no later round, no
\* second OnCommitComplete and no Cancel changes the answer a client had.
DecisionStable ==
    [][\A t \in Tx : txState[t] \in {"Commited", "Canceled"} =>
                        txState'[t] = txState[t]]_vars

\* Every commit that is waiting gets its answer: the thread takes it into a
\* round and completes the round, and Unload does not leave it behind.
CommitReturns == \A t \in Tx : pc[t] = "waiting" ~> pc[t] \in {"returned", "lost"}

\* A formatted volume can always be mounted again.
AlwaysMounts == mpc # "failed"
=============================================================================
