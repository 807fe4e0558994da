------------------------------ MODULE JournalInv ------------------------------
(***************************************************************************)
(* The inductive strengthenings.  IInv is behind CommittedDurable and      *)
(* DecisionStable: who may be where in the protocol, which slots of the    *)
(* ring belong to whom, and what a crash is certain to find in them.       *)
(* SeenInv and LogInv add what FailedNeverVisible and SoundLogReplays need,*)
(* OrderInv and MediaInv what is behind NoLostCommitIfSound, AllOrNothing  *)
(* and ErasedDurable: in which order transactions lie in the log, and what *)
(* a crash finds on the media that the log does not give back; LeakInv is  *)
(* behind NoSlotLeak.                                                      *)
(***************************************************************************)
EXTENDS Journal

\* The ring, and every header that may be on the media, is consistent.
RingsOk == RingOk(ring) /\ \A h \in hdr : h # NoHeader => RingOk(h)

\* Which program counters of the threads go together.
Modes ==
    /\ fpc = "none" <=> (tpc # "flush" /\ mpc # "flush")
    /\ mpc = "flush" => tpc = "none" /\ fpc \in {"header", "compact"}
    /\ jstate \in {"New", "Replaying"} =>
          /\ tpc = "none" /\ mpc \notin {"join", "flush"}
          /\ txTable = {} /\ txList = <<>> /\ toErase = {}
    /\ mpc \in {"replay", "apply"} => jstate = "Replaying"
    /\ mpc = "failed" => jstate \in {"New", "Replaying"}
    /\ mpc \in {"join", "flush"} => jstate = "Stopped"
    /\ tpc \in {"none", "check", "wait", "exited"} => batch = <<>>
    /\ tpc = "write" => nwritten <= Len(batch)
    /\ jstate # "New" => NoHeader \notin hdr

\* The queue and the round hold each transaction once, and undecided.
QueueOk ==
    /\ \A i, j \in DOMAIN txList : txList[i] = txList[j] => i = j
    /\ \A i, j \in DOMAIN batch : batch[i] = batch[j] => i = j
    /\ \A i \in DOMAIN txList : \A j \in DOMAIN batch : txList[i] # batch[j]
    /\ \A i \in DOMAIN txList :
          txState[txList[i]] = "Commiting" /\ txList[i] \in txTable
    /\ \A i \in DOMAIN batch :
          \/ txState[batch[i]] = "Commiting" /\ batch[i] \in txTable
          \/ tpc = "complete" /\ berr /\ txState[batch[i]] = "Canceled"

\* How far a client has come determines the state of its transaction.
TxOk ==
    \A t \in Tx :
        /\ pc[t] = "none" => txState[t] = "None"
        /\ pc[t] \in {"applying", "applied"} => txState[t] = "Commited"
        /\ t \in toErase => pc[t] = "returned" /\ txState[t] = "Commited" /\ t \in txTable
        /\ t \in erased => pc[t] = "returned" /\ txState[t] = "Commited"
        /\ t \in toErase => t \notin erased

\* t has got its slots in this round, or committed in an earlier one.
InRound(t) ==
    \/ tpc = "write" /\ \E j \in 1 .. nwritten : batch[j] = t
    \/ tpc = "flush" /\ \E j \in DOMAIN batch : batch[j] = t
    \/ tpc = "complete" /\ ~berr /\ \E j \in DOMAIN batch : batch[j] = t

Placed(t) ==
    /\ t \in txTable /\ t \notin erased
    /\ txState[t] = "Commited" \/ InRound(t)

\* A placed transaction has one slot of the ring for each of its blocks ...
PlacedInRing ==
    \A t \in Tx : Placed(t) =>
        /\ Len(indexList[t]) = TxLen(t)
        /\ \A k \in 1 .. TxLen(t) : indexList[t][k] \in Used(ring)
        /\ \A j, k \in 1 .. TxLen(t) : indexList[t][j] = indexList[t][k] => j = k

\* ... and shares none with another one.
PlacedDisjoint ==
    \A t, u \in Tx : Placed(t) /\ Placed(u) /\ t # u =>
        \A j \in 1 .. TxLen(t) : \A k \in 1 .. TxLen(u) :
            indexList[t][j] # indexList[u][k]

\* While the header is being written the blocks of the round are durable.
RoundDurable ==
    fpc = "header" /\ tpc = "flush" =>
        \A i \in DOMAIN batch : \A k \in 1 .. TxLen(batch[i]) :
            log[indexList[batch[i]][k]] = {TxBlock(batch[i], k)}

IInv ==
    /\ TypeOK /\ RingsOk /\ Modes /\ QueueOk /\ TxOk
    /\ PlacedInRing /\ PlacedDisjoint /\ RoundDurable /\ CommittedDurable

-----------------------------------------------------------------------------
(* What may be seen on the device                                          *)

\* A transaction that is not decided has not been answered, and its client is
\* still in Commit or died there.
Unanswered ==
    \A t \in Tx :
        /\ txState[t] \in {"None", "New", "Commiting"} => ~event[t]
        /\ txState[t] = "Commiting" => pc[t] \in {"waiting", "lost"}

\* Its blocks may be on the device: t is committed, or its round has submitted
\* them and has not failed, or a crash or the end of the journal hit it.
MayShow(t) ==
    \/ txState[t] = "Commited"
    \/ pc[t] = "lost"
    \/ /\ txState[t] = "Commiting" /\ \E i \in DOMAIN batch : batch[i] = t
       /\ tpc = "flush" \/ (tpc = "complete" /\ ~berr)

\* Nothing else is on the device, nor in the hands of Replay.
Shown == {t \in Tx : MayShow(t)} \cup {NoTx}
OnlyShown ==
    "ioerror" \notin taint =>
        /\ \A i \in Slot : \A b \in log[i] : b.tx \in Shown
        /\ \A x \in Pos : \A b \in homeLive[x] \cup homeMedia[x] : b.tx \in Shown
        /\ \A k \in DOMAIN rlist : rlist[k].tx \in Shown

\* For FailedNeverVisible.
SeenInv == Unanswered /\ OnlyShown

-----------------------------------------------------------------------------
(* A sound log is a chain of whole transactions                            *)

\* b may come after a in a log that Replay accepts.
Follows(a, b) ==
    \/ a.type = "Begin" /\ b.type = "Data" /\ b.tx = a.tx /\ b.index = 0
    \/ /\ a.type = "Data" /\ b.type \in {"Data", "Commit"}
       /\ b.tx = a.tx /\ b.index = a.index + 1
    \/ a.type = "Commit" /\ b.type = "Begin"

\* The slot k steps behind the front.
Cell(r, k) == Wrap(r.start + k)

\* Whatever contents c a crash leaves in the slots of r, they are whole
\* transactions: each block is followed by one that may follow it, and the
\* last one is a commit block.
Chained(r, c) ==
    /\ \A k \in 0 .. r.size - 1 : k + 1 < r.size =>
          \A a \in c[Cell(r, k)] : \A b \in c[Cell(r, k + 1)] : Follows(a, b)
    /\ r.size > 0 => \A b \in c[Cell(r, r.size - 1)] : b.type = "Commit"

\* They begin with a begin block.
StartsAt(r, c) == r.size > 0 => \A b \in c[Cell(r, 0)] : b.type = "Begin"

\* What the slots will hold when the blocks of the round have completed.
RoundBlock(i) ==
    UNION {{TxBlock(t, k) : k \in {j \in 1 .. TxLen(t) : indexList[t][j] = i}} :
           t \in {u \in Tx : InRound(u)}}

NextLog ==
    [i \in Slot |-> IF (tpc = "write" \/ fpc = "blocks") /\ RoundBlock(i) # {}
                    THEN RoundBlock(i) ELSE log[i]]

\* Whatever header a crash leaves covers a chain ...
HeadersParse == \A h \in hdr \ {NoHeader} : Chained(h, log) /\ StartsAt(h, log)

\* ... and so will the next header, once the round is written.
RingParses ==
    jstate \in {"Running", "Stopped"} => Chained(ring, NextLog) /\ StartsAt(ring, NextLog)

\* A transaction on its way to the log has data: its begin block is followed
\* by a data block.
HasData == \A t \in Tx : txState[t] = "Commiting" => blocks[t] # <<>>

\* The bios in flight go to slots that no header covers.
NoReuse ==
    fpc = "blocks" => \A t \in Tx : InRound(t) =>
        \A k \in 1 .. TxLen(t) : \A h \in hdr \ {NoHeader} :
            indexList[t][k] \notin Used(h)

\* What Replay has read: a begin block, the first data blocks, and in the end
\* the commit block.
Partial ==
    \A k \in DOMAIN rlist :
        /\ k = 1 => rlist[k].type = "Begin"
        /\ 1 < k /\ (k < Len(rlist) \/ mpc = "replay") =>
              rlist[k].type = "Data" /\ rlist[k].tx = rlist[1].tx /\ rlist[k].index = k - 2

\* Replay is in step with the log: what is left of it continues the transaction
\* that is being reassembled.
ReplayParses ==
    mpc \in {"replay", "apply"} =>
        /\ Chained(ring, log)
        /\ mpc = "apply" \/ rlist = <<>> => StartsAt(ring, log)
        /\ mpc = "replay" /\ rlist # <<>> =>
              ring.size > 0 /\ \A b \in log[Cell(ring, 0)] : Follows(rlist[Len(rlist)], b)
        /\ Partial

RlistIdle == mpc \notin {"replay", "apply"} => rlist = <<>>

\* For SoundLogReplays.
LogInv ==
    /\ RlistIdle
    /\ LogSound => /\ HeadersParse /\ RingParses /\ HasData /\ NoReuse
                   /\ ReplayParses /\ "corrupt" \notin taint

-----------------------------------------------------------------------------
(* The log is in the order of the commits                                  *)

\* What had returned when t began was committed, and t was not part of it.
PredOk ==
    \A t \in Tx : /\ t \notin pred[t]
                  /\ \A u \in pred[t] : pc[u] = "returned" /\ txState[u] = "Commited"

\* The table holds the committed transactions whose clients are still at work,
\* and none that a crash has hit.
TableOk ==
    \A t \in Tx :
        /\ t \in txTable => pc[t] # "lost"
        /\ txState[t] = "Commited" /\ pc[t] \in {"waiting", "applying", "applied"} =>
              t \in txTable
        /\ pc[t] = "open" => txState[t] = "New"

\* A transaction is reported after CompactLog has emptied TxToErase: what had
\* returned before it began is not waiting to be erased any more.
EraseOrder ==
    \A t \in txTable :
        txState[t] = "Commited" \/ (tpc = "complete" /\ ~berr /\ \E i \in DOMAIN batch : batch[i] = t)
            => toErase \cap pred[t] = {}

\* There are no clients before the journal runs.
NoClients == jstate \in {"New", "Replaying"} => Active = {}

\* While the header is written it is the one that describes the ring.
HeaderRing == fpc = "header" => ring \in hdr

\* The log holds blocks that some WriteTx made.
Genuine(b) ==
    \/ b \in {Blank, Torn}
    \/ \E t \in Tx : /\ txState[t] \notin {"None", "New"}
                     /\ \E k \in 1 .. TxLen(t) : b = TxBlock(t, k)

GenuineLog ==
    /\ \A i \in Slot : \A b \in log[i] : Genuine(b)
    /\ \A k \in DOMAIN rlist : Genuine(rlist[k])

\* Behind a block there is none of a transaction that had returned before the
\* block's own began.
Ordered(r, c, p) ==
    \A k, l \in 0 .. r.size - 1 : k < l =>
        \A a \in c[Cell(r, k)] : \A b \in c[Cell(r, l)] : a.tx \in Tx => b.tx \notin p[a.tx]

\* The slots of r hold no block of a transaction in S.
Free(S, r, c) ==
    \A k \in 0 .. r.size - 1 : \A b \in c[Cell(r, k)] : b.tx \notin S

\* Whatever header a crash leaves describes a log in the order of the commits ...
HeadersOrdered == \A h \in hdr \ {NoHeader} : Ordered(h, log, pred)
\* ... and so will the next header, once the round is written.
RingOrdered == jstate \in {"Running", "Stopped"} => Ordered(ring, NextLog, pred)

\* A transaction that has lost its slots, to CompactLog or in a crash, has left
\* nothing older behind it: Replay cannot write older data over its own.
PastFree ==
    jstate \in {"Running", "Stopped"} =>
        \A t \in Tx : (txState[t] = "Commited" \/ pc[t] = "lost") /\ ~Placed(t) =>
            Free(pred[t], ring, NextLog)

\* The slots of t lie next to each other, k slots behind the front of r.
Lies(t, r, k) ==
    /\ k + TxLen(t) <= r.size
    /\ \A j \in 1 .. TxLen(t) : indexList[t][j] = Cell(r, k + (j - 1))

\* WriteTx pushes the slots of a transaction one after another ...
RingLies == \A t \in Tx : Placed(t) => \E k \in 0 .. Capacity : Lies(t, ring, k)
\* ... and every header that a crash may leave covers them as they lie.
HeadersLie ==
    \A t \in Tx : Logged(t) => \A h \in hdr : \E k \in 0 .. Capacity : Lies(t, h, k)

\* Replay is d slots into the log of the header it read, and rlist holds what
\* it read last.
ReplayPos ==
    mpc \in {"replay", "apply"} =>
        \E h \in hdr : \E d \in 0 .. Capacity :
            /\ hdr = {h} /\ h # NoHeader
            /\ d + ring.size = h.size
            /\ \A k \in 0 .. ring.size - 1 : Cell(ring, k) = Cell(h, d + k)
            /\ Len(rlist) <= d
            /\ \A i \in DOMAIN rlist : log[Cell(h, d - Len(rlist) + (i - 1))] = {rlist[i]}

\* CompactLog is d slots into the log that the header describes.
CompactPos ==
    fpc = "compact" =>
        \E h \in hdr : \E d \in 0 .. Capacity :
            /\ hdr = {h} /\ h # NoHeader
            /\ d + ring.size = h.size
            /\ \A k \in 0 .. ring.size - 1 : Cell(ring, k) = Cell(h, d + k)
            /\ \A k \in 0 .. d - 1 : \A b \in log[Cell(h, k)] : \A t \in toErase :
                  b.tx \notin pred[t]

\* What Replay applies is one whole transaction.
ApplyTx ==
    mpc = "apply" => \E t \in Tx : /\ txState[t] \notin {"None", "New"}
                                   /\ Len(rlist) = TxLen(t)
                                   /\ \A k \in 1 .. TxLen(t) : rlist[k] = TxBlock(t, k)

\* The order of the log, for MediaInv.
OrderInv ==
    /\ PredOk /\ TableOk /\ NoClients /\ HeaderRing /\ EraseOrder /\ GenuineLog
    /\ RingLies /\ HeadersLie /\ ApplyTx /\ ReplayPos /\ CompactPos
    /\ LogSound => ~berr /\ HeadersOrdered /\ RingOrdered /\ PastFree

-----------------------------------------------------------------------------
(* What a crash leaves: the log or the media                               *)

\* An unformatted volume has had no clients, and nothing was written to it.
Unformatted ==
    NoHeader \in hdr => /\ \A t \in Tx : pc[t] = "none"
                       /\ \A x \in Pos : homeMedia[x] = {Blank}

\* What a read returns, and what an apply has on its way, may be on the media.
LiveInMedia ==
    \A x \in Pos :
        /\ homeLive[x] \subseteq homeMedia[x]
        /\ InFlight(x) \subseteq homeMedia[x]
        /\ mpc = "apply" /\ ValuesAt(Range(rlist), x) # {} =>
              ValuesAt(Range(rlist), x) \cup {Torn} \subseteq homeMedia[x]

\* The media hold data of transactions that committed, or that a crash hit.
HomeData ==
    \A x \in Pos : \A v \in homeMedia[x] :
        \/ v \in {Blank, Torn}
        \/ /\ v.type = "Data" /\ v.tx \in Tx
           /\ txState[v.tx] \notin {"None", "New"}
           /\ txState[v.tx] = "Commited" \/ pc[v.tx] = "lost"

\* A block of t may be at home.
Seen(t, home) == \E x \in Pos : \E v \in home[x] : v.tx = t

\* Whatever a crash leaves at the positions of t, it is t's data or a later one's.
MediaOk(t) ==
    \A x \in Range(blocks[t]) : \A v \in homeMedia[x] : v # Blank /\ v.tx \notin pred[t]

\* The log certainly holds t as a whole, k slots behind the front of r ...
Whole(t, r, k) ==
    /\ k + TxLen(t) <= r.size
    /\ \A j \in 1 .. TxLen(t) : log[Cell(r, k + (j - 1))] = {TxBlock(t, j)}

\* ... or somewhere: Replay of r will apply t.
InLog(t, r) == \E k \in 0 .. Capacity : Whole(t, r, k)

\* A crash must not undo t: its commit was acknowledged, or it may be visible.
Owed(t) == t \in Acked \/ Seen(t, homeMedia)

\* Under every header a crash may leave, the log gives back a transaction that
\* is owed, or its data is durable at home and nothing older is replayed over it.
Covered ==
    \A t \in Tx : Owed(t) => \A h \in hdr \ {NoHeader} :
        InLog(t, h) \/ (MediaOk(t) /\ Free(pred[t], h, log))

\* A page that a crash may leave half written is rewritten by Replay.
TornCovered ==
    \A x \in Pos : Torn \in homeMedia[x] =>
        \A h \in hdr \ {NoHeader} :
            \E u \in Tx : InLog(u, h) /\ \E i \in DOMAIN blocks[u] : blocks[u][i] = x

\* While the journal runs, reads return what committed.
LiveOk ==
    jstate \in {"Running", "Stopped"} =>
        /\ \A x \in Pos : Torn \notin homeLive[x]
        /\ \A t \in Tx : t \in Acked \/ pc[t] = "applied" \/ Seen(t, homeLive) => Intact(t)

\* What CompactLog gave back is durable at home, and stays so.
ErasedClean ==
    \A t \in erased : MediaOk(t) /\ \A h \in hdr \ {NoHeader} : Free(pred[t], h, log)

\* The flush before CompactLog has made durable what it is to give back.
EraseReady == fpc \in {"header", "compact"} => \A t \in toErase : MediaOk(t)

\* Replay has the first blocks of t in rlist, and the rest is next in the log.
Reading(t) ==
    /\ rlist # <<>> /\ Len(rlist) <= TxLen(t)
    /\ \A i \in DOMAIN rlist : rlist[i] = TxBlock(t, i)
    /\ TxLen(t) - Len(rlist) <= ring.size
    /\ \A j \in 1 .. TxLen(t) : j > Len(rlist) =>
          log[Cell(ring, j - Len(rlist) - 1)] = {TxBlock(t, j)}

\* Replay is still to apply t.
Left(t) == InLog(t, ring) \/ Reading(t)

\* What is left to replay is not older than t.
FreeLeft(t) == Free(pred[t], ring, log) /\ \A i \in DOMAIN rlist : rlist[i].tx \notin pred[t]

\* Covered and TornCovered of what is left, while Replay is at work.
ReplayCovers ==
    mpc \in {"replay", "apply"} =>
        /\ \A t \in Tx : Owed(t) => Left(t) \/ (MediaOk(t) /\ FreeLeft(t))
        /\ \A x \in Pos : Torn \in homeMedia[x] =>
              \E u \in Tx : Left(u) /\ \E i \in DOMAIN blocks[u] : blocks[u][i] = x

\* For NoLostCommitIfSound, AllOrNothing and ErasedDurable.
MediaInv ==
    /\ LiveInMedia /\ Unformatted
    /\ LogSound => /\ HomeData /\ Covered /\ TornCovered /\ LiveOk /\ ErasedClean
                   /\ EraseReady /\ ReplayCovers

-----------------------------------------------------------------------------
(* No slot leaks                                                           *)

\* As long as the log is sound and the journal runs no commit is refused that
\* has entered the queue.
NotCanceled ==
    LogSound /\ jstate = "Running" => \A t \in Tx : pc[t] = "waiting" => txState[t] # "Canceled"

\* t has its slots, and CompactLog has not forgotten it.
Kept(t) == Placed(t) /\ (pc[t] # "returned" \/ t \in toErase)

\* Each slot in use belongs to such a transaction, if commits do not overlap.
SlotsKept ==
    jstate = "Running" /\ Serial /\ LogSound /\ ~AllocMayFail =>
        \A i \in Used(ring) : \E t \in Tx :
            Kept(t) /\ \E k \in 1 .. TxLen(t) : indexList[t][k] = i

\* For NoSlotLeak.
LeakInv == NotCanceled /\ SlotsKept
=============================================================================
