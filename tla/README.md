# A TLA+ model of kstor

kstor is a Linux kernel module in C++: a small storage server that keeps chunks
of data on one block device behind a TCP protocol, with a write-ahead journal
for the device.  This directory holds TLA+ modules for its core logic, TLC
configurations that check them on small instances, and TLAPS proofs that hold
for every instance.  The modules follow the source; `PROJECT.json` gives for
each definition the lines it models.

## 1. The system

| Component | State | Operations | Interacts with |
|---|---|---|---|
| **Journal** (`kstor/journal.cpp`) | `State`, `LogRb`, `TxTable`, `TxList`, `TxToErase`, the journal thread; per transaction `State`, `DataBlockList`, `IndexList`, `CommitEvent` | `BeginTx`, `Transaction::Write`, `Commit`, `Cancel`, `Run`, `Flush`, `CompactLog`, `EraseTx`, `Format`, `Load`, `Replay`, `Unload` | Volume (owner), BioList, RingBuffer, Thread, Event |
| **RingBuffer** (`core/ring_buffer.h`) | `StartIndex`, `EndIndex`, `Size`, `Capacity` | `Reset`, `PushBack`, `PopFront`, `Erase` | Journal allocates log slots with it |
| **BioList, Bio** (`core/bio.h`) | list of bios, completion counter, event, first error | `AddIo`, `SubmitWait` (last bio with PREFLUSH and FUA), completion callback | Journal, Volume; block layer |
| **Volume** (`kstor/volume.cpp`) | `State`, header, `ChunkTable`, `Lock`, the journal | `Format`, `Load`, `Unload`, `ChunkCreate/Write/Read/Delete`, `TestJournal` | ControlDevice, Server, Journal |
| **ControlDevice** (`kstor/control_device.cpp`) | `VolumeRef`, `VolumeLock`, the server | ioctls: mount, unmount, start and stop server, tests | Volume, Server |
| **Server, Connection** (`kstor/server.cpp`) | listen socket, accept thread, `ConnList`; per connection socket and thread | `Start`, `Stop`, `Run`, `HandleRequest` | ControlDevice (chunks), `core/socket.cpp`, `system/ksocket.c` |
| **Packets, sockets** (`kstor/server.cpp`, `core/socket.cpp`, `system/ksocket.c`) | bytes read or written of a packet | `RecvPacket`, `SendPacket`, `RecvAll`, `SendAll`, timed reads and writes | Connection, `golang/client.go` |
| **BlockAllocator** (`kstor/block_allocator.cpp`, `core/bitmap.cpp`) | tree of bitmap blocks, their bits | `LookupBlock`, `CreateBlock`, `DeleteBlock`, `FindSetZeroBit`, single bits; `Alloc` and `Free` are stubs | member of Volume, not called yet |
| **Btree** (`core/btree.h`) | nodes | `Insert`, `Delete`, `Lookup`, `Clear`, `Check` | self test, BlockAllocator |
| **Worker, Thread, Event** (`core/`) | task list, stop flags, completion | `Execute`, `ExecuteAndWait`, `StopAndWait`, `Wait`, `SetAll` | Journal, Server |
| **SharedPtr** (`core/shared_ptr.h`), **unique keys** (`system/unique_key.c`) | counter, object; table of objects (debug) | `MakeShared`, copy, move, `Reset`; register, unregister | everything |
| **Containers, hashes** (`core/`) | sequential | - | everything |
| **Memory checkers** (`system/malloc_checker.c`, `page_checker.c`) | entries by address, counters | allocate, free, report at exit | all memory of a debug build |
| **Kernel interface** (`system/kapi.c`) | wrappers of Linux calls | - | `core/` |
| **Tools** (`ctl/`, `golang/`) | user space | ioctl and TCP clients | ControlDevice, Server |

What is hard here:

* *Crash recovery and ordering.*  The promise of the journal rests on the order
  in which blocks, header, home locations and slot reuse reach a device with a
  volatile cache, and on what `Replay` accepts afterwards.
* *Interleaving.*  Client threads, the journal thread and the unmounting thread
  share the table, the queue and the ring; `Journal::Lock` is released between
  the parts of a round.
* *Partial failure.*  Every bio and every allocation may fail; slots taken by a
  transaction that failed stay in the ring.
* *Limits.*  The log is circular and finite; a full ring is a legal state of
  `PushBack` and an illegal argument of `Reset`.
* *Progress.*  A client waits for `CommitEvent` without a timeout.
* *Shutdown.*  `Server::Stop` and `Connection::Stop` wait for threads that need
  the locks the stopping thread holds.

What makes each part correct: a commit that returned success survives power
failures, whole transactions are replayed or none of their blocks, a failed
commit never shows, every waiting commit is answered (Journal); slots are
handed out in circular order, once, and every state the ring can reach can be
stored and loaded (RingBuffer); a wait returns after the last completion and
touches nothing freed (BioList); no operation on an unmounted volume, a chunk
exists or does not at every moment and for everybody, and a client reads what it
wrote to a chunk of its own (Volume; a chunk that clients share may be read half
written, see section 5); every accepted connection is closed
and stop returns (Server); requests are executed at most once and in order, and
each is answered or its connection fails (packets); the tree holds exactly the inserted keys and stays balanced (Btree);
each task runs, is cancelled or is refused, once, and its waiter returns
(Worker); the counter is the number of owners (SharedPtr); every block in use
is known once and what is leaked is reported (checkers); a bit is handed out to
one caller (BlockAllocator).  `PROJECT.json`
lists the individual hazards with their lines under `hazards`.

## 2. Modules

    RingBuffer <--- Journal <--- JournalInv <--- MCJournal
                                      ^
                                      +--- JournalProofs <--- OrderProofs
                                                      <--- RecoveryProofs

    Worker, BioList, PacketStream      <.. CoreThreads <--- ThreadsProofs
    SharedPtr, Checker, BlockAllocator <.. CoreMemory  <--- MemoryProofs
                                                      <--- PointerProofs
    Server <--- ServerProofs
    Storage <--- MCStorage, StorageProofs      : implements ChunkMap
    Btree                                      : implements KvMap

(an arrow points to the module that is extended, a dotted one to modules of
which it has instances)

| Module | Models |
|---|---|
| **RingBuffer** | the index arithmetic of `Core::RingBuffer` as operators on `[start, end, size]`, for any `Capacity`; `PushMany` is n calls of `PushBack`, as `WriteTx` makes them |
| **Journal**, **JournalInv** | the journal with its clients, its thread, the mounting thread and the device; its inductive invariants |
| **Server** | `Server::Start`, `Stop`, `Run`, `Connection::Run` and `Stop`, with `Thread` and the accepting socket |
| **PacketStream** | one connection: packets over the byte stream between `Connection::Run` and `client.go` |
| **Storage** | `ControlDevice`, `Volume` and the chunk table, with the request handlers |
| **ChunkMap** | what the chunk operations promise about which chunks exist: each is one step; contents are not in it |
| **BioList** | building, submitting, completing and destroying a list of bios |
| **Btree** | the B-tree, node by node |
| **KvMap** | what the B-tree promises: a map, whose insertion may be refused |
| **SharedPtr** | shared pointers, their reference object and the register of unique keys |
| **Worker** | the worker, its tasks and its destructor |
| **Checker** | the malloc and page checkers, the key table's memory, and the module's exit |
| **BlockAllocator** | bitmap blocks and the lock-free search for a zero bit |
| **CoreThreads**, **CoreMemory** | three components each that share no state: a behaviour is one of one of them |
| **MC...** | model values and symmetry for TLC |
| **JournalProofs**, **OrderProofs**, **RecoveryProofs** | theorems about the ring and the journal: its protocol, the order of its log, and what recovery gives back |
| **ThreadsProofs** | theorems about worker, bio list and packet stream |
| **MemoryProofs**, **PointerProofs** | theorems about memory checkers and bitmap blocks, and about shared pointers |
| **ServerProofs**, **StorageProofs** | theorems about the server and the volume |

The modules meet at interfaces that each of them models from its side.
`Storage` sees of `Journal` its state and whether its thread exists, which is
what `Volume` uses; `Journal` sees of `Volume` the lock its one caller holds.
`Server` leaves open what a request does, which is `Storage`; `PacketStream`
opens up the receive and the send that `Server` takes as one step each.
`BioList` is the completion logic behind the journal's bios, whose effect on
the media is in `Journal`.  `BlockAllocator` takes its tree to be the map that
`Btree` is shown to implement.

`CoreThreads` and `CoreMemory` put small components of the same kind side by
side.  `part` names the one that a behaviour is about and never changes, so
their state spaces add up; the variables of the others are None, and a name
that two of them use belongs to the one that runs.  The fairness of the threads
is stated in `CoreThreads`, for the part that runs.

### Journal: state and actions

Each variable is named after the field it stands for (see the comments at
`VARIABLES`).  `pc[t]` is the client thread of transaction `t`, `tpc` the
journal thread, `mpc` the thread inside `Load`/`Unload`, `fpc` the position
inside `Flush`, which both of the latter call.

| Code | Actions |
|---|---|
| `BeginTx`, `Transaction::Write` | `BeginTx`, `Write` |
| `Volume::TestJournal` giving up before `Commit` | `Abandon` |
| `Commit` until `CommitEvent.Wait` | `Commit`, `CommitRefused` |
| `Commit` after the wait | `CommitFailed`, or `Apply`, `ApplyDone`/`ApplyFailed`, `EraseTx` |
| `Run` | `CheckStopping`, `NoWork`, `TakeBatch`, `WriteTx`/`WriteTxFail`, `FlushBlocks`, `CompleteTx`, `RoundDone` |
| `Flush`, `CompactLog` | `FlushBlocks`, `FlushHeader`, `FlushHeaderDone`, `CompactTx`, `CompactDone`, `FlushFailed` |
| `Format`, `Load`, `Replay` | `Format`, `LoadHeader`, `ReplayBlock`, `ReplayApplied`, `ReplayDone`, `ReplayFailed` |
| `Unload`, `Cancel`, destructors | `Unload`, `UnloadFlush`/`UnloadNoFlush`, `Destroy` |
| power failure | `Crash` |

An action covers the code between two points at which another thread can
interfere: a lock released, a wait, or I/O in flight.  `Flush` holds
`Journal::Lock` over its I/O, so every action that needs the lock has the guard
`LockFree`.

Data is reduced to what the properties tell apart.  A block of the log is a
record of its type, its transaction, its index (the block count, in a commit
block) and the home position it targets.  Transaction ids are GUIDs, so they
are never reused.  A page of 4096 bytes is cut by `Transaction::Write` into two
data blocks (a block carries 3584 bytes), so a page is a sequence of positions:
in every instance a page is two positions, `OnePage` offers
clients one page and `TwoPages` two.  The content of a position is the
data block last written to it.

### The device

The block layer is external to the repository.  It is modelled as the code uses
it: bios submitted together complete in any order, a completed write may still
be in the cache, PREFLUSH makes every *completed* write durable before its own
bio is written, FUA makes the bio itself durable on completion.  After a power
failure an address holds one of the values written to it since it was last
known durable, or a torn page, whose hash does not match.  The state is
therefore, for each address, the SET of contents a crash may leave; a crash
chooses nothing, and the choice is made when the address is read.  The set
makes the orders of completion one state instead of many.  The header block is
an exception: its write is atomic (all old or all new).  The code has no answer
to a torn header (`Load` fails on the hash), so tearing it would show only that.

### History variables

`pred[t]` is the set of transactions whose commit had returned when `t` began
to commit: `t` must not be replaced by them.  `erased` records what `CompactLog`
gave back.  `taint` records events after which the log is known not to deliver
its promise, because of the findings below or of an I/O error:

* `reused` - a block was written into a slot that a header on the media covers;
* `empty` - a transaction without data was committed;
* `leaked` - a failed commit left its slots in the ring;
* `ioerror`, `unapplied` - a write failed in the log, at home;
* `corrupt` - replay met a corrupt block and ended there.

`LogSound` says that none but the last has happened.  Properties conditional on
it are the promise outside the findings; `journal_reuse` refutes the unconditional
`NoLostCommit`, and `journal_leak` the one that allows for `leaked` alone.  The condition is reached often: executions with
several rounds, compaction, wrap-around of the ring, a crash in the middle of a
round and a second crash during replay are all sound as long as the freed slots
are not rewritten before the next header.

### The other modules

Every module has a step for the code between two points where another thread
can interfere.  A lock that is held for the whole of an operation makes it one
step; a lock that is held over a wait is a variable.

**Server.**  `ctl` is the thread in `Start` or `Stop` (`Server::StateLock`
admits one), `apc` the accepting thread, `conn[c].thr` a connection thread.
`ksock_accept` is the steps onto the wait queue, first attempt, sleep and
second attempt; `wake` is whether the sleeper was woken since it queued itself.
Connection objects are a finite pool, so that memory may be reused.  `it` is
the iterator of the reaping pass, with the double advance of `Erase` and
`Next`.

**PacketStream.**  Header and data are two units each, so that a short read, a
short write or a timeout can fall inside either.  A timeout in `ksock_recv` or
`ksock_send` drops the count of the units that the call has already moved, as
the code does; `lost` remembers the first request concerned.  A hash tells
apart everything that differs.  Memory for a packet, its body or the response
may be missing (`Parse`, `HandleFail`), and `Run` then closes the connection
without an answer.  The client is `client.go`, which sends a request and waits
for its answer.  It compares the answer's type and result and no content
(`Accept`); the requests are pings, so these always fit, and a stale or repeated
answer would be taken.

**Storage.**  `Mount`, `Unmount` and the journal test hold `VolumeLock`
exclusively and are single steps; the test stays inside `Commit` until the
journal thread answers.  Chunk operations hold it shared and are several steps:
look-up, insertion, and the copy in two halves, which others may get between.  Chunk objects are a finite
pool whose data is not initialised.  What the properties say of contents they
say of chunks that one client has for itself (`Private`), so other chunks are
written with one value only.

**BioList.**  The submitting thread and the completions of its bios; counter,
event and result are separate steps of a completion (`MergeResult`,
`DecCount`, `SetAll`).  Allocations of bio, private data and page fail at each
place.

**Btree.**  A node is a record of keys and children; the recursive operators
follow the functions of `BtreeNode`.  Each `Insert` gets some number of
allocations, up to `MaxAllocs`, before one fails, so that every one of them fails
somewhere.

**SharedPtr.**  Slots of two threads and objects whose addresses are reused; a
pointer that threads share is copied under its owner's lock, as `ControlDevice`
and `HashTable` do.  `debug` is the build: with the register, or without.

**Worker.**  Callers with one task each, the worker thread and the destructor,
which sets `Stopping` without the lock.  The worker's memory outlives the
callers inside `Execute`: that is up to the owner.

**Checker.**  The kernel reuses an address as soon as it is free; each look at
a list under its bucket's lock is a step; allocation and release outside it
are others.

**BlockAllocator.**  The page of a new block is not cleared, so a new bitmap is
any set of bits.  The word behind the last bit belongs to somebody else and
may have any value.

## 3. Runs

### Journal

These runs use `MCJournal`.  `VolumeLocked` is TRUE in all of them: the one caller
of the journal, `Volume::TestJournal`, holds `Volume::Lock` shared.

| Run | Instance | Checks |
|---|---|---|
| `journal_crash` | 3 transactions, all concurrent, 2 pages of 2 blocks, 9 slots, 2 crashes; 0.77 M states | `TypeOK`; `NoLostCommitIfSound`: every acknowledged commit is there whenever the journal runs; `SoundLogReplays`: replay of a sound log meets no corrupt block, so `Load` may take DataCorrupt for the end; `ErasedDurable`: slots are freed only when the home positions are durable; `AllOrNothing`: after any crash a transaction is visible as a whole or not at all; `NoSlotLeak`: as long as no two commits overlap each used slot belongs to a transaction on its way to `CompactLog` |
| `journal_failures` | 2 transactions, with data or empty, 8 slots (room for exactly two with data), bios and allocations fail, 1 crash; 1.6 M states | `IInv`, the invariant of the proofs; `CommittedDurable`; `FailedNeverVisible`; `DecisionStable` |
| `journal_returns` | 2 transactions, 5 slots, bios fail, 1 crash, fairness; 0.55 M states | `CommitReturns`: every waiting commit returns |
| `journal_reuse` | 3 transactions, one at a time, 9 slots, 1 crash | violates `NoLostCommit` (finding 1) |
| `journal_full` | 1 transaction, 4 slots, no crash | violates `AlwaysMounts` (finding 2) |
| `journal_leak` | 2 transactions, one at a time, 9 slots, allocations fail, 1 crash | violates `NoLostCommitAfterFailure` (finding 3) |

*Bounds.*  Three transactions are enough for one to be applied, one to be in
the round being flushed and one to be queued or to have overwritten an earlier
one; with capacity 9 and four slots each, the third wraps around and meets the
first.  With capacity 8 two transactions can be in the log together
and fill it exactly, and a failed one leaves too little room for the other;
with capacity 5 the second always meets the limit, in the same round or later.  Two crashes allow one in a round and one in the replay after it.
A crash needs no further choice (see the device), so few crashes show much.
Transactions are symmetric; positions are not, because `Pages` names them.
`journal_returns` does without symmetry, which liveness checking does not allow.

*Deadlock* is checked except in `journal_failures`, where `Load` may succeed
without its thread (`journal.cpp:102` ignores the error of `Thread::Start`) and
the clients really wait forever.

*Fairness* (`FairSpec`): weak fairness of the journal thread, of `Flush` and of
the part of `Commit` behind the wait.  These are kernel threads that are
runnable: the scheduler runs them, `TxListEvent.Wait(10)` times out, and a
submitted bio completes, with or without an error.  Nothing is assumed of
clients before `Commit`, of mounting, of unmounting or of crashes.
`CommitReturns` needs `Volume::Lock`: `Transaction::Cancel` does not set
`CommitEvent`, so a commit queued when `Unload` runs would wait forever; only
the lock keeps `Unload` out.  Its mutant drops the lock and TLC finds that hang.

### The other components

| Run | Instance | Checks |
|---|---|---|
| `server` | 2 connections, 2 clients in the backlog, 1 failed allocation, fair threads, clients keep coming; 0.15 M states | `ConnOwned`: a connection thread has its object, a live connection is listed once or about to be destroyed; `StoppedClean`: an accept racing with `Stop` leaves nothing behind; `NoLostConnect`; `ClosedReaped`: a closed connection is destroyed, although a reaping pass skips entries |
| `server_stop` | 1 connection, fair threads | violates `ConnThreadStops` (finding 4) |
| `storage` | 2 threads, a chunk of one of them and one of both, 2 values, 3 kinds of device, 1 failure anywhere; 1.6 M states | `VolumeStays`, `NoOrphanThread`, `ReadsOwnWrite`; `AtomicExistence`: `Storage` implements `ChunkMap`, existence and results without contents |
| `btree` | degree 2, keys 1..9, 0 to 5 allocations for an `Insert`; 6 k trees | `SearchTree` (order, balance, degree, as `Check` and the depths test them, and exact look-ups); `IsMap`: `Btree` implements `KvMap` |
| `core_threads` | a worker with 3 callers; 3 bios; 3 requests with 3 contents over buffers of 3 units; 2 failures; fairness; 22 k states | `OnePlace`, `WaitReturns`; `ResultTells`, `FuaLast`, `InFlightAlive`, `NothingLeaks`, `SubmitReturns`; `AnswersMatch`, `NoResync`, `RequestAnswered` |
| `core_memory` | 2 threads, 3 addresses, 3 references, both builds; 2 pages; 1 index, 2 blocks of a whole word of 2 bits and 1 bit; 1 failure; 1.6 M states | `CountsOwners`, `NothingLost`; `EntryExact`, `LeaksExact`; `BitOneOwner`, `NotFoundSawAll`, `OneBlock` |

The type invariant of a module is a property of its own in the journal's and the
core runs, and the first conjunct of `ConnOwned`, `VolumeStays` and `SearchTree`
in the others.

*Bounds.*  Two threads are what every race here is between (the third actor of
`Server`, `Worker` and `BioList` is the stopping or completing side).  Two
connections let a pass erase one and skip the other, which the next pass has to
find.  Three units of
buffer are less than a packet, so both ends block in the middle of one.  Three
addresses let one be freed and reused while another thread still works with
its own.  Nine keys at degree 2 give trees of three levels, with roots that
split and merge, borrowing from either side and both kinds of replacement in
`Delete`; five allocations are more than an `Insert` needs in such a tree, and with
fewer it runs out of memory at its first split or after it.  The
failures are bounded because each can fall on any step: what one failure does
is what the code has to handle.

*Deadlock* is not checked where the system may come to rest: a server in which
`Stop` hangs (finding 4), a connection whose ends wait for each other after a
timeout, a journal test without a thread, and the end of the life of a list of
bios, a worker or a module.

*Fairness.*  `Server!FairSpec`: the threads that can run do run, and every client
leaves in the end, so that `Stop` is not refuted by an idle client; `BusySpec`
adds that new clients come, because the accepting thread reaps only between
two accepts.  `CoreThreads!FairSpec`: the worker thread, the callers inside
`Execute` and the destructor once it began; the thread that submits a list of
bios, and a submitted bio completes, as the block layer guarantees; the server
thread, the client and the network.  Strong fairness is assumed where a thread
waits for the spinlock of the worker, which is handed over in turn.  Nobody has
to call `Execute`, to destroy a worker or to close a connection, and no timeout
has to happen.  All of these are kernel threads that are runnable.

Every property has a mutant in `PROJECT.json`: a defined operator that changes
one modelled definition as a bug in that code would (no PREFLUSH, no FUA, header
not waiting for the blocks, index that does not wrap, ...), under which TLC
finds the property violated.

## 4. Proofs

Checked by TLAPS for every value of the constants, from the named assumptions
of the modules alone: the sets of transactions, threads, callers, clients,
pointers, pages and keys may have any size, lists of bios, packets and bitmaps
any length, the log any capacity, and crashes, timeouts and failures come in any
number and combination.  The assumptions say that a null value is no element of
the set it is added to (`NoTx`, `None`), that bounds are natural numbers, and,
where something is counted (`CoreMemoryAssumption`, `ServerAssumption`,
`StorageAssumption`), that the set counted is finite.

| Module | Theorem | States |
|---|---|---|
| JournalProofs | `ResetRefusesOnlyFull` | among consistent rings `Reset` refuses exactly the full one: the arithmetic behind finding 2 |
| | `Inductive`, `TypeCorrect` | `IInv`, `TypeOK` |
| | `CommitDurability` | `CommittedDurable` |
| | `DecisionsStable` | `DecisionStable` |
| | `FailedStayInvisible` | `FailedNeverVisible` |
| | `SoundLogIsRead` | `SoundLogReplays` |
| OrderProofs | `SlotsDoNotLeak` | `NoSlotLeak` |
| RecoveryProofs | `CommitsSurvive` | `NoLostCommitIfSound` |
| | `CommitsAtomic` | `AllOrNothing` |
| | `ErasedAreDurable` | `ErasedDurable` |
| StorageProofs | `ChunkExistenceAtomic` | `AtomicExistence`: `Storage` implements `ChunkMap`, which is about which chunks exist and what the operations answer |
| | `ClientReadsItsWrite`, `VolumeNotTakenAway`, `JournalThreadStopped` | `ReadsOwnWrite`, `VolumeStays`, `NoOrphanThread` |
| ServerProofs | `EveryConnectionOwned`, `StopLeavesNothing`, `ConnectWakes` | `ConnOwned`, `StoppedClean`, `NoLostConnect` |
| ThreadsProofs | `TaskInOnePlace` | `OnePlace` (worker) |
| | `ResultIsTrue`, `FuaIsLast`, `DeviceHasItsPages`, `AllGivenBack` | `ResultTells`, `FuaLast`, `InFlightAlive`, `NothingLeaks` (bio list) |
| | `NothingResyncs`, `RequestsAndAnswers` | `NoResync`, `AnswersMatch` (packet stream) |
| | `CoreThreadsTypes` | `TypeOK` of the three together |
| PointerProofs | `CountedOwners`, `NothingIsLost`, `CoreMemoryTypes` | `CountsOwners`, `NothingLost`, `TypeOK` of `CoreMemory` |
| MemoryProofs | `EntriesExact`, `LeaksReported` | `EntryExact`, `LeaksExact` |
| | `OneOwnerForABit`, `SearchIsComplete`, `OneBlockForAnIndex` | `BitOneOwner`, `NotFoundSawAll`, `OneBlock` |

None of these properties is inductive as it stands.  Each proof has an
inductive invariant, a conjunction of named parts, a lemma for each part or for
each action, and one step for each action under it; every invariant was checked
with TLC on the instance of the component's run before it was proved.

### Journal

`CommittedDurable` says that a transaction reported as committed, until
`CompactLog` frees it, has one slot for each block, that each of these slots
*certainly* holds its block, and that *every* header a crash may leave covers
them.  `Flush` overwrites the slots of the batch, so one
needs that no committed transaction owns one of them (`PlacedDisjoint`);
`PushBack` hands out a slot that is not in use, so one needs that everything
placed is within the used part of the ring (`PlacedInRing`), which `Erase`
preserves only because the erased slots are the front and belong to one
transaction; the new header covers what is in use, hence what is committed; the
round becomes committed when its header is durable, so its blocks must have
been durable before (`RoundDurable`).  The remaining parts say which program
counters go together (`Modes`: one `Flush` at a time, no batch outside a round,
nothing in memory before the journal runs), that the queue and the round hold a
transaction once and undecided (`QueueOk`), how a client's position determines
its transaction's state (`TxOk`), and that rings and headers are consistent
(`RingsOk`).  Their conjunction is `IInv`, which the run `journal_failures`
checks too.

`FailedNeverVisible` needs `SeenInv`: what is on the device, in the log, at home
or in Replay's list, is of transactions that are committed, that a crash has hit, or
whose round has submitted its blocks and not failed (`OnlyShown`); and a commit
is answered together with its decision (`Unanswered`), so none of these has
returned with an error.

`SoundLogReplays` is a statement on logs of any length, and an induction over
the blocks of a log is out of the prover's reach.  `LogInv` avoids it: being a log of
whole transactions is a property of neighbours (`Follows`), so the log of a header
is a *chain* (`Chained`: each block that a slot may hold may follow each that
the slot before it may hold; the last is a commit block).  Every header that may
be on the media covers a chain (`HeadersParse`), and the ring covers one with the
contents that the slots will have when the round is written (`RingParses`):
`WriteTx` appends a transaction, which has data (`HasData`), `CompactLog` cuts
one off, and the bios in flight touch no slot that a header covers (`NoReuse`).  Replay
walks along the chain (`ReplayParses`) and its list is the beginning of a
transaction (`Partial`), so the tests of `Replay(blockList)` succeed.

The recovery properties relate the order of the log to the contents of the home
positions.  The order is `OrderInv`.  The blocks of the log are blocks that some `WriteTx`
made (`GenuineLog`); a transaction's slots lie next to each other in the ring and in every
header (`RingLies`, `HeadersLie`); behind a block there is none of a transaction that had
returned before the block's own began (`HeadersOrdered`, and `RingOrdered` for the
log that the round is going to write).  That order holds because `WriteTx` appends and a
transaction whose commit returned was placed in an earlier round.  It has to survive
`CompactLog`, which takes slots off the front and forgets the rest: a
transaction that has lost its slots leaves nothing older in the ring (`PastFree`), for
which one needs that `CompactLog`, some way into the log of the header (`CompactPos`),
has passed no block of a predecessor of what it still has to erase, and that a
transaction is reported only when none of its predecessors is still waiting to be
erased (`EraseOrder`).  Replay is some way into the log of one header, and its list
is what it read last (`ReplayPos`), in the end one whole transaction (`ApplyTx`).

`MediaInv` says what a crash finds.  A transaction is *owed* when its commit was
acknowledged or a block of it may be at home.  Under every header that a crash may
leave, an owed transaction is whole in the log, or its home positions are durable
and the log holds nothing older than it (`Covered`); a page that may be half
written belongs to a transaction that is whole in the log (`TornCovered`).  The
second case of `Covered` is what `CompactLog` leaves (`ErasedClean`), and it may
choose it because the flush before the header has made durable what it is to
erase (`EraseReady`).  The same is stated of the rest of the log while Replay
is at work (`ReplayCovers`): each transaction it applies moves from the first
case to the second, where, since the log is ordered, nothing older can follow; at
the end of the log only the second case is left, which is `LiveOk`, and
`NoLostCommitIfSound` and `AllOrNothing` are its consequences.  A crash in the middle of
Replay starts it again from the header, for which `Covered` has been kept.  All
of it is stated for a sound log (`LogSound`): finding 1 is what happens
otherwise.

`NoSlotLeak` needs `LeakInv`: each used slot belongs to a transaction that is placed and has
not returned or is in `TxToErase` (`SlotsKept`), and in a sound log no queued commit
is refused while the journal runs (`NotCanceled`).  The step that matters is the end of `CompactLog`, which
empties `TxToErase`.  If a slot were left whose owner is in it, look at the owner
of the front slot: it is not to be erased, or `CompactLog` would go on, so its
commit has not returned; it is in front of one that has returned, and since
commits do not overlap one of the two is a predecessor of the other: the order
of the log excludes the one, `PredOk` the other.

`OrderInv`, `MediaInv` and `LeakInv` were checked with TLC on the instances of
`journal_crash` and `journal_failures` before they were proved.

The ring is used through lemmas of JournalProofs that say what pushing, erasing
and popping do to the used slots (`PushLemma`, `EraseLemma`, `PopLemma`) and to
their order (`PushCells`, `EraseCells`, `PopCells`: the ring is a queue of slots).

### Storage

`SInv` follows each request through its stages: which thread holds what
(`ReqOk`), that a volume that an operation uses is mounted and that its journal
thread exists only with it (`VolOk`), that a chunk has one key (`TableOk`), and, for
a chunk that only one client uses, what both halves of it hold at each stage of
a write (`OwnOk`), and so what the last reply shows (`ReplyOk`).  The refinement maps each thread
to a call of `ChunkMap` (`CallOf`) and the table to the set of chunks; a
step of `Storage` maps to the one step in which its operation takes effect, or to
none.  The proof is over a second instance of `ChunkMap` whose mapping is in named
operators, shown equal to the one that the run uses.

### Server

The hard part is who owns a connection. The accepting thread's reaping pass
takes a closed connection out of the list and destroys it, waiting for its
thread, with `ConnListLock` held; `Stop` takes the list's connections one by
one. `PassOk` says that the lock is held exactly during the pass and that only
the pass has a doomed connection, `StopOk` how far `Stop` has come and what is
therefore gone, and `OwnerOk` that a live connection is in exactly one place,
the list, the pass's hands or `Stop`'s, and that a dead one has no thread.

### Worker, bio list, packet stream

`WInv`: the lock is the caller's that is about to add (`HeldOk`), the places of
a task are disjoint and hold it once (`PlacesOk`), and a worker that did not
start or is gone takes nothing (`StagesOk`).

`BInv`: what each request has allocated at each step of `AddIo` (`MemOk`), nothing
is submitted before (`AddOk`), what is submitted has a handler and the last bio
follows the others (`ReadyOk`), the counter is the number of bios not yet
counted (`CountOk`, a cardinality), an error reaches the result before its bio
is counted (`ResOk`), and what is left when the caller returns (`RetOk`).

`PInv`: the stream is in one of three phases.  In `Quiet` nothing is under way.
In `Asking` the server has parsed the packet up to some place, and the units behind
it are the rest of the packet or, after a timeout, a proper suffix of the rest,
too short to complete the packet.  In `Answering` what the client has and
what is on its way is the beginning of the answer, up to a first wrong unit if
a timed-out send was repeated; a header or a body with a wrong unit fails its hash.
A new request is sent only in `Quiet`, where no unit of an earlier answer is
left: that, and not a comparison, is why an answer that the client takes is the
one to its own request.  A request for which memory is missing stays in `Asking`,
with the server closed.

### Pointers, checkers, bitmaps

`SInv` of PointerProofs: the counter of a reference is the number of pointers
to it, less the threads that have stored one and not yet counted it (`CounterOk`,
again a cardinality); a reference that is being made or destroyed is that
thread's alone (`TmpOk`), and the lock, the objects and the debug table of keys
fit (`LockOk`, `PathOk`, `PtrOk`, `ObjectsOk`, `KeysOk`).

`CInv` of MemoryProofs: which addresses, pages and entries are in whose hands
and that no two hands hold the same (`Apart`), hence which entries exist
(`EntriesOk`, `PagesOk`), what the counters count (`CountsOk`), why a thread does
its current step (`WhyOk`), and what each stage of the exit has emptied
(`ExitOk`).

`AInv` of MemoryProofs: a thread's block is the tree's or was deleted
(`RefsOk`), the bits that are set are disjointly owned by threads or were never
given out (`BitsOk`), and a search has seen every bit in front of its place set
(`ScanOk`).

### Only model-checked

* Liveness (`CommitReturns`, `ClosedReaped`, `WaitReturns`, `SubmitReturns`,
  `RequestAnswered`): fairness and ENABLED are out of the prover's reach.
* `Btree` (`SearchTree`, `IsMap`): RECURSIVE operators.

## 5. Findings

1. **Freed slots are reused before the header moves** (`journal_reuse`).
   `CompactLog` advances the ring after the header was written.  The header on
   the media covers the freed slots until the next `Flush`, whose blocks are
   written into them first.  A crash between the two leaves a header whose log
   begins with other blocks; `Replay` ends there, `Load` swallows the error,
   and acknowledged transactions further on, whose home writes are still in the
   cache, are lost.
2. **A full log cannot be loaded** (`journal_full`).  `RingBuffer::Reset`
   refuses `size >= capacity`, `PushBack` fills the ring to its capacity, and
   `Flush` writes that header.  The volume no longer mounts.
3. **A failed commit takes later ones with it** (`journal_leak`).  When an
   allocation in `WriteTx` fails, the slots taken so far stay in the ring, and
   their blocks are never written.  The header of the next commit covers them;
   `Replay` ends at them, and that commit and all behind it, acknowledged and
   perhaps only in the device's cache at home, are lost at a power failure.
4. **Stop against its connections** (`server_stop`).  `Connection::Stop` waits
   for its thread under `StateLock`, which the thread takes to close its socket
   before it ends.  Stopping a server with an open connection hangs.

Further observations, without a run of their own.  Server: `AbortAccept` wakes
only a thread that is already on the wait queue, so a `Stop` that comes after
the accepting thread has tested the stop flag (`server.cpp:322`) and before it
has queued itself waits until a client happens to connect.  Requests:
`HandleChunkCreate` and `HandleChunkDelete` set an error in the response and then
build it again as a success (`server.cpp:526`, `598`; `Result` in `Storage`).
Mounting: `Journal::Load` tests the pointer to its thread and not the error of
its constructor (`journal.cpp:102`); the journal test of such a volume never
returns and holds `VolumeLock`.  Debug builds: `MakeShared` without memory for
the object deletes a reference whose counter is 1, against the assertion of its
destructor (`shared_ptr.h:38`), and `unique_key_register` without memory returns
`false`, which is 0 and means success, so that the object's last release fails
the assertion of `DecCounter` (`shared_ptr.h:77`); both are in `SharedPtr`
(`panics`).  Journal: a transaction committed without data is written as a begin and a
commit block, which `Replay` calls corrupt (`journal.cpp:645`, `759`), so that
what is behind it in the log is lost after a power failure; no caller commits
one.  A device error in `Flush` leaves slots behind as in finding 3.  The blocks of a
transaction are written home in parallel (`journal.cpp:612`), so that of two for
one position either may stay; no caller writes a position twice.  With concurrent
clients `TxToErase.Clear` at the end of `CompactLog` forgets transactions whose
slots are not at the front, so the log shrinks until every commit fails (the
reason why `NoSlotLeak` is stated for commits that do not overlap); committed transactions are
never removed from `TxTable`.  Connections: a timeout of 60 s in the middle of a
packet drops the bytes already read, and both ends then wait for each other;
the packet's hashes keep the damage from going further (`NoResync`).  Chunks:
`ChunkWrite` and `ChunkRead` copy 64 KiB with `VolumeLock` and `Volume::Lock`
taken shared and no lock on the chunk (`volume.cpp:236-276`), so a read of a chunk
that another connection is writing may return part of the old contents and part
of the new, and two writes may leave part of each (`WriteHalf` and `ReadHalf` of
`Storage` do it);
`HashTable::Insert` does not look at the result of `AddTail`, so a create may
succeed without effect; a new chunk holds uninitialised memory; chunks are kept
in memory only and are gone after `Unmount`.  Bios: the last completion sets the
event of a list that its waiter may already have destroyed, and the completion
of a bio reads `PostEndIoHandler` (`bio.h:242`) after it has set `EndIoEvent`, for
which the waiter for the last bio destroys it; `BioList` keeps the memory of both.  Bitmaps: a new
bitmap block is not cleared; a bitmap of whole words is read one word past its
end when it is full, without an effect on the result; `BlockAllocator::Load`
computes its number of blocks as `start / size`.

## 6. Not modelled, and the plan

Left out for good:

* byte layout, hashes (third-party xxHash and SHA-256), GUIDs, tracing,
  formatting: pure functions of which the models need that different contents
  have different hashes;
* pointers inside the containers, `Vector`, `UniquePtr`: sequential code under
  their callers' locks, which appears as sets, sequences and maps;
* kernel wrappers that pass their arguments on; `ksock_connect_host` and name
  resolution, which the module does not use;
* the ioctl dispatcher's copies from and to user space, and `kstor-ctl`;
* the delayed release of the memory checkers, which no makefile compiles in;
* `BlockAllocator::Load`, which stores its arguments, and its stubs;
* `rmmod` with a server that still runs: `~ControlDevice` destroys the volume
  before the server, and no document says what should happen.

`CheckPosition` is left out of `Journal`: a client's pages are valid positions.

Every safety property of the journal that a run checks is proved.  What could be
added is an abstract durable store that `Journal` refines as long as `LogSound`: `CommitsSurvive`,
`CommitsAtomic` and `FailedStayInvisible` state what it would promise, as invariants.

`Btree` is written with RECURSIVE operators, which the prover does not support,
and stays with TLC, as does everything about liveness.
