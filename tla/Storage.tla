------------------------------ MODULE Storage -------------------------------
(***************************************************************************)
(* ControlDevice, Volume and the chunk table, with the request handlers of *)
(* the server: kstor/control_device.cpp, kstor/volume.cpp,                 *)
(* core/hash_table.h and the Handle* functions of kstor/server.cpp.        *)
(*                                                                         *)
(* Server threads run chunk operations under VolumeLock taken shared;      *)
(* Mount, Unmount and the journal test hold it exclusively from beginning  *)
(* to end and are single steps here.  Volume::Lock is always taken inside  *)
(* VolumeLock and in the same mode, so it is not modelled apart.  A chunk  *)
(* is copied in two halves: MemCpy of 64 KiB is not atomic.                *)
(***************************************************************************)
EXTENDS Naturals, FiniteSets

CONSTANTS Threads,      \* connection threads of the server
          Keys,         \* chunk ids
          KeysOf,       \* the chunk ids each thread's client uses
          Vals,         \* contents of half a chunk
          Devices,      \* what can be on the device: blank, volume, foreign
          MaxFaults,    \* bound: failed allocations, threads and I/O
          None          \* no object

ASSUME StorageAssumption ==
    /\ IsFiniteSet(Threads) /\ IsFiniteSet(Keys)
    /\ KeysOf \in [Threads -> SUBSET Keys]
    /\ Devices \subseteq {"blank", "volume", "foreign"}
    /\ MaxFaults \in Nat
    /\ None \notin Nat
    /\ None \notin [state : {"New", "Running"}, journal : {"New", "Running"}]

Junk == "junk"              \* what a new chunk holds: Data is not initialised
Objs == 1 .. Cardinality(Keys) + Cardinality(Threads)

VARIABLES
    device,     \* blank, volume, or foreign: its JournalSize does not match
    vol,        \* VolumeRef: None, or the states of the Volume and its Journal
    jthread,    \* the journal thread exists
    ctl,        \* the ioctl thread: idle, or test (in Transaction::Commit)
    table,      \* ChunkTable: key -> chunk object or None
    data,       \* halves of each chunk object
    pc, req,    \* each server thread and its request
    hold, buf,  \* the chunk pointer and the response buffer it works with
    res,        \* the Error of Volume::Chunk*
    reply,      \* what a read of a private chunk has sent to its client
    mine,       \* history: value of the last acknowledged write to a private chunk
    faults

volVars == <<device, vol, jthread, ctl>>
thrVars == <<pc, req, hold, buf, res, reply, mine>>
vars == <<volVars, table, data, thrVars, faults>>

Readers == {t \in Threads : pc[t] \notin {"idle", "enter"}}
Free == Objs \ ({table[k] : k \in Keys} \cup {hold[t] : t \in Threads})
Fault == faults < MaxFaults /\ faults' = faults + 1
NoReq == [op |-> "none"]

Init ==
    /\ device \in Devices /\ vol = None /\ jthread = FALSE /\ ctl = "idle"
    /\ table = [k \in Keys |-> None]
    /\ data = [o \in Objs |-> <<Junk, Junk>>]
    /\ pc = [t \in Threads |-> "idle"] /\ req = [t \in Threads |-> NoReq]
    /\ hold = [t \in Threads |-> None]
    /\ buf = [t \in Threads |-> <<Junk, Junk>>]
    /\ res = [t \in Threads |-> None] /\ reply = [t \in Threads |-> None]
    /\ mine = [k \in Keys |-> None] /\ faults = 0

-----------------------------------------------------------------------------
(* Mount, Unmount and the journal test: VolumeLock held exclusively.       *)

\* Unmount does not wait for the chunk operations.
Exclusive_M == ctl = "idle"

Exclusive == ctl = "idle" /\ Readers = {}

New == [state |-> "New", journal |-> "New"]

\* A Mount that fails after MakeShared leaves VolumeRef set.
Loaded(v, thread) == vol' = v /\ jthread' = thread

\* Volume::Load.  A failed thread creation in Journal::Load is not noticed; a
\* journal size that does not match is, but after the journal was started.
Load(on) ==
    \/ /\ on = "volume"
       /\ \/ Loaded([state |-> "Running", journal |-> "Running"], TRUE)
             /\ UNCHANGED faults
          \/ Loaded([state |-> "Running", journal |-> "Running"], FALSE) /\ Fault
    \/ /\ on = "foreign"
       /\ Loaded([state |-> "New", journal |-> "Running"], TRUE)
       /\ UNCHANGED faults
    \/ on = "blank" /\ Loaded(New, FALSE) /\ UNCHANGED faults
    \/ Loaded(New, FALSE) /\ Fault

\* The device after Format, or as it is.  A failed Format may leave a torn
\* header.
Mount ==
    /\ Exclusive /\ vol = None
    /\ \E format \in BOOLEAN :
         \/ LET on == IF format THEN "volume" ELSE device
            IN  device' = on /\ Load(on)
         \/ /\ format /\ device' \in {device, "blank"}
            /\ Loaded(New, FALSE) /\ Fault
    /\ UNCHANGED <<ctl, table, data, thrVars>>

\* Journal::Unload: only a running journal has a thread to stop.
JournalUnload(s) ==
    IF s.journal = "Running"
    THEN [s EXCEPT !.journal = "Stopped", !.thread = FALSE]
    ELSE s

\* Volume::Unload: a volume that is not running is left as it is.
VolumeUnload(s) ==
    IF s.state = "Running"
    THEN [JournalUnload(s) EXCEPT !.state = "Stopped"]
    ELSE s

\* Destroying the volume does not unload the journal.
Destroy_M(s) == VolumeUnload(s)

\* ~Volume, then the members, the journal among them.
Destroy(s) == JournalUnload(VolumeUnload(s))

\* Unload, then VolumeRef.Reset() whatever Unload returned.  Writing the
\* header may fail and leave it torn.
Unmount ==
    /\ Exclusive /\ vol # None
    /\ vol' = None
    /\ jthread' = Destroy([state |-> vol.state, journal |-> vol.journal,
                           thread |-> jthread]).thread
    /\ table' = [k \in Keys |-> None]
    /\ \/ UNCHANGED <<device, faults>>
       \/ vol.state = "Running" /\ device' = "blank" /\ Fault
    /\ UNCHANGED <<ctl, data, thrVars>>

\* TestJournal waits in Commit for the journal thread, with VolumeLock held.
TestBegin ==
    /\ Exclusive /\ vol # None
    /\ vol.state = "Running"
    /\ ctl' = "test"
    /\ UNCHANGED <<device, vol, jthread, table, data, thrVars, faults>>

TestEnd ==
    /\ ctl = "test" /\ jthread
    /\ ctl' = "idle"
    /\ UNCHANGED <<device, vol, jthread, table, data, thrVars, faults>>

-----------------------------------------------------------------------------
(* Chunk requests, on the threads of the server.                           *)

Goto(t, l) == pc' = [pc EXCEPT ![t] = l]

Finish(t, e) == Goto(t, "leave") /\ res' = [res EXCEPT ![t] = e]

\* Chunks that only one client uses.
Private == {k \in Keys : \A t, u \in Threads : k \in KeysOf[t] \cap KeysOf[u] => t = u}

Request(t) ==
    /\ pc[t] = "idle"
    /\ \E op \in {"create", "write", "read", "delete"}, k \in KeysOf[t], v \in Vals :
         /\ op # "write" \/ k \notin Private => v = CHOOSE w \in Vals : TRUE
         /\ req' = [req EXCEPT ![t] = [op |-> op, key |-> k, val |-> v]]
    /\ reply' = [reply EXCEPT ![t] = None]
    /\ Goto(t, "enter")
    /\ UNCHANGED <<volVars, table, data, hold, buf, res, mine, faults>>

\* VolumeLock taken shared, and the tests for a mounted, running volume.
Enter(t) ==
    /\ pc[t] = "enter" /\ ctl = "idle"
    /\ IF vol # None /\ vol.state = "Running"
       THEN Goto(t, req[t].op) /\ UNCHANGED res
       ELSE Finish(t, "refused")
    /\ UNCHANGED <<volVars, table, data, req, hold, buf, reply, mine, faults>>

\* ChunkCreate: the lookup and the insertion are two steps.
CreateLookup(t) ==
    /\ pc[t] = "create"
    /\ \/ table[req[t].key] # None /\ Finish(t, "exists") /\ UNCHANGED faults
       \/ table[req[t].key] = None /\ Goto(t, "insert") /\ UNCHANGED <<res, faults>>
       \/ table[req[t].key] = None /\ Finish(t, "refused") /\ Fault
    /\ UNCHANGED <<volVars, table, data, req, hold, buf, reply, mine>>

\* Insert does not look again.
CreateInsert_M(t) ==
    LET k == req[t].key
        o == CHOOSE o \in Free : TRUE
    IN
    /\ pc[t] = "insert" /\ Finish(t, "ok")
    /\ table' = [table EXCEPT ![k] = o]
    /\ data' = [data EXCEPT ![o] = <<Junk, Junk>>]
    /\ UNCHANGED <<volVars, req, hold, buf, reply, mine, faults>>

\* Insert looks again, under the bucket's lock.  It does not look at the
\* result of AddTail.
CreateInsert(t) ==
    LET k == req[t].key
        o == CHOOSE o \in Free : TRUE
    IN
    /\ pc[t] = "insert"
    /\ \/ table[k] # None /\ Finish(t, "refused")
          /\ UNCHANGED <<table, data, faults>>
       \/ /\ table[k] = None /\ Finish(t, "ok")
          /\ table' = [table EXCEPT ![k] = o]
          /\ data' = [data EXCEPT ![o] = <<Junk, Junk>>]
          /\ UNCHANGED faults
       \/ /\ table[k] = None /\ Finish(t, "ok") /\ Fault
          /\ UNCHANGED <<table, data>>
    /\ UNCHANGED <<volVars, req, hold, buf, reply, mine>>

\* ChunkWrite and ChunkRead: look up, then copy with no lock on the chunk.
Lookup(t) ==
    /\ pc[t] \in {"write", "read"}
    /\ IF table[req[t].key] = None
       THEN Finish(t, "notfound") /\ UNCHANGED hold
       ELSE /\ hold' = [hold EXCEPT ![t] = table[req[t].key]]
            /\ Goto(t, IF pc[t] = "write" THEN "write1" ELSE "read1")
            /\ UNCHANGED res
    /\ UNCHANGED <<volVars, table, data, req, buf, reply, mine, faults>>

\* The second half is not copied.
WriteHalf_M(t, i) ==
    /\ pc[t] = "write1" /\ i = 1
    /\ data' = [data EXCEPT ![hold[t]][i] = req[t].val]
    /\ Finish(t, "ok") /\ hold' = [hold EXCEPT ![t] = None]
    /\ UNCHANGED <<volVars, table, req, buf, reply, mine, faults>>

WriteHalf(t, i) ==
    /\ pc[t] = IF i = 1 THEN "write1" ELSE "write2"
    /\ data' = [data EXCEPT ![hold[t]][i] = req[t].val]
    /\ IF i = 1
       THEN Goto(t, "write2") /\ UNCHANGED <<res, hold>>
       ELSE Finish(t, "ok") /\ hold' = [hold EXCEPT ![t] = None]
    /\ UNCHANGED <<volVars, table, req, buf, reply, mine, faults>>

ReadHalf(t, i) ==
    /\ pc[t] = IF i = 1 THEN "read1" ELSE "read2"
    /\ buf' = [buf EXCEPT ![t][i] = data[hold[t]][i]]
    /\ IF i = 1
       THEN Goto(t, "read2") /\ UNCHANGED <<res, hold>>
       ELSE Finish(t, "ok") /\ hold' = [hold EXCEPT ![t] = None]
    /\ UNCHANGED <<volVars, table, data, req, reply, mine, faults>>

Delete(t) ==
    /\ pc[t] = "delete"
    /\ table' = [table EXCEPT ![req[t].key] = None]
    /\ Finish(t, IF table[req[t].key] = None THEN "notfound" ELSE "ok")
    /\ UNCHANGED <<volVars, data, req, hold, buf, reply, mine, faults>>

\* The locks are released and the response sent.  HandleChunkCreate and
\* HandleChunkDelete build the response anew, with ResultSuccess.
Result(t) ==
    IF res[t] = "ok" \/ req[t].op \in {"create", "delete"} THEN "Success" ELSE "NotFound"

\* What the client may rely on after the reply: see ReadsOwnWrite.
Acked(t) ==
    CASE req[t].op = "write" /\ Result(t) = "Success" -> req[t].val
      [] req[t].op = "read" -> mine[req[t].key]
      [] OTHER -> None

Leave(t) ==
    /\ pc[t] = "leave"
    /\ Goto(t, "idle")
    /\ IF req[t].key \in Private
       THEN /\ mine' = [mine EXCEPT ![req[t].key] = Acked(t)]
            /\ reply' = [reply EXCEPT ![t] =
                  IF req[t].op = "read" /\ Result(t) = "Success"
                  THEN [key |-> req[t].key, data |-> buf[t]] ELSE None]
       ELSE UNCHANGED <<mine, reply>>
    /\ req' = [req EXCEPT ![t] = NoReq] /\ res' = [res EXCEPT ![t] = None]
    /\ buf' = [buf EXCEPT ![t] = <<Junk, Junk>>]
    /\ UNCHANGED <<volVars, table, data, hold, faults>>

ChunkStep(t) ==
    \/ Enter(t) \/ CreateLookup(t) \/ CreateInsert(t) \/ Lookup(t)
    \/ \E i \in {1, 2} : WriteHalf(t, i) \/ ReadHalf(t, i)
    \/ Delete(t) \/ Leave(t)

-----------------------------------------------------------------------------
Next ==
    \/ Mount \/ Unmount \/ TestBegin \/ TestEnd
    \/ \E t \in Threads : Request(t) \/ ChunkStep(t)

Spec == Init /\ [][Next]_vars

-----------------------------------------------------------------------------
Halves == Vals \cup {Junk}

TypeOK ==
    /\ device \in {"blank", "volume", "foreign"} /\ jthread \in BOOLEAN
    /\ vol \in {None} \cup [state : {"New", "Running"}, journal : {"New", "Running"}]
    /\ ctl \in {"idle", "test"} /\ faults \in 0 .. MaxFaults
    /\ table \in [Keys -> Objs \cup {None}]
    /\ data \in [Objs -> Halves \X Halves]
    /\ pc \in [Threads -> {"idle", "enter", "create", "insert", "write", "write1",
                           "write2", "read", "read1", "read2", "delete", "leave"}]
    /\ hold \in [Threads -> Objs \cup {None}]
    /\ buf \in [Threads -> Halves \X Halves]
    /\ res \in [Threads -> {None, "ok", "exists", "notfound", "refused"}]

\* The types, and: while a chunk operation is at work its volume is mounted and
\* running, and every chunk pointer it holds is to a chunk that is not used
\* for another key meanwhile: Unmount cannot get between its steps.
VolumeStays ==
    /\ TypeOK
    /\ \A t \in Threads :
         pc[t] \notin {"idle", "enter", "leave"} => vol # None /\ vol.state = "Running"
    /\ \A t \in Threads, k \in Keys :
         hold[t] # None /\ hold[t] = table[k] => req[t].key = k

\* However Mount and Load fail, the journal thread does not outlive the
\* volume: what Volume::Unload leaves running ~Journal stops.
NoOrphanThread == vol = None => ~jthread

\* A client that has a chunk of its own never reads anything but what it
\* wrote there (the comparison in testClient of client.go), whatever the other
\* clients do and even if the volume is unmounted in between.
ReadsOwnWrite ==
    \A t \in Threads :
        reply[t] # None =>
            LET v == mine[reply[t].key] IN v # None => reply[t].data = <<v, v>>

\* A write or a read has found its chunk once it starts to copy.
Impl == INSTANCE ChunkMap WITH
    exists <- {k \in Keys : table[k] # None},
    call <- [t \in Threads |->
        IF pc[t] = "idle" THEN [op |-> "idle"]
        ELSE [op |-> req[t].op, key |-> req[t].key,
              res |-> CASE pc[t] = "leave" -> res[t]
                        [] pc[t] \in {"write1", "write2", "read1", "read2"} -> "ok"
                        [] OTHER -> "pending"]]

\* However chunk operations overlap, each looks up, adds or removes its chunk in
\* one step, and answers what was true then: Storage implements ChunkMap.  This
\* is about which chunks exist and about the results.  The copies of
\* Volume::ChunkWrite and ChunkRead are not atomic, and not in ChunkMap.
AtomicExistence == Impl!Spec
=============================================================================
