------------------------------- MODULE Server -------------------------------
(***************************************************************************)
(* The network server of kstor: kstor/server.cpp with the threads          *)
(* (core/thread.cpp) and the accepting socket (core/socket.cpp,            *)
(* system/ksocket.c) it is built on.  Server::StateLock is held for all of *)
(* Start and all of Stop, so one control thread, ctl, stands for every     *)
(* caller.  What a request does is the subject of module Storage.          *)
(***************************************************************************)
EXTENDS Naturals, Sequences, FiniteSets, SequencesExt

CONSTANTS Conns,        \* Connection objects that can exist at one time
          MaxBacklog,   \* bound: clients waiting in the listening socket
          MaxFaults     \* bound: failed allocations and thread creations

ASSUME ServerAssumption ==
    /\ IsFiniteSet(Conns) /\ "none" \notin Conns
    /\ MaxBacklog \in Nat
    /\ MaxFaults \in Nat

None == "none"

VARIABLES
    ctl,        \* where the caller of Start or Stop is
    stopping,   \* Connection being stopped by Server::Stop, or None
    ListenSocket,
    athr,       \* AcceptThread: none, run, or done (CompEvent is set)
    astop,      \* Thread::Stopping of AcceptThread
    apc,        \* where the accepting thread is in Server::Run
    it,         \* iterator of the reaping pass: an index into ConnList
    doomed,     \* Connection whose last reference the reaping pass drops
    listLock,   \* ConnListLock is held by the accepting thread
    wake,       \* the sleeper in ksock_accept was woken since it queued
    backlog,    \* clients that connected and were not accepted
    ConnList,
    conn,       \* per object: alive, Sock, thread, Stopping, StateLock, client
    faults      \* failures injected so far

ctlVars == <<ctl, stopping, ListenSocket>>
accVars == <<athr, astop, apc, it, doomed, listLock, wake>>
vars == <<ctlVars, accVars, backlog, ConnList, conn, faults>>

NoConn == [alive |-> FALSE, sock |-> FALSE, thr |-> "none", stop |-> FALSE,
           lock |-> "free", client |-> "gone"]

Free == {c \in Conns : ~conn[c].alive}

\* A step of the model that stands for a failed allocation.
Fault == faults < MaxFaults /\ faults' = faults + 1

Init ==
    /\ ctl = "idle" /\ stopping = None /\ ListenSocket = FALSE
    /\ athr = "none" /\ astop = FALSE /\ apc = "top" /\ it = 1
    /\ doomed = None /\ listLock = FALSE /\ wake = FALSE
    /\ backlog = 0 /\ ConnList = <<>>
    /\ conn = [c \in Conns |-> NoConn]
    /\ faults = 0

-----------------------------------------------------------------------------
(* Server::Start and Server::Stop, under Server::StateLock.                *)

\* A Start that finds the server running, or that fails, changes nothing.
Start ==
    /\ ctl = "idle" /\ ~ListenSocket /\ athr = "none"
    /\ ListenSocket' = TRUE
    /\ athr' = "run" /\ astop' = FALSE /\ apc' = "top"
    /\ UNCHANGED <<ctl, stopping, it, doomed, listLock, wake, backlog,
                   ConnList, conn, faults>>

StopThread ==
    /\ ctl = "idle" /\ ~listLock
    /\ astop' = (athr # "none")
    /\ ctl' = "abort"
    /\ UNCHANGED <<stopping, ListenSocket, athr, apc, it, doomed, listLock,
                   wake, backlog, ConnList, conn, faults>>

\* wake_up_all reaches only a thread that is on the wait queue.
AbortAccept ==
    /\ ctl = "abort"
    /\ wake' = (wake \/ (ListenSocket /\ apc \in {"queued", "sleep"}))
    /\ ctl' = "join"
    /\ UNCHANGED <<stopping, ListenSocket, athr, astop, apc, it, doomed,
                   listLock, backlog, ConnList, conn, faults>>

\* Stop does not wait for the accepting thread.
JoinAccept_M ==
    /\ ctl = "join"
    /\ ListenSocket' = FALSE /\ backlog' = 0
    /\ ctl' = "drain"
    /\ UNCHANGED <<stopping, athr, astop, apc, it, doomed, listLock, wake,
                   ConnList, conn, faults>>

\* AcceptThread.Reset() waits for the thread; the listening socket goes with
\* the clients still in its backlog.
JoinAccept ==
    /\ ctl = "join" /\ athr \in {"none", "done"}
    /\ athr' = "none" /\ ListenSocket' = FALSE /\ backlog' = 0
    /\ ctl' = "drain"
    /\ UNCHANGED <<stopping, astop, apc, it, doomed, listLock, wake,
                   ConnList, conn, faults>>

PopConn ==
    /\ ctl = "drain" /\ ConnList # <<>> /\ ~listLock
    /\ stopping' = Head(ConnList)
    /\ ConnList' = Tail(ConnList)
    /\ ctl' = "connstop"
    /\ UNCHANGED <<ListenSocket, accVars, backlog, conn, faults>>

StopDone ==
    /\ ctl = "drain" /\ ConnList = <<>>
    /\ ctl' = "idle"
    /\ UNCHANGED <<stopping, ListenSocket, accVars, backlog, ConnList, conn,
                   faults>>

\* Connection::Stop takes StateLock and tells the thread to stop ...
ConnStop ==
    /\ ctl = "connstop" /\ conn[stopping].lock = "free"
    /\ conn' = [conn EXCEPT ![stopping].lock = "ctl", ![stopping].stop = TRUE]
    /\ ctl' = "connjoin"
    /\ UNCHANGED <<stopping, ListenSocket, accVars, backlog, ConnList, faults>>

\* ... and waits for it with StateLock held, closes the socket and drops the
\* last reference.
ConnJoin ==
    /\ ctl = "connjoin" /\ conn[stopping].thr \in {"none", "done"}
    /\ conn' = [conn EXCEPT ![stopping] = NoConn]
    /\ stopping' = None
    /\ ctl' = "drain"
    /\ UNCHANGED <<ListenSocket, accVars, backlog, ConnList, faults>>

-----------------------------------------------------------------------------
(* Server::Run, the accepting thread.                                      *)

\* The pass starts behind the head of the list.
LoopTop_M ==
    /\ athr = "run" /\ apc = "top" /\ ~listLock
    /\ IF astop
       THEN athr' = "done" /\ UNCHANGED <<apc, it, listLock>>
       ELSE apc' = "reap" /\ it' = 2 /\ listLock' = TRUE /\ UNCHANGED athr
    /\ UNCHANGED <<ctlVars, astop, doomed, wake, backlog, ConnList, conn, faults>>

\* The stop flag is tested and the reaping pass made under ConnListLock.
LoopTop ==
    /\ athr = "run" /\ apc = "top" /\ ~listLock
    /\ IF astop
       THEN athr' = "done" /\ UNCHANGED <<apc, it, listLock>>
       ELSE apc' = "reap" /\ it' = 1 /\ listLock' = TRUE /\ UNCHANGED athr
    /\ UNCHANGED <<ctlVars, astop, doomed, wake, backlog, ConnList, conn, faults>>

\* One iteration.  Erase moves the iterator to the next entry, and the loop
\* then calls Next as well.
Reap ==
    /\ athr = "run" /\ apc = "reap" /\ doomed = None
    /\ it <= Len(ConnList)
    /\ LET c == ConnList[it] IN
       /\ conn[c].lock = "free"
       /\ it' = it + 1
       /\ IF conn[c].sock
          THEN UNCHANGED <<doomed, ConnList, conn>>
          ELSE /\ ConnList' = RemoveAt(ConnList, it)
               /\ doomed' = c
               /\ conn' = [conn EXCEPT ![c].lock = "acc", ![c].stop = TRUE]
    /\ UNCHANGED <<ctlVars, athr, astop, apc, listLock, wake, backlog, faults>>

\* The thread is forgotten, not waited for, when the object goes.
ReapJoin_M ==
    /\ doomed # None
    /\ conn' = [conn EXCEPT ![doomed] = [NoConn EXCEPT !.thr = conn[doomed].thr]]
    /\ doomed' = None
    /\ UNCHANGED <<ctlVars, athr, astop, apc, it, listLock, wake, backlog,
                   ConnList, faults>>

\* ~Connection of the erased entry: Stop waits for the thread.
ReapJoin ==
    /\ doomed # None
    /\ conn[doomed].thr \in {"none", "done"}
    /\ conn' = [conn EXCEPT ![doomed] = NoConn]
    /\ doomed' = None
    /\ UNCHANGED <<ctlVars, athr, astop, apc, it, listLock, wake, backlog,
                   ConnList, faults>>

ReapEnd ==
    /\ athr = "run" /\ apc = "reap" /\ doomed = None
    /\ it > Len(ConnList)
    /\ listLock' = FALSE
    /\ apc' = "accept"
    /\ UNCHANGED <<ctlVars, athr, astop, it, doomed, wake, backlog,
                   ConnList, conn, faults>>

\* ksock_accept: onto the wait queue first, or an early error.
AcceptQueue ==
    /\ athr = "run" /\ apc = "accept"
    /\ IF ListenSocket
       THEN /\ \/ apc' = "queued" /\ wake' = FALSE /\ UNCHANGED faults
               \/ apc' = "top" /\ Fault /\ UNCHANGED wake
            /\ UNCHANGED athr
       ELSE athr' = "done" /\ UNCHANGED <<apc, wake, faults>>
    /\ UNCHANGED <<ctlVars, astop, it, doomed, listLock, backlog, ConnList, conn>>

\* The thread sleeps first: the attempt before schedule() is left out.
AcceptTry_M ==
    /\ athr = "run" /\ apc = "queued"
    /\ apc' = "sleep"
    /\ UNCHANGED <<ctlVars, athr, astop, it, doomed, listLock, wake, backlog,
                   ConnList, conn, faults>>

\* The first, non-blocking attempt; on -EAGAIN the thread calls schedule().
AcceptTry ==
    /\ athr = "run" /\ apc = "queued"
    /\ IF backlog > 0
       THEN apc' = "accepted" /\ backlog' = backlog - 1
       ELSE apc' = "sleep" /\ UNCHANGED backlog
    /\ UNCHANGED <<ctlVars, athr, astop, it, doomed, listLock, wake,
                   ConnList, conn, faults>>

\* Woken: the second attempt; an error makes Run go round again.
AcceptRetry ==
    /\ athr = "run" /\ apc = "sleep" /\ wake
    /\ IF backlog > 0
       THEN apc' = "accepted" /\ backlog' = backlog - 1
       ELSE apc' = "top" /\ UNCHANGED backlog
    /\ UNCHANGED <<ctlVars, athr, astop, it, doomed, listLock, wake,
                   ConnList, conn, faults>>

\* The new Connection is listed and started under ConnListLock.  It is
\* dropped, and its socket closed, if the thread is stopping, there is no
\* object left (a failed MakeShared) or AddTail or Connection::Start fails.
AddConn ==
    /\ athr = "run" /\ apc = "accepted" /\ ~listLock
    /\ \/ /\ ~astop
          /\ \E c \in Free :
                /\ conn' = [conn EXCEPT ![c] =
                      [alive |-> TRUE, sock |-> TRUE, thr |-> "top",
                       stop |-> FALSE, lock |-> "free", client |-> "idle"]]
                /\ ConnList' = Append(ConnList, c)
          /\ UNCHANGED faults
       \/ /\ astop \/ Free = {}
          /\ UNCHANGED <<conn, ConnList, faults>>
       \/ Fault /\ UNCHANGED <<conn, ConnList>>
    /\ apc' = "top"
    /\ UNCHANGED <<ctlVars, athr, astop, it, doomed, listLock, wake, backlog>>

-----------------------------------------------------------------------------
(* Connection::Run, one thread per connection.                             *)

OthersUnchanged == UNCHANGED <<ctlVars, accVars, backlog, ConnList, faults>>

ConnTop(c) ==
    /\ conn[c].thr = "top"
    /\ conn' = [conn EXCEPT ![c].thr = IF conn[c].stop THEN "closing" ELSE "recv"]
    /\ OthersUnchanged

\* RecvPacket returns when the client sent a request or closed its end: a
\* receive timeout is retried without a look at the stop flag.
ConnRecv(c) ==
    /\ conn[c].thr = "recv"
    /\ \/ /\ conn[c].client = "request"
          /\ conn' = [conn EXCEPT ![c].thr = "serve", ![c].client = "idle"]
       \/ /\ conn[c].client = "gone"
          /\ conn' = [conn EXCEPT ![c].thr = "closing"]
    /\ OthersUnchanged

\* HandleRequest and SendPacket: a gone client, or a request that cannot be
\* handled, ends the loop.
ConnServe(c) ==
    /\ conn[c].thr = "serve"
    /\ \/ conn' = [conn EXCEPT ![c].thr =
                     IF conn[c].client = "gone" THEN "closing" ELSE "top"]
          /\ UNCHANGED faults
       \/ conn' = [conn EXCEPT ![c].thr = "closing"] /\ Fault
    /\ UNCHANGED <<ctlVars, accVars, backlog, ConnList>>

\* The thread closes the socket under StateLock.
ConnClose(c) ==
    /\ conn[c].thr = "closing" /\ conn[c].lock = "free"
    /\ conn' = [conn EXCEPT ![c].sock = FALSE, ![c].thr = "exit"]
    /\ OthersUnchanged

\* Thread::ExecuteRoutine sets CompEvent, for good.
ConnExit(c) ==
    /\ conn[c].thr = "exit"
    /\ conn' = [conn EXCEPT ![c].thr = "done"]
    /\ OthersUnchanged

ConnStep(c) ==
    ConnTop(c) \/ ConnRecv(c) \/ ConnServe(c) \/ ConnClose(c) \/ ConnExit(c)

-----------------------------------------------------------------------------
(* The clients.                                                            *)

ClientConnect ==
    /\ ListenSocket /\ backlog < MaxBacklog
    /\ backlog' = backlog + 1
    /\ wake' = (wake \/ apc \in {"queued", "sleep"})
    /\ UNCHANGED <<ctlVars, athr, astop, apc, it, doomed, listLock,
                   ConnList, conn, faults>>

ClientSend(c) ==
    /\ conn[c].alive /\ conn[c].client = "idle"
    /\ conn' = [conn EXCEPT ![c].client = "request"]
    /\ OthersUnchanged

ClientClose(c) ==
    /\ conn[c].alive /\ conn[c].client # "gone"
    /\ conn' = [conn EXCEPT ![c].client = "gone"]
    /\ OthersUnchanged

-----------------------------------------------------------------------------
StopStep == AbortAccept \/ JoinAccept \/ PopConn \/ StopDone \/ ConnStop \/ ConnJoin

AcceptStep == LoopTop \/ Reap \/ ReapJoin \/ ReapEnd \/ AcceptQueue \/ AcceptTry
              \/ AcceptRetry \/ AddConn

Next ==
    \/ Start \/ StopThread \/ StopStep \/ AcceptStep
    \/ \E c \in Conns : ConnStep(c)
    \/ ClientConnect
    \/ \E c \in Conns : ClientSend(c) \/ ClientClose(c)

Spec == Init /\ [][Next]_vars

\* Runnable threads run, and every client leaves in the end.
FairSpec ==
    /\ Spec
    /\ WF_vars(StopStep) /\ WF_vars(AcceptStep)
    /\ \A c \in Conns : WF_vars(ConnStep(c)) /\ WF_vars(ClientClose(c))

\* The same, and new clients never cease to come.
BusySpec == FairSpec /\ WF_vars(ClientConnect)

-----------------------------------------------------------------------------
TypeOK ==
    /\ ctl \in {"idle", "abort", "join", "drain", "connstop", "connjoin"}
    /\ stopping \in Conns \cup {None} /\ doomed \in Conns \cup {None}
    /\ ListenSocket \in BOOLEAN /\ astop \in BOOLEAN
    /\ listLock \in BOOLEAN /\ wake \in BOOLEAN
    /\ athr \in {"none", "run", "done"}
    /\ apc \in {"top", "reap", "accept", "queued", "sleep", "accepted"}
    /\ it \in 1 .. Cardinality(Conns) + 2
    /\ backlog \in 0 .. MaxBacklog /\ faults \in 0 .. MaxFaults
    /\ ConnList \in Seq(Conns)
    /\ conn \in [Conns ->
          [alive : BOOLEAN, sock : BOOLEAN, stop : BOOLEAN,
           thr : {"none", "top", "recv", "serve", "closing", "exit", "done"},
           lock : {"free", "ctl", "acc"}, client : {"idle", "request", "gone"}]]

\* A thread that still executes Connection::Run has its Connection: every
\* way to destroy the object (reaping, Server::Stop) waits for the thread.
\* Nor does a live connection get lost: it is in ConnList or in the hands of
\* the one thread that is about to destroy it, and listed only once.
ConnOwned ==
    /\ TypeOK
    /\ \A c \in Conns :
         /\ conn[c].thr \notin {"none", "done"} => conn[c].alive
         /\ conn[c].alive <=> c \in ToSet(ConnList) \cup {stopping, doomed}
    /\ IsInjective(ConnList)

\* When Stop has returned there is no accepting thread, no connection and no
\* connection thread: an accept that races with Stop leaves nothing behind.
StoppedClean ==
    ctl = "idle" /\ ~ListenSocket =>
        /\ athr = "none" /\ ConnList = <<>> /\ backlog = 0
        /\ \A c \in Conns : conn[c].thr = "none"

\* A client that connects while the accepting thread goes to sleep is seen:
\* ksock_accept queues itself before its first attempt.
NoLostConnect == athr = "run" /\ apc = "sleep" /\ backlog > 0 => wake

\* As long as clients keep coming and nobody stops the server, a connection
\* whose socket is closed is destroyed: the entry a pass skips moves towards
\* the head of the list.
ClosedReaped ==
    \A c \in Conns :
        (conn[c].alive /\ ~conn[c].sock) ~> (~conn[c].alive \/ ctl # "idle")

\* Server::Stop gets past the wait for each connection thread.
ConnThreadStops == (ctl = "connjoin") ~> (ctl # "connjoin")
=============================================================================
