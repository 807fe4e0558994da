---------------------------- MODULE CoreThreads -----------------------------
(***************************************************************************)
(* The three places of the core library where threads and callbacks wait   *)
(* for each other: Worker, BioList and a connection's PacketStream.  They  *)
(* share no state, so a behaviour is one of one of them, chosen at the     *)
(* start, and the variables of the others keep None (faults and cur belong *)
(* to the part that runs).                                                 *)
(***************************************************************************)
EXTENDS Naturals, Sequences

CONSTANTS Callers,                          \* of Worker
          MaxIos,                           \* of BioList
          Contents, Bare, MaxRequests, Window,   \* of PacketStream
          MaxFaults, None

ASSUME CoreThreadsAssumption ==
    /\ MaxIos \in Nat \ {0} /\ MaxFaults \in Nat /\ None \notin Callers
    /\ Bare \subseteq Contents /\ MaxRequests \in Nat /\ Window \in Nat \ {0}

VARIABLES
    part,       \* the part that runs
    stopping, running, lock, taskList, threadStop, thread, dtor, caller, status,
    complete, settled,
    mem, pc, fuaMode, n, ready, bio, result, count, event, saw, list, ret,
    up, down, toSend, cst, cbuf, srv, sbuf, sent, handled, answers, lost,
    cur, faults

W == INSTANCE Worker
B == INSTANCE BioList
P == INSTANCE PacketStream

workerOnly == <<stopping, running, lock, taskList, threadStop, thread, dtor, caller,
                status, complete, settled>>
bioOnly == <<mem, pc, fuaMode, n, ready, bio, result, count, event, saw, list, ret>>
streamOnly == <<up, down, toSend, cst, cbuf, srv, sbuf, sent, handled, answers, lost>>

vars == <<part, workerOnly, bioOnly, streamOnly, cur, faults>>

NoWorker ==
    /\ stopping = None /\ running = None /\ lock = None /\ taskList = None
    /\ threadStop = None /\ thread = None /\ dtor = None /\ caller = None
    /\ status = None /\ complete = None /\ settled = None
NoBio ==
    /\ mem = None /\ pc = None /\ fuaMode = None /\ n = None /\ ready = None
    /\ bio = None /\ result = None /\ count = None /\ event = None /\ saw = None
    /\ list = None /\ ret = None
NoStream ==
    /\ up = None /\ down = None /\ toSend = None /\ cst = None /\ cbuf = None
    /\ srv = None /\ sbuf = None /\ sent = None /\ handled = None
    /\ answers = None /\ lost = None

Init ==
    \/ part = "worker" /\ W!Init /\ NoBio /\ NoStream
    \/ part = "bio" /\ B!Init /\ NoWorker /\ NoStream /\ cur = None
    \/ part = "stream" /\ P!Init /\ NoWorker /\ NoBio

Worker(A) == part = "worker" /\ A /\ UNCHANGED <<part, bioOnly, streamOnly>>
Bio(A) == part = "bio" /\ A /\ UNCHANGED <<part, workerOnly, streamOnly, cur>>
Stream(A) == part = "stream" /\ A /\ UNCHANGED <<part, workerOnly, bioOnly>>

Next == Worker(W!Next) \/ Bio(B!Next) \/ Stream(P!Next)

Spec == Init /\ [][Next]_vars

\* Threads are scheduled and spinlocks are handed over; nobody has to destroy a
\* worker, and nobody has to call Execute.  The device completes every bio.  TCP
\* delivers what was written, and the client reads on; a timeout never has to
\* happen, and a client never has to close an idle connection.
FairSpec ==
    /\ Spec
    /\ WF_vars(Worker(W!RunTop \/ W!RunTask)) /\ SF_vars(Worker(W!Take))
    /\ WF_vars(Worker(W!StopThread \/ W!JoinThread)) /\ SF_vars(Worker(W!Drain))
    /\ \A c \in Callers :
         SF_vars(Worker(W!ExecuteLocked(c))) /\ WF_vars(Worker(W!AddTail(c) \/ W!WaitTask(c)))
    /\ WF_vars(Bio(B!Owner)) /\ \A i \in 1 .. MaxIos : WF_vars(Bio(B!Completion(i)))
    /\ WF_vars(Stream(P!RecvSome \/ P!Handle \/ P!SendSome))
    /\ WF_vars(Stream(P!RecvFail)) /\ WF_vars(Stream(P!ClientStep))

-----------------------------------------------------------------------------
TypeOK ==
    /\ part \in {"worker", "bio", "stream"}
    /\ part = "worker" => W!TypeOK
    /\ part = "bio" => B!TypeOK
    /\ part = "stream" => P!TypeOK

\* ~Worker against Execute: an accepted task is in the list, with the thread or
\* settled, and in one of them only; a worker that is gone has left none behind.
OnePlace == part = "worker" => W!OnePlace

\* ExecuteAndWait comes back, with or without the worker being destroyed.
WaitReturns == \A c \in Callers :
    (part = "worker" /\ caller[c] = "wait") ~> (part = "worker" /\ caller[c] # "wait")

\* SubmitWaitResult returns success only when every request was submitted and
\* succeeded, however the completions race for BioList::Result.
ResultTells == part = "bio" => B!ResultTells

\* The bio with PREFLUSH and FUA is submitted after all the others completed
\* without an error.
FuaLast == part = "bio" => B!FuaLast

\* Page and bio are there while the device may use them, and completions do not
\* touch the counter or the result of a list that was destroyed.
InFlightAlive == part = "bio" => B!InFlightAlive

\* Destroying a BioList gives back everything AddIo took, wherever it failed.
NothingLeaks == part = "bio" => B!NothingLeaks

\* SubmitWait comes back, whenever Wait looks at the counter.
SubmitReturns == (part = "bio" /\ pc = "submit") ~> (part = "bio" /\ pc = "gone")

\* A request or an answer of which a timed-out call dropped or repeated some
\* bytes is neither executed nor accepted, nor is any later one.
NoResync == part = "stream" => P!NoResync

\* The server executes what the client asked, each request at most once and in
\* order, and an answer that the client takes is the one to its own request,
\* although RecvResponse compares only its type and result.
AnswersMatch == part = "stream" => P!AnswersMatch

\* A request is answered, or the client learns that the connection has failed:
\* Run closes it when memory for packet or response is short, and a repeated
\* answer fails its hash.  Only a receive that timed out and dropped part of
\* the request leaves both ends waiting.
RequestAnswered == \A k \in 1 .. MaxRequests :
    (part = "stream" /\ Len(sent) >= k)
        ~> (part = "stream" /\ (Len(answers) >= k \/ cst \in {"failed", "closed"}
                                 \/ lost.up > 0))
=============================================================================
