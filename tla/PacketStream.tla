---------------------------- MODULE PacketStream ----------------------------
(***************************************************************************)
(* One connection: packets over a TCP byte stream.  The server's side is   *)
(* Connection::Run with RecvPacket and SendPacket (kstor/server.cpp),      *)
(* RecvAll and SendAll (core/socket.cpp) and the timed reads and writes    *)
(* below them (system/ksocket.c); the other side is golang/client.go.      *)
(*                                                                         *)
(* A packet's header and its data are two units each, so that a read can   *)
(* stop in the middle of either.  A hash is taken to tell apart everything *)
(* that differs.  Every packet is a ping: HandlePing echoes it, and its    *)
(* type and result are always the ones the client expects.  What the other *)
(* handlers do is in module Storage.  Allocations may fail.                *)
(***************************************************************************)
EXTENDS Naturals, Sequences, SequencesExt

CONSTANTS Contents,     \* what packets can hold
          Bare,         \* the contents whose DataSize is 0
          MaxRequests,  \* bound: requests of the client
          Window,       \* units TCP buffers in each direction
          MaxFaults     \* bound: failed allocations

VARIABLES
    up, down,   \* units on the way to the server, to the client
    toSend,     \* units the client has yet to write of its packet
    cst, cbuf,  \* client: idle, sending, header, data, failed, closed; input
    srv,        \* server thread: header, data, handle, send, closed
    sbuf,       \* units the current ksock_recv has read, ksock_send written
    cur,        \* content the parsed header announces
    sent, handled, answers,     \* history: contents, in order
    lost,       \* history: the request of which a timeout dropped units, and
                \* the answer of which it repeated some; 0 if there is none
    faults      \* failed allocations

client == <<toSend, cst, cbuf, sent, answers>>
vars == <<up, down, client, srv, sbuf, cur, handled, lost, faults>>

Header(c) == << <<c, "h1">>, <<c, "h2">> >>
Data(c)   == IF c \in Bare THEN <<>> ELSE << <<c, "d1">>, <<c, "d2">> >>
Packet(c) == Header(c) \o Data(c)

Init ==
    /\ up = <<>> /\ down = <<>> /\ toSend = <<>> /\ cbuf = <<>>
    /\ cst = "idle" /\ srv = "header" /\ sbuf = <<>> /\ cur \in Contents
    /\ sent = <<>> /\ handled = <<>> /\ answers = <<>> /\ lost = [up |-> 0, down |-> 0]
    /\ faults = 0

-----------------------------------------------------------------------------
(* The server's thread.                                                    *)

Closed == srv' = "closed" /\ sbuf' = <<>>
Fault == faults < MaxFaults /\ faults' = faults + 1

\* Units already read or written by the current call are forgotten.
LoseUp   == lost' = IF sbuf = <<>> THEN lost ELSE [lost EXCEPT !.up = Len(handled) + 1]
LoseDown == lost' = IF sbuf = <<>> THEN lost ELSE [lost EXCEPT !.down = Len(handled)]

\* The buffer RecvAll is filling, and the one SendAll is writing.
Want == IF srv = "header" THEN 2 ELSE Len(Data(cur))
Out  == Packet(cur)

\* A complete header: Packet::Parse tests its hash, magic and size.  A packet
\* without data is complete with its header.  There may be no memory for the
\* packet or for its body.
Parse(u) ==
    \/ /\ \E c \in Contents : u = Header(c)
       /\ cur' = u[1][1]
       /\ srv' = IF u[1][1] \in Bare THEN "handle" ELSE "data"
       /\ sbuf' = <<>> /\ UNCHANGED faults
    \/ (\A c \in Contents : u # Header(c)) /\ Closed /\ UNCHANGED <<cur, faults>>
    \/ Closed /\ Fault /\ UNCHANGED cur

\* A complete body: its hash is compared with the one in the header.
CheckData(u) ==
    /\ IF u = Data(cur) THEN srv' = "handle" /\ sbuf' = <<>> ELSE Closed
    /\ UNCHANGED <<cur, faults>>

\* sock_recvmsg returned k units within the time allowed.
RecvSome ==
    /\ srv \in {"header", "data"}
    /\ \E k \in 1 .. Len(up) :
         /\ k <= Want - Len(sbuf)
         /\ up' = SubSeq(up, k + 1, Len(up))
         /\ LET u == sbuf \o SubSeq(up, 1, k) IN
              IF Len(u) < Want
              THEN sbuf' = u /\ UNCHANGED <<srv, cur, faults>>
              ELSE IF srv = "header" THEN Parse(u) ELSE CheckData(u)
    /\ UNCHANGED <<down, client, handled, lost>>

\* The timed-out read keeps its place in the buffer but not its count.
RecvTimeout_MT ==
    /\ srv \in {"header", "data"} /\ up = <<>> /\ cst # "closed"
    /\ sbuf' = sbuf \o sbuf
    /\ LoseUp
    /\ UNCHANGED <<up, down, client, srv, cur, handled, faults>>

\* sock_recvmsg timed out with -EAGAIN.  ksock_recv returns the error without
\* the count of what it had read, and RecvAll starts over at its offset.
RecvTimeout ==
    /\ srv \in {"header", "data"} /\ up = <<>> /\ cst # "closed"
    /\ sbuf' = <<>>
    /\ LoseUp
    /\ UNCHANGED <<up, down, client, srv, cur, handled, faults>>

\* The time ran out just as some units came (-ETIMEDOUT), or the stream has
\* ended (-ECONNRESET): Run closes the connection.
RecvFail ==
    /\ srv \in {"header", "data"}
    /\ \/ sbuf # <<>> /\ LoseUp
       \/ up = <<>> /\ cst = "closed" /\ UNCHANGED lost
    /\ Closed
    /\ UNCHANGED <<up, down, client, cur, handled, faults>>

\* A request that cannot be handled is passed over (continue for break).
HandleFail_M ==
    /\ srv = "handle" /\ Fault
    /\ srv' = "header" /\ sbuf' = <<>>
    /\ UNCHANGED <<up, down, client, cur, handled, lost>>

\* There is no memory for the response: Run ends without an answer.
HandleFail ==
    /\ srv = "handle" /\ Fault
    /\ Closed
    /\ UNCHANGED <<up, down, client, cur, handled, lost>>

Handle ==
    /\ srv = "handle"
    /\ handled' = Append(handled, cur)
    /\ srv' = "send" /\ sbuf' = <<>>
    /\ UNCHANGED <<up, down, client, cur, lost, faults>>

\* sock_sendmsg took k units.
SendSome ==
    /\ srv = "send"
    /\ \E k \in 1 .. Window - Len(down) :
         /\ k <= Len(Out) - Len(sbuf)
         /\ LET u == SubSeq(Out, Len(sbuf) + 1, Len(sbuf) + k) IN
              /\ down' = down \o u
              /\ IF sbuf \o u = Out
                 THEN srv' = "header" /\ sbuf' = <<>>
                 ELSE sbuf' = sbuf \o u /\ UNCHANGED srv
    /\ UNCHANGED <<up, client, cur, handled, lost, faults>>

\* An executed request is executed again when its answer is late.
SendTimeout_M ==
    /\ srv = "send" /\ Len(down) = Window
    /\ srv' = "handle" /\ sbuf' = <<>>
    /\ LoseDown
    /\ UNCHANGED <<up, down, client, cur, handled, faults>>

\* sock_sendmsg timed out with -EAGAIN: ksock_send forgets what it wrote and
\* SendAll writes it again.
SendTimeout ==
    /\ srv = "send" /\ Len(down) = Window
    /\ sbuf' = <<>>
    /\ LoseDown
    /\ UNCHANGED <<up, down, client, srv, cur, handled, faults>>

\* -ETIME after a partial write, or the client is gone.
SendFail ==
    /\ srv = "send"
    /\ \/ sbuf # <<>> /\ LoseDown
       \/ cst = "closed" /\ UNCHANGED lost
    /\ Closed
    /\ UNCHANGED <<up, down, client, cur, handled, faults>>

-----------------------------------------------------------------------------
(* The client: SendRecv sends a request and waits for the answer.          *)

ClientRequest ==
    /\ cst = "idle"
    /\ Len(sent) < MaxRequests
    /\ \E c \in Contents : toSend' = Packet(c) /\ sent' = Append(sent, c)
    /\ cst' = "sending"
    /\ UNCHANGED <<up, down, cbuf, answers, srv, sbuf, cur, handled, lost, faults>>

ClientWrite ==
    /\ cst = "sending"
    /\ IF srv = "closed"
       THEN cst' = "failed" /\ UNCHANGED <<up, toSend>>
       ELSE IF toSend = <<>>
       THEN cst' = "header" /\ UNCHANGED <<up, toSend>>
       ELSE /\ Len(up) < Window
            /\ up' = Append(up, Head(toSend)) /\ toSend' = Tail(toSend)
            /\ UNCHANGED cst
    /\ UNCHANGED <<down, cbuf, sent, answers, srv, sbuf, cur, handled, lost, faults>>

\* RecvResponse compares type and result, which fit, and not the content: a
\* client takes whatever answer comes with both hashes right.
Accept(c) == answers' = Append(answers, c) /\ cbuf' = <<>> /\ cst' = "idle"

ClientHeader(u) ==
    IF Len(u) < 2
    THEN cbuf' = u /\ UNCHANGED <<cst, answers>>
    ELSE IF \E c \in Contents : u = Header(c)
    THEN IF u[1][1] \in Bare THEN Accept(u[1][1])
         ELSE cst' = "data" /\ cbuf' = u /\ UNCHANGED answers
    ELSE cst' = "failed" /\ cbuf' = <<>> /\ UNCHANGED answers

\* The client does not compare the body's hash.
ClientData_M(u) ==
    IF Len(u) < 4
    THEN cbuf' = u /\ UNCHANGED <<cst, answers>>
    ELSE Accept(u[1][1])

ClientData(u) ==
    IF Len(u) < 4
    THEN cbuf' = u /\ UNCHANGED <<cst, answers>>
    ELSE IF u = Packet(u[1][1])
    THEN Accept(u[1][1])
    ELSE cst' = "failed" /\ cbuf' = <<>> /\ UNCHANGED answers

ClientRead ==
    /\ cst \in {"header", "data"} /\ down # <<>>
    /\ down' = Tail(down)
    /\ LET u == Append(cbuf, Head(down)) IN
         IF cst = "header" THEN ClientHeader(u) ELSE ClientData(u)
    /\ UNCHANGED <<up, toSend, sent, srv, sbuf, cur, handled, lost, faults>>

ClientEof ==
    /\ cst \in {"header", "data"} /\ down = <<>> /\ srv = "closed"
    /\ cst' = "failed" /\ cbuf' = <<>>
    /\ UNCHANGED <<up, down, toSend, sent, answers, srv, sbuf, cur, handled, lost, faults>>

ClientClose ==
    /\ cst \in {"idle", "failed"}
    /\ cst' = "closed"
    /\ UNCHANGED <<up, down, toSend, cbuf, sent, answers, srv, sbuf, cur,
                   handled, lost, faults>>

-----------------------------------------------------------------------------
ServerStep == RecvSome \/ RecvTimeout \/ RecvFail \/ Handle \/ HandleFail
              \/ SendSome \/ SendTimeout \/ SendFail

ClientStep == ClientRequest \/ ClientWrite \/ ClientRead \/ ClientEof

Next == ServerStep \/ ClientStep \/ ClientClose

Spec == Init /\ [][Next]_vars

-----------------------------------------------------------------------------
Units == Contents \X {"h1", "h2", "d1", "d2"}

TypeOK ==
    /\ up \in Seq(Units) /\ down \in Seq(Units) /\ toSend \in Seq(Units)
    /\ Len(up) <= Window /\ Len(down) <= Window
    /\ sbuf \in Seq(Units) /\ cbuf \in Seq(Units) /\ Len(sbuf) < 4
    /\ cst \in {"idle", "sending", "header", "data", "failed", "closed"}
    /\ srv \in {"header", "data", "handle", "send", "closed"}
    /\ cur \in Contents /\ lost \in [up : 0 .. MaxRequests, down : 0 .. MaxRequests]
    /\ faults \in 0 .. MaxFaults
    /\ {sent, handled, answers} \subseteq Seq(Contents)

\* Whatever the timeouts do to the stream, the server executes what a client
\* like client.go asks, each request at most once and in order, and an answer
\* that the client takes is the one to its own request, although it compares
\* neither content nor an id: answers are neither stale nor out of order.
AnswersMatch == IsPrefix(handled, sent) /\ IsPrefix(answers, handled)

\* Units that a timed-out call dropped or repeated never go unnoticed: the
\* request is not executed, nor any after it, and the answer not accepted.
NoResync ==
    /\ lost.up > 0 => Len(handled) < lost.up
    /\ lost.down > 0 => Len(answers) < lost.down
=============================================================================
