------------------------------ MODULE BioList -------------------------------
(***************************************************************************)
(* Bio and BioList (core/bio.h) over the bio functions of system/kapi.c:   *)
(* one thread adds requests to a list, submits them, waits and destroys    *)
(* the list, while every bio completes in a context of its own.            *)
(*                                                                         *)
(* The completion of a bio is modelled step by step, in the order of       *)
(* Bio::EndIo and BioList::PostEndIoHandler: result, EndIoEvent, result of *)
(* the list (looked at and then written), counter, ReqCompleteEvent.       *)
(* Event::Reset does nothing in the code and is left out.                  *)
(***************************************************************************)
EXTENDS Naturals, FiniteSets

CONSTANTS MaxIos,       \* bound: requests of a list
          MaxFaults     \* bound: failed allocations and failed bios

Ios == 1 .. MaxIos

VARIABLES
    mem,        \* per request: the kernel objects it holds
    pc,         \* the thread that owns the list
    fuaMode,    \* the preflushFua argument of SubmitWait
    n,          \* length of ReqList
    ready,      \* bios for which Submit has set the handler
    bio,        \* per request: new, or how far submission and completion are
    result,     \* Bio::Result
    count,      \* ReqCompleteCount
    event,      \* ReqCompleteEvent
    saw,        \* per completion: it found the list's Result without error
    list,       \* BioList::Result
    ret,        \* what the caller got
    faults

ioVars == <<bio, result, count, event, saw, list>>
vars == <<mem, pc, fuaMode, n, ready, ioVars, ret, faults>>

Ok == "ok"
Bad == "error"
NoMem == [page |-> 0, bio |-> FALSE, priv |-> FALSE, vcnt |-> 0]

Fault == faults < MaxFaults /\ faults' = faults + 1

Init ==
    /\ mem = [i \in Ios |-> NoMem] /\ pc = "page" /\ fuaMode \in BOOLEAN
    /\ n = 0 /\ ready = {} /\ bio = [i \in Ios |-> "new"]
    /\ result = [i \in Ios |-> Ok] /\ count = 0 /\ event = FALSE
    /\ saw = [i \in Ios |-> FALSE] /\ list = Ok /\ ret = "none" /\ faults = 0

-----------------------------------------------------------------------------
(* The kernel objects of a request: a page with its references and a bio.  *)

AllocBio(m) == [m EXCEPT !.bio = TRUE]

SetBioEndIo(m) == [m EXCEPT !.priv = TRUE]

SetBioPage(m) == [m EXCEPT !.page = @ + 1, !.vcnt = @ + 1]

\* A bio is freed without giving back the reference to its page.
FreeBio_M(m) == [m EXCEPT !.bio = FALSE, !.priv = FALSE, !.vcnt = 0]

FreeBio(m) == [m EXCEPT !.bio = FALSE, !.priv = FALSE, !.page = @ - m.vcnt, !.vcnt = 0]

\* ~Bio, then its PageList: the last reference of the Page object frees the page.
DestroyBio(m) ==
    LET f == IF m.bio THEN FreeBio(m) ELSE m
    IN  [f EXCEPT !.page = @ - 1]

-----------------------------------------------------------------------------
(* AddIo: page, bio, its private data, its page, its place in the list.    *)

cur == n + 1

Acquire(from, to, m) ==
    /\ pc = from
    /\ mem' = [mem EXCEPT ![cur] = m]
    /\ pc' = to
    /\ UNCHANGED <<fuaMode, n, ready, ioVars, ret, faults>>

\* A failing AddIo destroys what it made.  The caller returns the error and
\* destroys the list (ApplyBlocks), or goes on with what is in it (Run).
GiveUp(from) ==
    /\ pc = from /\ Fault
    /\ mem' = [mem EXCEPT ![cur] = IF from = "page" THEN @ ELSE DestroyBio(@)]
    /\ \/ pc' = "return" /\ ret' = Bad
       \/ pc' = "page" /\ UNCHANGED ret
    /\ UNCHANGED <<fuaMode, n, ready, ioVars>>

CreatePage ==
    /\ n < MaxIos
    /\ Acquire("page", "bio", [mem[cur] EXCEPT !.page = 1])

AddIo ==
    \/ Acquire("bio", "priv", AllocBio(mem[cur]))
    \/ Acquire("priv", "setpage", SetBioEndIo(mem[cur]))
    \/ Acquire("setpage", "link", SetBioPage(mem[cur]))
    \/ \E from \in {"page", "bio", "priv", "setpage", "link"} :
           n < MaxIos /\ GiveUp(from)

Link ==
    /\ pc = "link" /\ n' = n + 1 /\ pc' = "page"
    /\ UNCHANGED <<mem, fuaMode, ready, ioVars, ret, faults>>

-----------------------------------------------------------------------------
(* SubmitWait.                                                             *)

\* What Submit submits: with preflushFua the last bio is left for later.
Plain == 1 .. (IF fuaMode THEN n - 1 ELSE n)

\* Submit raises the counter for all of them before it submits the first.
SubmitWait ==
    /\ pc = "page" /\ n > 0
    /\ count' = Cardinality(Plain)
    /\ pc' = IF Plain = {} THEN "last" ELSE "submit"
    /\ UNCHANGED <<mem, fuaMode, n, ready, bio, result, event, saw, list, ret, faults>>

SubmitEmpty ==
    /\ pc = "page" /\ n = 0
    /\ pc' = "return" /\ ret' = list
    /\ UNCHANGED <<mem, fuaMode, n, ready, ioVars, faults>>

SubmitBio(i) == bio' = [bio EXCEPT ![i] = "submitted"]

Submit ==
    /\ pc = "submit"
    /\ \E i \in Plain :
         /\ ready = 1 .. i - 1
         /\ ready' = ready \cup {i}
         /\ SubmitBio(i)
         /\ pc' = IF i = Cardinality(Plain) THEN "wait" ELSE "submit"
    /\ UNCHANGED <<mem, fuaMode, n, result, count, event, saw, list, ret, faults>>

Signalled(i) == bio[i] \in {"signalled", "checked", "merged", "counted", "done"}

\* Waits for the event of the first bio only.
Wait_M ==
    /\ pc = "wait"
    /\ pc' = IF Signalled(1) THEN "result" ELSE "wait"
    /\ UNCHANGED <<mem, fuaMode, n, ready, ioVars, ret, faults>>

\* A counter that is already zero is not waited for: the last completion may
\* still have ReqCompleteEvent to set.
Wait ==
    /\ pc = "wait"
    /\ pc' = IF count # 0 THEN "event" ELSE "result"
    /\ UNCHANGED <<mem, fuaMode, n, ready, ioVars, ret, faults>>

EventWait ==
    /\ pc = "event" /\ event
    /\ pc' = "result"
    /\ UNCHANGED <<mem, fuaMode, n, ready, ioVars, ret, faults>>

\* The result of the first bios is not looked at.
WaitDone_M ==
    /\ pc = "result"
    /\ IF fuaMode THEN pc' = "last" /\ UNCHANGED ret
       ELSE pc' = "return" /\ ret' = list
    /\ UNCHANGED <<mem, fuaMode, n, ready, ioVars, faults>>

WaitDone ==
    /\ pc = "result"
    /\ IF fuaMode /\ list = Ok THEN pc' = "last" /\ UNCHANGED ret
       ELSE pc' = "return" /\ ret' = list
    /\ UNCHANGED <<mem, fuaMode, n, ready, ioVars, faults>>

\* The last bio has no handler: SubmitWaitResult of Bio waits for its event.
SubmitLast ==
    /\ pc = "last"
    /\ SubmitBio(n)
    /\ pc' = "lastwait"
    /\ UNCHANGED <<mem, fuaMode, n, ready, result, count, event, saw, list, ret, faults>>

LastDone ==
    /\ pc = "lastwait" /\ Signalled(n)
    /\ list' = result[n] /\ ret' = result[n]
    /\ pc' = "return"
    /\ UNCHANGED <<mem, fuaMode, n, ready, bio, result, count, event, saw, faults>>

\* The list goes out of scope, and ReqList with every Bio in it.
Destroy ==
    /\ pc = "return"
    /\ mem' = [i \in Ios |-> IF i <= n THEN DestroyBio(mem[i]) ELSE mem[i]]
    /\ pc' = "gone"
    /\ UNCHANGED <<fuaMode, n, ready, ioVars, ret, faults>>

Owner ==
    \/ CreatePage \/ AddIo \/ Link \/ SubmitWait \/ SubmitEmpty \/ Submit
    \/ Wait \/ EventWait \/ WaitDone \/ SubmitLast \/ LastDone \/ Destroy

-----------------------------------------------------------------------------
(* Completions: Bio::EndIo and PostEndIoHandler.                           *)

At(i, from, to) ==
    /\ bio[i] = from
    /\ bio' = [bio EXCEPT ![i] = to]
    /\ UNCHANGED <<mem, pc, fuaMode, n, ready, ret>>

EndIo(i) ==
    /\ At(i, "submitted", "ended")
    /\ \/ UNCHANGED <<result, faults>>
       \/ result' = [result EXCEPT ![i] = Bad] /\ Fault
    /\ UNCHANGED <<count, event, saw, list>>

\* EndIoEvent.SetAll, and the handler if there is one.
Signal(i) ==
    /\ At(i, "ended", "signalled")
    /\ UNCHANGED <<result, count, event, saw, list, faults>>

NoHandler(i) ==
    /\ i \notin ready /\ At(i, "signalled", "done")
    /\ UNCHANGED <<result, count, event, saw, list, faults>>

CheckResult(i) ==
    /\ i \in ready /\ At(i, "signalled", "checked")
    /\ saw' = [saw EXCEPT ![i] = list = Ok]
    /\ UNCHANGED <<result, count, event, list, faults>>

\* The bio's own result overwrites an error that is already there.
MergeResult_M(i) ==
    /\ At(i, "checked", "merged")
    /\ list' = result[i]
    /\ UNCHANGED <<result, count, event, saw, faults>>

MergeResult(i) ==
    /\ At(i, "checked", "merged")
    /\ list' = IF result[i] # Ok /\ saw[i] THEN result[i] ELSE list
    /\ UNCHANGED <<result, count, event, saw, faults>>

\* The counter is tested before it is decremented.
DecCount_M(i) ==
    /\ At(i, "merged", IF count = 0 THEN "counted" ELSE "done")
    /\ count' = count - 1
    /\ UNCHANGED <<result, event, saw, list, faults>>

\* DecAndTest: the one that brings the counter to zero sets the event.
DecCount(i) ==
    /\ At(i, "merged", IF count = 1 THEN "counted" ELSE "done")
    /\ count' = count - 1
    /\ UNCHANGED <<result, event, saw, list, faults>>

SetAll(i) ==
    /\ At(i, "counted", "done")
    /\ event' = TRUE
    /\ UNCHANGED <<result, count, saw, list, faults>>

Completion(i) ==
    \/ EndIo(i) \/ Signal(i) \/ NoHandler(i) \/ CheckResult(i)
    \/ MergeResult(i) \/ DecCount(i) \/ SetAll(i)

-----------------------------------------------------------------------------
Next == Owner \/ \E i \in Ios : Completion(i)

Spec == Init /\ [][Next]_vars

-----------------------------------------------------------------------------
Submitted == {i \in Ios : bio[i] # "new"}
Failed == {i \in Ios : result[i] # Ok}

TypeOK ==
    /\ mem \in [Ios -> [page : 0 .. 2, bio : BOOLEAN, priv : BOOLEAN, vcnt : 0 .. 1]]
    /\ pc \in {"page", "bio", "priv", "setpage", "link", "submit", "wait", "event",
               "result", "last", "lastwait", "return", "gone"}
    /\ fuaMode \in BOOLEAN /\ n \in 0 .. MaxIos /\ ready \subseteq Ios
    /\ bio \in [Ios -> {"new", "submitted", "ended", "signalled", "checked", "merged",
                        "counted", "done"}]
    /\ result \in [Ios -> {Ok, Bad}] /\ list \in {Ok, Bad} /\ ret \in {"none", Ok, Bad}
    /\ count \in 0 .. MaxIos /\ event \in BOOLEAN /\ saw \in [Ios -> BOOLEAN]
    /\ faults \in 0 .. MaxFaults

\* SubmitWaitResult returns success only when every request of the list was
\* submitted and succeeded, and an error only when something failed, in
\* whatever order the bios complete and race for BioList::Result.
ResultTells ==
    pc \in {"return", "gone"} =>
        /\ ret = Ok => Submitted = 1 .. n /\ Failed = {}
        /\ ret = Bad => faults > 0

\* The bio with PREFLUSH and FUA, the journal header, is submitted only when
\* all the others have completed without an error: what it vouches for is on
\* the device.
FuaLast ==
    fuaMode /\ n > 1 /\ bio[n] # "new" =>
        \A i \in 1 .. n - 1 : bio[i] \notin {"new", "submitted"} /\ result[i] = Ok

\* A page and a bio that the device may still use are there, and nothing but
\* the setting of ReqCompleteEvent is left to be done to a list that is gone:
\* its counter and its result are not touched any more.
InFlightAlive ==
    /\ \A i \in Ios : bio[i] \in {"submitted", "ended"} =>
          mem[i].bio /\ mem[i].priv /\ mem[i].page = 2
    /\ pc = "gone" => \A i \in ready : bio[i] \in {"counted", "done"}

\* Whatever fails on the way, destroying the list gives back every page
\* reference, bio and private data it took.
NothingLeaks == pc = "gone" => \A i \in Ios : mem[i] = NoMem
=============================================================================
