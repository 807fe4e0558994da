--------------------------- MODULE ThreadsProofs ---------------------------
(***************************************************************************)
(* Proofs about the worker, for any number of callers and tasks, about     *)
(* lists of bios of any length, and about a connection with any contents,  *)
(* window and number of requests: where a task is, what SubmitWait         *)
(* returns, which bio flushes, whose pages the device writes, what is      *)
(* freed, and which requests and answers of a broken stream are taken.     *)
(***************************************************************************)
EXTENDS CoreThreads, FiniteSetTheorems, TLAPS

USE CoreThreadsAssumption

-----------------------------------------------------------------------------
(* Lists of tasks.                                                         *)

\* The elements of a list, and that no element is in it twice.
Elems(s) == {s[i] : i \in 1 .. Len(s)}
Once(s) == \A i, j \in 1 .. Len(s) : s[i] = s[j] => i = j

\* AddTail of an element.
LEMMA AppendOne ==
    ASSUME NEW T, NEW s \in Seq(T), NEW e \in T
    PROVE  /\ Append(s, e) \in Seq(T) /\ Elems(Append(s, e)) = Elems(s) \cup {e}
           /\ Once(s) /\ e \notin Elems(s) => Once(Append(s, e))
<1>1. /\ Append(s, e) \in Seq(T) /\ Len(Append(s, e)) = Len(s) + 1 /\ Len(s) \in Nat
      /\ \A i \in 1 .. Len(s) : Append(s, e)[i] = s[i]
      /\ Append(s, e)[Len(s) + 1] = e
    OBVIOUS
<1> QED BY <1>1 DEF Elems, Once

\* PopHead of a list that is not empty.
LEMMA TakeHead ==
    ASSUME NEW T, NEW s \in Seq(T), s # <<>>
    PROVE  /\ Tail(s) \in Seq(T) /\ Head(s) \in T /\ Head(s) \in Elems(s)
           /\ Elems(s) = Elems(Tail(s)) \cup {Head(s)}
           /\ Once(s) => Once(Tail(s)) /\ Head(s) \notin Elems(Tail(s))
           /\ Len(s) <= 1 => Tail(s) = <<>>
<1>1. /\ Tail(s) \in Seq(T) /\ Len(s) \in Nat \ {0} /\ Len(Tail(s)) = Len(s) - 1
      /\ \A i \in 1 .. Len(s) - 1 : Tail(s)[i] = s[i + 1]
      /\ Head(s) = s[1] /\ s[1] \in T
    OBVIOUS
<1>2. \A i \in 2 .. Len(s) : i - 1 \in 1 .. Len(s) - 1 /\ s[i] = Tail(s)[i - 1]
    BY <1>1
<1>3. Elems(s) = Elems(Tail(s)) \cup {Head(s)}
    <2>1. \A i \in 1 .. Len(s) : i = 1 \/ i \in 2 .. Len(s)
        BY <1>1
    <2>2. Elems(s) \subseteq Elems(Tail(s)) \cup {Head(s)}
        BY <1>1, <1>2, <2>1 DEF Elems
    <2>3. \A i \in 1 .. Len(s) - 1 : i + 1 \in 1 .. Len(s) /\ Tail(s)[i] = s[i + 1]
        BY <1>1
    <2>4. Elems(Tail(s)) \subseteq Elems(s) /\ Head(s) \in Elems(s)
        BY <1>1, <2>3 DEF Elems
    <2> QED BY <2>2, <2>4
<1> QED BY <1>1, <1>2, <1>3 DEF Elems, Once

-----------------------------------------------------------------------------
(* Worker.                                                                 *)

\* Where a caller of Execute is while its task is not the worker's.
Outside == {"idle", "lock", "add", "refused"}

\* Lock is held by the caller that is about to add its task.
HeldOk == \A c \in Callers : lock = c <=> caller[c] = "add"

\* Where the tasks are, and that each is there once.
PlacesOk ==
    /\ Once(taskList)
    /\ \A c \in Callers :
         /\ caller[c] \in Outside =>
              c \notin Elems(taskList) /\ cur # c /\ settled[c] = 0
         /\ caller[c] \notin Outside =>
              \/ c \in Elems(taskList) /\ cur # c /\ settled[c] = 0
              \/ c \notin Elems(taskList) /\ cur = c /\ settled[c] = 0
              \/ c \notin Elems(taskList) /\ cur # c /\ settled[c] = 1
         /\ complete[c] => status[c] # "NotExecuted"
    /\ thread = "run" <=> cur # None

\* A worker whose thread did not start accepts nothing; one that is gone has
\* nobody inside Execute who would still add a task.
StagesOk ==
    /\ dtor # "alive" => stopping
    /\ ~running => /\ taskList = <<>>
                   /\ \A c \in Callers : caller[c] \notin {"lock", "add"}
    /\ dtor = "gone" => taskList = <<>> /\ \A c \in Callers : caller[c] # "add"

\* The inductive invariant, and the invariant of CoreThreads it makes.
WInv == W!TypeOK /\ HeldOk /\ PlacesOk /\ StagesOk
WorkerInv == part = "worker" => WInv

\* Every step of a caller of Execute, of the worker's thread and of its
\* destructor preserves the invariant.
LEMMA WStep == WInv /\ W!Next => WInv'
<1> SUFFICES ASSUME WInv, W!Next PROVE WInv'
    OBVIOUS
<1> USE DEF WInv, W!taskVars, W!Step, W!Refuses, W!Settle, Outside
<1>1. ASSUME NEW c \in Callers, W!Execute(c)
      PROVE  WInv'
    <2> USE <1>1 DEF W!Execute
    <2>1. W!TypeOK'
        BY DEF W!TypeOK, PlacesOk
    <2>2. HeldOk'
        BY DEF W!TypeOK, HeldOk
    <2>3. PlacesOk'
        BY DEF W!TypeOK, PlacesOk, StagesOk
    <2>4. StagesOk'
        BY DEF W!TypeOK, StagesOk, HeldOk
    <2> QED BY <2>1, <2>2, <2>3, <2>4
<1>2. ASSUME NEW c \in Callers, W!ExecuteLocked(c)
      PROVE  WInv'
    <2> USE <1>2 DEF W!ExecuteLocked
    <2>1. W!TypeOK'
        BY DEF W!TypeOK, PlacesOk
    <2>2. HeldOk'
        BY DEF W!TypeOK, HeldOk
    <2>3. PlacesOk'
        BY DEF W!TypeOK, PlacesOk, StagesOk
    <2>4. StagesOk'
        BY DEF W!TypeOK, StagesOk, HeldOk
    <2> QED BY <2>1, <2>2, <2>3, <2>4
<1>3. ASSUME NEW c \in Callers, W!AddTail(c)
      PROVE  WInv'
    <2> USE <1>3 DEF W!AddTail
    <2>1. W!TypeOK'
        <3>1. taskList \in Seq(Callers)
            BY DEF W!TypeOK
        <3>2. Append(taskList, c) \in Seq(Callers)
            BY <3>1, AppendOne
        <3>3. CASE taskList' = Append(taskList, c) /\ UNCHANGED faults /\ W!Step(c, "add", "wait")
            BY <3>2, <3>3 DEF W!TypeOK
        <3>4. CASE faults < MaxFaults /\ faults' = faults + 1 /\ UNCHANGED taskList
                   /\ W!Step(c, "add", "refused")
            BY <3>4 DEF W!TypeOK
        <3> QED BY <3>3, <3>4
    <2>2. HeldOk'
        BY AppendOne DEF W!TypeOK, HeldOk
    <2>3. PlacesOk'
        <3>1. taskList \in Seq(Callers)
            BY DEF W!TypeOK
        <3>3. CASE taskList' = Append(taskList, c) /\ W!Step(c, "add", "wait")
            <4>1. c \notin Elems(taskList) /\ cur # c /\ settled[c] = 0
                BY <3>3 DEF PlacesOk
            <4>2. Elems(taskList') = Elems(taskList) \cup {c} /\ Once(taskList')
                BY <3>1, <3>3, <4>1, AppendOne DEF PlacesOk
            <4> QED BY <3>3, <4>1, <4>2 DEF W!TypeOK, PlacesOk
        <3>4. CASE UNCHANGED taskList
                   /\ W!Step(c, "add", "refused")
            BY <3>4 DEF W!TypeOK, PlacesOk
        <3> QED BY <3>3, <3>4
    <2>4. StagesOk'
        BY AppendOne DEF W!TypeOK, StagesOk, HeldOk
    <2> QED BY <2>1, <2>2, <2>3, <2>4
<1>4. ASSUME NEW c \in Callers, W!WaitTask(c)
      PROVE  WInv'
    <2> USE <1>4 DEF W!WaitTask
    <2>1. W!TypeOK'
        BY DEF W!TypeOK, PlacesOk
    <2>2. HeldOk'
        BY DEF W!TypeOK, HeldOk
    <2>3. PlacesOk'
        BY DEF W!TypeOK, PlacesOk, StagesOk
    <2>4. StagesOk'
        BY DEF W!TypeOK, StagesOk, HeldOk
    <2> QED BY <2>1, <2>2, <2>3, <2>4
<1>5. ASSUME W!RunTop
      PROVE  WInv'
    <2> USE <1>5 DEF W!RunTop
    <2>1. W!TypeOK'
        BY DEF W!TypeOK, PlacesOk
    <2>2. HeldOk'
        BY DEF W!TypeOK, HeldOk
    <2>3. PlacesOk'
        BY DEF W!TypeOK, PlacesOk, StagesOk
    <2>4. StagesOk'
        BY DEF W!TypeOK, StagesOk, HeldOk
    <2> QED BY <2>1, <2>2, <2>3, <2>4
<1>6. ASSUME W!Take
      PROVE  WInv'
    <2> USE <1>6 DEF W!Take
    <2>0. ASSUME taskList # <<>>
          PROVE  /\ Tail(taskList) \in Seq(Callers) /\ Head(taskList) \in Callers
                 /\ Elems(taskList) = Elems(Tail(taskList)) \cup {Head(taskList)}
                 /\ Once(Tail(taskList)) /\ Head(taskList) \notin Elems(Tail(taskList))
                 /\ Len(taskList) <= 1 => Tail(taskList) = <<>>
        <3>1. taskList \in Seq(Callers) /\ Once(taskList)
            BY DEF W!TypeOK, PlacesOk
        <3> QED BY <2>0, <3>1, TakeHead
    <2>1. W!TypeOK'
        BY <2>0 DEF W!TypeOK
    <2>2. HeldOk'
        BY DEF W!TypeOK, HeldOk
    <2>3. PlacesOk'
        <3>1. CASE taskList = <<>>
            BY <3>1 DEF W!TypeOK, PlacesOk
        <3>2. CASE taskList # <<>>
            <4>1. /\ Head(taskList) \in Callers /\ Elems(taskList) = Elems(taskList') \cup {cur'}
                  /\ Once(taskList') /\ cur' \notin Elems(taskList') /\ cur' = Head(taskList)
                BY <3>2, <2>0
            <4>2. cur = None
                BY DEF PlacesOk
            <4> QED BY <3>2, <4>1, <4>2 DEF W!TypeOK, PlacesOk
        <3> QED BY <3>1, <3>2
    <2>4. StagesOk'
        BY <2>0 DEF W!TypeOK, StagesOk, HeldOk
    <2> QED BY <2>1, <2>2, <2>3, <2>4
<1>7. ASSUME W!RunTask
      PROVE  WInv'
    <2> USE <1>7 DEF W!RunTask
    <2>1. W!TypeOK'
        BY DEF W!TypeOK, PlacesOk
    <2>2. HeldOk'
        BY DEF W!TypeOK, HeldOk
    <2>3. PlacesOk'
        BY DEF W!TypeOK, PlacesOk, StagesOk
    <2>4. StagesOk'
        BY DEF W!TypeOK, StagesOk, HeldOk
    <2> QED BY <2>1, <2>2, <2>3, <2>4
<1>8. ASSUME W!Destroy
      PROVE  WInv'
    <2> USE <1>8 DEF W!Destroy
    <2>1. W!TypeOK'
        BY DEF W!TypeOK, PlacesOk
    <2>2. HeldOk'
        BY DEF W!TypeOK, HeldOk
    <2>3. PlacesOk'
        BY DEF W!TypeOK, PlacesOk, StagesOk
    <2>4. StagesOk'
        BY DEF W!TypeOK, StagesOk, HeldOk
    <2> QED BY <2>1, <2>2, <2>3, <2>4
<1>9. ASSUME W!StopThread
      PROVE  WInv'
    <2> USE <1>9 DEF W!StopThread
    <2>1. W!TypeOK'
        BY DEF W!TypeOK, PlacesOk
    <2>2. HeldOk'
        BY DEF W!TypeOK, HeldOk
    <2>3. PlacesOk'
        BY DEF W!TypeOK, PlacesOk, StagesOk
    <2>4. StagesOk'
        BY DEF W!TypeOK, StagesOk, HeldOk
    <2> QED BY <2>1, <2>2, <2>3, <2>4
<1>10. ASSUME W!JoinThread
      PROVE  WInv'
    <2> USE <1>10 DEF W!JoinThread
    <2>1. W!TypeOK'
        BY DEF W!TypeOK, PlacesOk
    <2>2. HeldOk'
        BY DEF W!TypeOK, HeldOk
    <2>3. PlacesOk'
        BY DEF W!TypeOK, PlacesOk, StagesOk
    <2>4. StagesOk'
        BY DEF W!TypeOK, StagesOk, HeldOk
    <2> QED BY <2>1, <2>2, <2>3, <2>4
<1>11. ASSUME W!Drain
      PROVE  WInv'
    <2> USE <1>11 DEF W!Drain
    <2>0. ASSUME taskList # <<>>
          PROVE  /\ Tail(taskList) \in Seq(Callers) /\ Head(taskList) \in Callers
                 /\ Elems(taskList) = Elems(Tail(taskList)) \cup {Head(taskList)}
                 /\ Once(Tail(taskList)) /\ Head(taskList) \notin Elems(Tail(taskList))
                 /\ Len(taskList) <= 1 => Tail(taskList) = <<>>
        <3>1. taskList \in Seq(Callers) /\ Once(taskList)
            BY DEF W!TypeOK, PlacesOk
        <3> QED BY <2>0, <3>1, TakeHead
    <2>1. W!TypeOK'
        <3>1. CASE taskList = <<>>
            BY <3>1 DEF W!TypeOK
        <3>2. CASE taskList # <<>>
            <4>1. Head(taskList) \in Callers /\ Head(taskList) \in Elems(taskList)
                  /\ taskList' \in Seq(Callers)
                BY <3>2, <2>0
            <4>2. settled[Head(taskList)] = 0
                BY <4>1 DEF PlacesOk
            <4>3. settled' \in [Callers -> 0 .. 1]
                BY <3>2, <4>1, <4>2 DEF W!TypeOK
            <4>4. /\ status' \in [Callers -> {"NotExecuted", "Success", "Cancelled"}]
                  /\ complete' \in [Callers -> BOOLEAN]
                BY <3>2, <4>1 DEF W!TypeOK
            <4> QED BY <4>1, <4>3, <4>4 DEF W!TypeOK
        <3> QED BY <3>1, <3>2
    <2>2. HeldOk'
        BY DEF W!TypeOK, HeldOk
    <2>3. PlacesOk'
        <3>1. CASE taskList = <<>>
            BY <3>1 DEF W!TypeOK, PlacesOk
        <3>2. CASE taskList # <<>>
            <4> DEFINE h == Head(taskList)
            <4>1. /\ h \in Callers /\ Elems(taskList) = Elems(taskList') \cup {h}
                  /\ Once(taskList') /\ h \notin Elems(taskList')
                BY <3>2, <2>0
            <4>2. settled[h] = 0 /\ caller[h] \notin Outside /\ cur # h
                BY <4>1 DEF PlacesOk
            <4>3. /\ settled' = [settled EXCEPT ![h] = 1] /\ status' = [status EXCEPT ![h] = "Cancelled"]
                  /\ UNCHANGED <<cur, caller, thread>>
                BY <3>2, <4>2
            <4> HIDE DEF h
            <4> QED BY <4>1, <4>2, <4>3 DEF W!TypeOK, PlacesOk
        <3> QED BY <3>1, <3>2
    <2>4. StagesOk'
        BY <2>0 DEF W!TypeOK, StagesOk, HeldOk
    <2> QED BY <2>1, <2>2, <2>3, <2>4
<1> QED BY <1>1, <1>2, <1>3, <1>4, <1>5, <1>6, <1>7, <1>8, <1>9, <1>10, <1>11
    DEF W!Next, W!Caller, W!WorkerThread, W!Destructor

\* The invariant holds as long as the worker is what runs.
LEMMA WorkerInductive == Spec => []WorkerInv
<1>1. Init => WorkerInv
    <2> SUFFICES ASSUME W!Init PROVE WInv
        BY DEF Init, WorkerInv
    <2>1. Len(<<>>) = 0 /\ Elems(<<>>) = {} /\ Once(<<>>) /\ <<>> \in Seq(Callers)
        BY DEF Elems, Once
    <2>2. W!TypeOK
        <3>1. {stopping, running, threadStop} \subseteq BOOLEAN
            BY DEF W!Init
        <3>2. status \in [Callers -> {"NotExecuted", "Success", "Cancelled"}]
            BY DEF W!Init
        <3>3. complete \in [Callers -> BOOLEAN]
            BY DEF W!Init
        <3>4. settled \in [Callers -> 0 .. 1] /\ faults \in 0 .. MaxFaults
            BY DEF W!Init
        <3>5. thread \in {"top", "take", "run", "done"}
            BY DEF W!Init
        <3> QED BY <2>1, <3>1, <3>2, <3>3, <3>4, <3>5 DEF W!Init, W!TypeOK
    <2>3. HeldOk /\ PlacesOk /\ StagesOk
        BY <2>1 DEF W!Init, HeldOk, PlacesOk, StagesOk, Outside
    <2> QED BY <2>2, <2>3 DEF WInv
<1>2. WorkerInv /\ [Next]_vars => WorkerInv'
    <2> SUFFICES ASSUME WInv, part = "worker", part' = "worker", [Next]_vars PROVE WInv'
        BY DEF WorkerInv, Next, vars, Worker, Bio, Stream
    <2>1. CASE W!Next
        BY <2>1, WStep
    <2>2. CASE UNCHANGED vars
        BY <2>2 DEF vars, workerOnly, WInv, W!TypeOK, HeldOk, PlacesOk, StagesOk
    <2> QED BY <2>1, <2>2 DEF Next, Worker, Bio, Stream
<1> QED BY <1>1, <1>2, PTL DEF Spec

\* Worker::Execute, Run and the destructor: a task that was taken is in the
\* list, with the thread or settled, in one of these places, and settled once;
\* a worker that is gone leaves no task behind.
THEOREM TaskInOnePlace == Spec => []OnePlace
<1>1. WorkerInv => OnePlace
    <2> SUFFICES ASSUME WInv PROVE W!OnePlace
        BY DEF WorkerInv, OnePlace
    <2>1. W!InList = Elems(taskList)
        BY DEF W!InList, Elems
    <2>2. dtor = "gone" => taskList = <<>>
        BY DEF WInv, StagesOk
    <2>3. ASSUME NEW c \in Callers
          PROVE  LET places == {p \in {"list", "thread", "settled"} :
                                  CASE p = "list" -> c \in W!InList
                                    [] p = "thread" -> cur = c
                                    [] p = "settled" -> settled[c] > 0}
                 IN  IF caller[c] \in {"idle", "lock", "add", "refused"} THEN places = {}
                     ELSE \E p \in places : places = {p}
        <3> DEFINE places == {p \in {"list", "thread", "settled"} :
                                  CASE p = "list" -> c \in W!InList
                                    [] p = "thread" -> cur = c
                                    [] p = "settled" -> settled[c] > 0}
        <3>1. \A p : p \in places <=> \/ p = "list" /\ c \in W!InList
                                      \/ p = "thread" /\ cur = c
                                      \/ p = "settled" /\ settled[c] > 0
            OBVIOUS
        <3> HIDE DEF places
        <3>2. CASE caller[c] \in Outside
            <4>1. places = {}
                BY <2>1, <3>1, <3>2 DEF WInv, PlacesOk
            <4> QED BY <3>2, <4>1 DEF Outside, places
        <3>3. CASE caller[c] \notin Outside
            <4>1. places = {"list"} \/ places = {"thread"} \/ places = {"settled"}
                BY <2>1, <3>1, <3>3 DEF WInv, PlacesOk
            <4>2. \E p \in places : places = {p}
                BY <4>1
            <4> QED BY <3>3, <4>2 DEF Outside, places
        <3> QED BY <3>2, <3>3
    <2> QED BY <2>2, <2>3 DEF W!OnePlace
<1> QED BY <1>1, WorkerInductive, PTL

-----------------------------------------------------------------------------
(* BioList.                                                                *)

\* What a bio has allocated, and the stages of AddIo and of the end.
Mem == [page : 0 .. 2, bio : BOOLEAN, priv : BOOLEAN, vcnt : 0 .. 1]
Adding == {"page", "bio", "priv", "setpage", "link"}
Ended == {"return", "gone"}
Settled == {"counted", "done"}
Pending == {i \in B!Plain : bio[i] \notin Settled}

\* What a request holds at each step of AddIo: nothing before the page is
\* there, everything when it is to be linked.
Holds(m, l) ==
    /\ m.page = IF l = "link" THEN 2 ELSE IF l \in {"bio", "priv", "setpage"} THEN 1 ELSE 0
    /\ m.bio <=> l \in {"priv", "setpage", "link"}
    /\ m.priv <=> l \in {"setpage", "link"}
    /\ m.vcnt = IF l = "link" THEN 1 ELSE 0

\* A request in the list holds all its objects until the list goes, the one
\* that AddIo is at those that it has got so far, and no other any.
MemOk ==
    /\ pc \in {"bio", "priv", "setpage", "link"} => n < MaxIos
    /\ \A i \in B!Ios : i <= n => Holds(mem[i], IF pc = "gone" THEN "page" ELSE "link")
    /\ \A i \in B!Ios : i = n + 1 => Holds(mem[i], pc)
    /\ \A i \in B!Ios : i > n + 1 => Holds(mem[i], "page")

\* Nothing has been submitted while requests are added.
AddOk == pc \in Adding =>
    ready = {} /\ list = "ok" /\ event = FALSE /\ \A i \in B!Ios : bio[i] = "new"

\* What has been submitted: bios with a handler, and the last one with
\* PREFLUSH and FUA after them.
ReadyOk ==
    /\ ready \subseteq B!Plain
    /\ pc \in {"wait", "event", "result", "last", "lastwait"} => ready = B!Plain
    /\ pc \notin Adding \cup Ended => n > 0
    /\ pc \in {"last", "lastwait"} => fuaMode
    /\ pc = "lastwait" => bio[n] # "new"
    /\ \A i \in B!Ios : i \in ready => bio[i] # "new"
    /\ \A i \in B!Ios : i \notin ready /\ bio[i] # "new" =>
         /\ fuaMode /\ i = n /\ pc \in {"lastwait"} \cup Ended
         /\ bio[i] \in {"submitted", "ended", "signalled", "done"}

\* The counter is the number of bios that have not been counted; past the wait
\* there is none.
CountOk ==
    /\ pc \in {"submit", "wait", "event"} => count = Cardinality(Pending)
    /\ pc \notin {"submit", "wait", "event"} =>
         count = 0 /\ \A i \in ready : bio[i] \in Settled
    /\ event \/ (\E i \in B!Ios : bio[i] = "counted") => count = 0

\* An error of a bio gets into the result of the list before the bio is counted.
ResOk ==
    /\ \A i \in B!Ios :
         /\ bio[i] \in {"new", "submitted"} => result[i] = "ok"
         /\ result[i] # "ok" => faults > 0
         /\ i \in ready /\ bio[i] \in {"merged", "counted", "done"} /\ result[i] # "ok" =>
              list # "ok"
         /\ bio[i] = "checked" /\ ~saw[i] => list # "ok"
    /\ list # "ok" => faults > 0
    /\ pc \in {"last", "lastwait"} => list = "ok"

\* The last bio, and what is left of the device's work when the caller returns.
RetOk ==
    /\ fuaMode /\ n > 0 /\ bio[n] # "new" =>
         ready = B!Plain /\ \A i \in ready : bio[i] \in Settled /\ result[i] = "ok"
    /\ pc \in Ended =>
         /\ \A i \in B!Ios : bio[i] \notin {"submitted", "ended"}
         /\ ret = "ok" => \A i \in 1 .. n : bio[i] # "new" /\ result[i] = "ok"
         /\ ret = "error" => faults > 0

\* The inductive invariant, and the invariant of CoreThreads it makes.
BInv == B!TypeOK /\ MemOk /\ AddOk /\ ReadyOk /\ CountOk /\ ResOk /\ RetOk
BioInv == part = "bio" => BInv

\* What the kernel functions do to the objects of a request: each step of AddIo
\* adds to them, and destroying the Bio at any of the steps gives back all.
LEMMA Objects ==
    ASSUME NEW m \in Mem
    PROVE  /\ Holds(m, "page") => /\ [m EXCEPT !.page = 1] \in Mem
                                  /\ Holds([m EXCEPT !.page = 1], "bio")
           /\ Holds(m, "bio") => B!AllocBio(m) \in Mem /\ Holds(B!AllocBio(m), "priv")
           /\ Holds(m, "priv") => B!SetBioEndIo(m) \in Mem /\ Holds(B!SetBioEndIo(m), "setpage")
           /\ Holds(m, "setpage") => B!SetBioPage(m) \in Mem /\ Holds(B!SetBioPage(m), "link")
           /\ \A l \in {"bio", "priv", "setpage", "link"} : Holds(m, l) =>
                B!DestroyBio(m) \in Mem /\ Holds(B!DestroyBio(m), "page")
           /\ Holds(m, "page") => m = B!NoMem
<1>1. Holds(m, "page") => [m EXCEPT !.page = 1] \in Mem
          /\ Holds([m EXCEPT !.page = 1], "bio")
    BY DEF Mem, Holds
<1>2. Holds(m, "bio") => B!AllocBio(m) \in Mem /\ Holds(B!AllocBio(m), "priv")
    BY DEF Mem, Holds, B!AllocBio
<1>3. Holds(m, "priv") => B!SetBioEndIo(m) \in Mem /\ Holds(B!SetBioEndIo(m), "setpage")
    BY DEF Mem, Holds, B!SetBioEndIo
<1>4. Holds(m, "setpage") => B!SetBioPage(m) \in Mem /\ Holds(B!SetBioPage(m), "link")
    <2> SUFFICES ASSUME Holds(m, "setpage")
                 PROVE  B!SetBioPage(m) \in Mem /\ Holds(B!SetBioPage(m), "link")
        OBVIOUS
    <2>1. m.page + 1 = 2 /\ m.vcnt + 1 = 1 /\ m.bio /\ m.priv
        BY DEF Holds
    <2> DEFINE k == [m EXCEPT !.page = 2, !.vcnt = 1]
    <2>2. B!SetBioPage(m) = k
        BY <2>1 DEF B!SetBioPage, Mem
    <2>3. k \in Mem
        <3>1. [m EXCEPT !.page = 2] \in Mem
            BY DEF Mem
        <3>2. ASSUME NEW f \in Mem PROVE [f EXCEPT !.vcnt = 1] \in Mem
            BY DEF Mem
        <3> QED BY <3>1, <3>2
    <2>4. k.page = 2 /\ k.vcnt = 1
        BY DEF Mem
    <2>5. k.bio = m.bio /\ k.priv = m.priv
        BY DEF Mem
    <2> HIDE DEF k
    <2> QED BY <2>1, <2>2, <2>3, <2>4, <2>5 DEF Holds
<1>5. ASSUME m.bio, m.page - m.vcnt = 1
      PROVE  B!FreeBio(m) \in Mem /\ Holds(B!FreeBio(m), "bio")
    <2> DEFINE k == [m EXCEPT !.bio = FALSE, !.priv = FALSE, !.page = 1, !.vcnt = 0]
    <2>1. B!FreeBio(m) = k
        BY <1>5 DEF B!FreeBio, Mem
    <2>2. k \in Mem
        <3>1. [m EXCEPT !.bio = FALSE] \in Mem
            BY DEF Mem
        <3>2. ASSUME NEW f \in Mem PROVE [f EXCEPT !.priv = FALSE] \in Mem
            BY DEF Mem
        <3>3. ASSUME NEW f \in Mem PROVE [f EXCEPT !.page = 1] \in Mem
            BY DEF Mem
        <3>4. ASSUME NEW f \in Mem PROVE [f EXCEPT !.vcnt = 0] \in Mem
            BY DEF Mem
        <3> QED BY <3>1, <3>2, <3>3, <3>4
    <2>3. k.page = 1 /\ k.vcnt = 0
        BY DEF Mem
    <2>4. ~k.bio /\ ~k.priv
        BY DEF Mem
    <2> HIDE DEF k
    <2> QED BY <2>1, <2>2, <2>3, <2>4 DEF Holds
<1>6. ASSUME NEW f \in Mem, Holds(f, "bio")
      PROVE  [f EXCEPT !.page = @ - 1] \in Mem /\ Holds([f EXCEPT !.page = @ - 1], "page")
    BY <1>6 DEF Mem, Holds
<1>7. ASSUME NEW l \in {"bio", "priv", "setpage", "link"}, Holds(m, l)
      PROVE  B!DestroyBio(m) \in Mem /\ Holds(B!DestroyBio(m), "page")
    <2>1. CASE l = "bio"
        <3>1. ~m.bio
            BY <1>7, <2>1 DEF Holds
        <3>2. B!DestroyBio(m) = [m EXCEPT !.page = @ - 1]
            BY <3>1 DEF B!DestroyBio
        <3> QED BY <3>2, <2>1, <1>6, <1>7
    <2>2. CASE l # "bio"
        <3>1. m.bio /\ m.page - m.vcnt = 1
            BY <1>7, <2>2 DEF Holds, Mem
        <3>2. B!DestroyBio(m) = [B!FreeBio(m) EXCEPT !.page = @ - 1]
            BY <3>1 DEF B!DestroyBio
        <3> QED BY <3>1, <3>2, <1>5, <1>6
    <2> QED BY <2>1, <2>2
<1>8. Holds(m, "page") => m = B!NoMem
    BY DEF Mem, Holds, B!NoMem
<1> QED BY <1>1, <1>2, <1>3, <1>4, <1>7, <1>8

\* The bios still to be counted are finitely many.
LEMMA PendingFinite ==
    ASSUME B!TypeOK
    PROVE  /\ IsFiniteSet(Pending) /\ Cardinality(Pending) \in Nat
           /\ B!Cardinality(B!Plain) = IF fuaMode /\ n > 0 THEN n - 1 ELSE n
           /\ \A z : B!Cardinality(z) = Cardinality(z)
<1>1. \A z : B!Cardinality(z) = Cardinality(z)
    BY DEF B!Cardinality, Cardinality
<1>2. n \in Nat /\ fuaMode \in BOOLEAN
    BY DEF B!TypeOK
<1>3. IsFiniteSet(B!Plain) /\ Cardinality(B!Plain) = IF fuaMode /\ n > 0 THEN n - 1 ELSE n
    <2>1. CASE fuaMode
        <3>1. IsFiniteSet(1 .. n - 1) /\ Cardinality(1 .. n - 1) = IF 1 > n - 1 THEN 0 ELSE n - 1 - 1 + 1
            BY <1>2, FS_Interval
        <3> QED BY <1>2, <2>1, <3>1 DEF B!Plain
    <2>2. CASE ~fuaMode
        <3>1. IsFiniteSet(1 .. n) /\ Cardinality(1 .. n) = IF 1 > n THEN 0 ELSE n - 1 + 1
            BY <1>2, FS_Interval
        <3> QED BY <1>2, <2>2, <3>1 DEF B!Plain
    <2> QED BY <2>1, <2>2
<1>4. IsFiniteSet(Pending)
    BY <1>3, FS_Subset DEF Pending
<1> QED BY <1>1, <1>3, <1>4, FS_CardinalityType

\* The bios to wait for are the same if none of them settles.
LEMMA SamePending ==
    ASSUME B!TypeOK, UNCHANGED <<fuaMode, n>>,
           \A i \in B!Ios : bio'[i] \in Settled <=> bio[i] \in Settled
    PROVE  Pending' = Pending
BY DEF Pending, B!Plain, B!Ios, B!TypeOK

\* Every step of AddIo, SubmitWait, the completion callback and the
\* destructor preserves the invariant.
LEMMA BStep == BInv /\ B!Next => BInv'
<1> SUFFICES ASSUME BInv, B!Next PROVE BInv'
    OBVIOUS
<1> USE DEF BInv, B!ioVars, B!Ok, B!Bad, B!Ios, B!cur, B!Plain, B!Fault, Adding, Ended, Settled
<1>1. ASSUME B!CreatePage
      PROVE  BInv'
    <2> USE <1>1 DEF B!CreatePage, B!Acquire
    <2>a. /\ n + 1 \in B!Ios /\ n < MaxIos /\ n \in Nat /\ pc = "page" /\ pc' = "bio"
          /\ Holds(mem[n + 1], "page") /\ mem' = [mem EXCEPT ![n + 1] = [mem[n + 1] EXCEPT !.page = 1]]
        BY DEF B!TypeOK, MemOk
    <2>0. mem \in [B!Ios -> Mem] /\ [mem[n + 1] EXCEPT !.page = 1] \in Mem
          /\ Holds([mem[n + 1] EXCEPT !.page = 1], "bio")
        <3>1. mem \in [B!Ios -> Mem] /\ mem[n + 1] \in Mem
            BY <2>a DEF B!TypeOK, Mem
        <3> QED BY <2>a, <3>1, Objects
    <2>b. mem' \in [B!Ios -> Mem] /\ mem'[n + 1] = [mem[n + 1] EXCEPT !.page = 1]
        BY <2>a, <2>0
    <2>1. B!TypeOK'
        BY <2>b DEF B!TypeOK, Mem
    <2>2. MemOk'
        <3>1. \A i \in B!Ios : i # n + 1 => mem'[i] = mem[i]
            BY <2>a DEF B!TypeOK
        <3>2. Holds(mem'[n + 1], "bio")
            BY <2>0, <2>b
        <3>3. UNCHANGED n
            OBVIOUS
        <3> HIDE <1>1 DEF B!CreatePage
        <3> QED BY <3>1, <3>2, <3>3, <2>a DEF MemOk
    <2>3. AddOk'
        BY DEF B!TypeOK, AddOk
    <2>4. ReadyOk'
        BY DEF B!TypeOK, AddOk, ReadyOk
    <2>5. CountOk'
        BY DEF B!TypeOK, AddOk, ReadyOk, CountOk, Pending
    <2>6. ResOk'
        BY DEF B!TypeOK, AddOk, ReadyOk, CountOk, ResOk
    <2>7. RetOk'
        BY DEF B!TypeOK, AddOk, ReadyOk, CountOk, ResOk, RetOk, B!Signalled
    <2> QED BY <2>1, <2>2, <2>3, <2>4, <2>5, <2>6, <2>7
<1>2. ASSUME B!Acquire("bio", "priv", B!AllocBio(mem[B!cur]))
      PROVE  BInv'
    <2> USE <1>2 DEF B!Acquire
    <2>a. /\ n + 1 \in B!Ios /\ n < MaxIos /\ n \in Nat /\ pc = "bio" /\ pc' = "priv"
          /\ Holds(mem[n + 1], "bio") /\ mem' = [mem EXCEPT ![n + 1] = B!AllocBio(mem[n + 1])]
        BY DEF B!TypeOK, MemOk
    <2>0. mem \in [B!Ios -> Mem] /\ B!AllocBio(mem[n + 1]) \in Mem
          /\ Holds(B!AllocBio(mem[n + 1]), "priv")
        <3>1. mem \in [B!Ios -> Mem] /\ mem[n + 1] \in Mem
            BY <2>a DEF B!TypeOK, Mem
        <3> QED BY <2>a, <3>1, Objects
    <2>b. mem' \in [B!Ios -> Mem] /\ mem'[n + 1] = B!AllocBio(mem[n + 1])
        BY <2>a, <2>0
    <2>1. B!TypeOK'
        BY <2>b DEF B!TypeOK, Mem
    <2>2. MemOk'
        BY <2>a, <2>0, <2>b DEF B!TypeOK, MemOk
    <2>3. AddOk'
        BY DEF B!TypeOK, AddOk
    <2>4. ReadyOk'
        BY DEF B!TypeOK, AddOk, ReadyOk
    <2>5. CountOk'
        BY DEF B!TypeOK, AddOk, ReadyOk, CountOk, Pending
    <2>6. ResOk'
        BY DEF B!TypeOK, AddOk, ReadyOk, CountOk, ResOk
    <2>7. RetOk'
        BY DEF B!TypeOK, AddOk, ReadyOk, CountOk, ResOk, RetOk, B!Signalled
    <2> QED BY <2>1, <2>2, <2>3, <2>4, <2>5, <2>6, <2>7
<1>3. ASSUME B!Acquire("priv", "setpage", B!SetBioEndIo(mem[B!cur]))
      PROVE  BInv'
    <2> USE <1>3 DEF B!Acquire
    <2>a. /\ n + 1 \in B!Ios /\ n < MaxIos /\ n \in Nat /\ pc = "priv" /\ pc' = "setpage"
          /\ Holds(mem[n + 1], "priv") /\ mem' = [mem EXCEPT ![n + 1] = B!SetBioEndIo(mem[n + 1])]
        BY DEF B!TypeOK, MemOk
    <2>0. mem \in [B!Ios -> Mem] /\ B!SetBioEndIo(mem[n + 1]) \in Mem
          /\ Holds(B!SetBioEndIo(mem[n + 1]), "setpage")
        <3>1. mem \in [B!Ios -> Mem] /\ mem[n + 1] \in Mem
            BY <2>a DEF B!TypeOK, Mem
        <3> QED BY <2>a, <3>1, Objects
    <2>b. mem' \in [B!Ios -> Mem] /\ mem'[n + 1] = B!SetBioEndIo(mem[n + 1])
        BY <2>a, <2>0
    <2>1. B!TypeOK'
        BY <2>b DEF B!TypeOK, Mem
    <2>2. MemOk'
        BY <2>a, <2>0, <2>b DEF B!TypeOK, MemOk
    <2>3. AddOk'
        BY DEF B!TypeOK, AddOk
    <2>4. ReadyOk'
        BY DEF B!TypeOK, AddOk, ReadyOk
    <2>5. CountOk'
        BY DEF B!TypeOK, AddOk, ReadyOk, CountOk, Pending
    <2>6. ResOk'
        BY DEF B!TypeOK, AddOk, ReadyOk, CountOk, ResOk
    <2>7. RetOk'
        BY DEF B!TypeOK, AddOk, ReadyOk, CountOk, ResOk, RetOk, B!Signalled
    <2> QED BY <2>1, <2>2, <2>3, <2>4, <2>5, <2>6, <2>7
<1>4. ASSUME B!Acquire("setpage", "link", B!SetBioPage(mem[B!cur]))
      PROVE  BInv'
    <2> USE <1>4 DEF B!Acquire
    <2>a. /\ n + 1 \in B!Ios /\ n < MaxIos /\ n \in Nat /\ pc = "setpage" /\ pc' = "link"
          /\ Holds(mem[n + 1], "setpage") /\ mem' = [mem EXCEPT ![n + 1] = B!SetBioPage(mem[n + 1])]
        BY DEF B!TypeOK, MemOk
    <2>0. mem \in [B!Ios -> Mem] /\ B!SetBioPage(mem[n + 1]) \in Mem
          /\ Holds(B!SetBioPage(mem[n + 1]), "link")
        <3>1. mem \in [B!Ios -> Mem] /\ mem[n + 1] \in Mem
            BY <2>a DEF B!TypeOK, Mem
        <3> QED BY <2>a, <3>1, Objects
    <2>b. mem' \in [B!Ios -> Mem] /\ mem'[n + 1] = B!SetBioPage(mem[n + 1])
        BY <2>a, <2>0
    <2>1. B!TypeOK'
        BY <2>b DEF B!TypeOK, Mem
    <2>2. MemOk'
        BY <2>a, <2>0, <2>b DEF B!TypeOK, MemOk
    <2>3. AddOk'
        BY DEF B!TypeOK, AddOk
    <2>4. ReadyOk'
        BY DEF B!TypeOK, AddOk, ReadyOk
    <2>5. CountOk'
        BY DEF B!TypeOK, AddOk, ReadyOk, CountOk, Pending
    <2>6. ResOk'
        BY DEF B!TypeOK, AddOk, ReadyOk, CountOk, ResOk
    <2>7. RetOk'
        BY DEF B!TypeOK, AddOk, ReadyOk, CountOk, ResOk, RetOk, B!Signalled
    <2> QED BY <2>1, <2>2, <2>3, <2>4, <2>5, <2>6, <2>7
<1>5. ASSUME NEW from \in Adding, n < MaxIos, B!GiveUp(from)
      PROVE  BInv'
    <2> USE <1>5 DEF B!GiveUp
    <2>a. /\ n + 1 \in B!Ios /\ n \in Nat /\ pc = from /\ pc' \in {"return", "page"}
          /\ faults' \in 0 .. MaxFaults /\ Holds(mem[n + 1], from)
          /\ mem' = [mem EXCEPT ![n + 1] = IF from = "page" THEN mem[n + 1] ELSE B!DestroyBio(mem[n + 1])]
        BY DEF B!TypeOK, MemOk
    <2>0. mem' \in [B!Ios -> Mem] /\ Holds(mem'[n + 1], "page")
        <3>1. mem \in [B!Ios -> Mem] /\ mem[n + 1] \in Mem
            BY <2>a DEF B!TypeOK, Mem
        <3>2. CASE from = "page"
            BY <2>a, <3>1, <3>2
        <3>3. CASE from # "page"
            <4>0. from \in {"bio", "priv", "setpage", "link"}
                BY <3>3
            <4>1. B!DestroyBio(mem[n + 1]) \in Mem /\ Holds(B!DestroyBio(mem[n + 1]), "page")
                BY <2>a, <3>1, <4>0, Objects
            <4> QED BY <2>a, <3>1, <3>3, <4>1
        <3> QED BY <3>2, <3>3
    <2>b. Holds(mem'[n + 1], pc')
        BY <2>a, <2>0 DEF Holds
    <2>1. B!TypeOK'
        BY <2>a, <2>0 DEF B!TypeOK, Mem
    <2>2. MemOk'
        BY <2>a, <2>b DEF B!TypeOK, MemOk
    <2>3. AddOk'
        BY DEF B!TypeOK, AddOk
    <2>4. ReadyOk'
        BY DEF B!TypeOK, AddOk, ReadyOk
    <2>5. CountOk'
        BY DEF B!TypeOK, AddOk, ReadyOk, CountOk, Pending
    <2>6. ResOk'
        BY DEF B!TypeOK, AddOk, ReadyOk, CountOk, ResOk
    <2>7. RetOk'
        BY DEF B!TypeOK, AddOk, ReadyOk, CountOk, ResOk, RetOk, B!Signalled
    <2> QED BY <2>1, <2>2, <2>3, <2>4, <2>5, <2>6, <2>7
<1>6. ASSUME B!Link
      PROVE  BInv'
    <2> USE <1>6 DEF B!Link
    <2>0. n < MaxIos /\ n \in Nat
        BY DEF B!TypeOK, MemOk
    <2>1. B!TypeOK'
        BY <2>0 DEF B!TypeOK
    <2>2. MemOk'
        BY <2>0 DEF B!TypeOK, MemOk
    <2>3. AddOk'
        BY DEF B!TypeOK, AddOk
    <2>4. ReadyOk'
        BY DEF B!TypeOK, AddOk, ReadyOk
    <2>5. CountOk'
        BY DEF B!TypeOK, AddOk, ReadyOk, CountOk, Pending
    <2>6. ResOk'
        BY DEF B!TypeOK, AddOk, ReadyOk, CountOk, ResOk
    <2>7. RetOk'
        <3>1. \A i \in B!Ios : bio[i] = "new"
            BY DEF AddOk
        <3>2. n + 1 \in B!Ios
            BY <2>0
        <3> QED BY <3>1, <3>2, <2>0 DEF B!TypeOK, RetOk
    <2> QED BY <2>1, <2>2, <2>3, <2>4, <2>5, <2>6, <2>7
<1>7. ASSUME B!SubmitWait
      PROVE  BInv'
    <2> USE <1>7 DEF B!SubmitWait
    <2>a. n \in Nat \ {0} /\ n <= MaxIos /\ ready = {} /\ fuaMode \in BOOLEAN
        BY DEF B!TypeOK, AddOk
    <2>b. count' = IF fuaMode THEN n - 1 ELSE n
        BY <2>a, PendingFinite
    <2>c. B!Plain = {} <=> count' = 0
        BY <2>a, <2>b
    <2>0. /\ n \in Nat \ {0} /\ n <= MaxIos /\ count' = IF fuaMode THEN n - 1 ELSE n
          /\ ready = {} /\ pc' = IF count' = 0 THEN "last" ELSE "submit"
        BY <2>a, <2>b, <2>c
    <2>1. B!TypeOK'
        BY <2>0 DEF B!TypeOK
    <2>2. MemOk'
        BY DEF B!TypeOK, MemOk, Holds
    <2>3. AddOk'
        BY DEF B!TypeOK, AddOk
    <2>4. ReadyOk'
        <3>1. count' = 0 => B!Plain = {} /\ fuaMode
            BY <2>0, <2>c
        <3> QED BY <3>1, <2>0 DEF B!TypeOK, AddOk, ReadyOk
    <2>5. CountOk'
        <3>1. Pending' = B!Plain
            BY DEF Pending, AddOk, B!TypeOK
        <3>2. count' = Cardinality(Pending')
            BY <3>1, PendingFinite
        <3>3. pc' = "submit" \/ count' = 0
            BY <2>0
        <3> QED BY <3>2, <3>3, <2>0 DEF B!TypeOK, AddOk, CountOk
    <2>6. ResOk'
        BY DEF B!TypeOK, AddOk, ReadyOk, CountOk, ResOk
    <2>7. RetOk'
        BY DEF B!TypeOK, AddOk, ReadyOk, CountOk, ResOk, RetOk, B!Signalled
    <2> QED BY <2>1, <2>2, <2>3, <2>4, <2>5, <2>6, <2>7
<1>8. ASSUME B!SubmitEmpty
      PROVE  BInv'
    <2> USE <1>8 DEF B!SubmitEmpty
    <2>1. B!TypeOK'
        BY DEF B!TypeOK
    <2>2. MemOk'
        BY DEF B!TypeOK, MemOk, Holds
    <2>3. AddOk'
        BY DEF B!TypeOK, AddOk
    <2>4. ReadyOk'
        BY DEF B!TypeOK, AddOk, ReadyOk
    <2>5. CountOk'
        BY DEF B!TypeOK, AddOk, ReadyOk, CountOk, Pending
    <2>6. ResOk'
        BY DEF B!TypeOK, AddOk, ReadyOk, CountOk, ResOk
    <2>7. RetOk'
        BY DEF B!TypeOK, AddOk, ReadyOk, CountOk, ResOk, RetOk, B!Signalled
    <2> QED BY <2>1, <2>2, <2>3, <2>4, <2>5, <2>6, <2>7
<1>9. ASSUME B!Submit
      PROVE  BInv'
    <2> USE <1>9 DEF B!Submit, B!SubmitBio
    <2>0. PICK i \in B!Plain :
              /\ ready = 1 .. i - 1 /\ ready' = ready \cup {i}
              /\ bio' = [bio EXCEPT ![i] = "submitted"]
              /\ pc' = IF i = B!Cardinality(B!Plain) THEN "wait" ELSE "submit"
        OBVIOUS
    <2>a. n \in Nat \ {0} /\ i \in B!Ios /\ i \notin ready /\ B!Plain \subseteq B!Ios
        BY <2>0 DEF B!TypeOK, ReadyOk
    <2>b. /\ i = B!Cardinality(B!Plain) => ready' = B!Plain
          /\ ready' = 1 .. i
        BY <2>0, <2>a, PendingFinite DEF B!TypeOK
    <2>c. bio[i] = "new"
        BY <2>0, <2>a DEF ReadyOk
    <2>1. B!TypeOK'
        BY DEF B!TypeOK
    <2>2. MemOk'
        BY DEF B!TypeOK, MemOk, Holds
    <2>3. AddOk'
        BY DEF B!TypeOK, AddOk
    <2>4. ReadyOk'
        BY <2>0, <2>a, <2>b DEF B!TypeOK, ReadyOk
    <2>5. CountOk'
        <3>1. Pending' = Pending
            BY <2>0, <2>a, <2>c, SamePending DEF B!TypeOK
        <3> QED BY <3>1, <2>0, <2>a, <2>c DEF B!TypeOK, CountOk
    <2>6. ResOk'
        BY DEF B!TypeOK, AddOk, ReadyOk, CountOk, ResOk
    <2>7. RetOk'
        BY DEF B!TypeOK, AddOk, ReadyOk, CountOk, ResOk, RetOk, B!Signalled
    <2> QED BY <2>1, <2>2, <2>3, <2>4, <2>5, <2>6, <2>7
<1>10. ASSUME B!Wait
      PROVE  BInv'
    <2> USE <1>10 DEF B!Wait
    <2>0. count = 0 => \A i \in ready : bio[i] \in Settled
        <3>1. count = 0 => Pending = {}
            BY PendingFinite, FS_EmptySet DEF CountOk
        <3> QED BY <3>1 DEF Pending, ReadyOk
    <2>1. B!TypeOK'
        BY DEF B!TypeOK
    <2>2. MemOk'
        BY DEF B!TypeOK, MemOk, Holds
    <2>3. AddOk'
        BY DEF B!TypeOK, AddOk
    <2>4. ReadyOk'
        BY DEF B!TypeOK, AddOk, ReadyOk
    <2>5. CountOk'
        <3>1. Pending' = Pending
            BY SamePending DEF B!TypeOK
        <3> QED BY <3>1, <2>0 DEF B!TypeOK, CountOk
    <2>6. ResOk'
        BY DEF B!TypeOK, AddOk, ReadyOk, CountOk, ResOk
    <2>7. RetOk'
        BY DEF B!TypeOK, AddOk, ReadyOk, CountOk, ResOk, RetOk, B!Signalled
    <2> QED BY <2>1, <2>2, <2>3, <2>4, <2>5, <2>6, <2>7
<1>11. ASSUME B!EventWait
      PROVE  BInv'
    <2> USE <1>11 DEF B!EventWait
    <2>0. count = 0 => \A i \in ready : bio[i] \in Settled
        <3>1. count = 0 => Pending = {}
            BY PendingFinite, FS_EmptySet DEF CountOk
        <3> QED BY <3>1 DEF Pending, ReadyOk
    <2>1. B!TypeOK'
        BY DEF B!TypeOK
    <2>2. MemOk'
        BY DEF B!TypeOK, MemOk, Holds
    <2>3. AddOk'
        BY DEF B!TypeOK, AddOk
    <2>4. ReadyOk'
        BY DEF B!TypeOK, AddOk, ReadyOk
    <2>5. CountOk'
        <3>1. Pending' = Pending
            BY SamePending DEF B!TypeOK
        <3> QED BY <3>1, <2>0 DEF B!TypeOK, CountOk
    <2>6. ResOk'
        BY DEF B!TypeOK, AddOk, ReadyOk, CountOk, ResOk
    <2>7. RetOk'
        BY DEF B!TypeOK, AddOk, ReadyOk, CountOk, ResOk, RetOk, B!Signalled
    <2> QED BY <2>1, <2>2, <2>3, <2>4, <2>5, <2>6, <2>7
<1>12. ASSUME B!WaitDone
      PROVE  BInv'
    <2> USE <1>12 DEF B!WaitDone
    <2>1. B!TypeOK'
        BY DEF B!TypeOK
    <2>2. MemOk'
        BY DEF B!TypeOK, MemOk, Holds
    <2>3. AddOk'
        BY DEF B!TypeOK, AddOk
    <2>4. ReadyOk'
        BY DEF B!TypeOK, AddOk, ReadyOk
    <2>5. CountOk'
        BY DEF B!TypeOK, AddOk, ReadyOk, CountOk, Pending
    <2>6. ResOk'
        BY DEF B!TypeOK, AddOk, ReadyOk, CountOk, ResOk
    <2>7. RetOk'
        BY DEF B!TypeOK, AddOk, ReadyOk, CountOk, ResOk, RetOk, B!Signalled
    <2> QED BY <2>1, <2>2, <2>3, <2>4, <2>5, <2>6, <2>7
<1>13. ASSUME B!SubmitLast
      PROVE  BInv'
    <2> USE <1>13 DEF B!SubmitLast, B!SubmitBio
    <2>1. B!TypeOK'
        BY DEF B!TypeOK
    <2>2. MemOk'
        BY DEF B!TypeOK, MemOk, Holds
    <2>3. AddOk'
        BY DEF B!TypeOK, AddOk
    <2>4. ReadyOk'
        BY DEF B!TypeOK, AddOk, ReadyOk
    <2>5. CountOk'
        BY DEF B!TypeOK, AddOk, ReadyOk, CountOk, Pending
    <2>6. ResOk'
        BY DEF B!TypeOK, AddOk, ReadyOk, CountOk, ResOk
    <2>7. RetOk'
        BY DEF B!TypeOK, AddOk, ReadyOk, CountOk, ResOk, RetOk, B!Signalled
    <2> QED BY <2>1, <2>2, <2>3, <2>4, <2>5, <2>6, <2>7
<1>14. ASSUME B!LastDone
      PROVE  BInv'
    <2> USE <1>14 DEF B!LastDone, B!Signalled
    <2>1. B!TypeOK'
        <3>1. n \in B!Ios /\ result[n] \in {"ok", "error"}
            BY DEF B!TypeOK, ReadyOk
        <3> QED BY <3>1 DEF B!TypeOK
    <2>2. MemOk'
        BY DEF B!TypeOK, MemOk, Holds
    <2>3. AddOk'
        BY DEF B!TypeOK, AddOk
    <2>4. ReadyOk'
        BY DEF B!TypeOK, AddOk, ReadyOk
    <2>5. CountOk'
        BY DEF B!TypeOK, AddOk, ReadyOk, CountOk, Pending
    <2>6. ResOk'
        BY DEF B!TypeOK, AddOk, ReadyOk, CountOk, ResOk
    <2>7. RetOk'
        BY DEF B!TypeOK, AddOk, ReadyOk, CountOk, ResOk, RetOk, B!Signalled
    <2> QED BY <2>1, <2>2, <2>3, <2>4, <2>5, <2>6, <2>7
<1>15. ASSUME B!Destroy
      PROVE  BInv'
    <2> USE <1>15 DEF B!Destroy
    <2>0. mem' \in [B!Ios -> Mem] /\ \A i \in B!Ios : Holds(mem'[i], "page")
        <3>1. mem \in [B!Ios -> Mem]
            BY DEF B!TypeOK, Mem
        <3>2. \A m : Holds(m, "return") => Holds(m, "page")
            BY DEF Holds
        <3>3. ASSUME NEW i \in B!Ios
              PROVE  /\ i <= n => Holds(mem[i], "link")
                     /\ ~(i <= n) => Holds(mem[i], "page")
            BY <3>2 DEF MemOk, B!TypeOK
        <3>4. ASSUME NEW i \in B!Ios, i <= n
              PROVE  B!DestroyBio(mem[i]) \in Mem /\ Holds(B!DestroyBio(mem[i]), "page")
            BY <3>1, <3>3, <3>4, Objects
        <3> QED BY <3>1, <3>3, <3>4
    <2>1. B!TypeOK'
        BY <2>0 DEF B!TypeOK, Mem
    <2>2. MemOk'
        <3>1. \A m : Holds(m, "page") => Holds(m, "gone")
            BY DEF Holds
        <3> QED BY <3>1, <2>0 DEF B!TypeOK, MemOk
    <2>3. AddOk'
        BY DEF B!TypeOK, AddOk
    <2>4. ReadyOk'
        BY DEF B!TypeOK, AddOk, ReadyOk
    <2>5. CountOk'
        BY DEF B!TypeOK, AddOk, ReadyOk, CountOk, Pending
    <2>6. ResOk'
        BY DEF B!TypeOK, AddOk, ReadyOk, CountOk, ResOk
    <2>7. RetOk'
        BY DEF B!TypeOK, AddOk, ReadyOk, CountOk, ResOk, RetOk, B!Signalled
    <2> QED BY <2>1, <2>2, <2>3, <2>4, <2>5, <2>6, <2>7
<1>16. ASSUME NEW i \in B!Ios, B!EndIo(i)
      PROVE  BInv'
    <2> USE <1>16 DEF B!EndIo, B!At
    <2>1. B!TypeOK'
        BY DEF B!TypeOK
    <2>2. MemOk'
        BY DEF B!TypeOK, MemOk, Holds
    <2>3. AddOk'
        BY DEF B!TypeOK, AddOk
    <2>4. ReadyOk'
        BY DEF B!TypeOK, AddOk, ReadyOk
    <2>5. CountOk'
        <3>1. Pending' = Pending
            BY SamePending DEF B!TypeOK
        <3> QED BY <3>1 DEF B!TypeOK, AddOk, ReadyOk, CountOk
    <2>6. ResOk'
        BY DEF B!TypeOK, AddOk, ReadyOk, CountOk, ResOk
    <2>7. RetOk'
        BY DEF B!TypeOK, AddOk, ReadyOk, CountOk, ResOk, RetOk, B!Signalled
    <2> QED BY <2>1, <2>2, <2>3, <2>4, <2>5, <2>6, <2>7
<1>17. ASSUME NEW i \in B!Ios, B!Signal(i)
      PROVE  BInv'
    <2> USE <1>17 DEF B!Signal, B!At
    <2>1. B!TypeOK'
        BY DEF B!TypeOK
    <2>2. MemOk'
        BY DEF B!TypeOK, MemOk, Holds
    <2>3. AddOk'
        BY DEF B!TypeOK, AddOk
    <2>4. ReadyOk'
        BY DEF B!TypeOK, AddOk, ReadyOk
    <2>5. CountOk'
        <3>1. Pending' = Pending
            BY SamePending DEF B!TypeOK
        <3> QED BY <3>1 DEF B!TypeOK, AddOk, ReadyOk, CountOk
    <2>6. ResOk'
        BY DEF B!TypeOK, AddOk, ReadyOk, CountOk, ResOk
    <2>7. RetOk'
        BY DEF B!TypeOK, AddOk, ReadyOk, CountOk, ResOk, RetOk, B!Signalled
    <2> QED BY <2>1, <2>2, <2>3, <2>4, <2>5, <2>6, <2>7
<1>18. ASSUME NEW i \in B!Ios, B!NoHandler(i)
      PROVE  BInv'
    <2> USE <1>18 DEF B!NoHandler, B!At
    <2>1. B!TypeOK'
        BY DEF B!TypeOK
    <2>2. MemOk'
        BY DEF B!TypeOK, MemOk, Holds
    <2>3. AddOk'
        BY DEF B!TypeOK, AddOk
    <2>4. ReadyOk'
        BY DEF B!TypeOK, AddOk, ReadyOk
    <2>5. CountOk'
        BY DEF B!TypeOK, AddOk, ReadyOk, CountOk, Pending
    <2>6. ResOk'
        BY DEF B!TypeOK, AddOk, ReadyOk, CountOk, ResOk
    <2>7. RetOk'
        BY DEF B!TypeOK, AddOk, ReadyOk, CountOk, ResOk, RetOk, B!Signalled
    <2> QED BY <2>1, <2>2, <2>3, <2>4, <2>5, <2>6, <2>7
<1>19. ASSUME NEW i \in B!Ios, B!CheckResult(i)
      PROVE  BInv'
    <2> USE <1>19 DEF B!CheckResult, B!At
    <2>1. B!TypeOK'
        BY DEF B!TypeOK
    <2>2. MemOk'
        BY DEF B!TypeOK, MemOk, Holds
    <2>3. AddOk'
        BY DEF B!TypeOK, AddOk
    <2>4. ReadyOk'
        BY DEF B!TypeOK, AddOk, ReadyOk
    <2>5. CountOk'
        <3>1. Pending' = Pending
            BY SamePending DEF B!TypeOK
        <3> QED BY <3>1 DEF B!TypeOK, AddOk, ReadyOk, CountOk
    <2>6. ResOk'
        BY DEF B!TypeOK, AddOk, ReadyOk, CountOk, ResOk
    <2>7. RetOk'
        BY DEF B!TypeOK, AddOk, ReadyOk, CountOk, ResOk, RetOk, B!Signalled
    <2> QED BY <2>1, <2>2, <2>3, <2>4, <2>5, <2>6, <2>7
<1>20. ASSUME NEW i \in B!Ios, B!MergeResult(i)
      PROVE  BInv'
    <2> USE <1>20 DEF B!MergeResult, B!At
    <2>1. B!TypeOK'
        BY DEF B!TypeOK
    <2>2. MemOk'
        BY DEF B!TypeOK, MemOk, Holds
    <2>3. AddOk'
        BY DEF B!TypeOK, AddOk
    <2>4. ReadyOk'
        BY DEF B!TypeOK, AddOk, ReadyOk
    <2>5. CountOk'
        <3>1. Pending' = Pending
            BY SamePending DEF B!TypeOK
        <3> QED BY <3>1 DEF B!TypeOK, AddOk, ReadyOk, CountOk
    <2>6. ResOk'
        BY DEF B!TypeOK, AddOk, ReadyOk, CountOk, ResOk
    <2>7. RetOk'
        BY DEF B!TypeOK, AddOk, ReadyOk, CountOk, ResOk, RetOk, B!Signalled
    <2> QED BY <2>1, <2>2, <2>3, <2>4, <2>5, <2>6, <2>7
<1>21. ASSUME NEW i \in B!Ios, B!DecCount(i)
      PROVE  BInv'
    <2> USE <1>21 DEF B!DecCount, B!At
    <2>0. /\ i \in ready /\ i \in Pending /\ pc \in {"submit", "wait", "event"}
        BY DEF ReadyOk, CountOk, Pending
    <2>a. Pending' = Pending \ {i}
        BY DEF Pending, B!TypeOK
    <2>b. Cardinality(Pending') = count - 1 /\ count = Cardinality(Pending) /\ count \in Nat \ {0}
        BY <2>0, <2>a, PendingFinite, FS_RemoveElement, FS_EmptySet DEF CountOk
    <2>1. B!TypeOK'
        BY <2>b DEF B!TypeOK
    <2>2. MemOk'
        BY DEF B!TypeOK, MemOk, Holds
    <2>3. AddOk'
        BY DEF B!TypeOK, AddOk
    <2>4. ReadyOk'
        BY DEF B!TypeOK, AddOk, ReadyOk
    <2>5. CountOk'
        BY <2>0, <2>b DEF B!TypeOK, CountOk
    <2>6. ResOk'
        BY DEF B!TypeOK, AddOk, ReadyOk, CountOk, ResOk
    <2>7. RetOk'
        BY DEF B!TypeOK, AddOk, ReadyOk, CountOk, ResOk, RetOk, B!Signalled
    <2> QED BY <2>1, <2>2, <2>3, <2>4, <2>5, <2>6, <2>7
<1>22. ASSUME NEW i \in B!Ios, B!SetAll(i)
      PROVE  BInv'
    <2> USE <1>22 DEF B!SetAll, B!At
    <2>1. B!TypeOK'
        BY DEF B!TypeOK
    <2>2. MemOk'
        BY DEF B!TypeOK, MemOk, Holds
    <2>3. AddOk'
        BY DEF B!TypeOK, AddOk
    <2>4. ReadyOk'
        BY DEF B!TypeOK, AddOk, ReadyOk
    <2>5. CountOk'
        <3>1. Pending' = Pending
            BY SamePending DEF B!TypeOK
        <3> QED BY <3>1 DEF B!TypeOK, AddOk, ReadyOk, CountOk
    <2>6. ResOk'
        BY DEF B!TypeOK, AddOk, ReadyOk, CountOk, ResOk
    <2>7. RetOk'
        BY DEF B!TypeOK, AddOk, ReadyOk, CountOk, ResOk, RetOk, B!Signalled
    <2> QED BY <2>1, <2>2, <2>3, <2>4, <2>5, <2>6, <2>7
<1> QED BY <1>1, <1>2, <1>3, <1>4, <1>5, <1>6, <1>7, <1>8, <1>9, <1>10, <1>11, <1>12,
           <1>13, <1>14, <1>15, <1>16, <1>17, <1>18, <1>19, <1>20, <1>21, <1>22
    DEF B!Next, B!Owner, B!AddIo, B!Completion

\* The invariant holds as long as a list of bios is what runs.
LEMMA BioInductive == Spec => []BioInv
<1>1. Init => BioInv
    <2> SUFFICES ASSUME B!Init PROVE BInv
        BY DEF Init, BioInv
    <2> USE DEF B!Init, B!Ios, B!Ok, B!Bad
    <2>1. \A i \in B!Ios : mem[i] \in Mem /\ Holds(mem[i], "page")
        BY DEF Mem, Holds, B!NoMem
    <2>2. mem \in [B!Ios -> Mem]
        BY <2>1
    <2>3. B!TypeOK
        <3>1. saw \in [B!Ios -> BOOLEAN] /\ event \in BOOLEAN /\ fuaMode \in BOOLEAN
            BY DEF B!Init
        <3> QED BY <2>2, <3>1 DEF B!TypeOK, Mem
    <2>4. MemOk
        BY <2>1 DEF MemOk
    <2>5. B!Plain = {}
        BY DEF B!Plain
    <2>6. AddOk /\ ReadyOk /\ CountOk /\ ResOk /\ RetOk
        BY <2>5 DEF AddOk, ReadyOk, CountOk, ResOk, RetOk, Adding, Ended
    <2> QED BY <2>3, <2>4, <2>6 DEF BInv
<1>2. BioInv /\ [Next]_vars => BioInv'
    <2> SUFFICES ASSUME BInv, part = "bio", part' = "bio", [Next]_vars PROVE BInv'
        BY DEF BioInv, Next, vars, Worker, Bio, Stream
    <2>1. CASE B!Next
        BY <2>1, BStep
    <2>2. CASE UNCHANGED vars
        <3> USE <2>2 DEF vars, bioOnly, BInv, B!Ios, B!Plain
        <3>1. B!TypeOK'
            BY DEF B!TypeOK
        <3>2. MemOk' /\ AddOk' /\ ReadyOk'
            BY DEF MemOk, AddOk, ReadyOk
        <3>3. CountOk'
            BY DEF CountOk, Pending
        <3>4. ResOk' /\ RetOk'
            BY DEF ResOk, RetOk
        <3> QED BY <3>1, <3>2, <3>3, <3>4
    <2> QED BY <2>1, <2>2 DEF Next, Worker, Bio, Stream
<1> QED BY <1>1, <1>2, PTL DEF Spec

\* BioList::SubmitWaitResult returns success only if every request was
\* submitted and succeeded, and an error only if something failed.
THEOREM ResultIsTrue == Spec => []ResultTells
<1>1. BioInv => ResultTells
    <2> SUFFICES ASSUME BInv, pc \in {"return", "gone"}
                 PROVE  /\ ret = "ok" => B!Submitted = 1 .. n /\ B!Failed = {}
                        /\ ret = "error" => faults > 0
        BY DEF BioInv, ResultTells, B!ResultTells, B!Ok, B!Bad
    <2> USE DEF BInv, Ended
    <2>1. ret = "error" => faults > 0
        BY DEF RetOk
    <2>2. ASSUME ret = "ok" PROVE B!Submitted = 1 .. n /\ B!Failed = {}
        <3>1. \A i \in 1 .. n : i \in B!Ios /\ bio[i] # "new" /\ result[i] = "ok"
            BY <2>2 DEF RetOk, B!TypeOK, B!Ios
        <3>2. \A i \in B!Ios : i \notin 1 .. n => bio[i] = "new"
            BY DEF ReadyOk, B!TypeOK, B!Ios, B!Plain
        <3>3. \A i \in B!Ios : result[i] = "ok"
            BY <3>1, <3>2 DEF ResOk
        <3> QED BY <3>1, <3>2, <3>3 DEF B!Submitted, B!Failed, B!Ok
    <2> QED BY <2>1, <2>2
<1> QED BY <1>1, BioInductive, PTL

\* The bio that carries PREFLUSH and FUA is submitted after all others have
\* completed without an error.
THEOREM FuaIsLast == Spec => []FuaLast
<1>1. BioInv => FuaLast
    <2> SUFFICES ASSUME BInv, fuaMode, n > 1, bio[n] # "new", NEW i \in 1 .. n - 1
                 PROVE  bio[i] \notin {"new", "submitted"} /\ result[i] = "ok"
        BY DEF BioInv, FuaLast, B!FuaLast, B!Ok
    <2>1. i \in ready
        BY DEF BInv, RetOk, B!TypeOK, B!Plain
    <2> QED BY <2>1 DEF BInv, RetOk, B!TypeOK, Settled
<1> QED BY <1>1, BioInductive, PTL

\* A bio that is with the device has its page and its private data, and the
\* counter and result of a list that is gone are not touched.
THEOREM DeviceHasItsPages == Spec => []InFlightAlive
<1>1. BioInv => InFlightAlive
    <2> SUFFICES ASSUME BInv PROVE B!InFlightAlive
        BY DEF BioInv, InFlightAlive
    <2>1. ASSUME NEW i \in B!Ios, bio[i] \in {"submitted", "ended"}
          PROVE  mem[i].bio /\ mem[i].priv /\ mem[i].page = 2
        <3>1. pc # "gone"
            BY <2>1 DEF BInv, RetOk, Ended
        <3>2. i <= n
            BY <2>1 DEF BInv, ReadyOk, B!TypeOK, B!Ios, B!Plain
        <3>3. Holds(mem[i], "link")
            BY <3>1, <3>2 DEF BInv, MemOk
        <3> QED BY <3>3 DEF Holds
    <2>2. pc = "gone" => \A i \in ready : bio[i] \in {"counted", "done"}
        BY DEF BInv, CountOk, Settled
    <2> QED BY <2>1, <2>2 DEF B!InFlightAlive
<1> QED BY <1>1, BioInductive, PTL

\* When the list is gone so is everything that AddIo allocated, whichever
\* allocation failed.
THEOREM AllGivenBack == Spec => []NothingLeaks
<1>1. BioInv => NothingLeaks
    <2> SUFFICES ASSUME BInv, pc = "gone", NEW i \in B!Ios PROVE mem[i] = B!NoMem
        BY DEF BioInv, NothingLeaks, B!NothingLeaks
    <2>1. mem[i] \in Mem
        BY DEF BInv, B!TypeOK, Mem
    <2>2. i = n + 1 => Holds(mem[i], "gone")
        BY DEF BInv, MemOk
    <2>3. Holds(mem[i], "gone") => Holds(mem[i], "page")
        BY DEF Holds
    <2>4. n \in Nat /\ i \in Nat
        BY DEF BInv, B!TypeOK, B!Ios
    <2>5. Holds(mem[i], "page")
        BY <2>2, <2>3, <2>4 DEF BInv, MemOk
    <2> QED BY <2>1, <2>5, Objects
<1> QED BY <1>1, BioInductive, PTL


-----------------------------------------------------------------------------
(* PacketStream.                                                           *)

\* The packet of the request under way.
Pkt == P!Packet(sent[Len(sent)])

\* The units of s are those of the packet from offset o on.
Piece(s, o) == \A i \in 1 .. Len(s) : s[i] = Pkt[o + i]

\* Each request is executed at most once and in order, and so are the answers.
HistOk ==
    /\ Len(sent) <= MaxRequests
    /\ Len(handled) <= Len(sent) /\ Len(answers) <= Len(handled)
    /\ \A i \in 1 .. Len(handled) : handled[i] = sent[i]
    /\ \A i \in 1 .. Len(answers) : answers[i] = sent[i]
    /\ srv = "closed" => sbuf = <<>>

\* Nothing is under way.
Quiet ==
    /\ Len(answers) = Len(sent)
    /\ cst \in {"idle", "closed"} /\ srv \in {"header", "closed"}
    /\ up = <<>> /\ down = <<>> /\ toSend = <<>> /\ sbuf = <<>> /\ cbuf = <<>>
    /\ lost.up = 0 /\ lost.down = 0

\* The units between the server's buffer and the client are the last ones of
\* the packet, all that are not parsed, or fewer if a timeout has dropped some.
RequestAt(m) ==
    /\ Len(sbuf) + Len(up) + Len(toSend) = Len(Pkt) - m
    /\ Piece(sbuf, m) /\ Piece(up, m + Len(sbuf))
    /\ Piece(toSend, m + Len(sbuf) + Len(up))

\* A request is under way.
Asking ==
    /\ Len(sent) = Len(handled) + 1 /\ Len(answers) = Len(handled)
    /\ cst \in {"sending", "header", "failed", "closed"}
    /\ srv \in {"header", "data", "handle", "closed"}
    /\ down = <<>> /\ cbuf = <<>>
    /\ lost.down = 0 /\ lost.up \in {0, Len(sent)}
    /\ cst \notin {"sending", "header"} => srv = "closed"
    /\ cst = "header" => toSend = <<>>
    /\ srv = "header" => \E m \in 0 .. Len(Pkt) :
         RequestAt(m) /\ Len(sbuf) < 2 /\ (m = 0 <=> lost.up = 0)
    /\ srv = "data" => /\ cur = sent[Len(sent)] /\ cur \notin Bare
                       /\ \E m \in 2 .. Len(Pkt) :
                            RequestAt(m) /\ Len(sbuf) < 2 /\ (m = 2 <=> lost.up = 0)
    /\ srv = "handle" => /\ cur = sent[Len(sent)] /\ lost.up = 0
                         /\ up = <<>> /\ toSend = <<>> /\ sbuf = <<>>

Got == Len(cbuf) + Len(down)

\* The i-th unit of the answer, read by the client or on its way.
At(i) == IF i <= Len(cbuf) THEN cbuf[i] ELSE down[i - Len(cbuf)]

\* The first k of these units, as far as they are there, are the packet's.
AnswerTo(k) == \A i \in 1 .. Got : i <= k => At(i) = Pkt[i]

\* An answer is under way, or its sending was given up.
Answering ==
    /\ Len(sent) = Len(handled) /\ Len(answers) + 1 = Len(handled)
    /\ cst \in {"sending", "header", "data", "failed", "closed"}
    /\ srv \in {"send", "header", "closed"}
    /\ up = <<>> /\ toSend = <<>>
    /\ lost.up = 0 /\ lost.down \in {0, Len(sent)}
    /\ srv = "send" => /\ cur = sent[Len(sent)]
                       /\ Len(sbuf) < Len(Pkt) /\ Piece(sbuf, 0)
    /\ srv = "header" => sbuf = <<>>
    /\ cst = "sending" => cbuf = <<>>
    /\ cst = "header" => Len(cbuf) < 2
    /\ cst = "data" => Len(cbuf) \in {2, 3} /\ sent[Len(sent)] \notin Bare
    /\ cst \in {"sending", "header", "data"} /\ lost.down = 0 =>
         /\ AnswerTo(Len(Pkt))
         /\ srv = "send" => Got = Len(sbuf)
         /\ srv = "header" => Got = Len(Pkt)
         /\ Got <= Len(Pkt)
    /\ cst \in {"sending", "header", "data"} /\ lost.down # 0 =>
         \E p \in 2 .. Len(Pkt) :
            /\ AnswerTo(p - 1)
            /\ \/ Got >= p /\ At(p) # Pkt[p]
               \/ Got = p - 1 /\ sbuf = <<>> /\ srv \in {"send", "closed"}

PInv == P!TypeOK /\ HistOk /\ (Quiet \/ Asking \/ Answering)
StreamInv == part = "stream" => PInv

-----------------------------------------------------------------------------
\* Sequences of units that agree in every place are the same.
LEMMA SeqSame ==
    ASSUME NEW s \in Seq(P!Units), NEW t \in Seq(P!Units), Len(s) = Len(t),
           \A i \in 1 .. Len(s) : s[i] = t[i]
    PROVE  s = t
  OBVIOUS

\* What is left of a sequence without its first k units.
LEMMA DropFirst ==
    ASSUME NEW s \in Seq(P!Units), NEW k \in 0 .. Len(s)
    PROVE  /\ SubSeq(s, k + 1, Len(s)) \in Seq(P!Units)
           /\ Len(SubSeq(s, k + 1, Len(s))) = Len(s) - k
           /\ \A i \in 1 .. Len(s) - k : SubSeq(s, k + 1, Len(s))[i] = s[k + i]
  OBVIOUS

\* The first k units of a sequence.
LEMMA TakeFirst ==
    ASSUME NEW s \in Seq(P!Units), NEW k \in 0 .. Len(s)
    PROVE  /\ SubSeq(s, 1, k) \in Seq(P!Units) /\ Len(SubSeq(s, 1, k)) = k
           /\ \A i \in 1 .. k : SubSeq(s, 1, k)[i] = s[i]
  OBVIOUS

\* k units of a sequence after the first o.
LEMMA Slice ==
    ASSUME NEW s \in Seq(P!Units), NEW o \in Nat, NEW k \in Nat, o + k <= Len(s)
    PROVE  /\ SubSeq(s, o + 1, o + k) \in Seq(P!Units)
           /\ Len(SubSeq(s, o + 1, o + k)) = k
           /\ \A i \in 1 .. k : SubSeq(s, o + 1, o + k)[i] = s[o + i]
  OBVIOUS

\* Two sequences of units, one after the other.
LEMMA Joined ==
    ASSUME NEW s \in Seq(P!Units), NEW t \in Seq(P!Units)
    PROVE  /\ s \o t \in Seq(P!Units) /\ Len(s \o t) = Len(s) + Len(t)
           /\ \A i \in 1 .. Len(s) : (s \o t)[i] = s[i]
           /\ \A i \in 1 .. Len(t) : (s \o t)[Len(s) + i] = t[i]
  OBVIOUS

\* The first unit of a sequence, and the others.
LEMMA HeadTail ==
    ASSUME NEW s \in Seq(P!Units), s # <<>>
    PROVE  /\ Len(s) \in Nat \ {0} /\ Head(s) = s[1] /\ s[1] \in P!Units
           /\ Tail(s) \in Seq(P!Units) /\ Len(Tail(s)) = Len(s) - 1
           /\ \A i \in 1 .. Len(s) - 1 : Tail(s)[i] = s[i + 1]
  OBVIOUS

\* A sequence with a unit more.
LEMMA Appended ==
    ASSUME NEW s \in Seq(P!Units), NEW x \in P!Units
    PROVE  /\ Append(s, x) \in Seq(P!Units) /\ Len(Append(s, x)) = Len(s) + 1
           /\ \A i \in 1 .. Len(s) : Append(s, x)[i] = s[i]
           /\ Append(s, x)[Len(s) + 1] = x
  OBVIOUS

\* A history with a content more.
LEMMA HistoryAppended ==
    ASSUME NEW s \in Seq(Contents), NEW x \in Contents
    PROVE  /\ Append(s, x) \in Seq(Contents) /\ Len(Append(s, x)) = Len(s) + 1
           /\ \A i \in 1 .. Len(s) : Append(s, x)[i] = s[i]
           /\ Append(s, x)[Len(s) + 1] = x
  OBVIOUS

\* The units of a packet: a header, and data unless the content is bare.
LEMMA PacketUnits ==
    ASSUME NEW c \in Contents
    PROVE  /\ P!Packet(c) \in Seq(P!Units)
           /\ c \in Bare => Len(P!Packet(c)) = 2
           /\ c \notin Bare => Len(P!Packet(c)) = 4
           /\ P!Packet(c)[1] = <<c, "h1">> /\ P!Packet(c)[2] = <<c, "h2">>
           /\ c \notin Bare => /\ P!Packet(c)[3] = <<c, "d1">>
                               /\ P!Packet(c)[4] = <<c, "d2">>
  <1>1. /\ <<c, "h1">> \in P!Units /\ <<c, "h2">> \in P!Units
        /\ <<c, "d1">> \in P!Units /\ <<c, "d2">> \in P!Units
    BY DEF P!Units
  <1>2. CASE c \in Bare
    <2>1. P!Packet(c) = << <<c, "h1">>, <<c, "h2">> >> \o <<>>
      BY <1>2 DEF P!Packet, P!Header, P!Data
    <2> QED  BY <1>1, <1>2, <2>1
  <1>3. CASE c \notin Bare
    <2>1. P!Packet(c) = << <<c, "h1">>, <<c, "h2">> >> \o << <<c, "d1">>, <<c, "d2">> >>
      BY <1>3 DEF P!Packet, P!Header, P!Data
    <2> QED  BY <1>1, <1>3, <2>1
  <1> QED  BY <1>2, <1>3

\* The packet under way, unit by unit.
LEMMA PktUnits ==
    ASSUME P!TypeOK, Len(sent) > 0
    PROVE  /\ sent[Len(sent)] \in Contents
           /\ Pkt \in Seq(P!Units) /\ Len(Pkt) \in {2, 4}
           /\ Len(Pkt) = 2 <=> sent[Len(sent)] \in Bare
           /\ Pkt[1] = <<sent[Len(sent)], "h1">> /\ Pkt[2] = <<sent[Len(sent)], "h2">>
           /\ \A i \in 2 .. Len(Pkt) : Pkt[i] # Pkt[1]
           /\ \A i \in 2 .. Len(Pkt), c \in Contents : Pkt[i] # <<c, "h1">>
  <1>1. sent[Len(sent)] \in Contents
    BY DEF P!TypeOK
  <1>2. PICK c \in Contents : c = sent[Len(sent)]
    BY <1>1
  <1>3. Pkt = P!Packet(c)
    BY <1>2 DEF Pkt
  <1>4. /\ Pkt \in Seq(P!Units) /\ Pkt[1] = <<c, "h1">> /\ Pkt[2] = <<c, "h2">>
        /\ \/ c \in Bare /\ Len(Pkt) = 2
           \/ c \notin Bare /\ Len(Pkt) = 4 /\ Pkt[3] = <<c, "d1">> /\ Pkt[4] = <<c, "d2">>
    BY <1>3, PacketUnits
  <1>5. \A i \in 2 .. Len(Pkt) :
          Pkt[i] = <<c, "h2">> \/ Pkt[i] = <<c, "d1">> \/ Pkt[i] = <<c, "d2">>
    <2>1. \A i \in 2 .. 4 : i = 2 \/ i = 3 \/ i = 4
      OBVIOUS
    <2>2. \A i \in 2 .. 2 : i = 2
      OBVIOUS
    <2> QED  BY <1>4, <2>1, <2>2
  <1>6. \A i \in 2 .. Len(Pkt), d \in Contents : Pkt[i] # <<d, "h1">>
    BY <1>5
  <1> QED  BY <1>2, <1>4, <1>6

-----------------------------------------------------------------------------
\* A new connection satisfies the invariant.
LEMMA PacketInit == P!Init => PInv
  <1> SUFFICES ASSUME P!Init PROVE PInv
    OBVIOUS
  <1>1. P!TypeOK
    BY DEF P!Init, P!TypeOK
  <1>2. HistOk /\ Quiet
    BY DEF P!Init, HistOk, Quiet
  <1> QED  BY <1>1, <1>2 DEF PInv

\* While sent stays, so does the packet.
LEMMA PktStays == sent' = sent => Pkt' = Pkt
  BY DEF Pkt

\* What holds of the first k units holds of fewer.
LEMMA AnswerLess ==
    ASSUME P!TypeOK, NEW k \in Nat, NEW j \in Nat, j <= k, AnswerTo(k)
    PROVE  AnswerTo(j)
  <1>1. Got \in Nat
    BY DEF P!TypeOK, Got
  <1>2. \A i \in 1 .. Got : i <= j => i <= k
    BY <1>1
  <1> QED  BY <1>2 DEF AnswerTo

\* What a receive that fails notes about the request.
LEMMA LoseUpSets ==
    ASSUME P!TypeOK, HistOk, Len(handled) < Len(sent), P!LoseUp
    PROVE  /\ lost' \in [up : 0 .. MaxRequests, down : 0 .. MaxRequests]
           /\ lost'.down = lost.down
           /\ lost'.up = IF sbuf = <<>> THEN lost.up ELSE Len(handled) + 1
  <1>1. Len(handled) + 1 \in 0 .. MaxRequests
    BY DEF P!TypeOK, HistOk
  <1>2. lost \in [up : 0 .. MaxRequests, down : 0 .. MaxRequests]
    BY DEF P!TypeOK
  <1> QED  BY <1>1, <1>2 DEF P!LoseUp

\* What a send that fails notes about the answer.
LEMMA LoseDownSets ==
    ASSUME P!TypeOK, HistOk, P!LoseDown
    PROVE  /\ lost' \in [up : 0 .. MaxRequests, down : 0 .. MaxRequests]
           /\ lost'.up = lost.up
           /\ lost'.down = IF sbuf = <<>> THEN lost.down ELSE Len(handled)
  <1>1. Len(handled) \in 0 .. MaxRequests
    BY DEF P!TypeOK, HistOk
  <1>2. lost \in [up : 0 .. MaxRequests, down : 0 .. MaxRequests]
    BY DEF P!TypeOK
  <1> QED  BY <1>1, <1>2 DEF P!LoseDown

\* A receive that times out moves the place in the packet past what it drops.
LEMMA RecvTimeoutKeeps == PInv /\ P!RecvTimeout => PInv'
  <1> SUFFICES ASSUME PInv, P!RecvTimeout PROVE PInv'
    OBVIOUS
  <1>1. P!TypeOK /\ HistOk
    BY DEF PInv
  <1>3. /\ UNCHANGED <<up, down, toSend, cst, cbuf, sent, answers, srv, cur, handled, faults>>
        /\ sbuf' = <<>> /\ P!LoseUp /\ up = <<>>
        /\ srv \in {"header", "data"}
    BY DEF P!RecvTimeout, P!client
  <1>2. Pkt' = Pkt
    BY <1>3, PktStays
  <1>4. CASE Quiet
    <2>0. lost' = lost
      BY <1>3, <1>4 DEF Quiet, P!LoseUp
    <2>1. Quiet'
      BY <1>3, <1>4, <2>0 DEF Quiet
    <2>2. P!TypeOK'
      BY <1>1, <1>3, <2>0 DEF P!TypeOK
    <2>3. HistOk'
      BY <1>1, <1>3 DEF HistOk
    <2> QED BY <2>1, <2>2, <2>3 DEF PInv
  <1>5. CASE Asking
    <2>0. /\ Len(sent) \in Nat \ {0} /\ Len(handled) + 1 = Len(sent)
          /\ Len(sbuf) \in Nat /\ Len(toSend) \in Nat /\ Len(up) = 0
          /\ sbuf = <<>> <=> Len(sbuf) = 0
          /\ lost.up \in {0, Len(sent)} /\ lost.down = 0
      BY <1>1, <1>3, <1>5 DEF Asking, P!TypeOK
    <2>1. /\ lost' \in [up : 0 .. MaxRequests, down : 0 .. MaxRequests]
          /\ lost'.down = 0 /\ lost'.up \in {0, Len(sent)}
          /\ lost'.up = 0 <=> (Len(sbuf) = 0 /\ lost.up = 0)
      BY <1>1, <1>3, <2>0, LoseUpSets
    <2>2. P!TypeOK'
      BY <1>1, <1>3, <2>1 DEF P!TypeOK
    <2>3. HistOk'
      BY <1>1, <1>3 DEF HistOk
    <2>5. ASSUME NEW m \in 0 .. Len(Pkt), RequestAt(m), NEW q \in Nat, q = m + Len(sbuf)
          PROVE  RequestAt(q)' /\ q \in 0 .. Len(Pkt)
      <3>1. Len(Pkt) \in Nat
        BY <1>1, <2>0, PktUnits
      <3>2. Len(sbuf) + Len(toSend) = Len(Pkt) - m /\ Piece(toSend, q)
        BY <2>0, <2>5 DEF RequestAt
      <3>3. Len(sbuf') = 0 /\ Len(up') = 0
        BY <1>3, <2>0
      <3>4. Piece(toSend, q + Len(sbuf) + Len(up))'
        BY <1>2, <1>3, <3>2, <3>3 DEF Piece
      <3>5. Piece(sbuf, q)' /\ Piece(up, q + Len(sbuf))'
        BY <1>2, <1>3, <3>3 DEF Piece
      <3> QED  BY <1>2, <1>3, <2>0, <2>5, <3>1, <3>2, <3>3, <3>4, <3>5 DEF RequestAt
    <2>6. ASSUME srv = "header"
          PROVE  \E m \in 0 .. Len(Pkt) : RequestAt(m)' /\ (m = 0 <=> lost'.up = 0)
      <3>1. PICK m \in 0 .. Len(Pkt) : RequestAt(m) /\ (m = 0 <=> lost.up = 0)
        BY <1>5, <2>6 DEF Asking
      <3>2. PICK q \in Nat : q = m + Len(sbuf)
        BY <2>0
      <3> QED  BY <2>0, <2>1, <2>5, <3>1, <3>2
    <2>7. ASSUME srv = "data"
          PROVE  \E m \in 2 .. Len(Pkt) : RequestAt(m)' /\ (m = 2 <=> lost'.up = 0)
      <3>1. PICK m \in 2 .. Len(Pkt) : RequestAt(m) /\ (m = 2 <=> lost.up = 0)
        BY <1>5, <2>7 DEF Asking
      <3>2. PICK q \in Nat : q = m + Len(sbuf)
        BY <2>0
      <3> QED  BY <2>0, <2>1, <2>5, <3>1, <3>2
    <2>8. Asking'
      BY <1>2, <1>3, <1>5, <2>1, <2>6, <2>7 DEF Asking
    <2> QED  BY <2>2, <2>3, <2>8 DEF PInv
  <1>6. CASE Answering
    <2>1. sbuf = <<>> /\ lost' = lost
      BY <1>3, <1>6 DEF Answering, P!LoseUp
    <2>2. Answering'
      BY <1>2, <1>3, <1>6, <2>1 DEF Answering, AnswerTo, At, Got, Piece
    <2>3. P!TypeOK' /\ HistOk'
      BY <1>1, <1>3, <2>1 DEF P!TypeOK, HistOk
    <2> QED  BY <2>2, <2>3 DEF PInv
  <1> QED BY <1>4, <1>5, <1>6 DEF PInv

\* A receive that ends the connection.
LEMMA RecvFailKeeps == PInv /\ P!RecvFail => PInv'
  <1> SUFFICES ASSUME PInv, P!RecvFail PROVE PInv'
    OBVIOUS
  <1>1. P!TypeOK /\ HistOk
    BY DEF PInv
  <1>2. /\ UNCHANGED <<up, down, toSend, cst, cbuf, sent, answers, cur, handled, faults>>
        /\ sbuf' = <<>> /\ srv' = "closed" /\ srv \in {"header", "data"}
        /\ \/ sbuf # <<>> /\ P!LoseUp
           \/ cst = "closed" /\ lost' = lost
    BY DEF P!RecvFail, P!Closed, P!client
  <1>3. Pkt' = Pkt
    BY <1>2, PktStays
  <1>4. HistOk'
    BY <1>1, <1>2 DEF HistOk
  <1>5. CASE Quiet
    <2>1. lost' = lost
      BY <1>2, <1>5 DEF Quiet
    <2> QED  BY <1>1, <1>2, <1>4, <1>5, <2>1 DEF PInv, P!TypeOK, Quiet
  <1>6. CASE Asking
    <2>1. Len(handled) + 1 = Len(sent) /\ Len(handled) \in Nat /\ Len(sent) \in Nat
          /\ lost.up \in {0, Len(sent)} /\ lost.down = 0
      BY <1>1, <1>6 DEF Asking, P!TypeOK
    <2>2. lost' = lost \/ P!LoseUp
      BY <1>2
    <2>3. /\ lost' \in [up : 0 .. MaxRequests, down : 0 .. MaxRequests]
          /\ lost'.down = 0 /\ lost'.up \in {0, Len(sent)}
      BY <1>1, <2>1, <2>2, LoseUpSets DEF P!TypeOK
    <2>4. P!TypeOK'
      BY <1>1, <1>2, <2>3 DEF P!TypeOK
    <2>5. Asking'
      BY <1>2, <1>6, <2>3 DEF Asking
    <2> QED  BY <1>4, <2>4, <2>5 DEF PInv
  <1>7. CASE Answering
    <2>1. cst = "closed" /\ lost' = lost
      BY <1>2, <1>7 DEF Answering
    <2>2. P!TypeOK'
      BY <1>1, <1>2, <2>1 DEF P!TypeOK
    <2>3. Answering'
      BY <1>2, <1>7, <2>1 DEF Answering
    <2> QED  BY <1>4, <2>2, <2>3 DEF PInv
  <1> QED  BY <1>5, <1>6, <1>7 DEF PInv

\* The handler turns the request into an answer, and nothing of it is sent yet.
LEMMA HandleKeeps == PInv /\ P!Handle => PInv'
  <1> SUFFICES ASSUME PInv, P!Handle PROVE PInv'
    OBVIOUS
  <1>1. P!TypeOK /\ HistOk
    BY DEF PInv
  <1>2. /\ UNCHANGED <<up, down, toSend, cst, cbuf, sent, answers, cur, lost, faults>>
        /\ sbuf' = <<>> /\ srv' = "send" /\ srv = "handle"
        /\ handled' = Append(handled, cur)
    BY DEF P!Handle, P!client
  <1>3. Pkt' = Pkt
    BY <1>2, PktStays
  <1>4. Asking
    BY <1>2 DEF PInv, Quiet, Answering
  <1>5. /\ cur = sent[Len(sent)] /\ lost.up = 0 /\ lost.down = 0
        /\ up = <<>> /\ toSend = <<>> /\ down = <<>> /\ cbuf = <<>>
        /\ Len(sent) = Len(handled) + 1 /\ Len(answers) = Len(handled)
        /\ cst \in {"sending", "header"}
    BY <1>2, <1>4 DEF Asking
  <1>6. /\ handled' \in Seq(Contents) /\ Len(handled') = Len(handled) + 1
        /\ \A i \in 1 .. Len(handled) : handled'[i] = handled[i]
        /\ handled'[Len(handled) + 1] = cur /\ Len(handled) \in Nat /\ Len(sent) > 0
    BY <1>1, <1>2, <1>5, HistoryAppended DEF P!TypeOK
  <1>7. P!TypeOK'
    BY <1>1, <1>2, <1>6 DEF P!TypeOK
  <1>8. HistOk'
    <2>1. \A i \in 1 .. Len(handled') : handled'[i] = sent[i]
      BY <1>1, <1>5, <1>6 DEF HistOk
    <2> QED  BY <1>1, <1>2, <1>5, <1>6, <2>1 DEF HistOk
  <1>9. Answering'
    <2>1. Len(Pkt) \in {2, 4}
      BY <1>1, <1>6, PktUnits
    <2>2. Len(down') = 0 /\ Len(cbuf') = 0 /\ Len(sbuf') = 0
      BY <1>2, <1>5
    <2>3. Piece(sbuf, 0)'
      BY <2>2 DEF Piece
    <2>4. Got' = 0
      BY <2>2 DEF Got
    <2>6. AnswerTo(Len(Pkt))'
      BY <2>4 DEF AnswerTo
    <2>7. lost' = lost /\ lost'.up = 0 /\ lost'.down = 0 /\ Len(sent') = Len(handled')
          /\ Len(answers') + 1 = Len(handled') /\ cur' = sent'[Len(sent')]
          /\ cst' \in {"sending", "header"} /\ srv' = "send" /\ cbuf' = <<>>
          /\ up' = <<>> /\ toSend' = <<>>
      BY <1>2, <1>5, <1>6
    <2>8. Len(sbuf') < Len(Pkt') /\ Got' = Len(sbuf') /\ Got' <= Len(Pkt') /\ Len(cbuf') < 2
      BY <1>3, <2>1, <2>2, <2>4
    <2> QED  BY <2>3, <2>6, <2>7, <2>8 DEF Answering
  <1> QED  BY <1>7, <1>8, <1>9 DEF PInv

\* A request for whose answer there is no memory stays the one under way, of a
\* connection that is closed.
LEMMA HandleFailKeeps == PInv /\ P!HandleFail => PInv'
  <1> SUFFICES ASSUME PInv, P!HandleFail PROVE PInv'
    OBVIOUS
  <1>1. P!TypeOK /\ HistOk
    BY DEF PInv
  <1>2. /\ UNCHANGED <<up, down, toSend, cst, cbuf, sent, answers, cur, handled, lost>>
        /\ sbuf' = <<>> /\ srv' = "closed" /\ srv = "handle" /\ P!Fault
    BY DEF P!HandleFail, P!Closed, P!client
  <1>3. Asking
    BY <1>2 DEF PInv, Quiet, Answering
  <1>4. faults' \in 0 .. MaxFaults
    BY <1>1, <1>2, CoreThreadsAssumption DEF P!TypeOK, P!Fault
  <1>5. P!TypeOK'
    BY <1>1, <1>2, <1>4 DEF P!TypeOK
  <1>6. HistOk'
    BY <1>1, <1>2 DEF HistOk
  <1>7. Asking'
    BY <1>2, <1>3 DEF Asking
  <1> QED  BY <1>5, <1>6, <1>7 DEF PInv

\* A new request begins at its first unit.
LEMMA ClientRequestKeeps == PInv /\ P!ClientRequest => PInv'
  <1> SUFFICES ASSUME PInv, P!ClientRequest PROVE PInv'
    OBVIOUS
  <1>1. P!TypeOK /\ HistOk
    BY DEF PInv
  <1>2. PICK c \in Contents :
        /\ UNCHANGED <<up, down, cbuf, answers, srv, sbuf, cur, handled, lost, faults>>
        /\ cst = "idle" /\ cst' = "sending" /\ Len(sent) < MaxRequests
        /\ toSend' = P!Packet(c) /\ sent' = Append(sent, c)
    BY DEF P!ClientRequest
  <1>3. Quiet
    BY <1>2 DEF PInv, Asking, Answering
  <1>4. /\ sent' \in Seq(Contents) /\ Len(sent') = Len(sent) + 1 /\ Len(sent) \in Nat
        /\ \A i \in 1 .. Len(sent) : sent'[i] = sent[i]
        /\ sent'[Len(sent')] = c
        /\ Len(handled) = Len(sent) /\ Len(answers) = Len(sent)
    BY <1>1, <1>2, <1>3, HistoryAppended DEF P!TypeOK, HistOk, Quiet
  <1>5. P!TypeOK'
    BY <1>1, <1>2, <1>4, PacketUnits DEF P!TypeOK
  <1>6. HistOk'
    BY <1>1, <1>2, <1>4 DEF HistOk
  <1>7. Pkt' = toSend' /\ toSend' \in Seq(P!Units)
    BY <1>2, <1>4, PacketUnits DEF Pkt
  <1>8. RequestAt(0)'
    <2>1. Len(sbuf') = 0 /\ Len(up') = 0 /\ Len(toSend') \in Nat
      BY <1>2, <1>3, <1>7 DEF Quiet
    <2>2. Piece(sbuf, 0)' /\ Piece(up, 0 + Len(sbuf))'
      BY <2>1 DEF Piece
    <2>3. Piece(toSend, 0 + Len(sbuf) + Len(up))'
      BY <1>7, <2>1 DEF Piece
    <2> QED  BY <1>7, <2>1, <2>2, <2>3 DEF RequestAt
  <1>9. Asking'
    <2>1. Len(sbuf') = 0 /\ 0 \in 0 .. Len(Pkt') /\ lost'.up = 0
      BY <1>2, <1>3, <1>7 DEF Quiet
    <2> QED  BY <1>2, <1>3, <1>4, <1>8, <2>1 DEF Quiet, Asking
  <1> QED  BY <1>5, <1>6, <1>9 DEF PInv

\* The client sees the end of the stream, or closes its side.
LEMMA ClientEofKeeps == PInv /\ (P!ClientEof \/ P!ClientClose) => PInv'
  <1> SUFFICES ASSUME PInv, P!ClientEof \/ P!ClientClose PROVE PInv'
    OBVIOUS
  <1>1. P!TypeOK /\ HistOk
    BY DEF PInv
  <1>2. /\ UNCHANGED <<up, down, toSend, sent, answers, srv, sbuf, cur, handled, lost, faults>>
        /\ cbuf' = cbuf \/ cbuf' = <<>>
        /\ \/ cst \in {"header", "data"} /\ srv = "closed" /\ cst' = "failed"
           \/ cst \in {"idle", "failed"} /\ cst' = "closed"
    BY DEF P!ClientEof, P!ClientClose
  <1>3. Pkt' = Pkt
    BY <1>2, PktStays
  <1>4. P!TypeOK' /\ HistOk'
    <2>0. <<>> \in Seq(P!Units) /\ cbuf \in Seq(P!Units)
      BY <1>1 DEF P!TypeOK
    <2>1. cbuf' \in Seq(P!Units)
      BY <1>2, <2>0
    <2>2. P!TypeOK'
      BY <1>1, <1>2, <2>1 DEF P!TypeOK
    <2>3. HistOk'
      BY <1>1, <1>2 DEF HistOk
    <2> QED  BY <2>2, <2>3
  <1>5. CASE Quiet
    BY <1>2, <1>4, <1>5 DEF PInv, Quiet
  <1>6. CASE Asking
    <2>1. srv = "closed"
      BY <1>2, <1>6 DEF Asking
    <2>2. Asking'
      BY <1>2, <1>6, <2>1 DEF Asking
    <2> QED  BY <1>4, <2>2 DEF PInv
  <1>7. CASE Answering
    <2>1. Answering'
      BY <1>2, <1>3, <1>7 DEF Answering, Piece
    <2> QED  BY <1>4, <2>1 DEF PInv
  <1> QED  BY <1>5, <1>6, <1>7 DEF PInv

\* A unit of the request moves from the client into the stream.
LEMMA ClientWriteKeeps == PInv /\ P!ClientWrite => PInv'
  <1> SUFFICES ASSUME PInv, P!ClientWrite PROVE PInv'
    OBVIOUS
  <1>1. P!TypeOK /\ HistOk
    BY DEF PInv
  <1>2. UNCHANGED <<down, cbuf, sent, answers, srv, sbuf, cur, handled, lost, faults>>
        /\ cst = "sending"
    BY DEF P!ClientWrite
  <1>3. Pkt' = Pkt
    BY <1>2, PktStays
  <1>4. HistOk'
    BY <1>1, <1>2 DEF HistOk
  <1>5. Asking \/ Answering
    BY <1>2 DEF PInv, Quiet
  <1>6. CASE /\ up' = up /\ toSend' = toSend
             /\ \/ srv = "closed" /\ cst' = "failed"
                \/ srv # "closed" /\ toSend = <<>> /\ cst' = "header"
    <2>1. P!TypeOK'
      BY <1>1, <1>2, <1>6 DEF P!TypeOK
    <2>3. CASE Asking
      <3>1. \A m \in Nat : RequestAt(m) => RequestAt(m)'
        BY <1>2, <1>3, <1>6 DEF RequestAt, Piece
      <3>2. ASSUME srv = "header" PROVE \E m \in 0 .. Len(Pkt') :
               RequestAt(m)' /\ Len(sbuf') < 2 /\ (m = 0 <=> lost'.up = 0)
        BY <1>2, <1>3, <2>3, <3>1, <3>2 DEF Asking
      <3>3. ASSUME srv = "data" PROVE \E m \in 2 .. Len(Pkt') :
               RequestAt(m)' /\ Len(sbuf') < 2 /\ (m = 2 <=> lost'.up = 0)
        BY <1>2, <1>3, <2>3, <3>1, <3>3 DEF Asking
      <3>4. Asking'
        BY <1>2, <1>6, <2>3, <3>2, <3>3 DEF Asking
      <3> QED  BY <1>4, <2>1, <3>4 DEF PInv
    <2>4. CASE Answering
      <3>1. /\ Got' = Got /\ (Piece(sbuf, 0) => Piece(sbuf, 0)')
        BY <1>2, <1>3 DEF Got, Piece
      <3>2. cbuf = <<>> /\ Len(cbuf) = 0
        BY <1>2, <2>4 DEF Answering
      <3>4. AnswerTo(Len(Pkt)) => AnswerTo(Len(Pkt))'
        BY <1>2, <1>3 DEF AnswerTo, At, Got
      <3>5. \A p \in 2 .. Len(Pkt) : (AnswerTo(p - 1) => AnswerTo(p - 1)') /\ At(p)' = At(p)
        BY <1>2, <1>3 DEF AnswerTo, At, Got
      <3>6. Answering'
        BY <1>2, <1>3, <1>6, <2>4, <3>1, <3>2, <3>4, <3>5 DEF Answering
      <3> QED  BY <1>4, <2>1, <3>6 DEF PInv
    <2> QED  BY <1>5, <2>3, <2>4
  <1>7. CASE /\ srv # "closed" /\ toSend # <<>> /\ Len(up) < Window
             /\ up' = Append(up, Head(toSend)) /\ toSend' = Tail(toSend)
             /\ cst' = cst
    <2>1. Asking
      BY <1>5, <1>7 DEF Answering
    <2>2. up \in Seq(P!Units) /\ toSend \in Seq(P!Units) /\ sbuf \in Seq(P!Units)
      BY <1>1 DEF P!TypeOK
    <2>3. /\ Len(toSend) \in Nat \ {0} /\ toSend[1] \in P!Units
          /\ toSend' \in Seq(P!Units) /\ Len(toSend') = Len(toSend) - 1
          /\ \A i \in 1 .. Len(toSend) - 1 : toSend'[i] = toSend[i + 1]
          /\ up' = Append(up, toSend[1])
      BY <1>7, <2>2, HeadTail
    <2>4. /\ up' \in Seq(P!Units) /\ Len(up') = Len(up) + 1
          /\ \A i \in 1 .. Len(up) : up'[i] = up[i]
          /\ up'[Len(up) + 1] = toSend[1]
      BY <2>2, <2>3, Appended
    <2>5. P!TypeOK'
      BY <1>1, <1>2, <1>7, <2>2, <2>3, <2>4 DEF P!TypeOK
    <2>6. Len(sbuf) \in Nat /\ Len(up) \in Nat /\ Len(Pkt) \in Nat
      <3>1. Len(sent) > 0
        BY <1>1, <2>1 DEF Asking, P!TypeOK
      <3> QED  BY <1>1, <2>2, <3>1, PktUnits
    <2>7. ASSUME NEW m \in 0 .. Len(Pkt), RequestAt(m) PROVE RequestAt(m)'
      <3>1. /\ Len(sbuf) + Len(up) + Len(toSend) = Len(Pkt) - m
            /\ \A i \in 1 .. Len(sbuf) : sbuf[i] = Pkt[m + i]
            /\ \A i \in 1 .. Len(up) : up[i] = Pkt[m + Len(sbuf) + i]
            /\ \A i \in 1 .. Len(toSend) : toSend[i] = Pkt[m + Len(sbuf) + Len(up) + i]
        BY <2>7 DEF RequestAt, Piece
      <3>2. Len(sbuf) + Len(up') + Len(toSend') = Len(Pkt) - m
        <4>1. /\ Len(up') = Len(up) + 1 /\ Len(toSend') = Len(toSend) - 1
              /\ Len(toSend) \in Nat /\ Len(up) \in Nat /\ Len(sbuf) \in Nat
          BY <2>3, <2>4, <2>6
        <4>2. Len(sbuf) + Len(up) + Len(toSend) = Len(Pkt) - m
          BY <3>1
        <4> QED  BY <4>1, <4>2
      <3>3. \A i \in 1 .. Len(up') : up'[i] = Pkt[m + Len(sbuf) + i]
        <4> SUFFICES ASSUME NEW i \in 1 .. Len(up') PROVE up'[i] = Pkt[m + Len(sbuf) + i]
          OBVIOUS
        <4>1. CASE i \in 1 .. Len(up)
          BY <2>4, <3>1, <4>1
        <4>2. CASE i = Len(up) + 1
          <5>1. toSend[1] = Pkt[m + Len(sbuf) + Len(up) + 1]
            BY <2>3, <3>1
          <5>2. m + Len(sbuf) + Len(up) + 1 = m + Len(sbuf) + i
            BY <2>6, <4>2
          <5> QED  BY <2>4, <4>2, <5>1, <5>2
        <4> QED  BY <2>4, <2>6, <4>1, <4>2
      <3>4. \A i \in 1 .. Len(toSend') : toSend'[i] = Pkt[m + Len(sbuf) + Len(up') + i]
        <4> SUFFICES ASSUME NEW i \in 1 .. Len(toSend')
                     PROVE  toSend'[i] = Pkt[m + Len(sbuf) + Len(up') + i]
          OBVIOUS
        <4>1. i + 1 \in 1 .. Len(toSend) /\ toSend'[i] = toSend[i + 1]
          BY <2>3
        <4>2. m + Len(sbuf) + Len(up) + (i + 1) = m + Len(sbuf) + Len(up') + i
          BY <2>4, <2>6
        <4> QED  BY <3>1, <4>1, <4>2
      <3> QED  BY <1>2, <1>3, <3>1, <3>2, <3>3, <3>4 DEF RequestAt, Piece
    <2>8. ASSUME srv = "header" PROVE \E m \in 0 .. Len(Pkt) :
             RequestAt(m)' /\ Len(sbuf) < 2 /\ (m = 0 <=> lost.up = 0)
      BY <2>1, <2>7, <2>8 DEF Asking
    <2>9. ASSUME srv = "data" PROVE \E m \in 2 .. Len(Pkt) :
             RequestAt(m)' /\ Len(sbuf) < 2 /\ (m = 2 <=> lost.up = 0)
      <3>1. PICK m \in 2 .. Len(Pkt) :
             RequestAt(m) /\ Len(sbuf) < 2 /\ (m = 2 <=> lost.up = 0)
        BY <2>1, <2>9 DEF Asking
      <3>2. m \in 0 .. Len(Pkt)
        OBVIOUS
      <3> QED  BY <2>7, <3>1, <3>2
    <2>10. srv # "handle"
      BY <1>7, <2>1 DEF Asking
    <2>11. Asking'
      BY <1>2, <1>3, <1>7, <2>1, <2>8, <2>9, <2>10 DEF Asking
    <2> QED  BY <1>4, <2>5, <2>11 DEF PInv
  <1> QED  BY <1>2, <1>6, <1>7 DEF P!ClientWrite

\* A send that times out or fails: what it sent of the answer is wrong from the
\* next unit on.
LEMMA SendTimeoutKeeps == PInv /\ (P!SendTimeout \/ P!SendFail) => PInv'
  <1> SUFFICES ASSUME PInv, P!SendTimeout \/ P!SendFail PROVE PInv'
    OBVIOUS
  <1>1. P!TypeOK /\ HistOk
    BY DEF PInv
  <1>2. /\ UNCHANGED <<up, down, toSend, cst, cbuf, sent, answers, cur, handled, faults>>
        /\ sbuf' = <<>> /\ srv = "send" /\ srv' \in {"send", "closed"}
        /\ P!LoseDown \/ (cst = "closed" /\ lost' = lost)
    BY DEF P!SendTimeout, P!SendFail, P!Closed, P!client
  <1>3. Pkt' = Pkt
    BY <1>2, PktStays
  <1>4. HistOk'
    BY <1>1, <1>2 DEF HistOk
  <1>5. Answering
    BY <1>2 DEF PInv, Quiet, Asking
  <1>6. /\ Len(sent) \in Nat \ {0} /\ Len(handled) = Len(sent)
        /\ Len(sbuf) \in Nat /\ Len(cbuf) \in Nat /\ Len(down) \in Nat
        /\ sbuf = <<>> <=> Len(sbuf) = 0
        /\ Len(sbuf) < Len(Pkt) /\ Len(Pkt) \in Nat
        /\ lost.up = 0 /\ lost.down \in {0, Len(sent)}
    <2>1. /\ Len(sent) \in Nat \ {0} /\ Len(handled) = Len(sent)
          /\ Len(sbuf) \in Nat /\ Len(cbuf) \in Nat /\ Len(down) \in Nat
          /\ sbuf = <<>> <=> Len(sbuf) = 0
      BY <1>1, <1>5, SMTT(20) DEF Answering, P!TypeOK
    <2> QED  BY <1>1, <1>2, <1>5, <2>1, PktUnits DEF Answering
  <1>7. /\ lost' \in [up : 0 .. MaxRequests, down : 0 .. MaxRequests]
        /\ lost'.up = 0 /\ lost'.down \in {0, Len(sent)}
        /\ cst # "closed" => lost'.down = IF sbuf = <<>> THEN lost.down ELSE Len(sent)
    BY <1>1, <1>2, <1>6, LoseDownSets DEF P!TypeOK
  <1>8. P!TypeOK'
    BY <1>1, <1>2, <1>7 DEF P!TypeOK
  <1>9. /\ Len(sbuf') = 0 /\ Piece(sbuf, 0)' /\ Got' = Got /\ Got = Len(cbuf) + Len(down)
    BY <1>2 DEF Piece, Got
  <1>10. \A k \in Nat : (AnswerTo(k) => AnswerTo(k)') /\ At(k)' = At(k)
    BY <1>2, <1>3 DEF AnswerTo, At, Got
  <1>11. ASSUME cst \in {"sending", "header", "data"}, lost'.down = 0
         PROVE  /\ AnswerTo(Len(Pkt))' /\ Got' <= Len(Pkt)
                /\ srv' = "send" => Got' = Len(sbuf')
    <2>1. sbuf = <<>> /\ lost.down = 0
      BY <1>6, <1>7, <1>11
    <2>2. AnswerTo(Len(Pkt)) /\ Got = Len(sbuf) /\ Got <= Len(Pkt)
      BY <1>2, <1>5, <1>11, <2>1 DEF Answering
    <2>3. AnswerTo(Len(Pkt))'
      BY <1>2, <1>3, <2>2 DEF AnswerTo, At, Got
    <2> QED  BY <1>6, <1>9, <2>1, <2>2, <2>3
  <1>12. ASSUME cst \in {"sending", "header", "data"}, lost'.down # 0
         PROVE  \E p \in 2 .. Len(Pkt) :
                  /\ AnswerTo(p - 1)'
                  /\ \/ Got' >= p /\ At(p)' # Pkt[p]
                     \/ Got' = p - 1
    <2>1. CASE lost.down = 0
      <3>1. sbuf # <<>> /\ AnswerTo(Len(Pkt)) /\ Got = Len(sbuf)
        BY <1>2, <1>5, <1>7, <1>12, <2>1 DEF Answering
      <3>2. PICK p \in 2 .. Len(Pkt) : p - 1 = Got
        BY <1>6, <3>1
      <3>3. AnswerTo(p - 1)
        <4>1. p - 1 \in Nat /\ p - 1 <= Len(Pkt)
          BY <1>6
        <4> QED  BY <1>1, <1>6, <3>1, <4>1, AnswerLess
      <3> QED  BY <1>9, <1>10, <3>2, <3>3
    <2>2. CASE lost.down # 0
      <3>1. PICK p \in 2 .. Len(Pkt) :
              AnswerTo(p - 1) /\ ((Got >= p /\ At(p) # Pkt[p]) \/ Got = p - 1)
        BY <1>5, <1>12, <2>2 DEF Answering
      <3>2. p \in Nat /\ p - 1 \in Nat
        BY <1>6
      <3> QED  BY <1>9, <1>10, <3>1, <3>2
    <2> QED  BY <2>1, <2>2
  <1>13. Answering'
    BY <1>2, <1>3, <1>5, <1>6, <1>7, <1>9, <1>11, <1>12 DEF Answering
  <1> QED  BY <1>4, <1>8, <1>13 DEF PInv

\* After a read of k units: u is what the buffer then holds.
UnitsRead(m, k, u) ==
    /\ Len(u) = Len(sbuf) + k
    /\ \A i \in 1 .. Len(u) : u[i] = Pkt[m + i]
    /\ up' \in Seq(P!Units) /\ Len(up') = Len(up) - k
    /\ \A i \in 1 .. Len(up') : up'[i] = Pkt[m + Len(u) + i]
    /\ \A i \in 1 .. Len(toSend) : toSend[i] = Pkt[m + Len(u) + Len(up') + i]
    /\ Len(u) + Len(up') + Len(toSend) = Len(Pkt) - m

\* What a read of k units does to the place in the packet.
LEMMA ReadUnits ==
    ASSUME P!TypeOK, Len(sent) > 0, NEW m \in Nat, RequestAt(m),
           NEW k \in Nat, 1 <= k, k <= Len(up),
           NEW u \in Seq(P!Units), u = sbuf \o SubSeq(up, 1, k),
           up' = SubSeq(up, k + 1, Len(up))
    PROVE  UnitsRead(m, k, u)
  <1>1. /\ up \in Seq(P!Units) /\ sbuf \in Seq(P!Units) /\ toSend \in Seq(P!Units)
        /\ Len(up) \in Nat /\ Len(sbuf) \in Nat /\ Len(toSend) \in Nat /\ k \in 0 .. Len(up)
    BY SMTT(20) DEF P!TypeOK
  <1>2. Len(Pkt) \in Nat
    BY PktUnits
  <1>3. /\ Len(sbuf) + Len(up) + Len(toSend) = Len(Pkt) - m
        /\ \A i \in 1 .. Len(sbuf) : sbuf[i] = Pkt[m + i]
        /\ \A i \in 1 .. Len(up) : up[i] = Pkt[m + Len(sbuf) + i]
        /\ \A i \in 1 .. Len(toSend) : toSend[i] = Pkt[m + Len(sbuf) + Len(up) + i]
    BY DEF RequestAt, Piece
  <1>4. PICK t \in Seq(P!Units) : t = SubSeq(up, 1, k)
    BY <1>1, TakeFirst
  <1>5. t \in Seq(P!Units) /\ Len(t) = k /\ \A i \in 1 .. k : t[i] = up[i]
    BY <1>1, <1>4, TakeFirst
  <1>6. /\ up' \in Seq(P!Units) /\ Len(up') = Len(up) - k
        /\ \A i \in 1 .. Len(up) - k : up'[i] = up[k + i]
    BY <1>1, DropFirst
  <1>7. /\ u \in Seq(P!Units) /\ Len(u) = Len(sbuf) + k
        /\ \A i \in 1 .. Len(sbuf) : u[i] = sbuf[i]
        /\ \A i \in 1 .. k : u[Len(sbuf) + i] = t[i]
    BY <1>1, <1>4, <1>5, Joined
  <1>0. Len(u) \in Nat /\ Len(up') \in Nat
    BY <1>1, <1>6, <1>7
  <1>8. ASSUME NEW i \in 1 .. Len(u) PROVE u[i] = Pkt[m + i]
    <2>1. CASE i \in 1 .. Len(sbuf)
      BY <1>3, <1>7, <2>1
    <2>0. PICK l \in Nat : l = Len(sbuf) /\ i \in 1 .. l + k
      BY <1>1, <1>7
    <2>2. CASE i > l
      <3>0. \A x \in 1 .. l + k : x > l => \E j \in 1 .. k : j = x - l
        OBVIOUS
      <3>1. PICK j \in 1 .. k : j = i - l
        BY <2>0, <2>2, <3>0, Zenon
      <3>5. i \in Nat /\ l + j = i
        BY <2>0, <3>1
      <3>2. Len(sbuf) + j = i /\ j \in 1 .. Len(up) /\ m + Len(sbuf) + j = m + i
        <4>1. m + l + j = m + i
          BY <3>5
        <4>2. j \in 1 .. Len(up)
          BY <1>1
        <4> QED  BY <2>0, <3>5, <4>1, <4>2
      <3>3. u[i] = t[j] /\ t[j] = up[j]
        BY <1>5, <1>7, <3>2
      <3>4. up[j] = Pkt[m + i]
        BY <1>3, <3>2
      <3> QED  BY <3>3, <3>4
    <2>3. \A x \in 1 .. l + k : x \in 1 .. l \/ x > l
      OBVIOUS
    <2> QED  BY <2>0, <2>1, <2>2, <2>3, Zenon
  <1>9. ASSUME NEW i \in 1 .. Len(up') PROVE up'[i] = Pkt[m + Len(u) + i]
    <2>1. k + i \in 1 .. Len(up) /\ m + Len(sbuf) + (k + i) = m + Len(u) + i
      <3>1. Len(up') = Len(up) - k /\ Len(u) = Len(sbuf) + k
        BY <1>6, <1>7
      <3>2. \A x, y, v, w \in Nat : \A j \in 1 .. y :
              y = x - k /\ w = v + k => k + j \in 1 .. x /\ m + v + (k + j) = m + w + j
        OBVIOUS
      <3> QED  BY <1>1, <1>0, <3>1, <3>2
    <2>2. up'[i] = up[k + i]
      BY <1>6
    <2> QED  BY <1>3, <2>1, <2>2
  <1>10. ASSUME NEW i \in 1 .. Len(toSend)
         PROVE  toSend[i] = Pkt[m + Len(u) + Len(up') + i]
    <2>1. m + Len(sbuf) + Len(up) + i = m + Len(u) + Len(up') + i
      <3>1. Len(up') = Len(up) - k /\ Len(u) = Len(sbuf) + k
        BY <1>6, <1>7
      <3>2. PICK x \in Nat, y \in Nat, v \in Nat, w \in Nat :
              x = Len(up) /\ y = Len(up') /\ v = Len(sbuf) /\ w = Len(u)
        BY <1>0, <1>1
      <3>3. y = x - k /\ w = v + k /\ i \in Nat
        BY <1>1, <3>1, <3>2
      <3>4. m + v + x + i = m + w + y + i
        BY <3>3
      <3> QED  BY <3>2, <3>4
    <2> QED  BY <1>3, <2>1
  <1>11. Len(u) + Len(up') + Len(toSend) = Len(Pkt) - m
    <2>1. Len(sbuf) + Len(up) + Len(toSend) = Len(Pkt) - m
      BY <1>3
    <2>2. Len(u) = Len(sbuf) + k /\ Len(up') = Len(up) - k
      BY <1>6, <1>7
    <2>3. PICK x \in Nat, y \in Nat, v \in Nat, w \in Nat, z \in Nat :
            x = Len(up) /\ y = Len(up') /\ v = Len(sbuf) /\ w = Len(u) /\ z = Len(toSend)
      BY <1>0, <1>1
    <2>4. w + y + z = v + x + z
      BY <2>2, <2>3
    <2> QED  BY <2>1, <2>3, <2>4
  <1> QED  BY <1>6, <1>7, <1>8, <1>9, <1>10, <1>11 DEF UnitsRead

\* A read by the server: a header or a body is taken only at its own place.
LEMMA RecvSomeKeeps == PInv /\ P!RecvSome => PInv'
  <1> SUFFICES ASSUME PInv, P!RecvSome PROVE PInv'
    OBVIOUS
  <1>1. P!TypeOK /\ HistOk
    BY DEF PInv
  <1>2. UNCHANGED <<down, toSend, cst, cbuf, sent, answers, handled, lost>>
        /\ srv \in {"header", "data"}
    BY DEF P!RecvSome, P!client
  <1>3. Pkt' = Pkt
    BY <1>2, PktStays
  <1>4. PICK k \in Nat :
          /\ 1 <= k /\ k <= Len(up) /\ k <= P!Want - Len(sbuf) /\ up' = SubSeq(up, k + 1, Len(up))
          /\ LET v == sbuf \o SubSeq(up, 1, k) IN
               IF Len(v) < P!Want
               THEN sbuf' = v /\ UNCHANGED <<srv, cur, faults>>
               ELSE IF srv = "header" THEN P!Parse(v) ELSE P!CheckData(v)
    <2>1. Len(up) \in Nat
      BY <1>1 DEF P!TypeOK
    <2>2. \A k \in 1 .. Len(up) : k \in Nat /\ 1 <= k /\ k <= Len(up)
      BY <2>1
    <2> QED  BY <2>2 DEF P!RecvSome
  <1>5. PICK u \in Seq(P!Units) : u = sbuf \o SubSeq(up, 1, k)
    <2>1. k \in 0 .. Len(up) /\ up \in Seq(P!Units) /\ sbuf \in Seq(P!Units)
      BY <1>1, <1>4 DEF P!TypeOK
    <2> QED  BY <2>1, TakeFirst, Joined
  <1>6. Asking
    <2>1. Len(up) # 0
      BY <1>1, <1>4 DEF P!TypeOK
    <2>2. up # <<>>
      BY <2>1
    <2> QED  BY <2>2 DEF PInv, Quiet, Answering
  <1>7. Len(sent) \in Nat \ {0} /\ Len(sent) > 0 /\ cur \in Contents
    BY <1>1, <1>6 DEF P!TypeOK, Asking
  <1>8. P!Want = 2
    <2>1. srv = "data" => Len(P!Data(cur)) = 2
      BY <1>6 DEF Asking, P!Data
    <2> QED  BY <1>2, <2>1 DEF P!Want
  <1>9. PICK m \in Nat :
          /\ m <= Len(Pkt) /\ RequestAt(m) /\ Len(sbuf) < 2
          /\ srv = "header" => (m = 0 <=> lost.up = 0)
          /\ srv = "data" => m >= 2 /\ (m = 2 <=> lost.up = 0)
                             /\ cur = sent[Len(sent)] /\ cur \notin Bare
    <2>0. Len(Pkt) \in Nat
      BY <1>1, <1>7, PktUnits
    <2>1. CASE srv = "header"
      <3>1. PICK m \in 0 .. Len(Pkt) : RequestAt(m) /\ Len(sbuf) < 2 /\ (m = 0 <=> lost.up = 0)
        BY <1>6, <2>1 DEF Asking
      <3>2. m \in Nat /\ m <= Len(Pkt)
        BY <2>0
      <3> QED  BY <2>1, <3>1, <3>2
    <2>2. CASE srv = "data"
      <3>1. PICK m \in 2 .. Len(Pkt) : RequestAt(m) /\ Len(sbuf) < 2 /\ (m = 2 <=> lost.up = 0)
        BY <1>6, <2>2 DEF Asking
      <3>2. m \in Nat /\ m <= Len(Pkt) /\ m >= 2
        BY <2>0
      <3> QED  BY <1>6, <2>2, <3>1, <3>2 DEF Asking
    <2> QED  BY <1>2, <2>1, <2>2
  <1>10. /\ u \in Seq(P!Units) /\ Len(u) = Len(sbuf) + k
         /\ \A i \in 1 .. Len(u) : u[i] = Pkt[m + i]
         /\ up' \in Seq(P!Units) /\ Len(up') = Len(up) - k
         /\ \A i \in 1 .. Len(up') : up'[i] = Pkt[m + Len(u) + i]
         /\ \A i \in 1 .. Len(toSend) : toSend[i] = Pkt[m + Len(u) + Len(up') + i]
         /\ Len(u) + Len(up') + Len(toSend) = Len(Pkt) - m
    <2>1. up' = SubSeq(up, k + 1, Len(up)) /\ 1 <= k /\ k <= Len(up)
      BY <1>4
    <2>2. RequestAt(m)
      BY <1>9
    <2>3. P!TypeOK /\ Len(sent) > 0
      BY <1>1, <1>7
    <2>4. UnitsRead(m, k, u)
      BY <1>5, <2>1, <2>2, <2>3, ReadUnits
    <2> QED  BY <2>4 DEF UnitsRead
  <1>11. /\ Len(up') \in Nat /\ Len(toSend) \in Nat /\ Len(u) \in Nat /\ Len(u) <= 2
         /\ Len(Pkt) \in {2, 4} /\ Len(sbuf) \in Nat /\ Len(up') <= Window
    <2>1. Len(Pkt) \in {2, 4}
      BY <1>1, <1>7, PktUnits
    <2>2. /\ Len(up) \in Nat /\ Len(toSend) \in Nat /\ Len(sbuf) \in Nat /\ Len(up) <= Window
      BY <1>1 DEF P!TypeOK
    <2>3. k <= 2 - Len(sbuf) /\ Len(u) = Len(sbuf) + k /\ Len(up') = Len(up) - k /\ k <= Len(up)
      BY <1>4, <1>8, <1>10
    <2>4. \A x, y \in Nat : \A v, w : (k <= 2 - x /\ v = x + k /\ w = y - k /\ k <= y) =>
            v \in Nat /\ v <= 2 /\ w \in Nat /\ w <= y
      OBVIOUS
    <2>5. \A x, y, z \in Nat : x <= y /\ y <= z => x <= z
      OBVIOUS
    <2>6. Len(u) \in Nat /\ Len(u) <= 2 /\ Len(up') \in Nat /\ Len(up') <= Len(up)
      BY <2>2, <2>3, <2>4
    <2> QED  BY <2>1, <2>2, <2>5, <2>6
  <1> HIDE DEF P!Want
  <1>12. CASE Len(u) < 2
    <2>1. sbuf' = u /\ srv' = srv /\ cur' = cur /\ faults' = faults
      BY <1>4, <1>5, <1>8, <1>12
    <2>2. P!TypeOK'
      <3>1. sbuf' \in Seq(P!Units) /\ Len(sbuf') < 4 /\ up' \in Seq(P!Units) /\ Len(up') <= Window
        BY <1>10, <1>11, <1>12, <2>1
      <3> QED  BY <1>1, <1>2, <2>1, <3>1 DEF P!TypeOK
    <2>3. HistOk'
      BY <1>1, <1>2, <2>1 DEF HistOk
    <2>4. RequestAt(m)'
      BY <1>2, <1>3, <1>10, <2>1 DEF RequestAt, Piece
    <2>5. srv = "data" => m \in 2 .. Len(Pkt)
      BY <1>9, <1>11
    <2>6. Asking'
      <3>1. m \in 0 .. Len(Pkt)
        BY <1>9, <1>11
      <3> QED  BY <1>2, <1>3, <1>6, <1>9, <1>12, <2>1, <2>4, <2>5, <3>1 DEF Asking
    <2> QED  BY <2>2, <2>3, <2>6 DEF PInv
  <1>13. CASE Len(u) = 2
    <2>1. IF srv = "header" THEN P!Parse(u) ELSE P!CheckData(u)
      BY <1>4, <1>5, <1>8, <1>13
    <2>2. sbuf' = <<>> /\ faults' \in 0 .. MaxFaults
      <3>1. faults \in 0 .. MaxFaults /\ (faults' = faults \/ P!Fault)
        BY <1>1, <2>1 DEF P!TypeOK, P!Parse, P!CheckData
      <3>2. faults' \in 0 .. MaxFaults
        BY <3>1, CoreThreadsAssumption DEF P!Fault
      <3> QED  BY <2>1, <3>2 DEF P!Parse, P!CheckData, P!Closed
    <2>3. HistOk'
      BY <1>1, <1>2, <2>2 DEF HistOk
    <2>4. ASSUME srv' \in {"data", "handle", "closed"}, cur' \in Contents PROVE P!TypeOK'
      BY <1>1, <1>2, <1>10, <1>11, <2>2, <2>4 DEF P!TypeOK
    <2>5. CASE srv' = "closed" /\ cur' = cur
      <3>1. Asking'
        BY <1>2, <1>6, <2>5 DEF Asking
      <3> QED  BY <1>7, <2>3, <2>4, <2>5, <3>1 DEF PInv
    <2>6. CASE srv = "data" /\ srv' = "handle" /\ cur' = cur
      <3>1. m = 2 /\ Len(up') = 0 /\ Len(toSend) = 0
        <4>1. Len(Pkt) = 4
          BY <1>1, <1>7, <1>9, <1>11, <2>6, PktUnits
        <4>2. 2 + Len(up') + Len(toSend) = 4 - m /\ m >= 2 /\ m \in Nat
          BY <1>9, <1>10, <1>11, <1>13, <2>6, <4>1
        <4> QED  BY <1>11, <4>2
      <3>2. up' = <<>> /\ toSend = <<>>
        BY <1>1, <1>10, <3>1 DEF P!TypeOK
      <3>3. Asking'
        BY <1>2, <1>6, <1>9, <2>2, <2>6, <3>1, <3>2 DEF Asking
      <3> QED  BY <1>7, <2>3, <2>4, <2>6, <3>3 DEF PInv
    <2>7. CASE /\ srv = "header" /\ \E c \in Contents : u = P!Header(c)
               /\ cur' = u[1][1] /\ srv' = IF u[1][1] \in Bare THEN "handle" ELSE "data"
      <3>1. PICK c \in Contents : u = P!Header(c)
        BY <2>7
      <3>2. u[1] = <<c, "h1">> /\ u[1][1] = c
        BY <3>1 DEF P!Header
      <3>3. Pkt[m + 1] = <<c, "h1">> /\ m + 1 \in 1 .. Len(Pkt)
        <4>1. Len(u) + Len(up') + Len(toSend) = Len(Pkt) - m
          BY <1>10
        <4>2. \A x, y, w, z \in Nat : w + x + y = z - m /\ w = 2 => m + 1 \in 1 .. z
          OBVIOUS
        <4>3. m + 1 \in 1 .. Len(Pkt)
          BY <1>11, <1>13, <4>1, <4>2
        <4>4. u[1] = Pkt[m + 1]
          <5>1. 1 \in 1 .. Len(u)
            BY <1>13
          <5> QED  BY <1>10, <5>1
        <4> QED  BY <3>2, <4>3, <4>4
      <3>4. m = 0
        <4>1. m + 1 \notin 2 .. Len(Pkt)
          BY <1>1, <1>7, <3>3, PktUnits
        <4> QED  BY <1>11, <3>3, <4>1
      <3>5. c = sent[Len(sent)] /\ cur' = c /\ lost.up = 0
            /\ (Len(Pkt) = 2 <=> c \in Bare)
        <4>1. Pkt[1] = <<sent[Len(sent)], "h1">> /\ (Len(Pkt) = 2 <=> sent[Len(sent)] \in Bare)
          BY <1>1, <1>7, PktUnits
        <4>2. c = sent[Len(sent)]
          BY <3>3, <3>4, <4>1
        <4> QED  BY <1>9, <2>7, <3>2, <3>4, <4>1, <4>2
      <3>6. CASE c \in Bare
        <4>1. Len(up') = 0 /\ Len(toSend) = 0 /\ srv' = "handle"
          BY <1>10, <1>11, <1>13, <2>7, <3>2, <3>4, <3>5, <3>6, SMTT(20)
        <4>2. up' = <<>> /\ toSend = <<>>
          BY <1>1, <1>10, <4>1 DEF P!TypeOK
        <4>3. Asking'
          BY <1>2, <1>6, <2>2, <3>5, <4>1, <4>2 DEF Asking
        <4> QED  BY <2>3, <2>4, <3>5, <4>1, <4>3 DEF PInv
      <3>7. CASE c \notin Bare
        <4>1. srv' = "data" /\ Len(Pkt) = 4 /\ Len(sbuf') = 0
          BY <1>11, <2>2, <2>7, <3>2, <3>5, <3>7
        <4>2. RequestAt(2)'
          <5>1. /\ \A i \in 1 .. Len(up') : up'[i] = Pkt[2 + i]
                /\ \A i \in 1 .. Len(toSend) : toSend[i] = Pkt[2 + Len(up') + i]
                /\ Len(up') + Len(toSend) = Len(Pkt) - 2
            <6>1. Len(u) + Len(up') + Len(toSend) = Len(Pkt) - m
              BY <1>10
            <6>2. Len(up') + Len(toSend) = Len(Pkt) - 2
              BY <1>11, <1>13, <3>4, <6>1
            <6>3. 0 + 2 = 2 /\ m + Len(u) = 2
              BY <1>13, <3>4
            <6> QED  BY <1>10, <6>2, <6>3
          <5>2. Piece(sbuf, 2)'
            BY <4>1 DEF Piece
          <5>3. Piece(up, 2 + Len(sbuf))' /\ Piece(toSend, 2 + Len(sbuf) + Len(up))'
            BY <1>2, <1>3, <1>11, <4>1, <5>1 DEF Piece
          <5> QED  BY <1>2, <1>3, <1>11, <4>1, <5>1, <5>2, <5>3 DEF RequestAt
        <4>3. Asking'
          <5>1. 2 \in 2 .. Len(Pkt')
            BY <1>3, <4>1
          <5> QED  BY <1>2, <1>6, <3>5, <3>7, <4>1, <4>2, <5>1 DEF Asking
        <4> QED  BY <2>3, <2>4, <3>5, <4>1, <4>3 DEF PInv
      <3> QED  BY <3>6, <3>7
    <2> QED  BY <1>2, <2>1, <2>5, <2>6, <2>7 DEF P!Parse, P!CheckData, P!Closed
  <1>14. Len(u) < 2 \/ Len(u) = 2
    <2>1. \A j \in Nat : j <= 2 => j < 2 \/ j = 2
      OBVIOUS
    <2> QED  BY <1>11, <2>1
  <1> QED  BY <1>12, <1>13, <1>14

\* After a write of k units of the packet.
UnitsSent(k, w) ==
    /\ down' \in Seq(P!Units) /\ Len(down') = Len(down) + k
    /\ \A i \in 1 .. Len(down) : down'[i] = down[i]
    /\ \A j \in 1 .. k : down'[Len(down) + j] = Pkt[Len(sbuf) + j]
    /\ Len(w) = Len(sbuf) + k
    /\ \A i \in 1 .. Len(w) : w[i] = Pkt[i]

\* What a write of k units adds to the answer.
LEMMA SendUnits ==
    ASSUME P!TypeOK, Len(sent) > 0, Piece(sbuf, 0),
           NEW k \in Nat, 1 <= k, Len(sbuf) + k <= Len(Pkt),
           NEW u \in Seq(P!Units), u = SubSeq(Pkt, Len(sbuf) + 1, Len(sbuf) + k),
           NEW w \in Seq(P!Units), w = sbuf \o u, down' = down \o u
    PROVE  UnitsSent(k, w)
  <1>1. /\ down \in Seq(P!Units) /\ sbuf \in Seq(P!Units)
        /\ Len(down) \in Nat /\ Len(sbuf) \in Nat
    BY SMTT(20) DEF P!TypeOK
  <1>2. Pkt \in Seq(P!Units)
    BY PktUnits
  <1>3. Len(u) = k /\ \A j \in 1 .. k : u[j] = Pkt[Len(sbuf) + j]
    BY <1>1, <1>2, Slice
  <1>4. /\ down' \in Seq(P!Units) /\ Len(down') = Len(down) + k
        /\ \A i \in 1 .. Len(down) : down'[i] = down[i]
        /\ \A j \in 1 .. k : down'[Len(down) + j] = u[j]
    BY <1>1, <1>3, Joined
  <1>5. /\ Len(w) = Len(sbuf) + k
        /\ \A i \in 1 .. Len(sbuf) : w[i] = sbuf[i]
        /\ \A j \in 1 .. k : w[Len(sbuf) + j] = u[j]
    BY <1>1, <1>3, Joined
  <1>6. ASSUME NEW i \in 1 .. Len(w) PROVE w[i] = Pkt[i]
    <2>0. PICK l \in Nat : l = Len(sbuf) /\ i \in 1 .. l + k
      BY <1>1, <1>5
    <2>1. CASE i \in 1 .. Len(sbuf)
      <3>1. sbuf[i] = Pkt[0 + i] /\ 0 + i = i
        BY <1>1, <2>1 DEF Piece
      <3> QED  BY <1>5, <2>1, <3>1
    <2>2. CASE i > l
      <3>0. \A x \in 1 .. l + k : x > l => \E j \in 1 .. k : j = x - l
        OBVIOUS
      <3>1. PICK j \in 1 .. k : j = i - l
        BY <2>0, <2>2, <3>0, Zenon
      <3>2. Len(sbuf) + j = i
        BY <2>0, <3>1
      <3> QED  BY <1>3, <1>5, <3>2
    <2>3. i \in 1 .. l \/ i > l
      BY <2>0
    <2> QED  BY <2>0, <2>1, <2>2, <2>3
  <1> QED  BY <1>3, <1>4, <1>5, <1>6 DEF UnitsSent

\* Where the units of the answer are after that.
LEMMA AnswerGrows ==
    ASSUME P!TypeOK, NEW k \in Nat, 1 <= k, NEW w, UnitsSent(k, w), cbuf' = cbuf
    PROVE  /\ Got \in Nat /\ Got' = Got + k
           /\ \A i \in 1 .. Got : At(i)' = At(i)
           /\ \A j \in 1 .. k, q \in Nat : q = Got + j => At(q)' = Pkt[Len(sbuf) + j]
  <1>1. PICK d \in Nat, c \in Nat : d = Len(down) /\ c = Len(cbuf)
    BY DEF P!TypeOK
  <1>2. Len(down') = d + k /\ Len(cbuf') = c
    BY <1>1 DEF UnitsSent
  <1>3. Got = c + d /\ Got' = c + d + k
    BY <1>1, <1>2 DEF Got
  <1>4. ASSUME NEW i \in 1 .. Got PROVE At(i)' = At(i)
    <2>1. CASE i <= c
      BY <1>1, <1>2, <2>1 DEF At
    <2>2. CASE ~(i <= c)
      <3>1. i - c \in 1 .. d
        BY <1>3, <2>2
      <3>2. down'[i - c] = down[i - c]
        BY <1>1, <3>1 DEF UnitsSent
      <3> QED  BY <1>1, <1>2, <2>2, <3>2 DEF At
    <2> QED  BY <2>1, <2>2
  <1>5. ASSUME NEW j \in 1 .. k, NEW q \in Nat, q = Got + j PROVE At(q)' = Pkt[Len(sbuf) + j]
    <2>1. ~(q <= c) /\ q - c = d + j
      BY <1>3, <1>5
    <2>2. down'[d + j] = Pkt[Len(sbuf) + j]
      BY <1>1 DEF UnitsSent
    <2> QED  BY <1>2, <2>1, <2>2 DEF At
  <1> QED  BY <1>3, <1>4, <1>5

\* A write by the server: after a repetition its first unit is out of place.
LEMMA SendSomeKeeps == PInv /\ P!SendSome => PInv'
  <1> SUFFICES ASSUME PInv, P!SendSome PROVE PInv'
    OBVIOUS
  <1>1. P!TypeOK /\ HistOk
    BY DEF PInv
  <1>2. /\ UNCHANGED <<up, toSend, cst, cbuf, sent, answers, cur, handled, lost, faults>>
        /\ srv = "send"
    BY DEF P!SendSome, P!client
  <1>3. Pkt' = Pkt
    BY <1>2, PktStays
  <1>4. Answering
    BY <1>2 DEF PInv, Quiet, Asking
  <1>5. /\ Len(sent) > 0 /\ cur = sent[Len(sent)] /\ P!Out = Pkt
        /\ Piece(sbuf, 0) /\ Len(sbuf) < Len(Pkt)
    BY <1>1, <1>2, <1>4 DEF Answering, P!TypeOK, P!Out, Pkt
  <1>6. PICK l \in Nat, d \in Nat, n0 \in {2, 4} :
          l = Len(sbuf) /\ d = Len(down) /\ n0 = Len(Pkt) /\ l < n0 /\ d <= Window
    <2>1. Len(sbuf) \in Nat /\ Len(down) \in Nat /\ Len(down) <= Window
      BY <1>1 DEF P!TypeOK
    <2>2. Len(Pkt) \in {2, 4} /\ Len(sbuf) < Len(Pkt)
      BY <1>1, <1>5, PktUnits
    <2> QED  BY <2>1, <2>2
  <1>7. PICK k \in Nat :
          /\ 1 <= k /\ d + k <= Window /\ l + k <= n0
          /\ LET v == SubSeq(Pkt, Len(sbuf) + 1, Len(sbuf) + k) IN
               /\ down' = down \o v
               /\ IF sbuf \o v = Pkt
                  THEN srv' = "header" /\ sbuf' = <<>>
                  ELSE sbuf' = sbuf \o v /\ srv' = srv
    <2>1. PICK k \in 1 .. Window - d :
            /\ k <= n0 - l
            /\ LET v == SubSeq(Pkt, Len(sbuf) + 1, Len(sbuf) + k) IN
                 /\ down' = down \o v
                 /\ IF sbuf \o v = Pkt
                    THEN srv' = "header" /\ sbuf' = <<>>
                    ELSE sbuf' = sbuf \o v /\ srv' = srv
      BY <1>5, <1>6 DEF P!SendSome
    <2>2. k \in Nat /\ 1 <= k /\ d + k <= Window /\ l + k <= n0
      BY <2>1
    <2> QED  BY <2>1, <2>2
  <1>8. PICK u \in Seq(P!Units) : u = SubSeq(Pkt, Len(sbuf) + 1, Len(sbuf) + k)
    <2>1. Pkt \in Seq(P!Units)
      BY <1>1, <1>5, PktUnits
    <2>2. Len(sbuf) \in Nat /\ Len(sbuf) + k <= Len(Pkt)
      BY <1>6, <1>7
    <2> QED  BY <2>1, <2>2, Slice
  <1>9. PICK w \in Seq(P!Units) : w = sbuf \o u
    BY <1>1, <1>8, Joined DEF P!TypeOK
  <1>10. UnitsSent(k, w)
    <2>1. Len(sbuf) + k <= Len(Pkt) /\ 1 <= k /\ down' = down \o u
      BY <1>6, <1>7, <1>8
    <2> QED  BY <1>1, <1>5, <1>8, <1>9, <2>1, SendUnits
  <1>11. /\ down' \in Seq(P!Units) /\ Len(down') <= Window
         /\ Len(w) = l + k /\ \A i \in 1 .. Len(w) : w[i] = Pkt[i]
    BY <1>6, <1>7, <1>10 DEF UnitsSent
  <1>12. w = Pkt <=> l + k = n0
    <2>1. Pkt \in Seq(P!Units)
      BY <1>1, <1>5, PktUnits
    <2> QED  BY <1>6, <1>11, <2>1, SeqSame
  <1>13. IF l + k = n0 THEN srv' = "header" /\ sbuf' = <<>> ELSE sbuf' = w /\ srv' = "send"
    BY <1>2, <1>7, <1>8, <1>9, <1>12
  <1>14. /\ sbuf' \in Seq(P!Units) /\ Len(sbuf') < 4 /\ srv' \in {"header", "send"}
         /\ srv' = "send" => Len(sbuf') < n0 /\ Len(sbuf') = l + k
         /\ srv' = "header" => l + k = n0 /\ sbuf' = <<>>
    <2>1. CASE l + k = n0
      BY <1>13, <2>1
    <2>2. CASE l + k # n0
      <3>1. l + k < n0 /\ l + k < 4
        BY <1>7, <2>2
      <3> QED  BY <1>11, <1>13, <2>2, <3>1
    <2> QED  BY <2>1, <2>2
  <1>15. P!TypeOK'
    BY <1>1, <1>2, <1>11, <1>14 DEF P!TypeOK
  <1>16. HistOk'
    BY <1>1, <1>2, <1>14 DEF HistOk
  <1>17. srv' = "send" => Piece(sbuf, 0)'
    <2>1. srv' = "send" => sbuf' = w
      BY <1>13
    <2>2. \A i \in 1 .. Len(w) : 0 + i = i
      BY <1>11
    <2> QED  BY <1>3, <1>11, <2>1, <2>2 DEF Piece
  <1>18. /\ Got \in Nat /\ Got' = Got + k
         /\ \A i \in 1 .. Got : At(i)' = At(i)
         /\ \A j \in 1 .. k, q \in Nat : q = Got + j => At(q)' = Pkt[Len(sbuf) + j]
    BY <1>1, <1>2, <1>7, <1>10, AnswerGrows
  <1>19. ASSUME cst \in {"sending", "header", "data"}, lost.down = 0
         PROVE  /\ AnswerTo(Len(Pkt))' /\ Got' <= n0
                /\ srv' = "send" => Got' = Len(sbuf')
                /\ srv' = "header" => Got' = n0
    <2>1. AnswerTo(Len(Pkt)) /\ Got = l
      BY <1>2, <1>4, <1>6, <1>19 DEF Answering
    <2>2. Got' = l + k /\ Got' <= n0
      BY <1>7, <1>18, <2>1
    <2>3. ASSUME NEW i \in 1 .. l + k PROVE At(i)' = Pkt[i]
      <3>1. CASE i \in 1 .. l
        <4>1. i <= Len(Pkt)
          BY <1>6, <3>1
        <4> QED  BY <1>18, <2>1, <3>1, <4>1 DEF AnswerTo
      <3>2. CASE i > l
        <4>1. PICK j \in 1 .. k : j = i - l
          BY <2>3, <3>2
        <4>2. i \in Nat /\ i = Got + j /\ Len(sbuf) + j = i
          BY <1>6, <2>1, <4>1
        <4> QED  BY <1>18, <4>2
      <3> QED  BY <2>3, <3>1, <3>2
    <2>4. AnswerTo(Len(Pkt))'
      BY <1>3, <2>2, <2>3 DEF AnswerTo
    <2> QED  BY <1>14, <2>2, <2>4
  <1>20. ASSUME cst \in {"sending", "header", "data"}, lost.down # 0
         PROVE  \E p \in 2 .. Len(Pkt) : AnswerTo(p - 1)' /\ Got' >= p /\ At(p)' # Pkt[p]
    <2>1. PICK p \in 2 .. Len(Pkt) :
            /\ AnswerTo(p - 1)
            /\ \/ Got >= p /\ At(p) # Pkt[p]
               \/ Got = p - 1 /\ sbuf = <<>>
      BY <1>4, <1>20 DEF Answering
    <2>2. p \in Nat /\ p >= 2
      BY <1>6
    <2>3. AnswerTo(p - 1)'
      <3>1. ASSUME NEW i \in 1 .. Got + k, i <= p - 1 PROVE At(i)' = Pkt[i]
        <4>1. i \in 1 .. Got
          BY <1>18, <2>1, <2>2, <3>1
        <4> QED  BY <1>18, <2>1, <3>1, <4>1 DEF AnswerTo
      <3> QED  BY <1>3, <1>18, <3>1 DEF AnswerTo
    <2>4. Got' >= p /\ At(p)' # Pkt[p]
      <3>1. CASE Got >= p /\ At(p) # Pkt[p]
        <4>1. p \in 1 .. Got /\ Got + k >= p
          BY <1>7, <1>18, <2>2, <3>1
        <4> QED  BY <1>18, <3>1, <4>1
      <3>2. CASE Got = p - 1 /\ sbuf = <<>>
        <4>1. p = Got + 1 /\ 1 \in 1 .. k /\ Got + k >= p
          BY <1>7, <1>18, <2>2, <3>2
        <4>2. Len(sbuf) + 1 = 1
          BY <3>2
        <4>3. At(p)' = Pkt[1]
          BY <1>18, <2>2, <4>1, <4>2
        <4> QED  BY <1>1, <1>5, <1>18, <4>1, <4>3, PktUnits
      <3> QED  BY <2>1, <3>1, <3>2
    <2> QED  BY <2>3, <2>4
  <1>21. Answering'
    BY <1>2, <1>3, <1>4, <1>6, <1>14, <1>17, <1>19, <1>20 DEF Answering
  <1> QED  BY <1>15, <1>16, <1>21 DEF PInv

\* After the client has read a unit into u.
UnitRead(u) ==
    /\ Len(u) = Len(cbuf) + 1 /\ down' \in Seq(P!Units) /\ Len(down') = Len(down) - 1
    /\ Len(down) >= 1 /\ Len(u) <= Got
    /\ \A i \in 1 .. Len(u) : At(i) = u[i]
    /\ \A i \in 1 .. Len(down') : down'[i] = down[i + 1]

\* What the client reads is the next unit of the answer.
LEMMA ReadOne ==
    ASSUME P!TypeOK, down # <<>>, down' = Tail(down),
           NEW u \in Seq(P!Units), u = Append(cbuf, Head(down))
    PROVE  UnitRead(u)
  <1>1. /\ Len(down) \in Nat \ {0} /\ Head(down) = down[1] /\ down[1] \in P!Units
        /\ down' \in Seq(P!Units) /\ Len(down') = Len(down) - 1
        /\ \A i \in 1 .. Len(down) - 1 : down'[i] = down[i + 1]
    BY HeadTail DEF P!TypeOK
  <1>2. /\ Len(u) = Len(cbuf) + 1
        /\ \A i \in 1 .. Len(cbuf) : u[i] = cbuf[i]
        /\ u[Len(cbuf) + 1] = down[1]
    BY <1>1, Appended DEF P!TypeOK
  <1>3. PICK c \in Nat, d \in Nat : c = Len(cbuf) /\ d = Len(down) /\ d >= 1
    <2>1. Len(cbuf) \in Nat
      BY DEF P!TypeOK
    <2>2. Len(down) \in Nat /\ Len(down) >= 1
      BY <1>1
    <2> QED  BY <2>1, <2>2
  <1>4. ASSUME NEW i \in 1 .. c + 1 PROVE At(i) = u[i]
    <2>1. CASE i \in 1 .. c
      BY <1>2, <1>3, <2>1 DEF At
    <2>2. CASE i = c + 1
      <3>1. ~(i <= c) /\ i - c = 1
        BY <2>2
      <3> QED  BY <1>2, <1>3, <2>2, <3>1 DEF At
    <2>3. \A x \in 1 .. c + 1 : x \in 1 .. c \/ x = c + 1
      OBVIOUS
    <2> QED  BY <1>4, <2>1, <2>2, <2>3, Zenon
  <1>5. Got = c + d /\ c + 1 <= c + d
    BY <1>3 DEF Got
  <1> QED  BY <1>1, <1>2, <1>3, <1>4, <1>5 DEF UnitRead

\* Keeping that unit moves nothing.
LEMMA ReadKeeps ==
    ASSUME P!TypeOK, NEW u \in Seq(P!Units), UnitRead(u), cbuf' = u
    PROVE  Got' = Got /\ \A i \in 1 .. Got : At(i)' = At(i)
  <1>1. PICK c \in Nat, d \in Nat : c = Len(cbuf) /\ d = Len(down)
    BY DEF P!TypeOK
  <1>2. Len(cbuf') = c + 1 /\ Len(down') = d - 1 /\ d >= 1
    BY <1>1 DEF UnitRead
  <1>3. Got = c + d /\ Got' = c + 1 + (d - 1)
    BY <1>1, <1>2 DEF Got
  <1>4. ASSUME NEW i \in 1 .. c + d PROVE At(i)' = At(i)
    <2>1. CASE i <= c + 1
      <3>1. At(i)' = u[i]
        BY <1>2, <2>1 DEF At
      <3>2. i \in 1 .. Len(u)
        BY <1>2, <2>1
      <3> QED  BY <3>1, <3>2 DEF UnitRead
    <2>2. CASE ~(i <= c + 1)
      <3>1. /\ i - (c + 1) \in 1 .. d - 1 /\ i - (c + 1) + 1 = i - c /\ ~(i <= c)
        BY <1>4, <2>2
      <3>2. At(i)' = down'[i - (c + 1)]
        BY <1>2, <2>2 DEF At
      <3>3. down'[i - (c + 1)] = down[i - (c + 1) + 1]
        BY <1>2, <3>1 DEF UnitRead
      <3>4. At(i) = down[i - c]
        BY <1>1, <3>1 DEF At
      <3> QED  BY <3>1, <3>2, <3>3, <3>4
    <2> QED  BY <2>1, <2>2
  <1> QED  BY <1>3, <1>4

\* The first unit the client gets of an answer is the right one, and an answer
\* with all its units right is a complete one of which none was repeated.
LEMMA WholeAnswer ==
    ASSUME P!TypeOK, HistOk, Answering, cst \in {"header", "data"}, Got \in Nat
    PROVE  /\ Got >= 1 => At(1) = Pkt[1]
           /\ Got >= Len(Pkt) /\ (\A i \in 1 .. Len(Pkt) : At(i) = Pkt[i])
                => lost.down = 0 /\ Got = Len(Pkt) /\ srv # "send" /\ sbuf = <<>>
  <1>1. Len(sent) > 0
    BY DEF Answering, P!TypeOK
  <1>2. PICK n0 \in {2, 4} : n0 = Len(Pkt)
    BY <1>1, PktUnits
  <1>3. CASE lost.down = 0
    <2>1. AnswerTo(n0) /\ Got <= n0 /\ (srv = "send" => Got = Len(sbuf) /\ Len(sbuf) < n0)
      BY <1>2, <1>3 DEF Answering
    <2>2. Got >= 1 => 1 \in 1 .. Got /\ 1 <= n0
      OBVIOUS
    <2>3. Got >= 1 => At(1) = Pkt[1]
      BY <2>1, <2>2 DEF AnswerTo
    <2>4. Got >= n0 => Got = n0
      BY <2>1
    <2>5. Got >= n0 => srv # "send"
      BY <2>1
    <2>6. srv # "send" => sbuf = <<>>
      BY DEF Answering, HistOk
    <2> QED  BY <1>2, <1>3, <2>3, <2>4, <2>5, <2>6
  <1>4. CASE lost.down # 0
    <2>1. PICK p \in 2 .. n0 :
            AnswerTo(p - 1) /\ ((Got >= p /\ At(p) # Pkt[p]) \/ Got = p - 1)
      BY <1>2, <1>4 DEF Answering
    <2>2. Got >= 1 => 1 \in 1 .. Got /\ 1 <= p - 1
      OBVIOUS
    <2>3. Got >= 1 => At(1) = Pkt[1]
      <3>1. AnswerTo(p - 1)
        BY <2>1
      <3>2. \A i \in 1 .. Got : i <= p - 1 => At(i) = Pkt[i]
        BY <3>1, Zenon DEF AnswerTo
      <3> QED  BY <2>2, <3>2, Zenon
    <2>4. Got >= n0 => ~(Got = p - 1)
      OBVIOUS
    <2>5. p \in 1 .. n0
      OBVIOUS
    <2> QED  BY <1>2, <2>1, <2>3, <2>4, <2>5
  <1> QED  BY <1>3, <1>4

\* A read by the client: an answer is accepted only when it is whole.
LEMMA ClientReadKeeps == PInv /\ P!ClientRead => PInv'
  <1> SUFFICES ASSUME PInv, P!ClientRead PROVE PInv'
    OBVIOUS
  <1>1. P!TypeOK /\ HistOk
    BY DEF PInv
  <1>2. /\ UNCHANGED <<up, toSend, sent, srv, sbuf, cur, handled, lost, faults>>
        /\ cst \in {"header", "data"} /\ down # <<>> /\ down' = Tail(down)
    BY DEF P!ClientRead
  <1>3. Pkt' = Pkt
    BY <1>2, PktStays
  <1>4. Answering
    BY <1>2 DEF PInv, Quiet, Asking
  <1>5. PICK u \in Seq(P!Units) : u = Append(cbuf, Head(down))
    <2>1. down \in Seq(P!Units) /\ cbuf \in Seq(P!Units)
      BY <1>1 DEF P!TypeOK
    <2>2. Head(down) \in P!Units
      BY <1>2, <2>1, HeadTail
    <2> QED  BY <2>1, <2>2, Appended
  <1>6. IF cst = "header" THEN P!ClientHeader(u) ELSE P!ClientData(u)
    BY <1>5 DEF P!ClientRead
  <1>7. UnitRead(u)
    BY <1>1, <1>2, <1>5, ReadOne
  <1>8. PICK g \in Nat, c \in Nat, n0 \in {2, 4} :
          /\ g = Got /\ c = Len(cbuf) /\ n0 = Len(Pkt) /\ Len(u) = c + 1 /\ c + 1 <= g
          /\ Len(sent) > 0 /\ (n0 = 2 <=> sent[Len(sent)] \in Bare)
          /\ sent[Len(sent)] \in Contents
    <2>1. Len(sent) > 0
      BY <1>1, <1>4 DEF Answering, P!TypeOK
    <2>2. Len(Pkt) \in {2, 4} /\ (Len(Pkt) = 2 <=> sent[Len(sent)] \in Bare)
          /\ sent[Len(sent)] \in Contents
      BY <1>1, <2>1, PktUnits
    <2>3. Got \in Nat /\ Len(cbuf) \in Nat /\ Len(u) = Len(cbuf) + 1 /\ Len(u) <= Got
      BY <1>1, <1>7, SMTT(20) DEF P!TypeOK, UnitRead, Got
    <2> QED  BY <2>1, <2>2, <2>3
  <1>9. u[1] = Pkt[1] /\ u[1][1] = sent[Len(sent)]
    <2>1. At(1) = Pkt[1]
      BY <1>1, <1>2, <1>4, <1>8, WholeAnswer
    <2>2. 1 \in 1 .. Len(u)
      BY <1>8
    <2>3. u[1] = Pkt[1]
      BY <1>7, <2>1, <2>2 DEF UnitRead
    <2>4. Pkt[1] = <<sent[Len(sent)], "h1">>
      BY <1>1, <1>8, PktUnits
    <2> QED  BY <2>3, <2>4
  <1>10. down' \in Seq(P!Units) /\ Len(down') <= Window
    <2>1. Len(down) \in Nat /\ Len(down) <= Window
      BY <1>1 DEF P!TypeOK
    <2> QED  BY <1>7, <2>1 DEF UnitRead
  <1>11. CASE cst' = "failed" /\ answers' = answers /\ cbuf' = <<>>
    <2>1. P!TypeOK'
      BY <1>1, <1>2, <1>10, <1>11 DEF P!TypeOK
    <2>2. HistOk'
      BY <1>1, <1>2, <1>11 DEF HistOk
    <2>3. srv = "send" => Piece(sbuf, 0)'
      BY <1>2, <1>3, <1>4 DEF Answering, Piece
    <2>4. Answering'
      BY <1>2, <1>3, <1>4, <1>11, <2>3 DEF Answering
    <2> QED  BY <2>1, <2>2, <2>4 DEF PInv
  <1>12. CASE /\ answers' = answers /\ cbuf' = u
              /\ \/ cst' = "header" /\ c + 1 < 2
                 \/ cst' = "data" /\ c + 1 \in {2, 3} /\ sent[Len(sent)] \notin Bare
    <2>1. P!TypeOK'
      BY <1>1, <1>2, <1>10, <1>12 DEF P!TypeOK
    <2>2. HistOk'
      BY <1>1, <1>2, <1>12 DEF HistOk
    <2>3. srv = "send" => Piece(sbuf, 0)'
      BY <1>2, <1>3, <1>4 DEF Answering, Piece
    <2>4. Got' = Got /\ \A i \in 1 .. g : At(i)' = At(i)
      BY <1>1, <1>7, <1>8, <1>12, ReadKeeps
    <2>5. \A k : AnswerTo(k) => AnswerTo(k)'
      BY <1>3, <1>8, <2>4 DEF AnswerTo
    <2>6. AnswerTo(Len(Pkt)) => AnswerTo(Len(Pkt))'
      BY <1>3, <1>8, <2>4 DEF AnswerTo
    <2>7. \A p \in 2 .. Len(Pkt) : g >= p => p \in 1 .. g
      BY <1>8
    <2>8. \A p \in 2 .. Len(Pkt) : Got >= p /\ At(p) # Pkt[p] => Got' >= p /\ At(p)' # Pkt[p]
      BY <1>8, <2>4, <2>7
    <2>9. ASSUME lost.down = 0
          PROVE  /\ AnswerTo(Len(Pkt))'
                 /\ srv = "send" => Got' = Len(sbuf)
                 /\ srv = "header" => Got' = Len(Pkt)
                 /\ Got' <= Len(Pkt)
      BY <1>2, <1>4, <2>4, <2>6, <2>9 DEF Answering
    <2>10. ASSUME lost.down # 0
           PROVE  \E p \in 2 .. Len(Pkt) :
                    /\ AnswerTo(p - 1)'
                    /\ \/ Got' >= p /\ At(p)' # Pkt[p]
                       \/ Got' = p - 1 /\ sbuf = <<>> /\ srv \in {"send", "closed"}
      <3>1. PICK p \in 2 .. Len(Pkt) :
              /\ AnswerTo(p - 1)
              /\ \/ Got >= p /\ At(p) # Pkt[p]
                 \/ Got = p - 1 /\ sbuf = <<>> /\ srv \in {"send", "closed"}
        BY <1>2, <1>4, <2>10 DEF Answering
      <3> QED  BY <2>4, <2>5, <2>8, <3>1
    <2>11. Len(cbuf') = c + 1
      BY <1>8, <1>12
    <2>12. Answering'
      <3>1. /\ Len(sent') = Len(handled') /\ Len(answers') + 1 = Len(handled')
            /\ srv' \in {"send", "header", "closed"} /\ up' = <<>> /\ toSend' = <<>>
            /\ lost'.up = 0 /\ lost'.down \in {0, Len(sent')}
            /\ srv' = "header" => sbuf' = <<>>
            /\ srv' = "send" => cur' = sent'[Len(sent')] /\ Len(sbuf') < Len(Pkt')
        BY <1>2, <1>3, <1>4, <1>12 DEF Answering
      <3>2. /\ cst' \in {"header", "data"} /\ (cst' = "header" => Len(cbuf') < 2)
            /\ cst' = "data" => Len(cbuf') \in {2, 3} /\ sent'[Len(sent')] \notin Bare
        BY <1>2, <1>12, <2>11
      <3> QED  BY <1>2, <1>3, <2>3, <2>9, <2>10, <3>1, <3>2 DEF Answering
    <2> QED  BY <2>1, <2>2, <2>12 DEF PInv
  <1>13. CASE /\ \A i \in 1 .. n0 : u[i] = Pkt[i]
              /\ c + 1 = n0 /\ answers' = Append(answers, sent[Len(sent)])
              /\ cbuf' = <<>> /\ cst' = "idle"
    <2>1. \A i \in 1 .. n0 : At(i) = Pkt[i]
      BY <1>7, <1>8, <1>13 DEF UnitRead
    <2>2. lost.down = 0 /\ Got = Len(Pkt) /\ srv # "send" /\ sbuf = <<>>
      <3>1. g >= n0
        BY <1>8, <1>13
      <3> QED  BY <1>1, <1>2, <1>4, <1>8, <2>1, <3>1, WholeAnswer
    <2>3. down' = <<>>
      <3>1. PICK d \in Nat : d = Len(down) /\ Len(down') = d - 1
        BY <1>1, <1>7 DEF P!TypeOK, UnitRead
      <3>2. c + d = n0
        BY <1>8, <2>2, <3>1 DEF Got
      <3>3. d - 1 = 0
        BY <1>13, <3>2
      <3>4. Len(down') = 0
        BY <3>1, <3>3
      <3> QED  BY <1>10, <3>4
    <2>4. /\ answers' \in Seq(Contents) /\ Len(answers') = Len(answers) + 1
          /\ \A i \in 1 .. Len(answers) : answers'[i] = answers[i]
          /\ answers'[Len(answers) + 1] = sent[Len(sent)]
      BY <1>1, <1>8, <1>13, HistoryAppended DEF P!TypeOK
    <2>5. Len(answers) + 1 = Len(sent) /\ Len(handled) = Len(sent) /\ Len(answers) \in Nat
      BY <1>1, <1>4 DEF Answering, P!TypeOK
    <2>6. P!TypeOK'
      BY <1>1, <1>2, <1>10, <1>13, <2>4 DEF P!TypeOK
    <2>7. HistOk'
      <3>1. \A i \in 1 .. Len(answers') : answers'[i] = sent[i]
        <4>1. \A l \in Nat : \A i \in 1 .. l + 1 : i \in 1 .. l \/ i = l + 1
          OBVIOUS
        <4> QED  BY <1>1, <2>4, <2>5, <4>1 DEF HistOk
      <3> QED  BY <1>1, <1>2, <2>2, <2>4, <2>5, <3>1 DEF HistOk
    <2>8. Quiet'
      BY <1>2, <1>4, <1>13, <2>2, <2>3, <2>4, <2>5 DEF Answering, Quiet
    <2> QED  BY <2>6, <2>7, <2>8 DEF PInv
  <1>14. ASSUME P!Accept(u[1][1]), \A i \in 1 .. n0 : u[i] = Pkt[i], c + 1 = n0
         PROVE  PInv'
    BY <1>9, <1>13, <1>14 DEF P!Accept
  <1>15. CASE cst = "header"
    <2>1. P!ClientHeader(u) /\ c < 2
      BY <1>4, <1>6, <1>8, <1>15 DEF Answering
    <2>2. CASE c + 1 < 2
      BY <1>8, <1>12, <1>15, <2>1, <2>2 DEF P!ClientHeader
    <2>3. CASE c + 1 = 2 /\ \E e \in Contents : u = P!Header(e)
      <3>1. ~(Len(u) < 2)
        BY <1>8, <2>3
      <3>2. PICK e \in Contents : u = P!Header(e)
        BY <2>3
      <3>3. u[1] = <<e, "h1">> /\ u[2] = <<e, "h2">>
        BY <3>2 DEF P!Header
      <3>4. Pkt[2] = <<sent[Len(sent)], "h2">> /\ e = sent[Len(sent)]
        BY <1>1, <1>8, <1>9, <3>3, PktUnits
      <3>5. CASE e \in Bare
        <4>1. n0 = 2 /\ P!Accept(u[1][1])
          BY <1>8, <1>9, <2>1, <2>3, <3>1, <3>4, <3>5 DEF P!ClientHeader
        <4>2. \A i \in 1 .. 2 : i = 1 \/ i = 2
          OBVIOUS
        <4>3. \A i \in 1 .. n0 : u[i] = Pkt[i]
          BY <1>9, <3>3, <3>4, <4>1, <4>2
        <4> QED  BY <1>14, <2>3, <4>1, <4>3
      <3>6. CASE e \notin Bare
        <4>1. cst' = "data" /\ cbuf' = u /\ answers' = answers
          BY <1>9, <2>1, <2>3, <3>1, <3>4, <3>6 DEF P!ClientHeader
        <4> QED  BY <1>12, <2>3, <3>4, <3>6, <4>1
      <3> QED  BY <3>5, <3>6
    <2>4. CASE c + 1 = 2 /\ ~(\E e \in Contents : u = P!Header(e))
      <3>1. ~(Len(u) < 2)
        BY <1>8, <2>4
      <3> QED  BY <1>11, <2>1, <2>4, <3>1 DEF P!ClientHeader
    <2>5. c + 1 < 2 \/ c + 1 = 2
      BY <2>1
    <2> QED  BY <2>2, <2>3, <2>4, <2>5
  <1>16. CASE cst = "data"
    <2>1. P!ClientData(u) /\ c \in {2, 3} /\ sent[Len(sent)] \notin Bare /\ n0 = 4
      BY <1>4, <1>6, <1>8, <1>16 DEF Answering
    <2>2. CASE c = 2
      <3>1. Len(u) < 4 /\ c + 1 \in {2, 3}
        BY <1>8, <2>2
      <3> QED  BY <1>12, <1>16, <2>1, <3>1 DEF P!ClientData
    <2>3. CASE c = 3 /\ u = P!Packet(u[1][1])
      <3>1. ~(Len(u) < 4) /\ c + 1 = n0
        BY <1>8, <2>1, <2>3
      <3>2. u = Pkt
        BY <1>9, <2>3 DEF Pkt
      <3>3. P!Accept(u[1][1])
        BY <2>1, <2>3, <3>1 DEF P!ClientData
      <3> QED  BY <1>14, <3>1, <3>2, <3>3
    <2>4. CASE c = 3 /\ u # P!Packet(u[1][1])
      <3>1. ~(Len(u) < 4)
        BY <1>8, <2>4
      <3> QED  BY <1>11, <2>1, <2>4, <3>1 DEF P!ClientData
    <2> QED  BY <2>1, <2>2, <2>3, <2>4
  <1> QED  BY <1>2, <1>15, <1>16

-----------------------------------------------------------------------------
\* Every step of the server or the client preserves the invariant.
LEMMA PacketStep == PInv /\ P!Next => PInv'
  BY RecvSomeKeeps, RecvTimeoutKeeps, RecvFailKeeps, HandleKeeps,
     HandleFailKeeps, SendSomeKeeps, SendTimeoutKeeps, ClientRequestKeeps, ClientWriteKeeps, ClientReadKeeps,
     ClientEofKeeps DEF P!Next, P!ServerStep, P!ClientStep

\* The invariant holds in every behaviour of a connection.
LEMMA StreamInductive == Spec => []StreamInv
  <1>1. Init => StreamInv
    BY PacketInit DEF Init, StreamInv
  <1>2. StreamInv /\ [Next]_vars => StreamInv'
    <2> SUFFICES ASSUME StreamInv, [Next]_vars, part' = "stream" PROVE PInv'
      BY DEF StreamInv
    <2>1. CASE Stream(P!Next)
      BY <2>1, PacketStep DEF Stream, StreamInv
    <2>2. CASE Worker(W!Next) \/ Bio(B!Next)
      BY <2>2 DEF Worker, Bio
    <2>3. CASE vars' = vars
      <3>1. part = "stream" /\ PInv
        BY <2>3 DEF vars, StreamInv
      <3>2. UNCHANGED <<streamOnly, cur, faults>> /\ Pkt' = Pkt
        BY <2>3, PktStays DEF vars, streamOnly
      <3>3. P!TypeOK' /\ HistOk'
        BY <3>1, <3>2 DEF PInv, streamOnly, P!TypeOK, HistOk
      <3>4. Quiet => Quiet'
        BY <3>2 DEF streamOnly, Quiet
      <3>5. Asking => Asking'
        BY <3>2 DEF streamOnly, Asking, RequestAt, Piece
      <3>6. Answering => Answering'
        BY <3>2 DEF streamOnly, Answering, AnswerTo, At, Got, Piece
      <3> QED  BY <3>1, <3>3, <3>4, <3>5, <3>6 DEF PInv
    <2> QED  BY <2>1, <2>2, <2>3 DEF Next
  <1> QED  BY <1>1, <1>2, PTL DEF Spec

\* When a timed-out receive has dropped units of a request, or a timed-out send
\* has repeated units of an answer, that request is never executed and that
\* answer never accepted, for packets, windows and timeouts of any kind.
THEOREM NothingResyncs == Spec => []NoResync
  <1>1. StreamInv => NoResync
    <2> SUFFICES ASSUME PInv PROVE P!NoResync
      BY DEF StreamInv, NoResync
    <2>1. Len(sent) \in Nat /\ Len(handled) \in Nat /\ Len(answers) \in Nat
      BY DEF PInv, P!TypeOK
    <2>2. CASE Quiet
      BY <2>2 DEF Quiet, P!NoResync
    <2>3. CASE Asking
      BY <2>1, <2>3 DEF Asking, P!NoResync
    <2>4. CASE Answering
      BY <2>1, <2>4 DEF Answering, P!NoResync
    <2> QED  BY <2>2, <2>3, <2>4 DEF PInv
  <1> QED  BY <1>1, StreamInductive, PTL

\* The server executes the requests of the client in their order, each at most
\* once, and the answers the client takes are those of its requests, in their
\* order, although RecvResponse compares only type and result: while a request
\* is unanswered no other is sent, and no unit of an earlier answer is left.
THEOREM RequestsAndAnswers == Spec => []AnswersMatch
  <1>1. StreamInv => AnswersMatch
    <2> SUFFICES ASSUME PInv PROVE P!IsPrefix(handled, sent) /\ P!IsPrefix(answers, handled)
      BY DEF StreamInv, AnswersMatch, P!AnswersMatch
    <2>1. /\ sent \in Seq(Contents) /\ handled \in Seq(Contents) /\ answers \in Seq(Contents)
          /\ Len(handled) <= Len(sent) /\ Len(answers) <= Len(handled)
      BY DEF PInv, P!TypeOK, HistOk
    <2>2. \A i \in 1 .. Len(handled) : handled[i] = sent[i]
      BY DEF PInv, HistOk
    <2>3. \A i \in 1 .. Len(answers) : answers[i] = handled[i]
      BY <2>1, <2>2 DEF PInv, HistOk
    <2>4. ASSUME NEW s \in Seq(Contents), NEW t \in Seq(Contents), Len(s) <= Len(t),
                 \A i \in 1 .. Len(s) : s[i] = t[i]
          PROVE  P!IsPrefix(s, t)
      <3>1. SubSeq(t, 1, Len(s)) = s
        BY <2>4
      <3> QED  BY <2>4, <3>1 DEF P!IsPrefix
    <2> QED  BY <2>1, <2>2, <2>3, <2>4
  <1> QED  BY <1>1, StreamInductive, PTL

-----------------------------------------------------------------------------
\* One of the three parts runs.
PartOk == part \in {"worker", "bio", "stream"}

\* The variables of worker, bio list and connection keep their types,
\* whichever of them runs.
THEOREM CoreThreadsTypes == Spec => []TypeOK
<1>1. Init => PartOk
    BY DEF Init, PartOk
<1>2. PartOk /\ [Next]_vars => PartOk'
    BY DEF PartOk, Next, vars, Worker, Bio, Stream
<1>3. PartOk /\ WorkerInv /\ BioInv /\ StreamInv => TypeOK
    BY DEF PartOk, TypeOK, WorkerInv, WInv, BioInv, BInv, StreamInv, PInv
<1>4. Spec => []PartOk
    BY <1>1, <1>2, PTL DEF Spec
<1> QED BY <1>3, <1>4, WorkerInductive, BioInductive, StreamInductive, PTL
=============================================================================
