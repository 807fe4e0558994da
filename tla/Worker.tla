------------------------------- MODULE Worker -------------------------------
(***************************************************************************)
(* Worker and Runnable (core/worker.cpp, core/runnable.h): callers hand    *)
(* tasks to a worker thread and wait for them, while the owner destroys    *)
(* the worker.  The destructor sets Stopping without the lock.  Memory of  *)
(* the worker outlives the callers that are inside Execute: that is up to  *)
(* its owner.                                                              *)
(*                                                                         *)
(* TaskEvent is never reset and Run waits for it with a timeout, so the    *)
(* wait is no more than a pause and is left out.                           *)
(***************************************************************************)
EXTENDS Naturals, Sequences

CONSTANTS Callers,      \* each has one task, named like its caller
          MaxFaults,    \* bound: failed allocations of list nodes
          None

VARIABLES
    stopping, running,  \* of the worker
    lock,               \* who holds Lock
    taskList,
    threadStop,         \* Thread::Stopping
    thread, cur,        \* the worker thread and the task it has taken
    dtor,               \* the destructor
    caller,             \* every caller
    status,             \* Runnable::Status
    complete,           \* Runnable::CompleteEvent
    settled,            \* history: how often a task was executed or cancelled
    faults

vars == <<stopping, running, lock, taskList, threadStop, thread, cur, dtor, caller,
          status, complete, settled, faults>>

taskVars == <<status, complete, settled>>

\* running is FALSE for a worker whose thread could not be started.
Init ==
    /\ stopping = FALSE /\ running \in BOOLEAN /\ lock = None /\ taskList = <<>>
    /\ threadStop = FALSE /\ thread = (IF running THEN "top" ELSE "done") /\ cur = None
    /\ dtor = "alive" /\ caller = [c \in Callers |-> "idle"]
    /\ status = [c \in Callers |-> "NotExecuted"]
    /\ complete = [c \in Callers |-> FALSE] /\ settled = [c \in Callers |-> 0]
    /\ faults = 0

-----------------------------------------------------------------------------
(* Execute and ExecuteAndWait.                                             *)

Step(c, from, to) == caller[c] = from /\ caller' = [caller EXCEPT ![c] = to]

Refuses == stopping \/ ~running

\* The first look at Stopping and Running, without the lock.
Execute(c) ==
    /\ Step(c, "idle", IF Refuses THEN "refused" ELSE "lock")
    /\ UNCHANGED <<stopping, running, lock, taskList, threadStop, thread, cur, dtor,
                   taskVars, faults>>

\* The second look, when the lock is held, is left out.
ExecuteLocked_M(c) ==
    /\ lock = None /\ lock' = c
    /\ Step(c, "lock", "add")
    /\ UNCHANGED <<stopping, running, taskList, threadStop, thread, cur, dtor,
                   taskVars, faults>>

ExecuteLocked(c) ==
    /\ lock = None
    /\ lock' = IF Refuses THEN None ELSE c
    /\ Step(c, "lock", IF Refuses THEN "refused" ELSE "add")
    /\ UNCHANGED <<stopping, running, taskList, threadStop, thread, cur, dtor,
                   taskVars, faults>>

AddTail(c) ==
    /\ lock' = None
    /\ \/ /\ Step(c, "add", "wait")
          /\ taskList' = Append(taskList, c) /\ UNCHANGED faults
       \/ /\ Step(c, "add", "refused") /\ faults < MaxFaults /\ faults' = faults + 1
          /\ UNCHANGED taskList
    /\ UNCHANGED <<stopping, running, threadStop, thread, cur, dtor, taskVars>>

\* task->Wait() and GetStatus().
WaitTask(c) ==
    /\ complete[c]
    /\ Step(c, "wait", status[c])
    /\ UNCHANGED <<stopping, running, lock, taskList, threadStop, thread, cur, dtor,
                   taskVars, faults>>

Caller(c) == Execute(c) \/ ExecuteLocked(c) \/ AddTail(c) \/ WaitTask(c)

-----------------------------------------------------------------------------
(* The worker thread: Worker::Run, and the end of Thread::ExecuteRoutine.  *)

RunTop ==
    /\ thread = "top"
    /\ thread' = IF threadStop THEN "done" ELSE "take"
    /\ UNCHANGED <<stopping, running, lock, taskList, threadStop, cur, dtor, caller,
                   taskVars, faults>>

Take ==
    /\ thread = "take" /\ lock = None
    /\ IF taskList = <<>> THEN thread' = "top" /\ UNCHANGED <<taskList, cur>>
       ELSE thread' = "run" /\ cur' = Head(taskList) /\ taskList' = Tail(taskList)
    /\ UNCHANGED <<stopping, running, lock, threadStop, dtor, caller, taskVars, faults>>

\* Runnable::Execute and Runnable::Cancel: status, then CompleteEvent.
Settle(t, s) ==
    /\ status' = [status EXCEPT ![t] = s]
    /\ complete' = [complete EXCEPT ![t] = TRUE]
    /\ settled' = [settled EXCEPT ![t] = @ + 1]

RunTask ==
    /\ thread = "run" /\ Settle(cur, "Success")
    /\ cur' = None /\ thread' = "top"
    /\ UNCHANGED <<stopping, running, lock, taskList, threadStop, dtor, caller, faults>>

WorkerThread == RunTop \/ Take \/ RunTask

-----------------------------------------------------------------------------
(* ~Worker.                                                                *)

Destroy ==
    /\ dtor = "alive"
    /\ stopping' = TRUE
    /\ dtor' = IF running THEN "stop" ELSE "gone"
    /\ UNCHANGED <<running, lock, taskList, threadStop, thread, cur, caller, taskVars, faults>>

StopThread ==
    /\ dtor = "stop" /\ dtor' = "join" /\ threadStop' = TRUE
    /\ UNCHANGED <<stopping, running, lock, taskList, thread, cur, caller, taskVars, faults>>

\* WorkerThread.Wait(): CompEvent is set at the end of ExecuteRoutine.
JoinThread ==
    /\ dtor = "join" /\ thread = "done" /\ dtor' = "drain"
    /\ UNCHANGED <<stopping, running, lock, taskList, threadStop, thread, cur, caller,
                   taskVars, faults>>

\* A task that is thrown away is not told.
Drain_M ==
    /\ dtor = "drain" /\ lock = None
    /\ taskList' = <<>> /\ dtor' = "gone"
    /\ UNCHANGED <<stopping, running, lock, threadStop, thread, cur, caller, taskVars, faults>>

\* Pops a task under the lock and cancels it; ends when that leaves none.
Drain ==
    /\ dtor = "drain" /\ lock = None
    /\ IF taskList = <<>> THEN UNCHANGED <<taskList, status, complete, settled>>
       ELSE taskList' = Tail(taskList) /\ Settle(Head(taskList), "Cancelled")
    /\ dtor' = IF Len(taskList) <= 1 THEN "gone" ELSE "drain"
    /\ UNCHANGED <<stopping, running, lock, threadStop, thread, cur, caller, faults>>

Destructor == StopThread \/ JoinThread \/ Drain

-----------------------------------------------------------------------------
Next == WorkerThread \/ Destroy \/ Destructor \/ \E c \in Callers : Caller(c)

Spec == Init /\ [][Next]_vars

-----------------------------------------------------------------------------
TypeOK ==
    /\ {stopping, running, threadStop} \subseteq BOOLEAN /\ lock \in Callers \cup {None}
    /\ taskList \in Seq(Callers) /\ cur \in Callers \cup {None}
    /\ thread \in {"top", "take", "run", "done"}
    /\ dtor \in {"alive", "stop", "join", "drain", "gone"}
    /\ caller \in [Callers -> {"idle", "lock", "add", "wait", "refused", "Success", "Cancelled"}]
    /\ status \in [Callers -> {"NotExecuted", "Success", "Cancelled"}]
    /\ complete \in [Callers -> BOOLEAN] /\ settled \in [Callers -> 0 .. 1]
    /\ faults \in 0 .. MaxFaults

InList == {taskList[i] : i \in 1 .. Len(taskList)}

\* A task is in one place only: with its caller, in the list, with the thread,
\* or settled; settled at most once, and never if Execute returned false.  A
\* worker that is gone has left no task behind, although Stopping is set
\* without the lock and Execute may be anywhere.
OnePlace ==
    /\ \A c \in Callers :
         LET places == {p \in {"list", "thread", "settled"} :
                           CASE p = "list" -> c \in InList
                             [] p = "thread" -> cur = c
                             [] p = "settled" -> settled[c] > 0}
         IN  IF caller[c] \in {"idle", "lock", "add", "refused"} THEN places = {}
             ELSE \E p \in places : places = {p}
    /\ dtor = "gone" => taskList = <<>>
=============================================================================
