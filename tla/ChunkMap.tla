------------------------------ MODULE ChunkMap ------------------------------
(***************************************************************************)
(* What the chunk operations of a volume promise about which chunks there  *)
(* are: each one takes effect on that set at a single moment between call  *)
(* and return, and its result tells what that moment was like.  Module     *)
(* Storage implements it.                                                  *)
(*                                                                         *)
(* It says nothing of what a chunk holds.  ChunkWrite and ChunkRead copy   *)
(* under locks that are both taken shared, so that a read of a chunk       *)
(* another client is writing may return part of each version: contents     *)
(* have no atomic specification that the code would meet.                  *)
(***************************************************************************)
CONSTANTS Threads, Keys

VARIABLES exists,   \* the chunks there are
          call      \* per thread: idle, or an operation with its result

vars == <<exists, call>>

Ops == {"create", "write", "read", "delete"}
Idle == [op |-> "idle"]

Init == exists = {} /\ call = [t \in Threads |-> Idle]

Call(t, op, k) ==
    /\ call[t] = Idle
    /\ call' = [call EXCEPT ![t] = [op |-> op, key |-> k, res |-> "pending"]]
    /\ UNCHANGED exists

Done(t, res, s) ==
    /\ call' = [call EXCEPT ![t].res = res]
    /\ exists' = s

\* The one step in which the operation finds, adds or removes its chunk.  It may also be refused,
\* without an effect, for lack of memory or of a running volume.  A create may
\* come to nothing and be answered ok: HashTable::Insert does not look whether
\* its list took the new node.
Effect(t) ==
    /\ call[t] # Idle /\ call[t].res = "pending"
    /\ LET k == call[t].key IN
       \/ /\ call[t].op = "create" /\ k \notin exists
          /\ Done(t, "ok", exists \cup {k}) \/ Done(t, "ok", exists)
       \/ call[t].op = "create" /\ k \in exists /\ Done(t, "exists", exists)
       \/ call[t].op = "delete" /\ k \in exists /\ Done(t, "ok", exists \ {k})
       \/ call[t].op \in {"write", "read"} /\ k \in exists /\ Done(t, "ok", exists)
       \/ call[t].op # "create" /\ k \notin exists /\ Done(t, "notfound", exists)
       \/ Done(t, "refused", exists)

Return(t) ==
    /\ call[t] # Idle /\ call[t].res # "pending"
    /\ call' = [call EXCEPT ![t] = Idle]
    /\ UNCHANGED exists

\* Unmount: chunks live in memory only.  No operation is under way between
\* its effect and its return.
Forget ==
    /\ \A t \in Threads : call[t] = Idle \/ call[t].res \in {"pending", "refused"}
    /\ exists' = {}
    /\ UNCHANGED call

Next ==
    \/ \E t \in Threads : Effect(t) \/ Return(t)
    \/ \E t \in Threads, op \in Ops, k \in Keys : Call(t, op, k)
    \/ Forget

Spec == Init /\ [][Next]_vars
=============================================================================
