------------------------------- MODULE KvMap --------------------------------
(***************************************************************************)
(* What Btree promises its caller: a set of keys, each with its value.  An Insert   *)
(* may also fail for lack of memory.                                       *)
(***************************************************************************)
CONSTANT Keys

VARIABLES map,      \* the keys that are there
          ret       \* what the last call returned

vars == <<map, ret>>

Init == map = {} /\ ret = TRUE

Insert(k) ==
    \/ k \notin map /\ map' = map \cup {k} /\ ret' = TRUE
    \/ UNCHANGED map /\ ret' = FALSE

Delete(k) ==
    /\ map' = map \ {k}
    /\ ret' = (k \in map)

Clear == map' = {} /\ ret' = TRUE

Next == Clear \/ \E k \in Keys : Insert(k) \/ Delete(k)

Spec == Init /\ [][Next]_vars
=============================================================================
