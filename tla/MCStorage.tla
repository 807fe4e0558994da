----------------------------- MODULE MCStorage ------------------------------
(* An instance of Storage for TLC: the first client has a chunk of its own  *)
(* and shares another one with the second client.                           *)
EXTENDS Storage, TLC

CONSTANTS t1, t2, k1, k2

Mixed == (t1 :> {k1, k2}) @@ (t2 :> {k2})
=============================================================================
