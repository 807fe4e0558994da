------------------------------ MODULE MCJournal ------------------------------
(* Instances of Journal for TLC.  A page is cut into two data blocks, as    *)
(* Transaction::Write does (3584 + 512 bytes).                              *)
EXTENDS JournalInv, TLC

CONSTANTS t1, t2, t3, p1, p2, q1, q2

OnePage  == {<<p1, p2>>}
TwoPages == {<<p1, p2>>, <<q1, q2>>}

TxSymmetry == Permutations(Tx)
=============================================================================
