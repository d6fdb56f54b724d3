----------------------------- MODULE MCRecovery -----------------------------
(***************************************************************************)
(* Recovery with interchangeable transactions.                             *)
(***************************************************************************)
EXTENDS Recovery

Symmetry == Permutations(Txn)
=============================================================================
