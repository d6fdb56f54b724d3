---------------------- MODULE MCDuckTransactionManager ----------------------
(* DuckTransactionManager for TLC; transactions are interchangeable.        *)
EXTENDS DuckTransactionManager

TxnSymmetry == Permutations(Txn)
=============================================================================
