-------------------------- MODULE MCTableVersions --------------------------
EXTENDS TableVersions, TLC

\* The transactions are interchangeable.
Symmetry == Permutations(Txn)

\* WHERE clauses: the second row, all rows.
FewRows == {{1}, Row}
=============================================================================
