----------------------------- MODULE MCCatalog -----------------------------
(***************************************************************************)
(* A catalog of a sequence, a table whose default value uses it, and the   *)
(* name that the table is renamed to.                                      *)
(***************************************************************************)
EXTENDS Catalog

CONSTANTS seq, tbl, new_tbl

SequenceAndTables == {seq, tbl, new_tbl}
UsesSequence == [n \in SequenceAndTables |-> IF n = seq THEN {} ELSE {seq}]

\* The table is created in place of another one, or under the new name.
SequenceAndTableCreates ==
    {[name |-> seq, requires |-> {}, replace |-> FALSE],
     [name |-> tbl, requires |-> {seq}, replace |-> TRUE],
     [name |-> new_tbl, requires |-> {seq}, replace |-> FALSE]}

SequenceAndTableDrops ==
    {[name |-> tbl, cascade |-> FALSE]}
        \cup {[name |-> seq, cascade |-> b] : b \in BOOLEAN}

\* The table is renamed or changed; the sequence is changed, with or without
\* regard to its dependents.
TableAndSequenceAlters ==
    {[name |-> tbl, new |-> m, additive |-> FALSE] : m \in {tbl, new_tbl}}
        \cup {[name |-> seq, new |-> seq, additive |-> b] : b \in BOOLEAN}

SequenceWithTable == [n \in {seq, tbl} |-> IF n = seq THEN {} ELSE {seq}]

\* The transactions are interchangeable.
Symmetry == Permutations(Txn)
=============================================================================
