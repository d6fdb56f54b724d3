---------------------------- MODULE MCSketchScan ----------------------------
(***************************************************************************)
(* Sets of filters for checking SketchScan.                                *)
(***************************************************************************)
EXTENDS SketchScan

CONSTANT Operand        \* constants that filters compare with

RangeComparisons == {Constant(op, c) : op \in {"<", "<=", ">", ">="}, c \in Operand}
LowerBounds == {Constant(op, c) : op \in {">", ">="}, c \in Operand}
UpperBounds == {Constant(op, c) : op \in {"<", "<="}, c \in Operand}

\* A comparison, a comparison with IS NOT NULL, and a range.
RangeFilters ==
    RangeComparisons
        \cup {And(<<f, IsNotNull>>) : f \in RangeComparisons}
        \cup {And(<<f, g, IsNotNull>>) : f \in LowerBounds, g \in UpperBounds}

\* Every comparison, AND and OR of two, and an AND with an OR.
AllFilters ==
    {Constant(op, c) : op \in Comparison, c \in Operand}
        \cup {And(<<f, g>>) : f \in LowerBounds, g \in UpperBounds}
        \cup {Or(<<f, g>>) : f \in LowerBounds, g \in UpperBounds}
        \cup {And(<<Or(<<f, g>>), Constant("!=", c)>>) :
                  f \in LowerBounds, g \in UpperBounds, c \in Operand}
=============================================================================
