---------------------------- MODULE ColumnSketch ----------------------------
(***************************************************************************)
(* Column sketches (column_sketch.hpp), how a predicate is evaluated on    *)
(* one (numeric_stats.cpp, CheckSketchTemplated, and the filters'          *)
(* CheckSketchStatistics), and the zone maps they replace                  *)
(* (CheckZonemapTemplated and the filters' CheckStatistics).               *)
(*                                                                         *)
(* A sketch describes one appended chunk of a column: every value gets the *)
(* code of the first endpoint that is not below it.  Rows of a chunk are   *)
(* numbered from 1.  These are the operators; SketchScan is the scan.      *)
(***************************************************************************)
EXTENDS Integers, Sequences, FiniteSets, SequencesExt

CONSTANTS
    Width,      \* bits of BaseType: 32 or 64
    Codes,      \* values of CodeType: 256
    Lanes       \* codes that one vector instruction compares: 64

ASSUME SketchConstants ==
    /\ Width \in Nat \ {0}
    /\ Codes \in Nat \ {0}
    /\ Lanes \in Nat \ {0}
    /\ 2^(Width - 1) \in Nat \ {0} /\ 2^Width = 2 * 2^(Width - 1)

\* Values of the column's signed type.
Signed == (-(2^(Width - 1)))..(2^(Width - 1) - 1)

\* Conversion and arithmetic of the unsigned BaseType.
Unsigned(v) == v % 2^Width

Comparison == {"=", "!=", ">=", ">", "<=", "<"}

\* What SQL's comparison means for a value and a constant of the column.
Holds(v, op, c) ==
    CASE op = "="  -> v = c
      [] op = "!=" -> v # c
      [] op = ">=" -> v >= c
      [] op = ">"  -> v > c
      [] op = "<=" -> v <= c
      [] op = "<"  -> v < c
-----------------------------------------------------------------------------
(* Building a sketch.                                                      *)

\* Mutation of lower_bound: the first endpoint above the value.
lower_bound_Upper(e, x) == Cardinality({i \in DOMAIN e : e[i] <= x})

\* The distance from the first endpoint to the first one not below x.
lower_bound(e, x) == Cardinality({i \in DOMAIN e : e[i] < x})

\* The code of x, cut to the width of CodeType.
Code(e, x) == lower_bound(e, x) % Codes

\* build_order_preserving_map: equally spaced elements of the sorted data.
Endpoints(sample, num_codes) ==
    [i \in 1..num_codes |-> sample[(i * Len(sample)) \div num_codes]]

\* std::sort: the k-th element is the k-th smallest one.
Sorted(base) ==
    [k \in DOMAIN base |-> CHOOSE x \in ToSet(base) :
        /\ Cardinality({i \in DOMAIN base : base[i] < x}) < k
        /\ Cardinality({i \in DOMAIN base : base[i] <= x}) >= k]

\* The constructor.
BuildSketch(base) ==
    LET sample    == Sorted(base)
        num_codes == Min({Len(base), Codes})
        endpoints == Endpoints(sample, num_codes)
    IN  [base_data       |-> base,
         endpoints       |-> endpoints,
         sketch          |-> [i \in DOMAIN base |-> Code(endpoints, base[i])],
         need_check_base |-> Cardinality(ToSet(base)) > num_codes,
         min_data        |-> sample[1],
         max_data        |-> sample[Len(sample)]]
-----------------------------------------------------------------------------
(* Evaluating a comparison.  A ManagedSelection holds a bitmask and a      *)
(* selection with its count; both are sets of rows here.                   *)

Select(rows) == [bitmask |-> rows, rows |-> rows]

\* Rows the loop over whole vectors of codes handles; the rest is the tail.
InBlock(s, i) == i <= (Len(s.base_data) \div Lanes) * Lanes

\* Mutation of BaseChecked: rows with the constant's own code are taken as found.
BaseChecked_Never(s, i) == FALSE

\* Whether a row with the constant's own code is compared itself: not in
\* whole vectors when the chunk has few distinct values.
BaseChecked(s, i) == s.need_check_base \/ ~ InBlock(s, i)

LessThanRow(s, x, i) ==
    LET code_x == Code(s.endpoints, x) IN
    \/ s.sketch[i] < code_x
    \/ s.sketch[i] = code_x /\ BaseChecked(s, i) /\ s.base_data[i] < x

GreaterThanRow(s, x, i) ==
    LET code_x == Code(s.endpoints, x) IN
    \/ s.sketch[i] > code_x
    \/ s.sketch[i] = code_x /\ BaseChecked(s, i) /\ s.base_data[i] > x

\* The count that is returned and the selection that is left behind: the
\* first early return leaves the caller's selection as it was.
evaluate_less_than_AVX512(s, x, msel) ==
    LET rows == IF x > s.max_data THEN DOMAIN s.base_data
                ELSE {i \in DOMAIN s.base_data : LessThanRow(s, x, i)}
    IN  IF x <= s.min_data THEN [count |-> 0, msel |-> msel]
        ELSE [count |-> Cardinality(rows), msel |-> Select(rows)]

evaluate_greater_than_AVX512(s, x, msel) ==
    LET rows == IF x < s.min_data THEN DOMAIN s.base_data
                ELSE {i \in DOMAIN s.base_data : GreaterThanRow(s, x, i)}
    IN  IF x >= s.max_data THEN [count |-> 0, msel |-> msel]
        ELSE [count |-> Cardinality(rows), msel |-> Select(rows)]

\* FilterPropagateResult from the count of selected rows.
PruneResult(s, r) ==
    [msel   |-> r.msel,
     result |-> IF r.count = 0 THEN "FILTER_ALWAYS_FALSE"
                ELSE IF r.count = Len(s.base_data) THEN "FILTER_ALWAYS_TRUE"
                ELSE "NO_PRUNING_POSSIBLE"]

\* CheckSketchTemplated: the constant is converted to BaseType, "or equal" is
\* turned into a strict comparison, and = and != are not evaluated.
CheckSketch(s, op, c, msel) ==
    LET x == Unsigned(c) IN
    CASE op \in {"=", "!="} -> [msel |-> msel, result |-> "NO_PRUNING_POSSIBLE"]
      [] op = ">=" -> PruneResult(s, evaluate_greater_than_AVX512(s, Unsigned(x - 1), msel))
      [] op = ">"  -> PruneResult(s, evaluate_greater_than_AVX512(s, x, msel))
      [] op = "<=" -> PruneResult(s, evaluate_less_than_AVX512(s, Unsigned(x + 1), msel))
      [] op = "<"  -> PruneResult(s, evaluate_less_than_AVX512(s, x, msel))
-----------------------------------------------------------------------------
(* Filters: a comparison with a constant, IS NOT NULL (on a column that    *)
(* has no NULL), an OR of these, or an AND of all of them.                 *)

Constant(op, c) == [type |-> "constant", op |-> op, c |-> c]
IsNotNull       == [type |-> "is_not_null"]
Or(fs)          == [type |-> "or", children |-> fs]
And(fs)         == [type |-> "and", children |-> fs]

\* Filters as the planner builds them: operands have the column's type.
IsLeaf(f) ==
    \/ f.type = "constant" /\ f.op \in Comparison /\ f.c \in Signed
    \/ f.type = "is_not_null"
IsList(fs) == Len(fs) \in Nat /\ DOMAIN fs = 1..Len(fs)
IsChild(f) ==
    \/ IsLeaf(f)
    \/ f.type = "or" /\ IsList(f.children) /\ \A i \in DOMAIN f.children : IsLeaf(f.children[i])
IsFilter(f) ==
    \/ IsChild(f)
    \/ f.type = "and" /\ IsList(f.children) /\ \A i \in DOMAIN f.children : IsChild(f.children[i])

\* What the leaves of a filter, and the filter, mean for a value.
LeafHolds(f, v) == f.type = "constant" => Holds(v, f.op, f.c)
ChildHolds(f, v) == IF f.type = "or" THEN \E i \in DOMAIN f.children : LeafHolds(f.children[i], v)
                                     ELSE LeafHolds(f, v)
FilterHolds(f, v) == IF f.type = "and" THEN \A i \in DOMAIN f.children : ChildHolds(f.children[i], v)
                                       ELSE ChildHolds(f, v)

CheckSketchLeaf(s, f, msel) ==
    IF f.type = "constant" THEN CheckSketch(s, f.op, f.c, msel)
    ELSE [msel |-> msel, result |-> "FILTER_ALWAYS_TRUE"]

\* ConjunctionOrFilter: the first child that is not always false decides.
CheckSketchOr(s, fs, msel) ==
    LET Step(acc, f) == IF acc.result = "FILTER_ALWAYS_FALSE" THEN CheckSketchLeaf(s, f, acc.msel)
                        ELSE acc
    IN  FoldLeft(Step, [msel |-> msel, result |-> "FILTER_ALWAYS_FALSE"], fs)

CheckSketchChild(s, f, msel) ==
    IF f.type = "or" THEN CheckSketchOr(s, f.children, msel) ELSE CheckSketchLeaf(s, f, msel)

\* Mutation of MergeMask: the last mask wins.
MergeMask_Last(first, merged, mask) == mask

MergeMask(first, merged, mask) == IF first THEN mask ELSE merged \cap mask

\* ConjunctionAndFilter: the masks of the comparisons among the children are
\* merged; the merged mask becomes the selection unless there was exactly one.
CheckSketchAnd(s, fs, msel) ==
    LET Step(acc, f) ==
            IF acc.result = "FILTER_ALWAYS_FALSE" THEN acc
            ELSE LET r == CheckSketchChild(s, f, acc.msel) IN
                 [msel   |-> r.msel,
                  result |-> IF r.result \in {"FILTER_ALWAYS_FALSE", acc.result} THEN r.result
                             ELSE "NO_PRUNING_POSSIBLE",
                  merged |-> IF f.type = "constant"
                             THEN MergeMask(acc.n = 0, acc.merged, r.msel.bitmask)
                             ELSE acc.merged,
                  n      |-> IF f.type = "constant" THEN acc.n + 1 ELSE acc.n]
        end == FoldLeft(Step, [msel |-> msel, result |-> "FILTER_ALWAYS_TRUE",
                               merged |-> {}, n |-> 0], fs)
    IN  [result |-> end.result,
         msel   |-> IF end.result # "FILTER_ALWAYS_FALSE" /\ end.n # 1
                    THEN Select(end.merged) ELSE end.msel]

CheckSketchStatistics(s, f, msel) ==
    IF f.type = "and" THEN CheckSketchAnd(s, f.children, msel) ELSE CheckSketchChild(s, f, msel)
-----------------------------------------------------------------------------
(* Zone maps.                                                              *)

\* CheckZonemapTemplated, for values between lo and hi.
CheckZonemap(lo, hi, op, c) ==
    LET always == CASE op = "="  -> lo = c /\ hi = c
                    [] op = "!=" -> c < lo \/ c > hi
                    [] op = ">=" -> lo >= c
                    [] op = ">"  -> lo > c
                    [] op = "<=" -> hi <= c
                    [] op = "<"  -> hi < c
        possible == CASE op = "="  -> lo <= c /\ c <= hi
                      [] op = "!=" -> ~ (lo = c /\ hi = c)
                      [] op = ">=" -> hi >= c
                      [] op = ">"  -> hi > c
                      [] op = "<=" -> lo <= c
                      [] op = "<"  -> lo < c
    IN  IF always THEN "FILTER_ALWAYS_TRUE"
        ELSE IF possible THEN "NO_PRUNING_POSSIBLE" ELSE "FILTER_ALWAYS_FALSE"

\* CheckStatistics of the leaves, of OR, and of AND.
CheckLeaf(lo, hi, f) ==
    IF f.type = "constant" THEN CheckZonemap(lo, hi, f.op, f.c) ELSE "FILTER_ALWAYS_TRUE"

CheckChild(lo, hi, f) ==
    LET Step(acc, g) == IF acc = "FILTER_ALWAYS_FALSE" THEN CheckLeaf(lo, hi, g) ELSE acc
    IN  IF f.type = "or" THEN FoldLeft(Step, "FILTER_ALWAYS_FALSE", f.children)
        ELSE CheckLeaf(lo, hi, f)

CheckStatistics(lo, hi, f) ==
    LET Step(acc, g) ==
            LET r == CheckChild(lo, hi, g) IN
            IF "FILTER_ALWAYS_FALSE" \in {acc, r} THEN "FILTER_ALWAYS_FALSE"
            ELSE IF r = acc THEN acc ELSE "NO_PRUNING_POSSIBLE"
    IN  IF f.type = "and" THEN FoldLeft(Step, "FILTER_ALWAYS_TRUE", f.children)
        ELSE CheckChild(lo, hi, f)
=============================================================================
