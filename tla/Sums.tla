-------------------------------- MODULE Sums --------------------------------
(***************************************************************************)
(* SQL's SUM over a column, as the number of units the column holds.       *)
(* Total(f) is the sum of f[x] over the finite domain of f: every amount   *)
(* f[x] contributes the f[x] pairs <<x, 1>> ... <<x, f[x]>>.  Counting a   *)
(* set instead of recursing over the rows keeps the sum within reach of    *)
(* the proofs about finite sets.                                           *)
(***************************************************************************)
EXTENDS Integers, FiniteSets

UnitsOf(f, x) == {x} \X (1..f[x])

Units(f) == UNION {UnitsOf(f, x) : x \in DOMAIN f}

Total(f) == Cardinality(Units(f))
=============================================================================
