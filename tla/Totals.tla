------------------------------- MODULE Totals -------------------------------
(***************************************************************************)
(* Sums of amounts, as the contract's accounting needs them: the wei of an *)
(* amount function f are numbered 1..f[x] for every holder x, and the      *)
(* total is the number of wei.  The definition is free of recursion, so    *)
(* the conservation laws of the ledger can be proved as well as checked.   *)
(***************************************************************************)
EXTENDS Integers, FiniteSets

\* The individual units held by x.
UnitsAt(f, x) == {x} \X (1 .. f[x])

\* All units of the amount function f.
Units(f) == UNION {UnitsAt(f, x) : x \in DOMAIN f}

\* The sum of f over its domain.
Total(f) == Cardinality(Units(f))
=============================================================================
