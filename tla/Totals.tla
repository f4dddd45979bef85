------------------------------- MODULE Totals -------------------------------
(***************************************************************************)
(* The total of a function's values, as a count of units: <<x, n>> is the  *)
(* n-th of the sizes[x] units that belong to x.  It says what a sum over a *)
(* set says, and can be reasoned about without induction.                  *)
(***************************************************************************)
EXTENDS Naturals, FiniteSets

Units(sizes) == UNION {{x} \X (1 .. sizes[x]) : x \in DOMAIN sizes}
Total(sizes) == Cardinality(Units(sizes))
=============================================================================
