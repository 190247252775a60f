-------------------------------- MODULE Sums --------------------------------
(***************************************************************************)
(* The sum of natural numbers over a finite set, counted unit by unit: a    *)
(* sum is then the size of a set, and what the code adds up in loops and in *)
(* running totals can be reasoned about with the theorems on cardinalities. *)
(***************************************************************************)
EXTENDS Integers, FiniteSets

\* f[s] units for every element s of S.
Units(f, S) == UNION {{s} \X (1..f[s]) : s \in S}

\* The sum of f over S.
Total(f, S) == Cardinality(Units(f, S))
=============================================================================
