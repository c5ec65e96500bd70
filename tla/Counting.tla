------------------------------ MODULE Counting ------------------------------
(***************************************************************************)
(* The sum of a function to Nat, as the number of its units: the pairs     *)
(* <<x, 1>>, ..., <<x, f[x]>> for each x.  A sum defined by recursion would*)
(* need an induction that the provers cannot do; a cardinality does not.   *)
(***************************************************************************)
EXTENDS Integers, FiniteSets

UnitsOf(f) == UNION {{x} \X (1..f[x]) : x \in DOMAIN f}
TotalOf(f) == Cardinality(UnitsOf(f))
=============================================================================
