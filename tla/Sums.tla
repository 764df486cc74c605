------------------------------- MODULE Sums --------------------------------
(***************************************************************************)
(* The sum of a function with values in Nat over a finite set, as the      *)
(* number of pairs <<x, i>> with i in 1..f[x]: a definition without        *)
(* recursion, so that sums can be reasoned about with the theorems about   *)
(* cardinality.                                                            *)
(***************************************************************************)
EXTENDS Integers, FiniteSets

Units(f, S) == UNION {{x} \X (1..f[x]) : x \in S}

Total(f, S) == Cardinality(Units(f, S))
=============================================================================
