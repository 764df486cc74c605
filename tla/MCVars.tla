------------------------------ MODULE MCVars ------------------------------
(* The names and expressions that Vars is checked with.                    *)
EXTENDS Vars, TLC

CONSTANTS v1, v2, vin, vout

Globals == {v1, v2, vin}

T(op, x) == [op |-> op, k |-> IF x \in Globals THEN "var" ELSE "int", x |-> x]

\* Operators that are not commutative; one chain, of which the last term counts.
MCExprs ==
  {<<T("dif", 1)>>} \cup {<<T("dif", x)>> : x \in Globals} \cup {<<T("div", vin)>>}
    \cup {<<T("sum", vin), T("mul", 3)>>}

Same == Permutations({v1, v2})
=============================================================================
