------------------------------- MODULE Counting -------------------------------
(***************************************************************************)
(* Sums of a function with natural values, as the size of a set: one unit  *)
(* for each argument and each number up to its value.  SumFunctionOnSet of *)
(* module Functions gives the same number by recursion, which the provers  *)
(* cannot unfold; facts about cardinalities they have.                     *)
(***************************************************************************)
EXTENDS Integers, FiniteSets

Units(f, S) == UNION {{x} \X (1..f[x]) : x \in S}

SumOver(f, S) == Cardinality(Units(f, S))
=============================================================================
