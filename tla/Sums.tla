-------------------------------- MODULE Sums --------------------------------
(* Sums without recursion.                                                 *)
EXTENDS Integers, FiniteSets

(* The sum of f over S, as the size of a set of that many units.           *)
sumOf(f, S) == Cardinality(UNION {{x} \X (1..f[x]) : x \in S})

=============================================================================
