-------------------------------- MODULE Sums --------------------------------
(* The sum of the values of a function, without recursion. *)
EXTENDS Integers, FiniteSets

\* f[x] lots of every x, counted.
Lots(f) == Cardinality(UNION {{x} \X (1 .. f[x]) : x \in DOMAIN f})
=============================================================================
