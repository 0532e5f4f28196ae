----------------------------- MODULE Counting -----------------------------
(* Sums and orders by counting, for the modules that are proved about. *)
EXTENDS Naturals, FiniteSets

\* The points of a function to naturals, one by one; its sum is how many there are.
Points(f) == UNION {{x} \X (1..f[x]) : x \in DOMAIN f}
Total(f) == Cardinality(Points(f))

\* What comes no later than x in the strict order R of S, and the elements of S in that order.
UpTo(S, R, x) == {y \in S : <<x, y>> \notin R}
Sorted(S, R) == [i \in 1..Cardinality(S) |-> CHOOSE x \in S : Cardinality(UpTo(S, R, x)) = i]
===========================================================================
