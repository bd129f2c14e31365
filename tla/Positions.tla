------------------------------ MODULE Positions -----------------------------
(* Positions of a sequence, as a set of numbers *)
EXTENDS Naturals, FiniteSets

\* The k-th of them
Nth(k, S) == CHOOSE i \in S : Cardinality({j \in S : j <= i}) = k
=============================================================================
