------------------------------- MODULE Lines ---------------------------------
(* What it is for two texts to have the same lines, apart from those that a   *)
(* property does not speak of.                                                *)
EXTENDS Naturals, FiniteSets

\* The place of line i among the lines in S.
Nth(S, i) == Cardinality({j \in S : j <= i})

\* The lines of t in S are the lines of u in T, in the same order.
SameLines(t, S, u, T) ==
  /\ Cardinality(S) = Cardinality(T)
  /\ \A i \in S, j \in T : Nth(S, i) = Nth(T, j) => t[i] = u[j]
=============================================================================
