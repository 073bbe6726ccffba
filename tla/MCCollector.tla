----------------------------- MODULE MCCollector -----------------------------
(* Model checking of the collector.  Clients are interchangeable: the order   *)
(* in which collect goes through them is left open.                           *)
EXTENDS Collector, TLC

Symmetry == Permutations(Names)
=============================================================================
