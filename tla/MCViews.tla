------------------------------- MODULE MCViews -------------------------------
(* Model checking of the two views: the clients are interchangeable.          *)
EXTENDS Views

Symmetry == Permutations(Names)
=============================================================================
