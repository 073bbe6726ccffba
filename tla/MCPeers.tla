------------------------------- MODULE MCPeers -------------------------------
(* Model checking of the peer service: the sets of clients and of requests    *)
(* that come once are interchangeable.                                        *)
EXTENDS PeerProps, PeerRefinement, TLC

Symmetry == Permutations(Names) \cup Permutations(Reqs \ Dashboards)
=============================================================================
