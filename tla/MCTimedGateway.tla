--------------------------- MODULE MCTimedGateway ---------------------------
(* Instances of TimedGateway for TLC. *)
EXTENDS TimedGateway, TLC

Symmetry == UNION {Permutations(S) : S \in {Users, Instances, Sockets, Tickets}}
=============================================================================
