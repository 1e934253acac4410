----------------------------- MODULE MCPlatform -----------------------------
(* Instances of Platform for TLC. *)
EXTENDS PlatformInvariants, TLC

Symmetry ==
    UNION {Permutations(S) : S \in {Users, Instances, Sockets, Requests, Notifications}}
=============================================================================
