------------------------- MODULE MCNotificationApi --------------------------
(* Instances of NotificationApi for TLC. *)
EXTENDS NotificationApi, TLC

Symmetry == Permutations(Requests) \cup Permutations(Users)
=============================================================================
