--------------------------- MODULE MCNotifications ---------------------------
(* The notifications of one of two users. *)
EXTENDS Notifications, TLC

CONSTANTS alice, bob

MCTo == [n \in Notices |-> alice]

Symmetry == Permutations(Streams) \cup Permutations(Replicas) \cup Permutations(Calls)
=============================================================================
