--------------------------- MODULE MCConnections ---------------------------
(* Two users with one card each: requests in both directions between them.  *)
EXTENDS Connections, TLC

CONSTANTS alice, bob, aliceCard, bobCard

MCOwner == aliceCard :> alice @@ bobCard :> bob

CallSymmetry == Permutations(Calls)
=============================================================================
