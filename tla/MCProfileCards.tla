--------------------------- MODULE MCProfileCards ---------------------------
(* Two users with two or three cards each.                                  *)
EXTENDS ProfileCards, TLC

CONSTANTS alice, bob, a1, a2, a3, b1, b2, c1, c2

MCOwner == [x \in Cards |-> IF x \in {a1, a2, a3} THEN alice ELSE bob]

(* Each user makes one call at a time. *)
OneEach == c1 :> alice @@ c2 :> bob

(* One user makes both calls. *)
BothAlices == [c \in Calls |-> alice]

CardSymmetry == Permutations({a1, a2, a3}) \cup Permutations({b1, b2})
=============================================================================
