----------------------------- MODULE MCGameWins -----------------------------
(* GameWins with two players, who have two capsules and one. *)
EXTENDS GameWins, TLC

CONSTANTS anna, ben, a1, a2, b1

MCOwner == [c \in Capsules |-> IF c = b1 THEN ben ELSE anna]
MCAbout == [c \in Capsules |-> IF c = b1 THEN anna ELSE ben]
MCGiven == [c \in Capsules |-> CASE c = a1 -> {"COMPLIMENT"}
                                 [] c = a2 -> {"COMPLIMENT", "JEALOUS"}
                                 [] OTHER -> {"JEALOUS"}]
MCLives == [c \in Capsules |-> IF c = b1 THEN 2 ELSE 1]
IdSymmetry == Permutations(Workers) \cup Permutations(OfferIds)
=============================================================================
