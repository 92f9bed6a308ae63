-------------------------- MODULE MCHelloCapsules ---------------------------
(* HelloCapsules for two capsules, two helloes and two requests at a time. *)
EXTENDS HelloCapsules, TLC

Symmetry == Permutations(Capsules) \cup Permutations(Requests)
=============================================================================
