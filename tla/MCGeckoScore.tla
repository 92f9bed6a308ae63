---------------------------- MODULE MCGeckoScore ----------------------------
(* GeckoScore with requests that may overlap. *)
EXTENDS GeckoScore, TLC

Symmetry == Permutations(Requests)
=============================================================================
