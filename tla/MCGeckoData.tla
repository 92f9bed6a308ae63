---------------------------- MODULE MCGeckoData ----------------------------
(* GeckoData on a day of two hours; the second window carries on the first. *)
EXTENDS GeckoData, TLC

CONSTANTS w1, w2, f1, f2

MCWindows == {<<1, 2>>, <<2, 3>>}
Symmetry == Permutations({w1, w2}) \cup Permutations({f1, f2})
=============================================================================
