---------------------------- MODULE MCLevelSync -----------------------------
(* LevelSync for two levels, two changes and two tasks that tell levels. *)
EXTENDS LevelSync, TLC

Symmetry == Permutations(Changes) \cup Permutations(Tasks)
=============================================================================
