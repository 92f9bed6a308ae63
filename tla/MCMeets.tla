------------------------------ MODULE MCMeets -------------------------------
(* Meets for one friend and two requests at a time. *)
EXTENDS Meets, TLC

CONSTANT Effort, Priority
SettingsTried == {[effort |-> Effort, priority |-> p] : p \in Priority}
AgesTried == {0, 40}
SkewsTried == {0, 1}
Symmetry == Permutations(Requests)
=============================================================================
