----------------------------- MODULE MCLiveSesh -----------------------------
(* LiveSesh on three users: a and b have each other as linked friends, c has a. *)
EXTENDS LiveSesh, TLC

CONSTANTS a, b, c

MCUsers == {a, b, c}
MCLinks == {<<a, b>>, <<b, a>>, <<c, a>>}
WorkerSymmetry == Permutations(Workers)
=============================================================================
