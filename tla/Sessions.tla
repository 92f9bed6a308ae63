------------------------------ MODULE Sessions ------------------------------
(***************************************************************************)
(* What the registry promises about who plays with whom.  A session begins *)
(* with two players, under a number of its own, and from then on only      *)
(* loses players.  Who begins a session leaves every other one, and ends   *)
(* it for its partner there too, as long as the history is not torn by a   *)
(* session that was begun on what was known of an earlier state.           *)
(***************************************************************************)
EXTENDS Naturals

CONSTANT Users

VARIABLES begun,    \* number of sessions begun so far
          players,  \* [1..begun -> the users who play in the session]
          torn      \* history: a session may have left somebody's partner behind

vars == <<begun, players, torn>>

Init ==
    /\ begun = 0
    /\ players = [s \in 1..0 |-> {}]
    /\ torn = FALSE

\* Others, in gone, may be taken out of what they play in at the same time.
Begin(u, v, gone) ==
    /\ u # v
    /\ begun' = begun + 1
    /\ players' = [s \in 1..begun + 1 |->
          IF s = begun + 1 THEN {u, v} ELSE players[s] \ ({u, v} \cup gone)]
    /\ torn' \in {torn, TRUE}
    /\ torn' \/ \A s \in 1..begun :
          players[s] \cap {u, v} # {} => players[s] \subseteq {u, v} \cup gone

Leave(gone) ==
    /\ players' = [s \in 1..begun |-> players[s] \ gone]
    /\ UNCHANGED <<begun, torn>>

Next ==
    \E gone \in SUBSET Users :
        \/ Leave(gone)
        \/ \E u, v \in Users : Begin(u, v, gone)

Spec == Init /\ [][Next]_vars
=============================================================================
