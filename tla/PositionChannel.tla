--------------------------- MODULE PositionChannel ---------------------------
(***************************************************************************)
(* What the relay promises about positions.  Of every kind of position the *)
(* receiver is shown some, in the order in which they were put, and in the *)
(* end the newest, or a still newer one, unless the socket ends before.    *)
(* Positions are numbered from 1 in the order in which they are put.       *)
(***************************************************************************)
EXTENDS Naturals

CONSTANT Kinds

VARIABLES newest,  \* [Kinds -> the last position that was put]
          shown,   \* [Kinds -> the last position the receiver was sent]
          over     \* the socket has ended

vars == <<newest, shown, over>>

Init ==
    /\ newest = [k \in Kinds |-> 0]
    /\ shown = [k \in Kinds |-> 0]
    /\ over = FALSE

Put(k) ==
    /\ newest' = [newest EXCEPT ![k] = @ + 1]
    /\ UNCHANGED <<shown, over>>

Show(k) ==
    /\ ~over
    /\ \E n \in shown[k] + 1 .. newest[k] : shown' = [shown EXCEPT ![k] = n]
    /\ UNCHANGED <<newest, over>>

End ==
    /\ over' = TRUE
    /\ UNCHANGED <<newest, shown>>

Next == (\E k \in Kinds : Put(k) \/ Show(k)) \/ End

Safety == Init /\ [][Next]_vars

Spec == Safety /\ \A k \in Kinds : WF_vars(Show(k))
=============================================================================
