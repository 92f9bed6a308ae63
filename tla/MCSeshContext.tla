--------------------------- MODULE MCSeshContext ---------------------------
(* SeshContext on three users: a invites b and c invites a, so that a's second session
   displaces b. *)
EXTENDS SeshContext

CONSTANTS a, b, c

MCUsers == {a, b, c}
MCLinks == {<<a, b>>, <<c, a>>}
=============================================================================
