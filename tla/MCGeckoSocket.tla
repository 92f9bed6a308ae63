---------------------------- MODULE MCGeckoSocket ----------------------------
(* Two players with a connection each, and a former partner of the first who has none. *)
EXTENDS GeckoSocket, TLC

CONSTANTS ana, bob, cy, a1, b1, f1, f2

MCOwner == (a1 :> ana) @@ (b1 :> bob)

MCMessages == (a1 :> 2) @@ (b1 :> 1)

MCFriends == (ana :> {f1, f2}) @@ (bob :> {}) @@ (cy :> {})

Ctx(p, h, f) == [partner_id |-> p, is_host |-> h, sesh_friend_id |-> f]

\* ana is bob's host, and no friend of his; she may also still get the context of the session
\* before, in which he was the host, or of one as cy's guest.
MCContexts ==
    (ana :> {Ctx(bob, TRUE, f1), Ctx(bob, FALSE, f2), Ctx(cy, FALSE, f2)})
        @@ (bob :> {Ctx(ana, FALSE, NoFriend)}) @@ (cy :> {})

Symm == Permutations(Tasks)
=============================================================================
