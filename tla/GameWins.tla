------------------------------ MODULE GameWins ------------------------------
(***************************************************************************)
(* Winning a capsule.  During a live session a player offers a capsule to  *)
(* the partner (a row of GeckoGameWinPending, one per recipient), or the   *)
(* two match on capsules of the same type (GeckoGameMatchWinPending).  An  *)
(* accepted offer archives the capsule as a win and deletes it, while its  *)
(* owner may edit it, delete it, or share it in a hello, which archives it *)
(* elsewhere.                                                              *)
(*                                                                         *)
(* A request that reads without a lock and writes later is a job of two    *)
(* steps; a transaction that locks what it reads is one step.              *)
(***************************************************************************)
EXTENDS Naturals, Sequences, FiniteSets

CONSTANTS Users, Capsules,
          Owner,      \* [Capsules -> Users]
          About,      \* [Capsules -> Users]: linked_user of the capsule's friend
          Types,      \* GeckoGameType
          NONE,       \* the type "Not gameable"
          MatchTypes, \* the types whose flag match_only is set
          Given,      \* [Capsules -> SUBSET Types]: bound: the types an owner chooses
          Inviters,   \* bound: the users who host sessions
          Workers,    \* requests under way at a time
          OfferIds,   \* bound: match offers open at a time
          MaxLife,    \* [Capsules -> Nat]: bound: lives of a capsule
          MaxSesh,    \* bound: sessions
          NoOffer, NoMatch, NoRow

ASSUME CapsulesAssumption ==
    /\ Owner \in [Capsules -> Users]
    /\ About \in [Capsules -> Users]
    /\ NONE \in Types /\ MatchTypes \subseteq Types \ {NONE}
    /\ Inviters \subseteq Users
    /\ Given \in [Capsules -> SUBSET Types]
    /\ {"unwritten", "gone"} \cap Types = {}
ASSUME BoundsAssumption == MaxLife \in [Capsules -> Nat \ {0}] /\ MaxSesh \in Nat

VARIABLES
    capsule,  \* [Capsules -> [type, life]]: the row, and how often it was brought back
    single,   \* [Users -> the offer in the user's GeckoGameWinPending row, or NoOffer]
    match,    \* [OfferIds -> an open GeckoGameMatchWinPending row, or NoMatch]
    row,      \* [Users -> the user's UserFriendCurrentLiveSesh row, or NoRow]
    seshes,   \* number of session ids handed out
    wins,     \* the GeckoGameWin rows in the order of their ids
    shared,   \* the CompletedThoughtCapsulez rows, as [capsule, life]
    job       \* [Workers -> a request between its read and its write, or Idle]

vars == <<capsule, single, match, row, seshes, wins, shared, job>>

Sids == 1..MaxSesh
NoSid == 0     \* the client sent no session_id

Offer == [sender : Users, capsule : Capsules, type : Types]
MatchOffer == [host : Users, guest : Users, hostCapsule : Capsules,
               guestCapsule : Capsules, accepted : SUBSET Users]
Row == [other : Users, is_host : BOOLEAN, live : BOOLEAN, session_id : Sids,
        wins : Nat]
Win == [user : Users, from : Users, capsule : Capsules, life : Nat, type : Types,
        matched : BOOLEAN, session_id : Sids \cup {NoSid}]
Copy == [capsule : Capsules, life : Nat]

AnswerJob == [op : {"answer"}, user : Users, offer : Offer, exists : BOOLEAN]
MatchJob == [op : {"decline", "insert"}, host : Users, guest : Users,
             hostCapsule : Capsules, guestCapsule : Capsules]
HelloJob == [op : {"hello"}, user : Users, friend : Users, read : SUBSET Copy,
             all : BOOLEAN]
EditJob == [op : {"edit"}, capsule : Capsules]
Idle == [op |-> "idle"]
Job == AnswerJob \cup MatchJob \cup HelloJob \cup EditJob \cup {Idle}

\* (mutant) the row asked for is taken to be there
Found(c) == TRUE

Exists(c) == capsule[c].type \in Types
InSesh(u) == row[u] # NoRow /\ row[u].live

Init ==
    /\ capsule = [c \in Capsules |-> [type |-> "unwritten", life |-> 1]]
    /\ single = [u \in Users |-> NoOffer]
    /\ match = [m \in OfferIds |-> NoMatch]
    /\ row = [u \in Users |-> NoRow]
    /\ seshes = 0
    /\ wins = <<>>
    /\ shared = {}
    /\ job = [w \in Workers |-> Idle]

-----------------------------------------------------------------------------
(* Sessions, as far as wins depend on them (LiveSesh has the whole story) *)

\* accept_live_sesh_invite gives both players a new session id and no wins.
StartSesh(h, g) ==
    /\ h \in Inviters /\ h # g
    /\ seshes < MaxSesh
    /\ seshes' = seshes + 1
    /\ LET Seat(other, is_host) == [other |-> other, is_host |-> is_host, live |-> TRUE,
                                    session_id |-> seshes + 1, wins |-> 0]
       IN  row' = [u \in Users |-> IF u = h THEN Seat(g, TRUE)
                                  ELSE IF u = g THEN Seat(h, FALSE) ELSE row[u]]
    /\ UNCHANGED <<capsule, single, match, wins, shared, job>>

Ended(us) == [u \in Users |-> IF u \in us /\ InSesh(u)
                              THEN [row[u] EXCEPT !.live = FALSE] ELSE row[u]]

\* The session runs out.
SeshEnds(u) ==
    /\ InSesh(u)
    /\ row' = Ended({u})
    /\ UNCHANGED <<capsule, single, match, seshes, wins, shared, job>>

-----------------------------------------------------------------------------
(* What deleting capsules takes along *)

Named(m) == {match[m].hostCapsule, match[m].guestCapsule}

\* (mutant) on_delete=DO_NOTHING
SingleKept(pending, cs) == pending

\* on_delete=CASCADE: of the pending rows as they are when the capsules are deleted, those
\* that name one go with it, and a request that read such a row can no longer save it.
SingleWithout(pending, cs) == [u \in Users |->
    IF pending[u] # NoOffer /\ pending[u].capsule \in cs THEN NoOffer ELSE pending[u]]
MatchWithout(cs) == [m \in OfferIds |->
    IF match[m] # NoMatch /\ Named(m) \cap cs # {} THEN NoMatch ELSE match[m]]
JobsWithout(pending, cs) == [w \in Workers |->
    IF job[w].op = "answer" /\ pending[job[w].user] # NoOffer
          /\ pending[job[w].user].capsule \in cs
    THEN [job[w] EXCEPT !.exists = FALSE] ELSE job[w]]

Without(cs) == [c \in Capsules |->
    IF c \in cs /\ Exists(c) THEN [capsule[c] EXCEPT !.type = "gone"] ELSE capsule[c]]

-----------------------------------------------------------------------------
(* The owner's requests *)

\* ThoughtCapsuleCreate
AddCapsule(c) ==
    /\ capsule[c].type = "unwritten"
    /\ \E t \in Given[c] : capsule' = [capsule EXCEPT ![c] = [@ EXCEPT !.type = t]]
    /\ UNCHANGED <<single, match, row, seshes, wins, shared, job>>

\* ThoughtCapsuleDetail.destroy
DeleteCapsule(c) ==
    /\ Exists(c)
    /\ capsule' = Without({c})
    /\ single' = SingleWithout(single, {c})
    /\ match' = MatchWithout({c})
    /\ job' = JobsWithout(single, {c})
    /\ UNCHANGED <<row, seshes, wins, shared>>

\* ThoughtCapsuleDetail and ThoughtCapsulesUpdateMultiple read the capsule unlocked ...
EditRead(w, c) ==
    /\ job[w] = Idle
    /\ Exists(c)
    /\ job' = [job EXCEPT ![w] = [op |-> "edit", capsule |-> c]]
    /\ UNCHANGED <<capsule, single, match, row, seshes, wins, shared>>

\* ... and save the whole row, with any type: an UPDATE, or, when the row has gone
\* since it was read, an INSERT.
EditSave(w) ==
    /\ job[w].op = "edit"
    /\ LET c == job[w].capsule
           revived == IF Exists(c) THEN 0 ELSE 1
       IN  /\ capsule[c].life + revived <= MaxLife[c]
           /\ \E t \in Given[c] : capsule' = [capsule EXCEPT ![c] =
                                 [type |-> t, life |-> capsule[c].life + revived]]
    /\ job' = [job EXCEPT ![w] = Idle]
    /\ UNCHANGED <<single, match, row, seshes, wins, shared>>

\* PastMeet.save gets the shared capsules without locking them: cs are those it archives,
\* at most one if it is to delete all others (see HelloCapsules) ...
HelloRead(w, u, v) ==
    /\ job[w] = Idle
    /\ \E cs \in SUBSET {c \in Capsules : Exists(c) /\ Owner[c] = u /\ About[c] = v},
          all \in BOOLEAN :
          /\ cs # {} \/ all
          /\ all => Cardinality(cs) <= 1
          /\ job' = [job EXCEPT ![w] =
                [op |-> "hello", user |-> u, friend |-> v, all |-> all,
                 read |-> {[capsule |-> c, life |-> capsule[c].life] : c \in cs}]]
    /\ UNCHANGED <<capsule, single, match, row, seshes, wins, shared>>

\* The capsules a hello deletes: those it read, and all others of the friend when
\* delete_all_unshared_capsules is set.
HelloDeletes(w) ==
    {c \in Capsules :
        \/ \E r \in job[w].read : r.capsule = c
        \/ job[w].all /\ Owner[c] = job[w].user /\ About[c] = job[w].friend}

\* ... then archives what it read and deletes it; a delete that finds no row is silent.
\* The hello also ends the live session of its author and of the partner.
HelloArchive(w) ==
    /\ job[w].op = "hello"
    /\ shared' = shared \cup job[w].read
    /\ capsule' = Without(HelloDeletes(w))
    /\ single' = SingleWithout(single, HelloDeletes(w))
    /\ match' = MatchWithout(HelloDeletes(w))
    /\ job' = [JobsWithout(single, HelloDeletes(w)) EXCEPT ![w] = Idle]
    /\ LET u == job[w].user
       IN  row' = IF InSesh(u) THEN Ended({u, row[u].other}) ELSE row
    /\ UNCHANGED <<seshes, wins>>

-----------------------------------------------------------------------------
(* One-sided wins *)

\* handle_propose_gecko_win: update_or_create of the partner's row
Propose(u, c) ==
    /\ InSesh(u)
    /\ Owner[c] = u
    /\ Exists(c)
    /\ capsule[c].type \notin MatchTypes
    /\ single' = [single EXCEPT ![row[u].other] =
          [sender |-> u, capsule |-> c, type |-> capsule[c].type]]
    /\ UNCHANGED <<capsule, match, row, seshes, wins, shared, job>>

\* GET and POST read the user's row unlocked ...
AnswerRead(w, u) ==
    /\ job[w] = Idle
    /\ single[u] # NoOffer
    /\ job' = [job EXCEPT ![w] = [op |-> "answer", user |-> u, offer |-> single[u],
                                  exists |-> TRUE]]
    /\ UNCHANGED <<capsule, single, match, row, seshes, wins, shared>>

\* ... then clear it, whatever it holds by now: the offer was declined, or it expired,
\* it is not gameable, or the capsule it names is missing.
ClearOffer(w) ==
    /\ job[w].op = "answer"
    /\ job[w].exists
    /\ single' = [single EXCEPT ![job[w].user] = NoOffer]
    /\ job' = [job EXCEPT ![w] = Idle]
    /\ UNCHANGED <<capsule, match, row, seshes, wins, shared>>

\* (mutant) winner and loser are swapped
WinOfOwner(u, from, c, matched, s) ==
    [user |-> from, from |-> u, capsule |-> c, life |-> capsule[c].life,
     type |-> capsule[c].type, matched |-> matched, session_id |-> s]

WinOf(u, from, c, matched, s) ==
    [user |-> u, from |-> from, capsule |-> c, life |-> capsule[c].life,
     type |-> capsule[c].type, matched |-> matched, session_id |-> s]

\* (mutant) the filter by session_id is missing
BumpedAnySesh(us, s) == [u \in Users |->
    IF u \in us /\ row[u] # NoRow THEN [row[u] EXCEPT !.wins = @ + 1] ELSE row[u]]

\* The update of gecko_wins_this_session, which names users and session
Bumped(us, s) == [u \in Users |->
    IF u \in us /\ row[u] # NoRow /\ row[u].session_id = s
    THEN [row[u] EXCEPT !.wins = @ + 1] ELSE row[u]]

\* The session ids a client can send: none, or one it has been given
SentSids == {NoSid} \cup 1..seshes

\* (mutant) the offer is taken at its word
TakeOffered(c) == TRUE

\* select_for_update on the source capsule
Lock(c) == Exists(c)

\* _finalize_locked wins the capsule of the offer that was read, clears the user's row,
\* whatever it holds by now, and then deletes the capsule.  If the row has been deleted
\* since it was read, saving it fails and nothing happens.
AcceptOffer(w) ==
    /\ job[w].op = "answer"
    /\ job[w].exists
    /\ job[w].offer.type # NONE
    /\ LET u == job[w].user
           c == job[w].offer.capsule
           cleared == [single EXCEPT ![u] = NoOffer]
       IN  /\ Lock(c)
           /\ \E s \in SentSids :
                 /\ wins' = Append(wins, WinOf(u, job[w].offer.sender, c, FALSE, s))
                 /\ row' = Bumped({u}, s)
           /\ capsule' = Without({c})
           /\ single' = SingleWithout(cleared, {c})
           /\ match' = MatchWithout({c})
           /\ job' = [JobsWithout(cleared, {c}) EXCEPT ![w] = Idle]
    /\ UNCHANGED <<seshes, shared>>

-----------------------------------------------------------------------------
(* Wins by matching *)

\* handle_propose_gecko_match_win computes the matches of the two players and picks one
\* capsule of each ...
ProposeMatch(w, u) ==
    /\ job[w] = Idle
    /\ InSesh(u)
    /\ LET v == row[u].other
           h == IF row[u].is_host THEN u ELSE v
           g == IF row[u].is_host THEN v ELSE u
       IN  \E hc, gc \in Capsules :
              /\ Owner[hc] = h /\ About[hc] = g
              /\ Owner[gc] = g /\ About[gc] = h
              /\ Exists(hc) /\ capsule[hc].type \in MatchTypes
              /\ Exists(gc) /\ capsule[gc].type = capsule[hc].type
              /\ job' = [job EXCEPT ![w] = [op |-> "decline", host |-> h, guest |-> g,
                                            hostCapsule |-> hc, guestCapsule |-> gc]]
    /\ UNCHANGED <<capsule, single, match, row, seshes, wins, shared>>

\* ... GeckoGameMatchWinPending.propose declines the open offers of the two ...
DeclineOlder(w) ==
    /\ job[w].op = "decline"
    /\ match' = [m \in OfferIds |->
          IF match[m] # NoMatch /\ match[m].host = job[w].host
                                /\ match[m].guest = job[w].guest
          THEN NoMatch ELSE match[m]]
    /\ job' = [job EXCEPT ![w] = [@ EXCEPT !.op = "insert"]]
    /\ UNCHANGED <<capsule, single, row, seshes, wins, shared>>

\* ... and inserts a new one, which fails when a capsule it names is gone.
InsertMatch(w) ==
    /\ job[w].op = "insert"
    /\ Exists(job[w].hostCapsule) /\ Exists(job[w].guestCapsule)
    /\ \E m \in OfferIds :
          /\ match[m] = NoMatch
          /\ match' = [match EXCEPT ![m] =
                [host |-> job[w].host, guest |-> job[w].guest,
                 hostCapsule |-> job[w].hostCapsule,
                 guestCapsule |-> job[w].guestCapsule, accepted |-> {}]]
    /\ job' = [job EXCEPT ![w] = Idle]
    /\ UNCHANGED <<capsule, single, row, seshes, wins, shared>>

\* GeckoGameMatchWinPendingDetail.post, which holds the row's lock: the offer expired, or
\* one of the two declines it.
DropMatch(m) ==
    /\ match[m] # NoMatch
    /\ match' = [match EXCEPT ![m] = NoMatch]
    /\ UNCHANGED <<capsule, single, row, seshes, wins, shared, job>>

\* The first of the two to accept waits for the other.
AwaitPartner(m, u) ==
    /\ match[m] # NoMatch
    /\ u \in {match[m].host, match[m].guest}
    /\ match[m].accepted \cup {u} # {match[m].host, match[m].guest}
    /\ match' = [match EXCEPT ![m] = [match[m] EXCEPT !.accepted = @ \cup {u}]]
    /\ UNCHANGED <<capsule, single, row, seshes, wins, shared, job>>

\* _finalize_match_locked: each wins the other's capsule.
AcceptMatch(m, u) ==
    /\ match[m] # NoMatch
    /\ u \in {match[m].host, match[m].guest}
    /\ LET h == match[m].host
           g == match[m].guest
           cs == Named(m)
       IN  /\ match[m].accepted \cup {u} = {h, g}
           /\ \A c \in cs : Lock(c)
           /\ \E s \in SentSids :
                 /\ wins' = wins \o <<WinOf(h, g, match[m].guestCapsule, TRUE, s),
                                      WinOf(g, h, match[m].hostCapsule, TRUE, s)>>
                 /\ row' = Bumped({h, g}, s)
           /\ capsule' = Without(cs)
           /\ single' = SingleWithout(single, cs)
           /\ match' = MatchWithout(cs)
           /\ job' = JobsWithout(single, cs)
    /\ UNCHANGED <<seshes, shared>>

\* A request that dies, fails or has nothing to write
Quit(w) ==
    /\ job[w] # Idle
    /\ job' = [job EXCEPT ![w] = Idle]
    /\ UNCHANGED <<capsule, single, match, row, seshes, wins, shared>>

SeshStep == \E u, v \in Users : StartSesh(u, v) \/ SeshEnds(u)
OwnerStep ==
    \/ \E c \in Capsules : AddCapsule(c) \/ DeleteCapsule(c)
    \/ \E w \in Workers :
          \/ \E c \in Capsules : EditRead(w, c)
          \/ \E u, v \in Users : HelloRead(w, u, v)
          \/ EditSave(w) \/ HelloArchive(w)
OfferStep ==
    \/ \E u \in Users, c \in Capsules : Propose(u, c)
    \/ \E w \in Workers :
          \/ \E u \in Users : AnswerRead(w, u) \/ ProposeMatch(w, u)
          \/ ClearOffer(w) \/ AcceptOffer(w) \/ DeclineOlder(w) \/ InsertMatch(w)
          \/ Quit(w)
MatchStep ==
    \E m \in OfferIds :
       DropMatch(m) \/ \E u \in Users : AwaitPartner(m, u) \/ AcceptMatch(m, u)

Next == SeshStep \/ OwnerStep \/ OfferStep \/ MatchStep

Spec == Init /\ [][Next]_vars

-----------------------------------------------------------------------------
(* Properties *)

\* Every variable holds a value of its kind, an offer has the type of a capsule that was
\* found, and nobody plays or matches with themselves.
GTypeOK ==
    /\ capsule \in [Capsules -> [type : Types \cup {"unwritten", "gone"}, life : Nat]]
    /\ single \in [Users -> Offer \cup {NoOffer}]
    /\ match \in [OfferIds -> MatchOffer \cup {NoMatch}]
    /\ row \in [Users -> Row \cup {NoRow}]
    /\ seshes \in 0..MaxSesh
    /\ wins \in Seq(Win)
    /\ shared \in SUBSET Copy
    /\ job \in [Workers -> Job]

\* The pending rows name capsules that exist and belong to the one who offers them, so
\* no player is shown an offer that cannot be accepted: whatever deletes a capsule (its
\* owner, a hello, a win) takes the offers along, those made to other players included.
OffersStand ==
    /\ \A u \in Users : single[u] # NoOffer =>
          /\ Exists(single[u].capsule)
          /\ Owner[single[u].capsule] = single[u].sender
    /\ \A m \in OfferIds : match[m] # NoMatch =>
          /\ match[m].host # match[m].guest
          /\ Exists(match[m].hostCapsule) /\ Owner[match[m].hostCapsule] = match[m].host
          /\ Exists(match[m].guestCapsule) /\ Owner[match[m].guestCapsule] = match[m].guest

\* A capsule is won once, by one player, although it can be offered to several, be in an
\* offer and in a match, and be accepted twice.  (An edit that was under way can bring
\* it back, and then it is won once again: that is its next life.)
WonOnce ==
    \A i, j \in DOMAIN wins :
        wins[i].capsule = wins[j].capsule /\ wins[i].life = wins[j].life => i = j

\* A win takes a capsule of the other player; a win by matching is one of a pair, in
\* which each gives what the other takes.
Swaps(a, b) ==
    /\ a.matched /\ b.matched
    /\ a.user = b.from /\ b.user = a.from
    /\ a.session_id = b.session_id
WinsAreFair ==
    \A i \in DOMAIN wins :
        /\ wins[i].from = Owner[wins[i].capsule]
        /\ wins[i].user # wins[i].from
        /\ wins[i].matched => \/ i > 1 /\ Swaps(wins[i - 1], wins[i])
                              \/ i < Len(wins) /\ Swaps(wins[i], wins[i + 1])

\* The scoreboard of a session shows the wins archived under its id: no win of another
\* session, none lost when both players win at a time.
ScoreboardCounts ==
    \A u \in Users : row[u] # NoRow =>
        row[u].wins = Cardinality({i \in DOMAIN wins :
            wins[i].user = u /\ wins[i].session_id = row[u].session_id})

\* "Lock the source capsule to prevent a concurrent delete from racing us": a capsule
\* that a hello has archived is not won any more, however old the offer is that the
\* request has read.
SharedStaysUnwon ==
    [][\A i \in DOMAIN wins' \ DOMAIN wins :
          [capsule |-> wins'[i].capsule, life |-> wins'[i].life] \notin shared]_vars
=============================================================================
