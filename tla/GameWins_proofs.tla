--------------------------- MODULE GameWins_proofs ---------------------------
(***************************************************************************)
(* What holds of GameWins for any players, capsules, types and number of   *)
(* requests under way.                                                     *)
(***************************************************************************)
EXTENDS GameWins, FiniteSetTheorems, TLAPS

-----------------------------------------------------------------------------
(* The helpers keep the kinds of the variables. *)

LEMMA JobKinds ==
  ASSUME GTypeOK, NEW w \in Workers
  PROVE  /\ job[w].op = "answer" => job[w] \in AnswerJob
         /\ job[w].op \in {"decline", "insert"} => job[w] \in MatchJob
         /\ job[w].op = "hello" => job[w] \in HelloJob
         /\ job[w].op = "edit" => job[w] \in EditJob
BY DEF GTypeOK, Job, AnswerJob, MatchJob, HelloJob, EditJob, Idle

LEMMA LongerSequences ==
  ASSUME NEW S, NEW q \in Seq(S), NEW a \in S, NEW b \in S
  PROVE  /\ Append(q, a) \in Seq(S)
         /\ q \o <<a, b>> \in Seq(S)
<1>1. <<a, b>> \in Seq(S)
  OBVIOUS
<1>2. QED
  BY <1>1

LEMMA DeletionTypes ==
  ASSUME GTypeOK, NEW pending \in [Users -> Offer \cup {NoOffer}], NEW cs
  PROVE  /\ Without(cs) \in [Capsules -> [type : Types \cup {"unwritten", "gone"},
                                          life : Nat]]
         /\ SingleWithout(pending, cs) \in [Users -> Offer \cup {NoOffer}]
         /\ MatchWithout(cs) \in [OfferIds -> MatchOffer \cup {NoMatch}]
         /\ JobsWithout(pending, cs) \in [Workers -> Job]
<1> USE DEF GTypeOK
<1>1. Without(cs) \in [Capsules -> [type : Types \cup {"unwritten", "gone"}, life : Nat]]
  BY DEF Without
<1>2. SingleWithout(pending, cs) \in [Users -> Offer \cup {NoOffer}]
  BY DEF SingleWithout
<1>3. MatchWithout(cs) \in [OfferIds -> MatchOffer \cup {NoMatch}]
  BY DEF MatchWithout
<1>4. ASSUME NEW w \in Workers, job[w].op = "answer"
      PROVE  [job[w] EXCEPT !.exists = FALSE] \in AnswerJob
  <2>1. job[w] \in AnswerJob
    BY <1>4, JobKinds
  <2>2. QED
    BY <2>1 DEF AnswerJob
<1>5. JobsWithout(pending, cs) \in [Workers -> Job]
  BY <1>4 DEF JobsWithout, Job
<1>6. QED
  BY <1>1, <1>2, <1>3, <1>5

LEMMA RowTypes ==
  ASSUME GTypeOK, NEW us, NEW s
  PROVE  /\ Ended(us) \in [Users -> Row \cup {NoRow}]
         /\ Bumped(us, s) \in [Users -> Row \cup {NoRow}]
<1>1. ASSUME NEW u \in Users, row[u] # NoRow
      PROVE  /\ [row[u] EXCEPT !.live = FALSE] \in Row
             /\ [row[u] EXCEPT !.wins = @ + 1] \in Row
  <2>1. row[u] \in Row
    BY <1>1 DEF GTypeOK
  <2>2. [row[u] EXCEPT !.live = FALSE] \in Row
    BY <2>1 DEF Row
  <2>3. [row[u] EXCEPT !.wins = @ + 1] \in Row
    BY <2>1 DEF Row
  <2>4. QED
    BY <2>2, <2>3
<1>2. Ended(us) \in [Users -> Row \cup {NoRow}]
  BY <1>1 DEF Ended, InSesh, GTypeOK
<1>3. Bumped(us, s) \in [Users -> Row \cup {NoRow}]
  BY <1>1 DEF Bumped, GTypeOK
<1>4. QED
  BY <1>2, <1>3

-----------------------------------------------------------------------------
(* Every action keeps the kinds of the variables. *)

LEMMA SeshTypes ==
  ASSUME GTypeOK, SeshStep
  PROVE  GTypeOK'
<1>1. ASSUME NEW h \in Users, NEW g \in Users, StartSesh(h, g)
      PROVE  GTypeOK'
  <2>1. seshes + 1 \in Sids /\ seshes' \in 0..MaxSesh
    BY <1>1, BoundsAssumption DEF GTypeOK, StartSesh, Sids
  <2>2. row' \in [Users -> Row \cup {NoRow}]
    BY <1>1, <2>1 DEF GTypeOK, StartSesh, Row
  <2>3. QED
    BY <1>1, <2>1, <2>2 DEF GTypeOK, StartSesh
<1>2. ASSUME NEW u \in Users, SeshEnds(u)
      PROVE  GTypeOK'
  BY <1>2, RowTypes DEF GTypeOK, SeshEnds
<1>3. QED
  BY <1>1, <1>2 DEF SeshStep

LEMMA OwnerTypes ==
  ASSUME GTypeOK, OwnerStep
  PROVE  GTypeOK'
<1>1. ASSUME NEW c \in Capsules, AddCapsule(c)
      PROVE  GTypeOK'
  <2>1. PICK t \in Types : capsule' = [capsule EXCEPT ![c] = [@ EXCEPT !.type = t]]
    BY <1>1, CapsulesAssumption DEF AddCapsule
  <2>2. [capsule[c] EXCEPT !.type = t] \in
           [type : Types \cup {"unwritten", "gone"}, life : Nat]
    BY <2>1 DEF GTypeOK
  <2>3. QED
    BY <1>1, <2>1, <2>2 DEF GTypeOK, AddCapsule
<1>2. ASSUME NEW c \in Capsules, DeleteCapsule(c)
      PROVE  GTypeOK'
  BY <1>2, DeletionTypes DEF GTypeOK, DeleteCapsule
<1>3. ASSUME NEW w \in Workers, NEW c \in Capsules, EditRead(w, c)
      PROVE  GTypeOK'
  <2>1. [op |-> "edit", capsule |-> c] \in Job
    BY DEF Job, EditJob
  <2>2. QED
    BY <1>3, <2>1 DEF GTypeOK, EditRead
<1>4. ASSUME NEW w \in Workers, NEW u \in Users, NEW v \in Users, HelloRead(w, u, v)
      PROVE  GTypeOK'
  <2>1. PICK cs \in SUBSET Capsules, all \in BOOLEAN :
           job' = [job EXCEPT ![w] =
                [op |-> "hello", user |-> u, friend |-> v, all |-> all,
                 read |-> {[capsule |-> c, life |-> capsule[c].life] : c \in cs}]]
    BY <1>4 DEF HelloRead
  <2>2. {[capsule |-> c, life |-> capsule[c].life] : c \in cs} \in SUBSET Copy
    BY DEF GTypeOK, Copy
  <2>3. job' \in [Workers -> Job]
    BY <2>1, <2>2 DEF GTypeOK, Job, HelloJob
  <2>4. QED
    BY <1>4, <2>3 DEF GTypeOK, HelloRead
<1>5. ASSUME NEW w \in Workers, EditSave(w)
      PROVE  GTypeOK'
  <2>1. job[w].capsule \in Capsules
    BY <1>5, JobKinds DEF EditSave, EditJob
  <2>2. PICK t \in Types, l \in {capsule[job[w].capsule].life + 0,
                                 capsule[job[w].capsule].life + 1} :
           capsule' = [capsule EXCEPT ![job[w].capsule] = [type |-> t, life |-> l]]
    BY <1>5, <2>1, CapsulesAssumption DEF EditSave
  <2>3. l \in Nat
    BY <2>1 DEF GTypeOK
  <2>4. capsule' \in [Capsules -> [type : Types \cup {"unwritten", "gone"}, life : Nat]]
    BY <2>1, <2>2, <2>3 DEF GTypeOK
  <2>5. job' \in [Workers -> Job]
    BY <1>5 DEF EditSave, GTypeOK, Job
  <2>6. QED
    BY <1>5, <2>4, <2>5 DEF GTypeOK, EditSave
<1>6. ASSUME NEW w \in Workers, HelloArchive(w)
      PROVE  GTypeOK'
  <2>1. job[w].read \in SUBSET Copy
    BY <1>6, JobKinds DEF HelloArchive, HelloJob
  <2>2. shared' \in SUBSET Copy
    BY <1>6, <2>1 DEF GTypeOK, HelloArchive
  <2>3. job' \in [Workers -> Job]
    <3>1. JobsWithout(single, HelloDeletes(w)) \in [Workers -> Job]
      BY DeletionTypes DEF GTypeOK
    <3>2. QED
      BY <1>6, <3>1 DEF HelloArchive, Job
  <2>4. row' \in [Users -> Row \cup {NoRow}]
    BY <1>6, RowTypes DEF HelloArchive, GTypeOK
  <2>5. QED
    BY <1>6, <2>2, <2>3, <2>4, DeletionTypes DEF GTypeOK, HelloArchive
<1>7. QED
  BY <1>1, <1>2, <1>3, <1>4, <1>5, <1>6 DEF OwnerStep

LEMMA WinTypes ==
  ASSUME GTypeOK, NEW u \in Users, NEW v \in Users, NEW c \in Capsules, Lock(c),
         NEW matched \in BOOLEAN, NEW s \in SentSids
  PROVE  WinOf(u, v, c, matched, s) \in Win
<1>1. s \in Sids \cup {NoSid}
  BY BoundsAssumption DEF SentSids, Sids, GTypeOK
<1>2. QED
  BY <1>1 DEF WinOf, Win, Lock, Exists, GTypeOK

LEMMA OfferTypes ==
  ASSUME GTypeOK, OfferStep
  PROVE  GTypeOK'
<1>1. ASSUME NEW u \in Users, NEW c \in Capsules, Propose(u, c)
      PROVE  GTypeOK'
  <2>1. row[u].other \in Users
    BY <1>1 DEF Propose, InSesh, GTypeOK, Row
  <2>2. [sender |-> u, capsule |-> c, type |-> capsule[c].type] \in Offer
    BY <1>1 DEF Propose, Exists, Offer
  <2>3. QED
    BY <1>1, <2>1, <2>2 DEF GTypeOK, Propose
<1>2. ASSUME NEW w \in Workers, NEW u \in Users, AnswerRead(w, u)
      PROVE  GTypeOK'
  <2>1. [op |-> "answer", user |-> u, offer |-> single[u], exists |-> TRUE] \in Job
    BY <1>2 DEF GTypeOK, AnswerRead, Job, AnswerJob
  <2>2. QED
    BY <1>2, <2>1 DEF GTypeOK, AnswerRead
<1>3. ASSUME NEW w \in Workers, NEW u \in Users, ProposeMatch(w, u)
      PROVE  GTypeOK'
  <2>1. row[u].other \in Users
    BY <1>3 DEF ProposeMatch, InSesh, GTypeOK, Row
  <2> DEFINE h == IF row[u].is_host THEN u ELSE row[u].other
             g == IF row[u].is_host THEN row[u].other ELSE u
  <2>2. PICK hc \in Capsules, gc \in Capsules :
           job' = [job EXCEPT ![w] = [op |-> "decline", host |-> h, guest |-> g,
                                      hostCapsule |-> hc, guestCapsule |-> gc]]
    BY <1>3 DEF ProposeMatch
  <2>3. job' \in [Workers -> Job]
    <3>1. h \in Users /\ g \in Users
      BY <2>1
    <3> HIDE DEF h, g
    <3>2. [op |-> "decline", host |-> h, guest |-> g,
           hostCapsule |-> hc, guestCapsule |-> gc] \in Job
      BY <3>1 DEF Job, MatchJob
    <3>3. QED
      BY <2>2, <3>2 DEF GTypeOK
  <2>4. QED
    BY <1>3, <2>3 DEF GTypeOK, ProposeMatch
<1>4. ASSUME NEW w \in Workers, ClearOffer(w)
      PROVE  GTypeOK'
  BY <1>4 DEF GTypeOK, ClearOffer, Job
<1>5. ASSUME NEW w \in Workers, AcceptOffer(w)
      PROVE  GTypeOK'
  <2>1. job[w].user \in Users /\ job[w].offer \in Offer
    BY <1>5, JobKinds DEF AcceptOffer, AnswerJob
  <2>2. job[w].offer.sender \in Users /\ job[w].offer.capsule \in Capsules
    BY <2>1 DEF Offer
  <2> DEFINE u == job[w].user
             from == job[w].offer.sender
             c == job[w].offer.capsule
  <2>3. PICK s \in SentSids : /\ wins' = Append(wins, WinOf(u, from, c, FALSE, s))
                              /\ row' = Bumped({u}, s)
    BY <1>5 DEF AcceptOffer
  <2>4. WinOf(u, from, c, FALSE, s) \in Win
    BY <1>5, <2>1, <2>2, WinTypes DEF AcceptOffer
  <2>5. wins' \in Seq(Win)
    BY <2>3, <2>4, LongerSequences DEF GTypeOK
  <2>6. row' \in [Users -> Row \cup {NoRow}]
    BY <1>5, <2>3, RowTypes DEF AcceptOffer
  <2> DEFINE cleared == [single EXCEPT ![u] = NoOffer]
  <2>7. cleared \in [Users -> Offer \cup {NoOffer}]
    BY DEF GTypeOK
  <2>8. /\ single' = SingleWithout(cleared, {c})
        /\ job' = [JobsWithout(cleared, {c}) EXCEPT ![w] = Idle]
    BY <1>5 DEF AcceptOffer
  <2>9. single' \in [Users -> Offer \cup {NoOffer}] /\ job' \in [Workers -> Job]
    <3> HIDE DEF cleared, c
    <3>1. QED
      BY <2>7, <2>8, DeletionTypes DEF Job
  <2>10. Without({c}) \in [Capsules -> [type : Types \cup {"unwritten", "gone"}, life : Nat]]
    BY <2>7, DeletionTypes
  <2>11. MatchWithout({c}) \in [OfferIds -> MatchOffer \cup {NoMatch}]
    BY <2>7, DeletionTypes
  <2>12. QED
    BY <1>5, <2>5, <2>6, <2>9, <2>10, <2>11 DEF GTypeOK, AcceptOffer
<1>6. ASSUME NEW w \in Workers, DeclineOlder(w)
      PROVE  GTypeOK'
  <2>1. job[w] \in MatchJob
    BY <1>6, JobKinds DEF DeclineOlder
  <2>2. [job[w] EXCEPT !.op = "insert"] \in Job
    BY <2>1 DEF MatchJob, Job
  <2>3. QED
    BY <1>6, <2>2 DEF GTypeOK, DeclineOlder
<1>7. ASSUME NEW w \in Workers, InsertMatch(w)
      PROVE  GTypeOK'
  <2>1. job[w] \in MatchJob
    BY <1>7, JobKinds DEF InsertMatch
  <2>2. [host |-> job[w].host, guest |-> job[w].guest,
         hostCapsule |-> job[w].hostCapsule, guestCapsule |-> job[w].guestCapsule,
         accepted |-> {}] \in MatchOffer
    BY <2>1 DEF MatchJob, MatchOffer
  <2>3. match' \in [OfferIds -> MatchOffer \cup {NoMatch}]
    BY <1>7, <2>2 DEF GTypeOK, InsertMatch
  <2>4. QED
    BY <1>7, <2>3 DEF GTypeOK, InsertMatch, Job
<1>8. ASSUME NEW w \in Workers, Quit(w)
      PROVE  GTypeOK'
  BY <1>8 DEF GTypeOK, Quit, Job
<1>9. QED
  BY <1>1, <1>2, <1>3, <1>4, <1>5, <1>6, <1>7, <1>8 DEF OfferStep

LEMMA MatchTypesKept ==
  ASSUME GTypeOK, MatchStep
  PROVE  GTypeOK'
<1>1. ASSUME NEW m \in OfferIds, DropMatch(m)
      PROVE  GTypeOK'
  BY <1>1 DEF GTypeOK, DropMatch
<1>2. ASSUME NEW m \in OfferIds, NEW u \in Users, AwaitPartner(m, u)
      PROVE  GTypeOK'
  <2> DEFINE new == [match[m] EXCEPT !.accepted = @ \cup {u}]
  <2>1. new \in MatchOffer
    BY <1>2 DEF GTypeOK, AwaitPartner, MatchOffer
  <2>2. match' \in [OfferIds -> MatchOffer \cup {NoMatch}]
    <3>1. match' = [match EXCEPT ![m] = new]
      BY <1>2 DEF AwaitPartner
    <3> HIDE DEF new
    <3>2. QED
      BY <2>1, <3>1 DEF GTypeOK
  <2>3. QED
    BY <1>2, <2>2 DEF GTypeOK, AwaitPartner
<1>3. ASSUME NEW m \in OfferIds, NEW u \in Users, AcceptMatch(m, u)
      PROVE  GTypeOK'
  <2> DEFINE h == match[m].host
             g == match[m].guest
             hc == match[m].hostCapsule
             gc == match[m].guestCapsule
  <2>1. h \in Users /\ g \in Users /\ hc \in Capsules /\ gc \in Capsules
    BY <1>3 DEF GTypeOK, AcceptMatch, MatchOffer
  <2>2. PICK s \in SentSids :
           /\ wins' = wins \o <<WinOf(h, g, gc, TRUE, s), WinOf(g, h, hc, TRUE, s)>>
           /\ row' = Bumped({h, g}, s)
    BY <1>3 DEF AcceptMatch
  <2>3. Lock(hc) /\ Lock(gc)
    BY <1>3 DEF AcceptMatch, Named
  <2>4. WinOf(h, g, gc, TRUE, s) \in Win /\ WinOf(g, h, hc, TRUE, s) \in Win
    BY <2>1, <2>3, WinTypes
  <2>5. wins' \in Seq(Win)
    BY <2>2, <2>4, LongerSequences DEF GTypeOK
  <2>6. row' \in [Users -> Row \cup {NoRow}]
    BY <1>3, <2>2, RowTypes DEF AcceptMatch
  <2>7. QED
    BY <1>3, <2>5, <2>6, DeletionTypes DEF GTypeOK, AcceptMatch
<1>4. QED
  BY <1>1, <1>2, <1>3 DEF MatchStep

LEMMA InitTypes == Init => GTypeOK
<1> SUFFICES ASSUME Init PROVE GTypeOK
  OBVIOUS
<1>1. Idle \in Job
  BY DEF Job
<1>2. seshes \in 0..MaxSesh
  BY BoundsAssumption DEF Init
<1>3. QED
  BY <1>1, <1>2 DEF Init, GTypeOK

LEMMA NextTypes == GTypeOK /\ [Next]_vars => GTypeOK'
<1> SUFFICES ASSUME GTypeOK, [Next]_vars PROVE GTypeOK'
  OBVIOUS
<1>1. CASE UNCHANGED vars
  BY <1>1 DEF vars, GTypeOK
<1>2. CASE Next
  BY <1>2, SeshTypes, OwnerTypes, OfferTypes, MatchTypesKept DEF Next
<1>3. QED
  BY <1>1, <1>2

\* Every variable holds a value of its kind, in every reachable state.
THEOREM GTypeCorrect == Spec => []GTypeOK
<1>1. Init => GTypeOK
  BY InitTypes
<1>2. GTypeOK /\ [Next]_vars => GTypeOK'
  BY NextTypes
<1>3. QED
  BY <1>1, <1>2, PTL DEF Spec

-----------------------------------------------------------------------------
(* Offers *)

\* Nobody is the own partner, and an offer comes from somebody else.
NotToOneself ==
    /\ \A u \in Users : row[u] # NoRow => row[u].other # u
    /\ \A u \in Users : single[u] # NoOffer => single[u].sender # u

\* What a request has read still says whose capsules it is about.
RequestsFit ==
    \A w \in Workers :
        /\ job[w].op = "answer" =>
              /\ Owner[job[w].offer.capsule] = job[w].offer.sender
              /\ job[w].offer.sender # job[w].user
        /\ job[w].op \in {"decline", "insert"} =>
              /\ job[w].host # job[w].guest
              /\ Owner[job[w].hostCapsule] = job[w].host
              /\ Owner[job[w].guestCapsule] = job[w].guest

OInv == OffersStand /\ NotToOneself /\ RequestsFit

LEMMA RowsKeepPartners ==
  ASSUME GTypeOK, NEW us, NEW s, NEW u \in Users
  PROVE  /\ Ended(us)[u] # NoRow => row[u] # NoRow /\ Ended(us)[u].other = row[u].other
         /\ Bumped(us, s)[u] # NoRow =>
               row[u] # NoRow /\ Bumped(us, s)[u].other = row[u].other
<1>1. CASE row[u] = NoRow
  BY <1>1 DEF Ended, Bumped, InSesh
<1>2. CASE row[u] # NoRow
  <2>1. row[u] \in Row
    BY <1>2 DEF GTypeOK
  <2>2. /\ [row[u] EXCEPT !.live = FALSE].other = row[u].other
        /\ [row[u] EXCEPT !.wins = @ + 1].other = row[u].other
    BY <2>1 DEF Row
  <2>3. QED
    BY <1>2, <2>2 DEF Ended, Bumped
<1>3. QED
  BY <1>1, <1>2

LEMMA DeletionKeepsOffers ==
  ASSUME GTypeOK, OffersStand, NotToOneself, NEW cs,
         capsule' = Without(cs), match' = MatchWithout(cs),
         \A u \in Users : single'[u] = SingleWithout(single, cs)[u] \/ single'[u] = NoOffer
  PROVE  /\ OffersStand'
         /\ \A u \in Users : single'[u] # NoOffer => single'[u].sender # u
<1>1. \A c \in Capsules : c \notin cs /\ Exists(c) => Exists(c)'
  BY DEF Exists, Without
<1>2. ASSUME NEW u \in Users, single'[u] # NoOffer
      PROVE  /\ single[u] # NoOffer /\ single'[u] = single[u]
             /\ single[u].capsule \in Capsules /\ single[u].capsule \notin cs
  <2>1. single'[u] = single[u] /\ single[u].capsule \notin cs
    BY <1>2 DEF SingleWithout
  <2>2. QED
    BY <1>2, <2>1 DEF GTypeOK, Offer
<1>3. ASSUME NEW m \in OfferIds, match'[m] # NoMatch
      PROVE  /\ match[m] # NoMatch /\ match'[m] = match[m]
             /\ match[m].hostCapsule \in Capsules \ cs
             /\ match[m].guestCapsule \in Capsules \ cs
  <2>1. match'[m] = match[m] /\ Named(m) \cap cs = {}
    BY <1>3 DEF MatchWithout
  <2>2. match[m] \in MatchOffer
    BY <1>3, <2>1 DEF GTypeOK
  <2>3. QED
    BY <1>3, <2>1, <2>2 DEF MatchOffer, Named
<1>4. OffersStand'
  BY <1>1, <1>2, <1>3 DEF OffersStand
<1>5. QED
  BY <1>2, <1>4 DEF NotToOneself

LEMMA JobsWithoutKeep ==
  ASSUME GTypeOK, NEW pending, NEW cs, NEW w \in Workers
  PROVE  /\ JobsWithout(pending, cs)[w].op = job[w].op
         /\ job[w].op = "answer" => /\ JobsWithout(pending, cs)[w].user = job[w].user
                                    /\ JobsWithout(pending, cs)[w].offer = job[w].offer
         /\ job[w].op # "answer" => JobsWithout(pending, cs)[w] = job[w]
<1>1. CASE job[w].op = "answer"
  <2>1. job[w] \in AnswerJob
    BY <1>1, JobKinds
  <2>2. /\ [job[w] EXCEPT !.exists = FALSE].op = job[w].op
        /\ [job[w] EXCEPT !.exists = FALSE].user = job[w].user
        /\ [job[w] EXCEPT !.exists = FALSE].offer = job[w].offer
    BY <2>1 DEF AnswerJob
  <2>3. QED
    BY <1>1, <2>2 DEF JobsWithout
<1>2. CASE job[w].op # "answer"
  BY <1>2 DEF JobsWithout
<1>3. QED
  BY <1>1, <1>2

LEMMA DeletionKeepsRequests ==
  ASSUME GTypeOK, RequestsFit, NEW pending, NEW cs,
         \A w \in Workers : job'[w] = JobsWithout(pending, cs)[w] \/ job'[w] = Idle
  PROVE  RequestsFit'
<1> SUFFICES ASSUME NEW w \in Workers
             PROVE  /\ job'[w].op = "answer" =>
                          /\ Owner[job'[w].offer.capsule] = job'[w].offer.sender
                          /\ job'[w].offer.sender # job'[w].user
                    /\ job'[w].op \in {"decline", "insert"} =>
                          /\ job'[w].host # job'[w].guest
                          /\ Owner[job'[w].hostCapsule] = job'[w].host
                          /\ Owner[job'[w].guestCapsule] = job'[w].guest
  BY DEF RequestsFit
<1>1. CASE job'[w] = Idle
  BY <1>1 DEF Idle
<1>2. CASE job'[w] = JobsWithout(pending, cs)[w]
  BY <1>2, JobsWithoutKeep DEF RequestsFit
<1>3. QED
  BY <1>1, <1>2

\* A request that is one of the others, or a new one that fits, or none
LEMMA NewRequestFits ==
  ASSUME RequestsFit, NEW w \in Workers, NEW j,
         job \in [Workers -> Job], job' = [job EXCEPT ![w] = j],
         j.op = "answer" => /\ Owner[j.offer.capsule] = j.offer.sender
                            /\ j.offer.sender # j.user,
         j.op \in {"decline", "insert"} => /\ j.host # j.guest
                                          /\ Owner[j.hostCapsule] = j.host
                                          /\ Owner[j.guestCapsule] = j.guest
  PROVE  RequestsFit'
BY DEF RequestsFit

LEMMA SameOffers ==
  ASSUME OffersStand, NotToOneself, UNCHANGED <<single, match, row>>,
         \A c \in Capsules : Exists(c) => Exists(c)', GTypeOK
  PROVE  OffersStand' /\ NotToOneself'
<1>1. \A u \in Users : single[u] # NoOffer => single[u].capsule \in Capsules
  BY DEF GTypeOK, Offer
<1>2. \A m \in OfferIds : match[m] # NoMatch =>
        match[m].hostCapsule \in Capsules /\ match[m].guestCapsule \in Capsules
  BY DEF GTypeOK, MatchOffer
<1>3. OffersStand'
  BY <1>1, <1>2 DEF OffersStand
<1>4. QED
  BY <1>3 DEF NotToOneself

LEMMA SeshOffers ==
  ASSUME GTypeOK, OInv, SeshStep
  PROVE  OInv'
<1>1. ASSUME NEW h \in Users, NEW g \in Users, StartSesh(h, g)
      PROVE  OInv'
  <2>1. h # g
    BY <1>1 DEF StartSesh
  <2>2. \A u \in Users : row'[u] # NoRow => row'[u].other # u
    <3>1. \A u \in Users : \/ row'[u] = row[u]
                           \/ u = g /\ row'[u].other = h
                           \/ u = h /\ row'[u].other = g
      BY <1>1 DEF StartSesh
    <3>2. QED
      BY <2>1, <3>1 DEF OInv, NotToOneself
  <2>3. OffersStand' /\ RequestsFit'
    BY <1>1 DEF StartSesh, OInv, OffersStand, RequestsFit, Exists
  <2>4. single' = single
    BY <1>1 DEF StartSesh
  <2>5. QED
    BY <2>2, <2>3, <2>4 DEF OInv, NotToOneself
<1>2. ASSUME NEW u \in Users, SeshEnds(u)
      PROVE  OInv'
  <2>1. row' = Ended({u}) /\ single' = single
    BY <1>2 DEF SeshEnds
  <2>2. NotToOneself'
    BY <2>1, RowsKeepPartners DEF OInv, NotToOneself
  <2>3. OffersStand' /\ RequestsFit'
    BY <1>2 DEF SeshEnds, OInv, OffersStand, RequestsFit, Exists
  <2>4. QED
    BY <2>2, <2>3 DEF OInv
<1>3. QED
  BY <1>1, <1>2 DEF SeshStep

LEMMA OwnerOffers ==
  ASSUME GTypeOK, OInv, OwnerStep
  PROVE  OInv'
<1>1. ASSUME NEW c \in Capsules, AddCapsule(c)
      PROVE  OInv'
  <2>1. \A d \in Capsules : Exists(d) => Exists(d)'
    <3>1. PICK t \in Types : capsule' = [capsule EXCEPT ![c] = [@ EXCEPT !.type = t]]
      BY <1>1, CapsulesAssumption DEF AddCapsule
    <3>2. [capsule[c] EXCEPT !.type = t].type = t
      BY DEF GTypeOK
    <3>3. QED
      BY <3>1, <3>2 DEF Exists, GTypeOK
  <2>2. OffersStand' /\ NotToOneself'
    BY <1>1, <2>1, SameOffers DEF AddCapsule, OInv
  <2>3. RequestsFit'
    BY <1>1 DEF AddCapsule, OInv, RequestsFit
  <2>4. QED
    BY <2>2, <2>3 DEF OInv
<1>2. ASSUME NEW c \in Capsules, DeleteCapsule(c)
      PROVE  OInv'
  <2>1. /\ OffersStand'
        /\ \A u \in Users : single'[u] # NoOffer => single'[u].sender # u
    BY <1>2, DeletionKeepsOffers DEF DeleteCapsule, OInv
  <2>2. RequestsFit'
    BY <1>2, DeletionKeepsRequests DEF DeleteCapsule, OInv
  <2>3. row' = row
    BY <1>2 DEF DeleteCapsule
  <2>4. QED
    BY <2>1, <2>2, <2>3 DEF OInv, NotToOneself
<1>3. ASSUME NEW w \in Workers, NEW c \in Capsules, EditRead(w, c)
      PROVE  OInv'
  <2>1. RequestsFit'
    BY <1>3, NewRequestFits DEF EditRead, OInv, GTypeOK
  <2>2. OffersStand' /\ NotToOneself'
    BY <1>3, SameOffers DEF EditRead, OInv, Exists
  <2>3. QED
    BY <2>1, <2>2 DEF OInv
<1>4. ASSUME NEW w \in Workers, NEW u \in Users, NEW v \in Users, HelloRead(w, u, v)
      PROVE  OInv'
  <2>1. PICK read, all : job' = [job EXCEPT ![w] =
           [op |-> "hello", user |-> u, friend |-> v, all |-> all, read |-> read]]
    BY <1>4 DEF HelloRead
  <2>2. RequestsFit'
    BY <2>1, NewRequestFits DEF OInv, GTypeOK
  <2>3. OffersStand' /\ NotToOneself'
    BY <1>4, SameOffers DEF HelloRead, OInv, Exists
  <2>4. QED
    BY <2>2, <2>3 DEF OInv
<1>5. ASSUME NEW w \in Workers, EditSave(w)
      PROVE  OInv'
  <2>1. job[w].capsule \in Capsules
    BY <1>5, JobKinds DEF EditSave, EditJob
  <2>2. \A d \in Capsules : Exists(d) => Exists(d)'
    <3>0. PICK t \in Types : \E l : capsule' = [capsule EXCEPT ![job[w].capsule] =
                                                   [type |-> t, life |-> l]]
      BY <1>5, <2>1, CapsulesAssumption DEF EditSave
    <3>1. PICK l : capsule' = [capsule EXCEPT ![job[w].capsule] =
                                              [type |-> t, life |-> l]]
      BY <3>0
    <3>2. capsule \in [Capsules -> [type : Types \cup {"unwritten", "gone"}, life : Nat]]
      BY DEF GTypeOK
    <3>3. QED
      BY <3>1, <3>2 DEF Exists
  <2>3. OffersStand' /\ NotToOneself'
    BY <1>5, <2>2, SameOffers DEF EditSave, OInv
  <2>4. RequestsFit'
    BY <1>5, NewRequestFits DEF EditSave, OInv, GTypeOK, Idle
  <2>5. QED
    BY <2>3, <2>4 DEF OInv
<1>6. ASSUME NEW w \in Workers, HelloArchive(w)
      PROVE  OInv'
  <2>1. /\ OffersStand'
        /\ \A u \in Users : single'[u] # NoOffer => single'[u].sender # u
    BY <1>6, DeletionKeepsOffers DEF HelloArchive, OInv
  <2>2. RequestsFit'
    <3>1. \A x \in Workers : \/ job'[x] = JobsWithout(single, HelloDeletes(w))[x]
                             \/ job'[x] = Idle
      BY <1>6, DeletionTypes DEF HelloArchive
    <3>2. QED
      BY <3>1, DeletionKeepsRequests DEF OInv
  <2>3. \A u \in Users : row'[u] # NoRow => row[u] # NoRow /\ row'[u].other = row[u].other
    BY <1>6, RowsKeepPartners DEF HelloArchive
  <2>4. QED
    BY <2>1, <2>2, <2>3 DEF OInv, NotToOneself
<1>7. QED
  BY <1>1, <1>2, <1>3, <1>4, <1>5, <1>6 DEF OwnerStep

LEMMA OfferOffers ==
  ASSUME GTypeOK, OInv, OfferStep
  PROVE  OInv'
<1>1. ASSUME NEW u \in Users, NEW c \in Capsules, Propose(u, c)
      PROVE  OInv'
  <2> DEFINE o == [sender |-> u, capsule |-> c, type |-> capsule[c].type]
  <2>1. /\ single' = [single EXCEPT ![row[u].other] = o]
        /\ UNCHANGED <<capsule, match, row, job>>
        /\ row[u].other # u /\ Owner[c] = u /\ Exists(c)
    BY <1>1 DEF Propose, InSesh, OInv, NotToOneself
  <2>2. o.sender = u /\ o.capsule = c
    OBVIOUS
  <2> HIDE DEF o
  <2>3. \A v \in Users : single'[v] = single[v] \/ (single'[v] = o /\ v # u)
    BY <2>1 DEF GTypeOK
  <2>4. OffersStand'
    BY <2>1, <2>2, <2>3 DEF OInv, OffersStand, Exists
  <2>5. NotToOneself'
    BY <2>1, <2>2, <2>3 DEF OInv, NotToOneself
  <2>6. QED
    BY <2>1, <2>4, <2>5 DEF OInv, RequestsFit
<1>2. ASSUME NEW w \in Workers, NEW u \in Users, AnswerRead(w, u)
      PROVE  OInv'
  <2>1. OffersStand' /\ NotToOneself'
    BY <1>2, SameOffers DEF AnswerRead, OInv, Exists
  <2>2. Owner[single[u].capsule] = single[u].sender /\ single[u].sender # u
    BY <1>2 DEF AnswerRead, OInv, OffersStand, NotToOneself
  <2>3. RequestsFit'
    BY <1>2, <2>2, NewRequestFits DEF AnswerRead, OInv, GTypeOK
  <2>4. QED
    BY <2>1, <2>3 DEF OInv
<1>3. ASSUME NEW w \in Workers, NEW u \in Users, ProposeMatch(w, u)
      PROVE  OInv'
  <2> DEFINE h == IF row[u].is_host THEN u ELSE row[u].other
             g == IF row[u].is_host THEN row[u].other ELSE u
  <2>1. h # g
    BY <1>3 DEF ProposeMatch, InSesh, OInv, NotToOneself
  <2>2. PICK hc \in Capsules, gc \in Capsules :
           /\ Owner[hc] = h /\ Owner[gc] = g
           /\ job' = [job EXCEPT ![w] = [op |-> "decline", host |-> h, guest |-> g,
                                         hostCapsule |-> hc, guestCapsule |-> gc]]
    BY <1>3 DEF ProposeMatch
  <2> HIDE DEF h, g
  <2>3. RequestsFit'
    BY <2>1, <2>2, NewRequestFits DEF OInv, GTypeOK
  <2>4. OffersStand' /\ NotToOneself'
    BY <1>3, SameOffers DEF ProposeMatch, OInv, Exists
  <2>5. QED
    BY <2>3, <2>4 DEF OInv
<1>4. ASSUME NEW w \in Workers, ClearOffer(w)
      PROVE  OInv'
  <2>1. \A v \in Users : single'[v] = single[v] \/ single'[v] = NoOffer
    BY <1>4 DEF ClearOffer, GTypeOK
  <2>2. OffersStand' /\ NotToOneself'
    BY <1>4, <2>1 DEF ClearOffer, OInv, OffersStand, NotToOneself, Exists
  <2>3. RequestsFit'
    BY <1>4, NewRequestFits DEF ClearOffer, OInv, GTypeOK, Idle
  <2>4. QED
    BY <2>2, <2>3 DEF OInv
<1>5. ASSUME NEW w \in Workers, AcceptOffer(w)
      PROVE  OInv'
  <2> DEFINE c == job[w].offer.capsule
  <2> DEFINE cleared == [single EXCEPT ![job[w].user] = NoOffer]
  <2>1. /\ capsule' = Without({c}) /\ match' = MatchWithout({c})
        /\ single' = SingleWithout(cleared, {c})
        /\ job' = [JobsWithout(cleared, {c}) EXCEPT ![w] = Idle]
    BY <1>5 DEF AcceptOffer
  <2>2. PICK s : row' = Bumped({job[w].user}, s)
    BY <1>5 DEF AcceptOffer
  <2>0. cleared \in [Users -> Offer \cup {NoOffer}]
    BY DEF GTypeOK
  <2>3. \A u \in Users : single'[u] = SingleWithout(single, {c})[u] \/ single'[u] = NoOffer
    BY <2>1 DEF SingleWithout, GTypeOK
  <2> HIDE DEF c, cleared
  <2>4. /\ OffersStand'
        /\ \A u \in Users : single'[u] # NoOffer => single'[u].sender # u
    BY <2>1, <2>3, DeletionKeepsOffers DEF OInv
  <2>5. \A x \in Workers : job'[x] = JobsWithout(cleared, {c})[x] \/ job'[x] = Idle
    BY <2>0, <2>1, DeletionTypes
  <2>6. RequestsFit'
    BY <2>5, DeletionKeepsRequests DEF OInv
  <2>7. QED
    BY <2>2, <2>4, <2>6, RowsKeepPartners DEF OInv, NotToOneself
<1>6. ASSUME NEW w \in Workers, DeclineOlder(w)
      PROVE  OInv'
  <2>1. \A m \in OfferIds : match'[m] = match[m] \/ match'[m] = NoMatch
    BY <1>6 DEF DeclineOlder
  <2>2. OffersStand' /\ NotToOneself'
    BY <1>6, <2>1 DEF DeclineOlder, OInv, OffersStand, NotToOneself, Exists
  <2>3. job[w] \in MatchJob
    BY <1>6, JobKinds DEF DeclineOlder
  <2> DEFINE j == [job[w] EXCEPT !.op = "insert"]
  <2>4. /\ j.op = "insert" /\ j.host = job[w].host /\ j.guest = job[w].guest
        /\ j.hostCapsule = job[w].hostCapsule /\ j.guestCapsule = job[w].guestCapsule
    BY <2>3 DEF MatchJob
  <2>5. job' = [job EXCEPT ![w] = j] /\ job[w].op = "decline"
    BY <1>6 DEF DeclineOlder
  <2> HIDE DEF j
  <2>6. /\ j.host # j.guest /\ Owner[j.hostCapsule] = j.host
        /\ Owner[j.guestCapsule] = j.guest
    BY <2>4, <2>5 DEF OInv, RequestsFit
  <2>7. RequestsFit'
    BY <2>4, <2>5, <2>6, NewRequestFits DEF OInv, GTypeOK
  <2>8. QED
    BY <2>2, <2>7 DEF OInv
<1>7. ASSUME NEW w \in Workers, InsertMatch(w)
      PROVE  OInv'
  <2> DEFINE o == [host |-> job[w].host, guest |-> job[w].guest,
                   hostCapsule |-> job[w].hostCapsule,
                   guestCapsule |-> job[w].guestCapsule, accepted |-> {}]
  <2>1. /\ o.host # o.guest
        /\ Exists(o.hostCapsule) /\ Owner[o.hostCapsule] = o.host
        /\ Exists(o.guestCapsule) /\ Owner[o.guestCapsule] = o.guest
    BY <1>7 DEF InsertMatch, OInv, RequestsFit
  <2>2. PICK n \in OfferIds : match' = [match EXCEPT ![n] = o]
    BY <1>7 DEF InsertMatch
  <2>3. UNCHANGED <<capsule, single, row>> /\ job' = [job EXCEPT ![w] = Idle]
    BY <1>7 DEF InsertMatch
  <2> HIDE DEF o
  <2>4. \A m \in OfferIds : match'[m] = match[m] \/ match'[m] = o
    BY <2>2 DEF GTypeOK
  <2>5. OffersStand'
    BY <2>1, <2>3, <2>4 DEF OInv, OffersStand, Exists
  <2>6. RequestsFit'
    BY <2>3, NewRequestFits DEF OInv, GTypeOK, Idle
  <2>7. QED
    BY <2>3, <2>5, <2>6 DEF OInv, NotToOneself
<1>8. ASSUME NEW w \in Workers, Quit(w)
      PROVE  OInv'
  <2>1. RequestsFit'
    BY <1>8, NewRequestFits DEF Quit, OInv, GTypeOK, Idle
  <2>2. QED
    BY <1>8, <2>1, SameOffers DEF Quit, OInv, Exists
<1>9. QED
  BY <1>1, <1>2, <1>3, <1>4, <1>5, <1>6, <1>7, <1>8 DEF OfferStep

LEMMA MatchOffers ==
  ASSUME GTypeOK, OInv, MatchStep
  PROVE  OInv'
<1>1. ASSUME NEW m \in OfferIds, DropMatch(m)
      PROVE  OInv'
  <2>1. \A n \in OfferIds : match'[n] = match[n] \/ match'[n] = NoMatch
    BY <1>1 DEF DropMatch, GTypeOK
  <2>2. QED
    BY <1>1, <2>1 DEF DropMatch, OInv, OffersStand, NotToOneself, RequestsFit, Exists
<1>2. ASSUME NEW m \in OfferIds, NEW u \in Users, AwaitPartner(m, u)
      PROVE  OInv'
  <2> DEFINE o == [match[m] EXCEPT !.accepted = @ \cup {u}]
  <2>1. match[m] # NoMatch /\ match[m] \in MatchOffer
    BY <1>2 DEF AwaitPartner, GTypeOK
  <2>2. /\ o.host = match[m].host /\ o.guest = match[m].guest
        /\ o.hostCapsule = match[m].hostCapsule /\ o.guestCapsule = match[m].guestCapsule
    BY <2>1 DEF MatchOffer
  <2>3. match' = [match EXCEPT ![m] = o] /\ UNCHANGED <<capsule, single, row, job>>
    BY <1>2 DEF AwaitPartner
  <2> HIDE DEF o
  <2>4. \A n \in OfferIds : match'[n] = match[n] \/ (n = m /\ match'[n] = o)
    BY <2>3 DEF GTypeOK
  <2>5. OffersStand'
    BY <2>1, <2>2, <2>3, <2>4 DEF OInv, OffersStand, Exists
  <2>6. QED
    BY <2>3, <2>5 DEF OInv, NotToOneself, RequestsFit
<1>3. ASSUME NEW m \in OfferIds, NEW u \in Users, AcceptMatch(m, u)
      PROVE  OInv'
  <2> DEFINE cs == Named(m)
  <2>1. /\ capsule' = Without(cs) /\ match' = MatchWithout(cs)
        /\ single' = SingleWithout(single, cs) /\ job' = JobsWithout(single, cs)
    BY <1>3 DEF AcceptMatch
  <2>2. PICK us, s : row' = Bumped(us, s)
    BY <1>3 DEF AcceptMatch
  <2> HIDE DEF cs
  <2>3. /\ OffersStand'
        /\ \A v \in Users : single'[v] # NoOffer => single'[v].sender # v
    BY <2>1, DeletionKeepsOffers DEF OInv
  <2>4. RequestsFit'
    BY <2>1, DeletionKeepsRequests DEF OInv
  <2>5. QED
    BY <2>2, <2>3, <2>4, RowsKeepPartners DEF OInv, NotToOneself
<1>4. QED
  BY <1>1, <1>2, <1>3 DEF MatchStep

LEMMA InitOffers == Init => OInv
BY DEF Init, OInv, OffersStand, NotToOneself, RequestsFit, Idle

LEMMA NextOffers == GTypeOK /\ OInv /\ [Next]_vars => OInv'
<1> SUFFICES ASSUME GTypeOK, OInv, [Next]_vars PROVE OInv'
  OBVIOUS
<1>1. CASE UNCHANGED vars
  BY <1>1 DEF vars, OInv, OffersStand, NotToOneself, RequestsFit, Exists
<1>2. CASE Next
  BY <1>2, SeshOffers, OwnerOffers, OfferOffers, MatchOffers DEF Next
<1>3. QED
  BY <1>1, <1>2

\* Pending offers name capsules that exist and belong to those who offer them.
THEOREM OffersAlwaysStand == Spec => []OffersStand
<1>1. Init => GTypeOK /\ OInv
  BY InitTypes, InitOffers
<1>2. (GTypeOK /\ OInv) /\ [Next]_vars => (GTypeOK /\ OInv)'
  BY NextTypes, NextOffers
<1>3. OInv => OffersStand
  BY DEF OInv
<1>4. QED
  BY <1>1, <1>2, <1>3, PTL DEF Spec

-----------------------------------------------------------------------------
(* Wins *)

\* A life of a capsule that is over: the capsule is gone, or has been brought back since.
Spent(rows, c, l) ==
    /\ l <= rows[c].life
    /\ l = rows[c].life => rows[c].type = "gone"

\* What is archived was spent, and what a hello has read has existed.
ArchivesAreSpent ==
    /\ \A i \in DOMAIN wins : Spent(capsule, wins[i].capsule, wins[i].life)
    /\ \A r \in shared : Spent(capsule, r.capsule, r.life)
    /\ \A w \in Workers : job[w].op = "hello" =>
          \A r \in job[w].read : /\ r.life <= capsule[r.capsule].life
                                 /\ capsule[r.capsule].type # "unwritten"

WInv == WonOnce /\ ArchivesAreSpent

\* A capsule never becomes younger or unwritten, and is only brought back in a new life.
CapsuleAges(c) ==
    /\ capsule'[c].life \in Nat /\ capsule[c].life <= capsule'[c].life
    /\ capsule[c].type = "gone" /\ capsule'[c].life = capsule[c].life =>
          capsule'[c].type = "gone"
    /\ capsule'[c].type = "unwritten" => capsule[c].type = "unwritten"

LEMMA DeletionAges ==
  ASSUME GTypeOK, NEW cs, capsule' = Without(cs), NEW c \in Capsules
  PROVE  /\ CapsuleAges(c)
         /\ capsule'[c].life = capsule[c].life
         /\ c \in cs /\ capsule[c].type # "unwritten" => capsule'[c].type = "gone"
<1>1. capsule[c] \in [type : Types \cup {"unwritten", "gone"}, life : Nat]
  BY DEF GTypeOK
<1>2. [capsule[c] EXCEPT !.type = "gone"].life = capsule[c].life
      /\ [capsule[c] EXCEPT !.type = "gone"].type = "gone"
  BY <1>1
<1>3. capsule'[c] = IF c \in cs /\ Exists(c)
                    THEN [capsule[c] EXCEPT !.type = "gone"] ELSE capsule[c]
  BY DEF Without
<1>4. CASE c \in cs /\ Exists(c)
  BY <1>1, <1>2, <1>3, <1>4, CapsulesAssumption DEF CapsuleAges
<1>5. CASE ~(c \in cs /\ Exists(c))
  BY <1>1, <1>3, <1>5 DEF CapsuleAges, Exists
<1>6. QED
  BY <1>4, <1>5

LEMMA CapsulesAge ==
  ASSUME GTypeOK, Next, NEW c \in Capsules
  PROVE  CapsuleAges(c)
<1>1. CASE capsule' = capsule
  BY <1>1 DEF CapsuleAges, GTypeOK
<1>2. CASE \E cs : capsule' = Without(cs)
  BY <1>2, DeletionAges
<1>3. ASSUME NEW d \in Capsules, AddCapsule(d)
      PROVE  CapsuleAges(c)
  <2>1. PICK t \in Types : capsule' = [capsule EXCEPT ![d] = [@ EXCEPT !.type = t]]
    BY <1>3, CapsulesAssumption DEF AddCapsule
  <2>2. capsule[d] \in [type : Types \cup {"unwritten", "gone"}, life : Nat]
    BY DEF GTypeOK
  <2>3. [capsule[d] EXCEPT !.type = t].type = t
        /\ [capsule[d] EXCEPT !.type = t].life = capsule[d].life
    BY <2>2
  <2>4. capsule[d].type = "unwritten"
    BY <1>3 DEF AddCapsule
  <2>5. CASE c = d
    <3>1. capsule'[c].type = t /\ capsule'[c].life = capsule[c].life
      BY <2>1, <2>3, <2>5 DEF GTypeOK
    <3>2. QED
      BY <2>2, <2>4, <2>5, <3>1, CapsulesAssumption DEF CapsuleAges
  <2>6. CASE c # d
    <3>1. capsule'[c] = capsule[c]
      BY <2>1, <2>6 DEF GTypeOK
    <3>2. QED
      BY <3>1 DEF CapsuleAges, GTypeOK
  <2>7. QED
    BY <2>5, <2>6
<1>4. ASSUME NEW w \in Workers, EditSave(w)
      PROVE  CapsuleAges(c)
  <2> DEFINE d == job[w].capsule
             revived == IF Exists(d) THEN 0 ELSE 1
  <2>1. PICK t \in Types : capsule' = [capsule EXCEPT ![d] =
                              [type |-> t, life |-> capsule[d].life + revived]]
    BY <1>4, JobKinds, CapsulesAssumption DEF EditSave, EditJob
  <2>2. CASE c = d
    <3>1. capsule'[c] = [type |-> t, life |-> capsule[c].life + revived]
      BY <2>1, <2>2 DEF GTypeOK
    <3>2. capsule[c].life \in Nat
      BY DEF GTypeOK
    <3>3. QED
      BY <2>2, <3>1, <3>2, CapsulesAssumption DEF CapsuleAges, Exists
  <2>3. CASE c # d
    <3>1. capsule'[c] = capsule[c]
      BY <2>1, <2>3 DEF GTypeOK
    <3>2. QED
      BY <3>1 DEF CapsuleAges, GTypeOK
  <2>4. QED
    BY <2>2, <2>3
<1>5. CASE SeshStep
  BY <1>1, <1>5 DEF SeshStep, StartSesh, SeshEnds
<1>6. CASE OwnerStep
  BY <1>1, <1>2, <1>3, <1>4, <1>6
     DEF OwnerStep, DeleteCapsule, EditRead, HelloRead, HelloArchive
<1>7. CASE OfferStep
  BY <1>1, <1>2, <1>7 DEF OfferStep, Propose, AnswerRead, ProposeMatch, ClearOffer,
     AcceptOffer, DeclineOlder, InsertMatch, Quit
<1>8. CASE MatchStep
  BY <1>1, <1>2, <1>8 DEF MatchStep, DropMatch, AwaitPartner, AcceptMatch
<1>9. QED
  BY <1>5, <1>6, <1>7, <1>8 DEF Next

LEMMA SpentStaysSpent ==
  ASSUME GTypeOK, NEW c \in Capsules, NEW l \in Nat, Spent(capsule, c, l), CapsuleAges(c)
  PROVE  Spent(capsule', c, l)
<1>1. capsule[c].life \in Nat
  BY DEF GTypeOK
<1>2. QED
  BY <1>1 DEF Spent, CapsuleAges

\* Which requests have read for a hello after a step: those that had before, or the new one
LEMMA ReadsOfStep ==
  ASSUME GTypeOK, Next, NEW x \in Workers, job'[x].op = "hello"
  PROVE  \/ job'[x] = job[x]
         \/ /\ capsule' = capsule
            /\ \A r \in job'[x].read : /\ r.capsule \in Capsules
                                       /\ r.life = capsule[r.capsule].life
                                       /\ Exists(r.capsule)
<1>0. single \in [Users -> Offer \cup {NoOffer}]
  BY DEF GTypeOK
<1>1. ASSUME NEW pending \in [Users -> Offer \cup {NoOffer}], NEW cs, NEW w,
             job' = [JobsWithout(pending, cs) EXCEPT ![w] = Idle] \/ job' = JobsWithout(pending, cs)
      PROVE  job'[x] = job[x]
  <2>1. job'[x] = JobsWithout(pending, cs)[x] \/ job'[x] = Idle
    BY <1>1, DeletionTypes
  <2>2. QED
    BY <2>1, JobsWithoutKeep DEF Idle
<1>2. ASSUME NEW w, NEW j, j.op # "hello", job' = [job EXCEPT ![w] = j]
      PROVE  job'[x] = job[x]
  BY <1>2 DEF GTypeOK
<1>3. CASE job' = job
  BY <1>3
<1>4. CASE SeshStep
  BY <1>3, <1>4 DEF SeshStep, StartSesh, SeshEnds
<1>5. CASE OwnerStep
  <2>1. ASSUME NEW w \in Workers, NEW u \in Users, NEW v \in Users, HelloRead(w, u, v)
        PROVE  \/ job'[x] = job[x]
               \/ /\ capsule' = capsule
                  /\ \A r \in job'[x].read : /\ r.capsule \in Capsules
                                             /\ r.life = capsule[r.capsule].life
                                             /\ Exists(r.capsule)
    <3>1. PICK cs \in SUBSET {c \in Capsules : Exists(c)}, all \in BOOLEAN :
             job' = [job EXCEPT ![w] =
                  [op |-> "hello", user |-> u, friend |-> v, all |-> all,
                   read |-> {[capsule |-> c, life |-> capsule[c].life] : c \in cs}]]
      BY <2>1 DEF HelloRead
    <3>2. CASE x = w
      <4>1. job'[x].read = {[capsule |-> c, life |-> capsule[c].life] : c \in cs}
        BY <3>1, <3>2 DEF GTypeOK
      <4>2. capsule' = capsule
        BY <2>1 DEF HelloRead
      <4>3. QED
        BY <4>1, <4>2
    <3>3. CASE x # w
      BY <3>1, <3>3 DEF GTypeOK
    <3>4. QED
      BY <3>2, <3>3
  <2>2. ASSUME NEW c \in Capsules, AddCapsule(c) \/ DeleteCapsule(c)
        PROVE  job'[x] = job[x]
    BY <1>0, <1>1, <1>3, <2>2 DEF AddCapsule, DeleteCapsule
  <2>3. ASSUME NEW w \in Workers, NEW c \in Capsules, EditRead(w, c)
        PROVE  job'[x] = job[x]
    BY <1>2, <2>3 DEF EditRead
  <2>4. ASSUME NEW w \in Workers, EditSave(w) \/ HelloArchive(w)
        PROVE  job'[x] = job[x]
    <3>1. CASE EditSave(w)
      BY <1>2, <3>1 DEF EditSave, Idle
    <3>2. CASE HelloArchive(w)
      <4>1. job' = [JobsWithout(single, HelloDeletes(w)) EXCEPT ![w] = Idle]
        BY <3>2 DEF HelloArchive
      <4>2. QED
        BY <1>0, <1>1, <4>1
    <3>3. QED
      BY <2>4, <3>1, <3>2
  <2>5. QED
    BY <1>5, <2>1, <2>2, <2>3, <2>4 DEF OwnerStep
<1>6. CASE OfferStep
  <2>1. ASSUME NEW u \in Users, NEW c \in Capsules, Propose(u, c)
        PROVE  job'[x] = job[x]
    BY <2>1 DEF Propose
  <2>2. ASSUME NEW w \in Workers, NEW u \in Users, AnswerRead(w, u)
        PROVE  job'[x] = job[x]
    BY <1>2, <2>2 DEF AnswerRead
  <2>3. ASSUME NEW w \in Workers, NEW u \in Users, ProposeMatch(w, u)
        PROVE  job'[x] = job[x]
    <3> DEFINE h == IF row[u].is_host THEN u ELSE row[u].other
               g == IF row[u].is_host THEN row[u].other ELSE u
    <3>1. PICK hc \in Capsules, gc \in Capsules :
             job' = [job EXCEPT ![w] = [op |-> "decline", host |-> h, guest |-> g,
                                        hostCapsule |-> hc, guestCapsule |-> gc]]
      BY <2>3 DEF ProposeMatch
    <3> HIDE DEF h, g
    <3>2. QED
      BY <1>2, <3>1
  <2>4. ASSUME NEW w \in Workers, ClearOffer(w) \/ InsertMatch(w) \/ Quit(w)
        PROVE  job'[x] = job[x]
    BY <1>2, <2>4 DEF ClearOffer, InsertMatch, Quit, Idle
  <2>5. ASSUME NEW w \in Workers, DeclineOlder(w)
        PROVE  job'[x] = job[x]
    <3>1. job[w] \in MatchJob
      BY <2>5, JobKinds DEF DeclineOlder
    <3>2. [job[w] EXCEPT !.op = "insert"].op # "hello"
      BY <3>1 DEF MatchJob
    <3>3. QED
      BY <1>2, <2>5, <3>2 DEF DeclineOlder
  <2>6. ASSUME NEW w \in Workers, AcceptOffer(w)
        PROVE  job'[x] = job[x]
    <3> DEFINE cleared == [single EXCEPT ![job[w].user] = NoOffer]
               cs == {job[w].offer.capsule}
    <3>1. cleared \in [Users -> Offer \cup {NoOffer}]
      BY DEF GTypeOK
    <3>2. job' = [JobsWithout(cleared, cs) EXCEPT ![w] = Idle]
      BY <2>6 DEF AcceptOffer
    <3> HIDE DEF cleared, cs
    <3>3. QED
      BY <1>1, <3>1, <3>2
  <2>7. QED
    BY <1>6, <2>1, <2>2, <2>3, <2>4, <2>5, <2>6 DEF OfferStep
<1>7. CASE MatchStep
  BY <1>0, <1>1, <1>3, <1>7 DEF MatchStep, DropMatch, AwaitPartner, AcceptMatch
<1>8. QED
  BY <1>4, <1>5, <1>6, <1>7 DEF Next

\* Only a hello archives, and deletes what it archives.
LEMMA SharedOfStep ==
  ASSUME Next
  PROVE  shared' = shared \/ \E w \in Workers : HelloArchive(w)
<1>1. CASE SeshStep
  BY <1>1 DEF SeshStep, StartSesh, SeshEnds
<1>2. CASE OwnerStep
  BY <1>2 DEF OwnerStep, AddCapsule, DeleteCapsule, EditRead, EditSave, HelloRead
<1>3. CASE OfferStep
  BY <1>3 DEF OfferStep, Propose, AnswerRead, ProposeMatch, ClearOffer, AcceptOffer,
     DeclineOlder, InsertMatch, Quit
<1>4. CASE MatchStep
  BY <1>4 DEF MatchStep, DropMatch, AwaitPartner, AcceptMatch
<1>5. QED
  BY <1>1, <1>2, <1>3, <1>4 DEF Next

\* Only an accepted offer or match adds wins.
LEMMA WinsOfStep ==
  ASSUME Next
  PROVE  \/ wins' = wins
         \/ \E w \in Workers : AcceptOffer(w)
         \/ \E m \in OfferIds, u \in Users : AcceptMatch(m, u)
<1>1. CASE SeshStep
  BY <1>1 DEF SeshStep, StartSesh, SeshEnds
<1>2. CASE OwnerStep
  BY <1>2 DEF OwnerStep, AddCapsule, DeleteCapsule, EditRead, EditSave, HelloRead,
     HelloArchive
<1>3. CASE OfferStep
  BY <1>3 DEF OfferStep, Propose, AnswerRead, ProposeMatch, ClearOffer, DeclineOlder,
     InsertMatch, Quit
<1>4. CASE MatchStep
  BY <1>4 DEF MatchStep, DropMatch, AwaitPartner
<1>5. QED
  BY <1>1, <1>2, <1>3, <1>4 DEF Next

LEMMA SharedStaySpent ==
  ASSUME GTypeOK, ArchivesAreSpent, Next
  PROVE  /\ \A r \in shared' : Spent(capsule', r.capsule, r.life)
         /\ \A w \in Workers : job'[w].op = "hello" =>
              \A r \in job'[w].read : /\ r.life <= capsule'[r.capsule].life
                                      /\ capsule'[r.capsule].type # "unwritten"
<1>1. \A r \in shared : Spent(capsule', r.capsule, r.life)
  <2>1. \A r \in shared : r.capsule \in Capsules /\ r.life \in Nat
    BY DEF GTypeOK, Copy
  <2>2. QED
    BY <2>1, CapsulesAge, SpentStaysSpent DEF ArchivesAreSpent
<1>2. ASSUME NEW w \in Workers, HelloArchive(w), NEW r \in job[w].read
      PROVE  Spent(capsule', r.capsule, r.life)
  <2>1. r.capsule \in Capsules /\ r.capsule \in HelloDeletes(w)
    BY <1>2, JobKinds DEF HelloArchive, HelloJob, HelloDeletes, Copy
  <2>2. /\ capsule'[r.capsule].life = capsule[r.capsule].life
        /\ capsule'[r.capsule].type = "gone"
    BY <1>2, <2>1, DeletionAges DEF HelloArchive, ArchivesAreSpent
  <2>3. r.life <= capsule[r.capsule].life
    BY <1>2 DEF HelloArchive, ArchivesAreSpent
  <2>4. QED
    BY <2>2, <2>3 DEF Spent
<1>3. \A r \in shared' : Spent(capsule', r.capsule, r.life)
  <2>1. CASE shared' = shared
    BY <1>1, <2>1
  <2>2. CASE \E w \in Workers : HelloArchive(w)
    BY <1>1, <1>2, <2>2 DEF HelloArchive
  <2>3. QED
    BY <2>1, <2>2, SharedOfStep
<1>4. ASSUME NEW w \in Workers, job'[w].op = "hello", NEW r \in job'[w].read
      PROVE  /\ r.life <= capsule'[r.capsule].life
             /\ capsule'[r.capsule].type # "unwritten"
  <2>1. CASE job'[w] = job[w]
    <3>1. r.capsule \in Capsules /\ r.life \in Nat
      BY <1>4, <2>1, JobKinds DEF HelloJob, Copy
    <3>2. r.life <= capsule[r.capsule].life /\ capsule[r.capsule].type # "unwritten"
      BY <1>4, <2>1 DEF ArchivesAreSpent
    <3>3. CapsuleAges(r.capsule) /\ capsule[r.capsule].life \in Nat
      BY <3>1, CapsulesAge DEF GTypeOK
    <3>4. QED
      BY <3>1, <3>2, <3>3 DEF CapsuleAges
  <2>2. CASE /\ capsule' = capsule
             /\ \A q \in job'[w].read : /\ q.capsule \in Capsules
                                        /\ q.life = capsule[q.capsule].life
                                        /\ Exists(q.capsule)
    BY <1>4, <2>2, CapsulesAssumption DEF Exists, GTypeOK
  <2>3. QED
    BY <1>4, <2>1, <2>2, ReadsOfStep
<1>5. QED
  BY <1>3, <1>4

\* A win of a capsule that exists is of a life not archived before, which it ends.
LEMMA NewWinIsNew ==
  ASSUME GTypeOK, ArchivesAreSpent, NEW c \in Capsules, Exists(c),
         NEW cs, c \in cs, capsule' = Without(cs)
  PROVE  /\ \A i \in DOMAIN wins :
               wins[i].capsule = c => wins[i].life # capsule[c].life
         /\ \A r \in shared : r.capsule = c => r.life # capsule[c].life
         /\ Spent(capsule', c, capsule[c].life)
<1>1. capsule[c].type # "gone" /\ capsule[c].type # "unwritten"
  BY CapsulesAssumption DEF Exists
<1>2. Spent(capsule', c, capsule[c].life)
  <2>1. capsule'[c].life = capsule[c].life /\ capsule'[c].type = "gone"
    BY <1>1, DeletionAges
  <2>2. capsule[c].life \in Nat
    BY DEF GTypeOK
  <2>3. QED
    BY <2>1, <2>2 DEF Spent
<1>3. QED
  BY <1>1, <1>2 DEF ArchivesAreSpent, Spent

\* What holds of the wins after one is appended, or two
LEMMA LongerWins ==
  ASSUME NEW S, NEW q \in Seq(S), NEW a \in S, NEW b \in S
  PROVE  /\ Len(Append(q, a)) = Len(q) + 1
         /\ \A i \in 1..Len(q) + 1 :
              Append(q, a)[i] = IF i <= Len(q) THEN q[i] ELSE a
         /\ Len(q \o <<a, b>>) = Len(q) + 2
         /\ \A i \in 1..Len(q) + 2 :
              (q \o <<a, b>>)[i] = IF i <= Len(q) THEN q[i]
                                  ELSE IF i = Len(q) + 1 THEN a ELSE b
         /\ DOMAIN q = 1..Len(q)
         /\ DOMAIN Append(q, a) = 1..Len(q) + 1
         /\ DOMAIN (q \o <<a, b>>) = 1..Len(q) + 2
         /\ Len(q) \in Nat
<1>1. <<a, b>> \in Seq(S) /\ Len(<<a, b>>) = 2 /\ <<a, b>>[1] = a /\ <<a, b>>[2] = b
  OBVIOUS
<1>2. Len(q) \in Nat /\ DOMAIN q = 1..Len(q)
  OBVIOUS
<1>3. /\ Len(Append(q, a)) = Len(q) + 1
      /\ \A i \in 1..Len(q) + 1 : Append(q, a)[i] = IF i <= Len(q) THEN q[i] ELSE a
  OBVIOUS
<1>4. DOMAIN Append(q, a) = 1..Len(q) + 1
  <2>1. Append(q, a) \in Seq(S)
    OBVIOUS
  <2>2. QED
    BY <1>3, <2>1
<1>5. Len(q \o <<a, b>>) = Len(q) + 2
  BY <1>1
<1>6. DOMAIN (q \o <<a, b>>) = 1..Len(q) + 2
  <2>1. (q \o <<a, b>>) \in Seq(S)
    BY <1>1
  <2>2. QED
    BY <1>5, <2>1
<1>7. \A i \in 1..Len(q) + 2 :
        (q \o <<a, b>>)[i] = IF i <= Len(q) THEN q[i]
                            ELSE IF i = Len(q) + 1 THEN a ELSE b
  <2>1. TAKE i \in 1..Len(q) + 2
  <2>2. CASE i <= Len(q)
    BY <1>1, <1>2, <2>2
  <2>3. CASE i = Len(q) + 1
    BY <1>1, <1>2, <2>3
  <2>4. CASE i = Len(q) + 2
    BY <1>1, <1>2, <2>4
  <2>5. QED
    BY <1>2, <2>2, <2>3, <2>4
<1>8. QED
  BY <1>2, <1>3, <1>4, <1>5, <1>6, <1>7

LEMMA WinsStaySpent ==
  ASSUME GTypeOK, OInv, WInv, Next
  PROVE  /\ WonOnce'
         /\ \A i \in DOMAIN wins' : Spent(capsule', wins'[i].capsule, wins'[i].life)
         /\ \A i \in DOMAIN wins' \ DOMAIN wins :
               [capsule |-> wins'[i].capsule, life |-> wins'[i].life] \notin shared
<1> DEFINE Fresh(a) == /\ \A i \in DOMAIN wins : wins[i].capsule = a.capsule =>
                                                   wins[i].life # a.life
                       /\ [capsule |-> a.capsule, life |-> a.life] \notin shared
                       /\ Spent(capsule', a.capsule, a.life)
<1>1. \A i \in DOMAIN wins : /\ wins[i].capsule \in Capsules /\ wins[i].life \in Nat
                             /\ Spent(capsule', wins[i].capsule, wins[i].life)
  <2>1. \A i \in DOMAIN wins : wins[i] \in Win
    BY DEF GTypeOK
  <2>2. \A i \in DOMAIN wins : wins[i].capsule \in Capsules /\ wins[i].life \in Nat
    BY <2>1 DEF Win
  <2>3. ASSUME NEW i \in DOMAIN wins
        PROVE  Spent(capsule', wins[i].capsule, wins[i].life)
    <3>1. Spent(capsule, wins[i].capsule, wins[i].life)
      BY DEF WInv, ArchivesAreSpent
    <3>2. CapsuleAges(wins[i].capsule)
      BY <2>2, CapsulesAge
    <3>3. QED
      BY <2>2, <3>1, <3>2, SpentStaysSpent
  <2>4. QED
    BY <2>2, <2>3
<1>2. ASSUME NEW a \in Win, NEW b \in Win, Fresh(a), Fresh(b),
             \/ wins' = Append(wins, a)
             \/ wins' = wins \o <<a, b>> /\ a.capsule # b.capsule
      PROVE  /\ WonOnce'
             /\ \A i \in DOMAIN wins' : Spent(capsule', wins'[i].capsule, wins'[i].life)
             /\ \A i \in DOMAIN wins' \ DOMAIN wins :
                   [capsule |-> wins'[i].capsule, life |-> wins'[i].life] \notin shared
  <2>1. wins \in Seq(Win)
    BY DEF GTypeOK
  <2>2. CASE wins' = Append(wins, a)
    <3>1. /\ DOMAIN wins = 1..Len(wins) /\ Len(wins) \in Nat
          /\ DOMAIN wins' = 1..Len(wins) + 1
          /\ \A i \in 1..Len(wins) + 1 :
                wins'[i] = IF i <= Len(wins) THEN wins[i] ELSE a
      BY <2>1, <2>2, LongerWins
    <3>2. WonOnce'
      BY <1>2, <3>1 DEF WInv, WonOnce
    <3>3. QED
      BY <1>1, <1>2, <3>1, <3>2
  <2>3. CASE wins' = wins \o <<a, b>> /\ a.capsule # b.capsule
    <3>1. /\ DOMAIN wins = 1..Len(wins) /\ Len(wins) \in Nat
          /\ DOMAIN wins' = 1..Len(wins) + 2
          /\ \A i \in 1..Len(wins) + 2 :
                wins'[i] = IF i <= Len(wins) THEN wins[i]
                           ELSE IF i = Len(wins) + 1 THEN a ELSE b
      BY <2>1, <2>3, LongerWins
    <3>2. WonOnce'
      <4> SUFFICES ASSUME NEW i \in DOMAIN wins', NEW j \in DOMAIN wins',
                          wins'[i].capsule = wins'[j].capsule,
                          wins'[i].life = wins'[j].life
                   PROVE  i = j
        BY DEF WonOnce
      <4>1. ASSUME NEW k \in DOMAIN wins', k > Len(wins)
            PROVE  \/ k = Len(wins) + 1 /\ wins'[k] = a
                   \/ k = Len(wins) + 2 /\ wins'[k] = b
        BY <3>1, <4>1
      <4>2. CASE i <= Len(wins) /\ j <= Len(wins)
        BY <3>1, <4>2 DEF WInv, WonOnce
      <4>3. CASE i <= Len(wins) /\ j > Len(wins)
        <5>1. wins'[i] = wins[i] /\ i \in DOMAIN wins
          BY <3>1, <4>3
        <5>2. wins'[j] = a \/ wins'[j] = b
          BY <4>1, <4>3
        <5>3. QED
          BY <1>2, <5>1, <5>2
      <4>4. CASE i > Len(wins) /\ j <= Len(wins)
        <5>1. wins'[j] = wins[j] /\ j \in DOMAIN wins
          BY <3>1, <4>4
        <5>2. wins'[i] = a \/ wins'[i] = b
          BY <4>1, <4>4
        <5>3. QED
          BY <1>2, <5>1, <5>2
      <4>5. CASE i > Len(wins) /\ j > Len(wins)
        BY <2>3, <4>1, <4>5
      <4>6. QED
        BY <3>1, <4>2, <4>3, <4>4, <4>5
    <3>3. QED
      BY <1>1, <1>2, <3>1, <3>2, SMTT(30)
  <2>4. QED
    BY <1>2, <2>2, <2>3
<1>3. CASE wins' = wins
  BY <1>1, <1>3 DEF WInv, WonOnce
<1>4. ASSUME NEW cs, capsule' = Without(cs), NEW c \in cs, c \in Capsules, Lock(c),
             NEW u, NEW v, NEW matched, NEW s
      PROVE  Fresh(WinOf(u, v, c, matched, s))
  <2>1. /\ WinOf(u, v, c, matched, s).capsule = c
        /\ WinOf(u, v, c, matched, s).life = capsule[c].life
    BY DEF WinOf
  <2>2. /\ \A i \in DOMAIN wins :
               wins[i].capsule = c => wins[i].life # capsule[c].life
        /\ \A r \in shared : r.capsule = c => r.life # capsule[c].life
        /\ Spent(capsule', c, capsule[c].life)
    BY <1>4, NewWinIsNew DEF WInv, Lock
  <2>3. [capsule |-> c, life |-> capsule[c].life] \notin shared
    BY <2>2
  <2>4. QED
    BY <2>1, <2>2, <2>3
<1>5. ASSUME NEW w \in Workers, AcceptOffer(w)
      PROVE  \E a \in Win : Fresh(a) /\ wins' = Append(wins, a)
  <2> DEFINE u == job[w].user
             from == job[w].offer.sender
             c == job[w].offer.capsule
  <2>1. u \in Users /\ from \in Users /\ c \in Capsules
    BY <1>5, JobKinds DEF AcceptOffer, AnswerJob, Offer
  <2>2. PICK s \in SentSids : wins' = Append(wins, WinOf(u, from, c, FALSE, s))
    BY <1>5 DEF AcceptOffer
  <2>3. Lock(c) /\ capsule' = Without({c})
    BY <1>5 DEF AcceptOffer
  <2>4. WinOf(u, from, c, FALSE, s) \in Win
    BY <2>1, <2>3, WinTypes
  <2> HIDE DEF Fresh, u, from, c
  <2>5. Fresh(WinOf(u, from, c, FALSE, s))
    BY <1>4, <2>1, <2>3
  <2>6. QED
    BY <2>2, <2>4, <2>5
<1>6. ASSUME NEW m \in OfferIds, NEW x \in Users, AcceptMatch(m, x)
      PROVE  \E a, b \in Win : /\ Fresh(a) /\ Fresh(b)
                               /\ wins' = wins \o <<a, b>> /\ a.capsule # b.capsule
  <2> DEFINE h == match[m].host
             g == match[m].guest
             hc == match[m].hostCapsule
             gc == match[m].guestCapsule
  <2>1. h \in Users /\ g \in Users /\ hc \in Capsules /\ gc \in Capsules
    BY <1>6 DEF AcceptMatch, GTypeOK, MatchOffer
  <2>2. PICK s \in SentSids :
           wins' = wins \o <<WinOf(h, g, gc, TRUE, s), WinOf(g, h, hc, TRUE, s)>>
    BY <1>6 DEF AcceptMatch
  <2>3. Lock(hc) /\ Lock(gc) /\ capsule' = Without({hc, gc})
    BY <1>6 DEF AcceptMatch, Named
  <2>4. hc # gc
    BY <1>6 DEF AcceptMatch, OInv, OffersStand
  <2>5. WinOf(h, g, gc, TRUE, s).capsule # WinOf(g, h, hc, TRUE, s).capsule
    BY <2>4 DEF WinOf
  <2>6. WinOf(h, g, gc, TRUE, s) \in Win /\ WinOf(g, h, hc, TRUE, s) \in Win
    BY <2>1, <2>3, WinTypes
  <2> HIDE DEF Fresh, h, g, hc, gc
  <2>7. Fresh(WinOf(h, g, gc, TRUE, s)) /\ Fresh(WinOf(g, h, hc, TRUE, s))
    BY <1>4, <2>1, <2>3
  <2>8. QED
    BY <2>2, <2>5, <2>6, <2>7
<1> HIDE DEF Fresh
<1>7. CASE \E w \in Workers : AcceptOffer(w)
  BY <1>2, <1>5, <1>7
<1>8. CASE \E m \in OfferIds, u \in Users : AcceptMatch(m, u)
  BY <1>2, <1>6, <1>8
<1>9. QED
  BY <1>3, <1>7, <1>8, WinsOfStep

LEMMA InitWins == Init => WInv
<1> SUFFICES ASSUME Init PROVE WInv
  OBVIOUS
<1>1. DOMAIN wins = {} /\ shared = {}
  BY DEF Init
<1>2. QED
  BY <1>1 DEF Init, WInv, WonOnce, ArchivesAreSpent, Idle

LEMMA NextWins == GTypeOK /\ OInv /\ WInv /\ [Next]_vars => WInv'
<1> SUFFICES ASSUME GTypeOK, OInv, WInv, [Next]_vars PROVE WInv'
  OBVIOUS
<1>1. CASE UNCHANGED vars
  BY <1>1 DEF vars, WInv, WonOnce, ArchivesAreSpent, Spent
<1>2. CASE Next
  <2>1. WonOnce' /\ \A i \in DOMAIN wins' : Spent(capsule', wins'[i].capsule, wins'[i].life)
    BY <1>2, WinsStaySpent
  <2>2. /\ \A r \in shared' : Spent(capsule', r.capsule, r.life)
        /\ \A w \in Workers : job'[w].op = "hello" =>
              \A r \in job'[w].read : /\ r.life <= capsule'[r.capsule].life
                                      /\ capsule'[r.capsule].type # "unwritten"
    BY <1>2, SharedStaySpent DEF WInv
  <2>3. QED
    BY <2>1, <2>2 DEF WInv, ArchivesAreSpent
<1>3. QED
  BY <1>1, <1>2

\* A capsule is won once in a life, whoever it was offered to.
THEOREM CapsulesWonOnce == Spec => []WonOnce
<1>1. Init => GTypeOK /\ OInv /\ WInv
  BY InitTypes, InitOffers, InitWins
<1>2. (GTypeOK /\ OInv /\ WInv) /\ [Next]_vars => (GTypeOK /\ OInv /\ WInv)'
  BY NextTypes, NextOffers, NextWins
<1>3. WInv => WonOnce
  BY DEF WInv
<1>4. QED
  BY <1>1, <1>2, <1>3, PTL DEF Spec

\* A capsule that a hello has archived is not won any more.
THEOREM SharedNeverWon == Spec => SharedStaysUnwon
<1>1. Init => GTypeOK /\ OInv /\ WInv
  BY InitTypes, InitOffers, InitWins
<1>2. (GTypeOK /\ OInv /\ WInv) /\ [Next]_vars => (GTypeOK /\ OInv /\ WInv)'
  BY NextTypes, NextOffers, NextWins
<1>3. (GTypeOK /\ OInv /\ WInv) /\ [Next]_vars =>
      [\A i \in DOMAIN wins' \ DOMAIN wins :
          [capsule |-> wins'[i].capsule, life |-> wins'[i].life] \notin shared]_vars
  BY WinsStaySpent
<1>4. QED
  BY <1>1, <1>2, <1>3, PTL DEF Spec, SharedStaysUnwon

\* A win on its own, as AcceptOffer and AcceptMatch add it
Taken(a) == a.from = Owner[a.capsule] /\ a.user # a.from

LEMMA FairWithOne ==
  ASSUME GTypeOK, WinsAreFair, NEW a \in Win, wins' = Append(wins, a), Taken(a), ~a.matched
  PROVE  WinsAreFair'
<1>1. /\ DOMAIN wins = 1..Len(wins) /\ Len(wins) \in Nat /\ Len(wins') = Len(wins) + 1
      /\ DOMAIN wins' = 1..Len(wins) + 1
      /\ \A i \in 1..Len(wins) + 1 : wins'[i] = IF i <= Len(wins) THEN wins[i] ELSE a
  BY LongerWins DEF GTypeOK
<1> SUFFICES ASSUME NEW i \in DOMAIN wins'
             PROVE  /\ Taken(wins'[i])
                    /\ wins'[i].matched => \/ i > 1 /\ Swaps(wins'[i - 1], wins'[i])
                                           \/ i < Len(wins') /\ Swaps(wins'[i], wins'[i + 1])
  BY DEF WinsAreFair, Taken
<1>2. CASE i = Len(wins) + 1
  <2>1. i \in 1..Len(wins) + 1 /\ ~(i <= Len(wins))
    BY <1>1, <1>2
  <2>2. wins'[i] = a
    BY <1>1, <2>1
  <2>3. QED
    BY <2>2
<1>3. CASE i <= Len(wins)
  <2>1. i \in DOMAIN wins /\ wins'[i] = wins[i]
    BY <1>1, <1>3
  <2>2. i > 1 => wins'[i - 1] = wins[i - 1]
    BY <1>1, <1>3
  <2>3. i < Len(wins) => wins'[i + 1] = wins[i + 1]
    BY <1>1, <1>3
  <2>4. i < Len(wins) => i < Len(wins')
    BY <1>1
  <2>5. QED
    BY <2>1, <2>2, <2>3, <2>4 DEF WinsAreFair, Taken
<1>4. QED
  BY <1>1, <1>2, <1>3

LEMMA FairWithTwo ==
  ASSUME GTypeOK, WinsAreFair, NEW a \in Win, NEW b \in Win, wins' = wins \o <<a, b>>,
         Taken(a), Taken(b), Swaps(a, b)
  PROVE  WinsAreFair'
<1>1. /\ DOMAIN wins = 1..Len(wins) /\ Len(wins) \in Nat /\ Len(wins') = Len(wins) + 2
      /\ DOMAIN wins' = 1..Len(wins) + 2
      /\ \A i \in 1..Len(wins) + 2 :
           wins'[i] = IF i <= Len(wins) THEN wins[i]
                      ELSE IF i = Len(wins) + 1 THEN a ELSE b
  BY LongerWins DEF GTypeOK
<1>2. wins'[Len(wins) + 1] = a /\ wins'[Len(wins) + 2] = b
  BY <1>1
<1> SUFFICES ASSUME NEW i \in DOMAIN wins'
             PROVE  /\ Taken(wins'[i])
                    /\ wins'[i].matched => \/ i > 1 /\ Swaps(wins'[i - 1], wins'[i])
                                           \/ i < Len(wins') /\ Swaps(wins'[i], wins'[i + 1])
  BY DEF WinsAreFair, Taken
<1>3. CASE i = Len(wins) + 1
  <2>1. i + 1 = Len(wins) + 2 /\ i < Len(wins')
    BY <1>1, <1>3
  <2>2. QED
    BY <1>2, <1>3, <2>1
<1>4. CASE i = Len(wins) + 2
  <2>1. i - 1 = Len(wins) + 1 /\ i > 1
    BY <1>1, <1>4
  <2>2. QED
    BY <1>2, <1>4, <2>1
<1>5. CASE i <= Len(wins)
  <2>1. i \in DOMAIN wins /\ wins'[i] = wins[i]
    BY <1>1, <1>5
  <2>2. i > 1 => wins'[i - 1] = wins[i - 1]
    BY <1>1, <1>5
  <2>3. i < Len(wins) => wins'[i + 1] = wins[i + 1]
    BY <1>1, <1>5
  <2>4. i < Len(wins) => i < Len(wins')
    BY <1>1
  <2>5. QED
    BY <2>1, <2>2, <2>3, <2>4 DEF WinsAreFair, Taken
<1>6. QED
  BY <1>1, <1>3, <1>4, <1>5

LEMMA NextFair == GTypeOK /\ OInv /\ WinsAreFair /\ [Next]_vars => WinsAreFair'
<1> SUFFICES ASSUME GTypeOK, OInv, WinsAreFair, [Next]_vars PROVE WinsAreFair'
  OBVIOUS
<1>1. CASE wins' = wins
  BY <1>1 DEF WinsAreFair
<1>2. ASSUME NEW w \in Workers, AcceptOffer(w)
      PROVE  WinsAreFair'
  <2> DEFINE u == job[w].user
             from == job[w].offer.sender
             c == job[w].offer.capsule
  <2>1. u \in Users /\ from \in Users /\ c \in Capsules
    BY <1>2, JobKinds DEF AcceptOffer, AnswerJob, Offer
  <2>2. PICK s \in SentSids : wins' = Append(wins, WinOf(u, from, c, FALSE, s))
    BY <1>2 DEF AcceptOffer
  <2>3. Lock(c)
    BY <1>2 DEF AcceptOffer
  <2>4. from = Owner[c] /\ u # from
    BY <1>2 DEF AcceptOffer, OInv, RequestsFit
  <2> HIDE DEF u, from, c
  <2>5. WinOf(u, from, c, FALSE, s) \in Win
    BY <2>1, <2>3, WinTypes
  <2>6. Taken(WinOf(u, from, c, FALSE, s)) /\ ~WinOf(u, from, c, FALSE, s).matched
    BY <2>4 DEF WinOf, Taken
  <2>7. QED
    BY <2>2, <2>5, <2>6, FairWithOne
<1>3. ASSUME NEW m \in OfferIds, NEW x \in Users, AcceptMatch(m, x)
      PROVE  WinsAreFair'
  <2> DEFINE h == match[m].host
             g == match[m].guest
             hc == match[m].hostCapsule
             gc == match[m].guestCapsule
  <2>1. h \in Users /\ g \in Users /\ hc \in Capsules /\ gc \in Capsules
    BY <1>3 DEF AcceptMatch, GTypeOK, MatchOffer
  <2>2. PICK s \in SentSids :
           wins' = wins \o <<WinOf(h, g, gc, TRUE, s), WinOf(g, h, hc, TRUE, s)>>
    BY <1>3 DEF AcceptMatch
  <2>3. Lock(hc) /\ Lock(gc)
    BY <1>3 DEF AcceptMatch, Named
  <2>4. h # g /\ Owner[hc] = h /\ Owner[gc] = g
    BY <1>3 DEF AcceptMatch, OInv, OffersStand
  <2> HIDE DEF h, g, hc, gc
  <2>5. WinOf(h, g, gc, TRUE, s) \in Win /\ WinOf(g, h, hc, TRUE, s) \in Win
    BY <2>1, <2>3, WinTypes
  <2>6. /\ Taken(WinOf(h, g, gc, TRUE, s)) /\ Taken(WinOf(g, h, hc, TRUE, s))
        /\ Swaps(WinOf(h, g, gc, TRUE, s), WinOf(g, h, hc, TRUE, s))
    BY <2>4 DEF WinOf, Taken, Swaps
  <2>7. QED
    BY <2>2, <2>5, <2>6, FairWithTwo
<1>4. QED
  BY <1>1, <1>2, <1>3, WinsOfStep DEF vars

\* A win takes a capsule of the other player, and wins by matching come in pairs.
THEOREM WinsAlwaysFair == Spec => []WinsAreFair
<1>1. Init => GTypeOK /\ OInv /\ WinsAreFair
  <2>1. Init => WinsAreFair
    BY DEF Init, WinsAreFair
  <2>2. QED
    BY <2>1, InitTypes, InitOffers
<1>2. (GTypeOK /\ OInv /\ WinsAreFair) /\ [Next]_vars =>
         (GTypeOK /\ OInv /\ WinsAreFair)'
  BY NextTypes, NextOffers, NextFair
<1>3. QED
  BY <1>1, <1>2, PTL DEF Spec

-----------------------------------------------------------------------------
(* Scoreboards count archived wins: what one and two more wins add to a count  *)
(* is stated for any set of wins that counts.                                  *)

\* Where q has an element of good
Places(q, good) == {i \in DOMAIN q : q[i] \in good}

LEMMA CountWithOne ==
  ASSUME NEW S, NEW q \in Seq(S), NEW a \in S, NEW good
  PROVE  /\ IsFiniteSet(Places(q, good)) /\ Cardinality(Places(q, good)) \in Nat
         /\ Cardinality(Places(Append(q, a), good)) =
               Cardinality(Places(q, good)) + (IF a \in good THEN 1 ELSE 0)
<1>1. /\ DOMAIN q = 1..Len(q) /\ Len(q) \in Nat
      /\ DOMAIN Append(q, a) = 1..Len(q) + 1
      /\ \A i \in 1..Len(q) + 1 : Append(q, a)[i] = IF i <= Len(q) THEN q[i] ELSE a
  BY LongerWins
<1>2. IsFiniteSet(Places(q, good)) /\ Cardinality(Places(q, good)) \in Nat
  <2>1. IsFiniteSet(1..Len(q)) /\ Places(q, good) \in SUBSET (1..Len(q))
    BY <1>1, FS_Interval DEF Places
  <2>2. IsFiniteSet(Places(q, good))
    BY <2>1, FS_Subset
  <2>3. QED
    BY <2>2, FS_CardinalityType
<1>3. Len(q) + 1 \notin Places(q, good)
  BY <1>1 DEF Places
<1>4. CASE a \in good
  <2>1. Places(Append(q, a), good) = Places(q, good) \cup {Len(q) + 1}
    BY <1>1, <1>4 DEF Places
  <2>2. QED
    BY <1>2, <1>3, <1>4, <2>1, FS_AddElement
<1>5. CASE a \notin good
  <2>1. Places(Append(q, a), good) = Places(q, good)
    BY <1>1, <1>5 DEF Places
  <2>2. QED
    BY <1>2, <1>5, <2>1
<1>6. QED
  BY <1>2, <1>4, <1>5

LEMMA CountWithTwo ==
  ASSUME NEW S, NEW q \in Seq(S), NEW a \in S, NEW b \in S, NEW good
  PROVE  Cardinality(Places(q \o <<a, b>>, good)) =
            Cardinality(Places(q, good)) + (IF a \in good THEN 1 ELSE 0)
                                         + (IF b \in good THEN 1 ELSE 0)
<1>1. Places(q \o <<a, b>>, good) = Places(Append(Append(q, a), b), good)
  <2>1. Append(q, a) \in Seq(S)
    BY LongerSequences
  <2>2. /\ DOMAIN Append(Append(q, a), b) = 1..Len(q) + 2
        /\ \A i \in 1..Len(q) + 2 :
             Append(Append(q, a), b)[i] = IF i <= Len(q) THEN q[i]
                                          ELSE IF i = Len(q) + 1 THEN a ELSE b
    <3>1. /\ Len(Append(q, a)) = Len(q) + 1 /\ Len(q) \in Nat
          /\ \A i \in 1..Len(q) + 1 : Append(q, a)[i] = IF i <= Len(q) THEN q[i] ELSE a
      BY LongerWins
    <3>2. /\ DOMAIN Append(Append(q, a), b) = 1..Len(Append(q, a)) + 1
          /\ \A i \in 1..Len(Append(q, a)) + 1 :
               Append(Append(q, a), b)[i] =
                  IF i <= Len(Append(q, a)) THEN Append(q, a)[i] ELSE b
      BY <2>1, LongerWins
    <3>3. QED
      BY <3>1, <3>2
  <2>3. /\ DOMAIN (q \o <<a, b>>) = 1..Len(q) + 2
        /\ \A i \in 1..Len(q) + 2 :
             (q \o <<a, b>>)[i] = IF i <= Len(q) THEN q[i]
                                  ELSE IF i = Len(q) + 1 THEN a ELSE b
    BY LongerWins
  <2>4. QED
    BY <2>2, <2>3 DEF Places
<1>2. Append(q, a) \in Seq(S)
  BY LongerSequences
<1>3. Cardinality(Places(Append(Append(q, a), b), good)) =
         Cardinality(Places(Append(q, a), good)) + (IF b \in good THEN 1 ELSE 0)
  BY <1>2, CountWithOne
<1>4. /\ Cardinality(Places(q, good)) \in Nat
      /\ Cardinality(Places(Append(q, a), good)) =
            Cardinality(Places(q, good)) + (IF a \in good THEN 1 ELSE 0)
  BY CountWithOne
<1>5. QED
  BY <1>1, <1>3, <1>4

\* The wins a scoreboard shows
Board(u, s) == {a \in Win : a.user = u /\ a.session_id = s}

\* No win is archived under a session that has not begun: a new scoreboard is empty.
WinsOfBegun == \A i \in DOMAIN wins : wins[i].session_id <= seshes

ScoreInv == ScoreboardCounts /\ WinsOfBegun

LEMMA ScoreboardsArePlaces ==
  ASSUME NEW q \in Seq(Win), NEW r
  PROVE  (\A u \in Users : r[u] # NoRow =>
            r[u].wins = Cardinality({i \in DOMAIN q :
               q[i].user = u /\ q[i].session_id = r[u].session_id}))
         <=> \A u \in Users : r[u] # NoRow =>
                r[u].wins = Cardinality(Places(q, Board(u, r[u].session_id)))
<1>1. \A i \in DOMAIN q : q[i] \in Win
  OBVIOUS
<1>2. ASSUME NEW u \in Users
      PROVE  Cardinality({i \in DOMAIN q :
                q[i].user = u /\ q[i].session_id = r[u].session_id}) =
             Cardinality(Places(q, Board(u, r[u].session_id)))
  <2>1. {i \in DOMAIN q : q[i].user = u /\ q[i].session_id = r[u].session_id} =
           Places(q, Board(u, r[u].session_id))
    BY <1>1 DEF Places, Board
  <2>2. QED
    BY <2>1, Zenon
<1>3. QED
  BY <1>2, Zenon

LEMMA ScoresArePlaces ==
  ASSUME GTypeOK
  PROVE  ScoreboardCounts <=> \A u \in Users : row[u] # NoRow =>
            row[u].wins = Cardinality(Places(wins, Board(u, row[u].session_id)))
<1>1. wins \in Seq(Win)
  BY DEF GTypeOK
<1>2. QED
  BY <1>1, ScoreboardsArePlaces, Zenon DEF ScoreboardCounts

LEMMA NewScoresArePlaces ==
  ASSUME GTypeOK'
  PROVE  ScoreboardCounts' <=> \A u \in Users : row'[u] # NoRow =>
            row'[u].wins = Cardinality(Places(wins', Board(u, row'[u].session_id)))
<1>1. wins' \in Seq(Win)
  BY DEF GTypeOK
<1>2. QED
  BY <1>1, ScoreboardsArePlaces, Zenon DEF ScoreboardCounts

\* A row counts one more win exactly if the win is its player's and of its session.
LEMMA BumpedRows ==
  ASSUME GTypeOK, NEW us, NEW s, NEW u \in Users, Bumped(us, s)[u] # NoRow
  PROVE  /\ row[u] # NoRow /\ Bumped(us, s)[u].session_id = row[u].session_id
         /\ Bumped(us, s)[u].wins =
               row[u].wins + (IF u \in us /\ row[u].session_id = s THEN 1 ELSE 0)
         /\ row[u].wins \in Nat
<1>1. row[u] # NoRow
  BY DEF Bumped
<1>2. row[u] \in Row
  BY <1>1 DEF GTypeOK
<1>3. /\ [row[u] EXCEPT !.wins = @ + 1].session_id = row[u].session_id
      /\ [row[u] EXCEPT !.wins = @ + 1].wins = row[u].wins + 1
      /\ row[u].wins \in Nat
  BY <1>2 DEF Row
<1>4. QED
  BY <1>1, <1>3 DEF Bumped

\* The rows of the wins a step adds: one for the recipient of an offer, or one for each of
\* the two who match.
LEMMA OneWinScored ==
  ASSUME GTypeOK, ScoreInv, NEW a \in Win, NEW s \in SentSids, a.session_id = s,
         wins' = Append(wins, a), row' = Bumped({a.user}, s), seshes' = seshes, GTypeOK'
  PROVE  ScoreInv'
<1>1. wins \in Seq(Win) /\ seshes \in Nat /\ s <= seshes
  BY BoundsAssumption DEF GTypeOK, SentSids, NoSid
<1>2. ASSUME NEW u \in Users, row'[u] # NoRow
      PROVE  row'[u].wins = Cardinality(Places(wins', Board(u, row'[u].session_id)))
  <2>1. /\ row[u] # NoRow /\ row'[u].session_id = row[u].session_id
        /\ row'[u].wins =
              row[u].wins + (IF u = a.user /\ row[u].session_id = s THEN 1 ELSE 0)
    BY <1>2, BumpedRows
  <2> DEFINE board == Board(u, row[u].session_id)
  <2>2. row[u].wins = Cardinality(Places(wins, board))
    BY <2>1, ScoresArePlaces DEF ScoreInv
  <2>3. a \in board <=> u = a.user /\ row[u].session_id = s
    BY DEF Board
  <2> HIDE DEF board
  <2>4. Cardinality(Places(wins', board)) =
           Cardinality(Places(wins, board)) + (IF a \in board THEN 1 ELSE 0)
    BY <1>1, CountWithOne
  <2>5. QED
    BY <2>1, <2>2, <2>3, <2>4 DEF board
<1>3. ScoreboardCounts'
  BY <1>2, NewScoresArePlaces
<1>4. WinsOfBegun'
  <2>1. /\ DOMAIN wins = 1..Len(wins) /\ Len(wins) \in Nat
        /\ DOMAIN wins' = 1..Len(wins) + 1
        /\ \A i \in 1..Len(wins) + 1 : wins'[i] = IF i <= Len(wins) THEN wins[i] ELSE a
    BY <1>1, LongerWins
  <2>2. QED
    BY <1>1, <2>1 DEF ScoreInv, WinsOfBegun
<1>5. QED
  BY <1>3, <1>4 DEF ScoreInv

LEMMA TwoWinsScored ==
  ASSUME GTypeOK, ScoreInv, NEW a \in Win, NEW b \in Win, NEW s \in SentSids,
         a.session_id = s, b.session_id = s, a.user # b.user,
         wins' = wins \o <<a, b>>, row' = Bumped({a.user, b.user}, s),
         seshes' = seshes, GTypeOK'
  PROVE  ScoreInv'
<1>1. wins \in Seq(Win) /\ seshes \in Nat /\ s <= seshes
  BY BoundsAssumption DEF GTypeOK, SentSids, NoSid
<1>2. ASSUME NEW u \in Users, row'[u] # NoRow
      PROVE  row'[u].wins = Cardinality(Places(wins', Board(u, row'[u].session_id)))
  <2>1. /\ row[u] # NoRow /\ row'[u].session_id = row[u].session_id
        /\ row'[u].wins = row[u].wins +
              (IF u \in {a.user, b.user} /\ row[u].session_id = s THEN 1 ELSE 0)
    BY <1>2, BumpedRows
  <2> DEFINE board == Board(u, row[u].session_id)
  <2>2. row[u].wins = Cardinality(Places(wins, board))
    BY <2>1, ScoresArePlaces DEF ScoreInv
  <2>3. /\ a \in board <=> u = a.user /\ row[u].session_id = s
        /\ b \in board <=> u = b.user /\ row[u].session_id = s
    BY DEF Board
  <2> HIDE DEF board
  <2>4. Cardinality(Places(wins', board)) =
           Cardinality(Places(wins, board)) + (IF a \in board THEN 1 ELSE 0)
                                            + (IF b \in board THEN 1 ELSE 0)
    BY <1>1, CountWithTwo
  <2>5. Cardinality(Places(wins, board)) \in Nat
    BY <1>1, CountWithOne
  <2>6. QED
    BY <2>1, <2>2, <2>3, <2>4, <2>5 DEF board
<1>3. ScoreboardCounts'
  BY <1>2, NewScoresArePlaces
<1>4. WinsOfBegun'
  <2>1. /\ DOMAIN wins = 1..Len(wins) /\ Len(wins) \in Nat
        /\ DOMAIN wins' = 1..Len(wins) + 2
        /\ \A i \in 1..Len(wins) + 2 :
             wins'[i] = IF i <= Len(wins) THEN wins[i]
                        ELSE IF i = Len(wins) + 1 THEN a ELSE b
    BY <1>1, LongerWins
  <2>2. QED
    BY <1>1, <2>1 DEF ScoreInv, WinsOfBegun
<1>5. QED
  BY <1>3, <1>4 DEF ScoreInv

\* A row that is only ended keeps its scoreboard, and so does one that is left alone.
LEMMA SameScores ==
  ASSUME GTypeOK, ScoreInv, wins' = wins, seshes' \in Nat, seshes' >= seshes, GTypeOK',
         \A u \in Users : row'[u] # NoRow =>
            \/ /\ row[u] # NoRow /\ row'[u].wins = row[u].wins
               /\ row'[u].session_id = row[u].session_id
            \/ row'[u].wins = 0 /\ row'[u].session_id = seshes + 1
  PROVE  ScoreInv'
<1>1. wins \in Seq(Win) /\ seshes \in Nat
  BY BoundsAssumption DEF GTypeOK
<1>2. \A i \in DOMAIN wins : wins[i].session_id \in Nat /\ wins[i].session_id <= seshes
  <2>1. \A i \in DOMAIN wins : wins[i] \in Win
    BY <1>1
  <2>2. QED
    BY <2>1 DEF Win, Sids, NoSid, ScoreInv, WinsOfBegun
<1>3. ASSUME NEW u \in Users, row'[u] # NoRow
      PROVE  row'[u].wins = Cardinality(Places(wins', Board(u, row'[u].session_id)))
  <2>1. CASE /\ row[u] # NoRow /\ row'[u].wins = row[u].wins
             /\ row'[u].session_id = row[u].session_id
    BY <2>1, ScoresArePlaces DEF ScoreInv
  <2>2. CASE row'[u].wins = 0 /\ row'[u].session_id = seshes + 1
    <3>1. Places(wins, Board(u, seshes + 1)) = {}
      BY <1>1, <1>2 DEF Places, Board
    <3>2. QED
      BY <2>2, <3>1, FS_EmptySet
  <2>3. QED
    BY <1>3, <2>1, <2>2
<1>4. ScoreboardCounts'
  BY <1>3, NewScoresArePlaces
<1>5. WinsOfBegun'
  BY <1>1, <1>2 DEF WinsOfBegun
<1>6. QED
  BY <1>4, <1>5 DEF ScoreInv

\* What a step that archives no win does to the rows and the session ids
LEMMA RowsOfStep ==
  ASSUME GTypeOK, Next
  PROVE  \/ /\ wins' = wins
            /\ seshes' \in Nat /\ seshes' >= seshes
            /\ \A u \in Users : row'[u] # NoRow =>
                  \/ /\ row[u] # NoRow /\ row'[u].wins = row[u].wins
                     /\ row'[u].session_id = row[u].session_id
                  \/ row'[u].wins = 0 /\ row'[u].session_id = seshes + 1
         \/ \E w \in Workers : AcceptOffer(w)
         \/ \E m \in OfferIds, u \in Users : AcceptMatch(m, u)
<1>1. seshes \in Nat
  BY BoundsAssumption DEF GTypeOK
<1>2. ASSUME NEW us, NEW u \in Users, Ended(us)[u] # NoRow
      PROVE  /\ row[u] # NoRow /\ Ended(us)[u].wins = row[u].wins
             /\ Ended(us)[u].session_id = row[u].session_id
  <2>1. row[u] # NoRow
    BY <1>2 DEF Ended, InSesh
  <2>2. row[u] \in Row
    BY <2>1 DEF GTypeOK
  <2>3. /\ [row[u] EXCEPT !.live = FALSE].wins = row[u].wins
        /\ [row[u] EXCEPT !.live = FALSE].session_id = row[u].session_id
    BY <2>2 DEF Row
  <2>4. QED
    BY <2>1, <2>3 DEF Ended
<1>3. CASE SeshStep
  <2>1. PICK h \in Users, g \in Users : StartSesh(h, g) \/ SeshEnds(h)
    BY <1>3 DEF SeshStep
  <2>2. CASE StartSesh(h, g)
    <3>1. \A u \in Users : \/ row'[u] = row[u]
                           \/ row'[u].wins = 0 /\ row'[u].session_id = seshes + 1
      BY <2>2 DEF StartSesh
    <3>2. seshes' = seshes + 1 /\ wins' = wins
      BY <2>2 DEF StartSesh
    <3>3. QED
      BY <1>1, <3>1, <3>2
  <2>3. CASE SeshEnds(h)
    BY <1>1, <1>2, <2>3 DEF SeshEnds
  <2>4. QED
    BY <2>1, <2>2, <2>3
<1>4. CASE OwnerStep
  <2>1. CASE \E w \in Workers : HelloArchive(w)
    BY <1>1, <1>2, <2>1 DEF HelloArchive
  <2>2. CASE ~ \E w \in Workers : HelloArchive(w)
    <3>1. row' = row /\ seshes' = seshes /\ wins' = wins
      BY <1>4, <2>2 DEF OwnerStep, AddCapsule, DeleteCapsule, EditRead, EditSave, HelloRead
    <3>2. QED
      BY <1>1, <3>1
  <2>3. QED
    BY <2>1, <2>2
<1>5. CASE OfferStep
  <2>1. \/ row' = row /\ seshes' = seshes /\ wins' = wins
        \/ \E w \in Workers : AcceptOffer(w)
    BY <1>5 DEF OfferStep, Propose, AnswerRead, ProposeMatch, ClearOffer, DeclineOlder,
       InsertMatch, Quit
  <2>2. QED
    BY <1>1, <2>1
<1>6. CASE MatchStep
  <2>1. \/ row' = row /\ seshes' = seshes /\ wins' = wins
        \/ \E m \in OfferIds, u \in Users : AcceptMatch(m, u)
    BY <1>6 DEF MatchStep, DropMatch, AwaitPartner
  <2>2. QED
    BY <1>1, <2>1
<1>7. QED
  BY <1>3, <1>4, <1>5, <1>6 DEF Next

\* The wins the two accepting requests add, with the rows they change
LEMMA OfferWin ==
  ASSUME GTypeOK, OInv, NEW w \in Workers, AcceptOffer(w)
  PROVE  \E a \in Win, s \in SentSids :
            /\ a.session_id = s /\ ~a.matched /\ a.user # a.from
            /\ a.user \in Users /\ a.from \in Users
            /\ wins' = Append(wins, a)
            /\ row' = Bumped({a.user}, s) /\ seshes' = seshes
<1> DEFINE u == job[w].user
           from == job[w].offer.sender
           c == job[w].offer.capsule
<1>1. u \in Users /\ from \in Users /\ c \in Capsules
  BY JobKinds DEF AcceptOffer, AnswerJob, Offer
<1>2. PICK s \in SentSids : /\ wins' = Append(wins, WinOf(u, from, c, FALSE, s))
                            /\ row' = Bumped({u}, s)
  BY DEF AcceptOffer
<1>3. Lock(c) /\ seshes' = seshes
  BY DEF AcceptOffer
<1>4. u # from
  BY DEF AcceptOffer, OInv, RequestsFit
<1> HIDE DEF u, from, c
<1> DEFINE a == WinOf(u, from, c, FALSE, s)
<1>5. a \in Win
  BY <1>1, <1>3, WinTypes
<1>6. a.user = u /\ a.from = from /\ ~a.matched /\ a.session_id = s
  BY DEF WinOf
<1> HIDE DEF a
<1>7. wins' = Append(wins, a)
  BY <1>2 DEF a
<1>8. QED
  BY <1>1, <1>2, <1>3, <1>4, <1>5, <1>6, <1>7

LEMMA MatchWins ==
  ASSUME GTypeOK, OInv, NEW m \in OfferIds, NEW x \in Users, AcceptMatch(m, x)
  PROVE  \E a, b \in Win, s \in SentSids :
            /\ a.session_id = s /\ b.session_id = s /\ a.matched /\ b.matched
            /\ a.user # b.user
            /\ wins' = wins \o <<a, b>>
            /\ row' = Bumped({a.user, b.user}, s) /\ seshes' = seshes
<1> DEFINE h == match[m].host
           g == match[m].guest
           hc == match[m].hostCapsule
           gc == match[m].guestCapsule
<1>1. h \in Users /\ g \in Users /\ hc \in Capsules /\ gc \in Capsules
  BY DEF AcceptMatch, GTypeOK, MatchOffer
<1>2. PICK s \in SentSids :
         /\ wins' = wins \o <<WinOf(h, g, gc, TRUE, s), WinOf(g, h, hc, TRUE, s)>>
         /\ row' = Bumped({h, g}, s)
  BY DEF AcceptMatch
<1>3. Lock(hc) /\ Lock(gc) /\ seshes' = seshes
  BY DEF AcceptMatch, Named
<1>4. h # g
  BY DEF AcceptMatch, OInv, OffersStand
<1> HIDE DEF h, g, hc, gc
<1> DEFINE a == WinOf(h, g, gc, TRUE, s)
           b == WinOf(g, h, hc, TRUE, s)
<1>5. a \in Win /\ b \in Win
  BY <1>1, <1>3, WinTypes
<1>6. /\ a.user = h /\ a.matched /\ a.session_id = s
      /\ b.user = g /\ b.matched /\ b.session_id = s
  BY DEF WinOf
<1> HIDE DEF a, b
<1>7. wins' = wins \o <<a, b>>
  BY <1>2 DEF a, b
<1>8. QED
  BY <1>2, <1>3, <1>4, <1>5, <1>6, <1>7

LEMMA NextScores == GTypeOK /\ OInv /\ ScoreInv /\ [Next]_vars => ScoreInv'
<1> SUFFICES ASSUME GTypeOK, OInv, ScoreInv, [Next]_vars PROVE ScoreInv'
  OBVIOUS
<1>1. GTypeOK'
  BY NextTypes
<1>2. CASE UNCHANGED vars
  BY <1>2 DEF vars, ScoreInv, ScoreboardCounts, WinsOfBegun
<1>3. CASE \E w \in Workers : AcceptOffer(w)
  <2>1. PICK w \in Workers : AcceptOffer(w)
    BY <1>3
  <2>2. QED
    BY <1>1, <2>1, OfferWin, OneWinScored
<1>4. CASE \E m \in OfferIds, u \in Users : AcceptMatch(m, u)
  <2>1. PICK m \in OfferIds, x \in Users : AcceptMatch(m, x)
    BY <1>4
  <2>2. QED
    BY <1>1, <2>1, MatchWins, TwoWinsScored
<1>5. CASE Next
  BY <1>1, <1>3, <1>4, <1>5, RowsOfStep, SameScores
<1>6. QED
  BY <1>2, <1>5

\* The scoreboard of a session shows the wins archived under its id, for any number of
\* players and sessions: an accepted offer counts for its recipient, a match for both, a
\* new session begins with a new id and no wins.
THEOREM ScoreboardAlwaysCounts == Spec => []ScoreboardCounts
<1>1. Init => GTypeOK /\ OInv /\ ScoreInv
  <2>1. Init => ScoreInv
    BY DEF Init, ScoreInv, ScoreboardCounts, WinsOfBegun
  <2>2. QED
    BY <2>1, InitTypes, InitOffers
<1>2. (GTypeOK /\ OInv /\ ScoreInv) /\ [Next]_vars => (GTypeOK /\ OInv /\ ScoreInv)'
  BY NextTypes, NextOffers, NextScores
<1>3. ScoreInv => ScoreboardCounts
  BY DEF ScoreInv
<1>4. QED
  BY <1>1, <1>2, <1>3, PTL DEF Spec
=============================================================================
