-------------------------- MODULE GeckoScore_proofs --------------------------
(* The copy in Redis and the ledger know only streaks that were committed, whatever the
   number of requests, streaks and workers. *)
EXTENDS GeckoScore, TLAPS

\* What keeps CacheWasCommitted and PaidWasCommitted: whatever a request is going to tell
\* Redis, or to multiply points by, the row has had.
Known ==
    /\ 0 \in scored
    /\ score \in scored
    /\ \A w \in Requests : job[w].paid \in scored
    /\ \A w \in Requests : job[w].pc \in {"key", "fill"} => job[w].score \in scored

ScoreInv == ScoreTypeOK /\ Known /\ CacheWasCommitted /\ PaidWasCommitted

LEMMA ScoreInit == Init => ScoreInv
  BY NoKeyAssumption DEF Init, ScoreInv, ScoreTypeOK, Known, CacheWasCommitted,
     PaidWasCommitted, Job, Idle

\* A streak that is begun, or not, is one that was computed.
LEMMA BegunStreak ==
  ASSUME begun \in Nat, running \subseteq 1..begun, score \in 0..begun,
         NEW fresh \in BOOLEAN, Begin(fresh)
  PROVE  /\ begun' \in Nat /\ begun <= begun'
         /\ running' \subseteq 1..begun'
         /\ NewStreak(fresh) \in 0..begun'
<1>1. CASE fresh
  <2>1. begun' = begun + 1 /\ running' = running \cup {begun + 1} /\ NewStreak(fresh) = begun + 1
    BY <1>1 DEF Begin, NewStreak
  <2>2. QED
    BY <2>1
<1>2. CASE ~fresh
  <2>1. begun' = begun /\ running' = running /\ NewStreak(fresh) = score
    BY <1>2 DEF Begin, NewStreak
  <2>2. QED
    BY <2>1
<1>3. QED
  BY <1>1, <1>2

LEMMA ScoreTypeNext ==
  ASSUME ScoreTypeOK, [Next]_vars
  PROVE  ScoreTypeOK'
<1> USE NoKeyAssumption
<1>1. CASE UNCHANGED vars
  BY <1>1 DEF ScoreTypeOK, vars
<1>2. ASSUME NEW w \in Requests, NEW asked \in BOOLEAN, NEW points \in BOOLEAN,
             Update(w, asked, points)
      PROVE  ScoreTypeOK'
  <2> DEFINE fresh == asked /\ score \notin running
  <2>1. fresh \in BOOLEAN /\ Begin(fresh)
    BY <1>2 DEF Update
  <2>2. /\ begun' \in Nat /\ begun <= begun'
        /\ running' \subseteq 1..begun' /\ NewStreak(fresh) \in 0..begun'
    BY <2>1, BegunStreak DEF ScoreTypeOK
  <2>3. PICK p \in Resolved(score) :
           Call(w, [pc |-> "save", score |-> NewStreak(fresh), paid |-> p,
                    points |-> points])
    BY <1>2 DEF Update
  <2>4. p \in 0..begun
    BY <2>3 DEF Resolved, ScoreTypeOK
  <2> HIDE DEF fresh
  <2>5. QED
    BY <1>2, <2>2, <2>3, <2>4 DEF Update, Call, ScoreTypeOK, Job
<1>3. ASSUME NEW w \in Requests, NEW begins \in BOOLEAN, Patch(w, begins)
      PROVE  ScoreTypeOK'
  <2>1. /\ begun' \in Nat /\ begun <= begun'
        /\ running' \subseteq 1..begun' /\ NewStreak(begins) \in 0..begun'
    BY <1>3, BegunStreak DEF ScoreTypeOK, Patch
  <2>2. QED
    BY <1>3, <2>1 DEF Patch, Call, ScoreTypeOK, Job
<1>4. ASSUME NEW w \in Requests, Award(w) \/ AwardCold(w) \/ Record(w)
      PROVE  ScoreTypeOK'
  <2>1. CASE Award(w)
    <3>1. scoreKey \in 0..begun
      BY <2>1 DEF Award, ScoreTypeOK
    <3>2. Effective(scoreKey) \in 0..begun
      BY <3>1 DEF Effective, ScoreTypeOK
    <3>3. QED
      BY <2>1, <3>2 DEF Award, Call, ScoreTypeOK, Job
  <2>2. CASE AwardCold(w)
    <3>1. Effective(score) \in 0..begun
      BY DEF Effective, ScoreTypeOK
    <3>2. QED
      BY <2>2, <3>1 DEF AwardCold, Call, ScoreTypeOK, Job
  <2>3. CASE Record(w)
    <3>1. PICK p \in Resolved(score) :
             Call(w, [pc |-> "book", score |-> 0, paid |-> p, points |-> TRUE])
      BY <2>3 DEF Record
    <3>2. p \in 0..begun
      BY <3>1 DEF Resolved, ScoreTypeOK
    <3>3. QED
      BY <2>3, <3>1, <3>2 DEF Record, Call, ScoreTypeOK, Job
  <2>4. QED
    BY <1>4, <2>1, <2>2, <2>3
<1>5. ASSUME NEW w \in Requests, RequestStep(w)
      PROVE  ScoreTypeOK'
  <2>0. /\ Idle \in Job /\ Idle.score \in 0..begun /\ Idle.paid \in 0..begun
        /\ job[w].score \in 0..begun /\ job[w].paid \in 0..begun
    BY DEF Idle, Job, ScoreTypeOK
  <2>1. CASE UpdateSave(w)
    BY <2>1 DEF UpdateSave, Save, ScoreTypeOK, Job
  <2>2. CASE UpdateKey(w) \/ AwardFill(w)
    <3>1. Booking(job[w]) \in Job /\ Booking(job[w]).score \in 0..begun
          /\ Booking(job[w]).paid \in 0..begun
      BY DEF Booking, ScoreTypeOK, Job, Idle
    <3>2. QED
      BY <2>2, <3>1 DEF UpdateKey, AwardFill, WriteKey, ScoreTypeOK
  <2>3. CASE PatchSave(w)
    BY <2>0, <2>3 DEF PatchSave, Save, ScoreTypeOK
  <2>4. CASE Book(w)
    BY <2>0, <2>4 DEF Book, ScoreTypeOK
  <2>5. CASE Fail(w)
    BY <2>0, <2>5 DEF Fail, ScoreTypeOK
  <2>6. QED
    BY <1>5, <2>1, <2>2, <2>3, <2>4, <2>5 DEF RequestStep
<1>6. CASE KeyExpires \/ \E s \in running : StreakExpires(s)
  BY <1>6 DEF KeyExpires, StreakExpires, ScoreTypeOK
<1>7. QED
  BY <1>1, <1>2, <1>3, <1>4, <1>5, <1>6 DEF Next, CallStep

\* The row and the requests under way know only streaks that were committed.
LEMMA KnownNext ==
  ASSUME ScoreTypeOK, Known, CacheWasCommitted, [Next]_vars
  PROVE  Known' /\ CacheWasCommitted'
<1> USE NoKeyAssumption
<1>1. CASE UNCHANGED vars
  BY <1>1 DEF Known, CacheWasCommitted, vars
<1>2. ASSUME NEW w \in Requests, NEW asked \in BOOLEAN, NEW points \in BOOLEAN,
             Update(w, asked, points)
      PROVE  Known' /\ CacheWasCommitted'
  <2> DEFINE fresh == asked /\ score \notin running
  <2>1. PICK p \in Resolved(score) :
           Call(w, [pc |-> "save", score |-> NewStreak(fresh), paid |-> p,
                    points |-> points])
    BY <1>2 DEF Update
  <2>2. p \in scored
    BY <2>1 DEF Resolved, Known
  <2> HIDE DEF fresh
  <2>3. QED
    BY <1>2, <2>1, <2>2 DEF Update, Call, Known, CacheWasCommitted, ScoreTypeOK
<1>3. ASSUME NEW w \in Requests, NEW begins \in BOOLEAN, Patch(w, begins)
      PROVE  Known' /\ CacheWasCommitted'
  BY <1>3 DEF Patch, Call, Known, CacheWasCommitted, ScoreTypeOK
<1>4. ASSUME NEW w \in Requests, Award(w) \/ AwardCold(w) \/ Record(w)
      PROVE  Known' /\ CacheWasCommitted'
  BY <1>4 DEF Award, AwardCold, Record, Call, Effective, Resolved, Known,
     CacheWasCommitted, ScoreTypeOK
<1>5. ASSUME NEW w \in Requests, RequestStep(w)
      PROVE  Known' /\ CacheWasCommitted'
  BY <1>5 DEF RequestStep, UpdateSave, Save, UpdateKey, AwardFill, WriteKey, Booking,
     PatchSave, Book, Fail, Known, CacheWasCommitted, ScoreTypeOK, Job, Idle
<1>6. CASE KeyExpires \/ \E s \in running : StreakExpires(s)
  BY <1>6 DEF KeyExpires, StreakExpires, Known, CacheWasCommitted
<1>7. QED
  BY <1>1, <1>2, <1>3, <1>4, <1>5, <1>6 DEF Next, CallStep

\* Nothing is taken back from scored, and the ledger grows by what a request may pay.
LEMMA PaidNext ==
  ASSUME Known, PaidWasCommitted, [Next]_vars
  PROVE  PaidWasCommitted'
<1>1. scored \subseteq scored'
  BY DEF Next, vars, CallStep, RequestStep, Update, Patch, Award, AwardCold, Record,
     UpdateSave, Save, UpdateKey, AwardFill, WriteKey, PatchSave, Book, Fail, KeyExpires,
     StreakExpires
<1>2. ledger' = ledger \/ \E w \in Requests : ledger' = ledger \cup {job[w].paid}
  BY DEF Next, vars, CallStep, RequestStep, Update, Patch, Award, AwardCold, Record,
     UpdateSave, Save, UpdateKey, AwardFill, WriteKey, PatchSave, Book, Fail, KeyExpires,
     StreakExpires
<1>3. QED
  BY <1>1, <1>2 DEF Known, PaidWasCommitted

LEMMA ScoreNext == ScoreInv /\ [Next]_vars => ScoreInv'
  BY ScoreTypeNext, KnownNext, PaidNext DEF ScoreInv

LEMMA ScoreInvariant == Spec => []ScoreInv
  BY ScoreInit, ScoreNext, PTL DEF Spec

\* Every streak that the row, Redis, the ledger or a request names was computed by some
\* request (gecko_score_helpers.py:453-482).
THEOREM ScoreTypeCorrect == Spec => []ScoreTypeOK
  BY ScoreInvariant, PTL DEF ScoreInv

\* Redis never has a multiplier that PostgreSQL has not had
\* (gecko_score_helpers.py:527-541, 653-663).
THEOREM CacheFollowsCommit == Spec => []CacheWasCommitted
  BY ScoreInvariant, PTL DEF ScoreInv

\* No points are multiplied by a streak that was never committed
\* (gecko_score_helpers.py:639-665).
THEOREM PointsFollowCommit == Spec => []PaidWasCommitted
  BY ScoreInvariant, PTL DEF ScoreInv
=============================================================================
