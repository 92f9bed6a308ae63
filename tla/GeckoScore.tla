----------------------------- MODULE GeckoScore -----------------------------
(***************************************************************************)
(* The streak of one player: the multiplier and expires_at of the score    *)
(* row, their copy in Redis, and what the points are multiplied by.        *)
(*                                                                         *)
(* A streak is a number: begun counts the pairs of a multiplier and an     *)
(* expiry that requests have computed, 0 is the pair of a new account.     *)
(* The transaction that books the points is one step here; GeckoData has   *)
(* its parts.                                                              *)
(***************************************************************************)
EXTENDS Naturals

CONSTANTS
    Requests,     \* the workers that handle the player's requests
    NoKey,        \* Redis has no such key
    MaxStreaks,   \* bound: streaks computed
    MaxCalls      \* bound: requests

ASSUME NoKeyAssumption == NoKey \notin Nat

VARIABLES
    begun,      \* streaks computed so far
    running,    \* those whose expires_at is to come
    score,      \* GeckoScoreState: the streak in multiplier and expires_at
    scoreKey,   \* gecko_score:{user_id}
    ledger,     \* the streaks whose multiplier is on a row of GeckoPointsLedger
    job,        \* [Requests -> where the request is, and its local variables]
    calls       \* requests so far

VARIABLE scored \* history: the streaks that the score row has had

vars == <<begun, running, score, scoreKey, ledger, job, calls, scored>>

Job == [pc : {"idle", "save", "key", "fill", "patch", "book"},
        score : Nat,       \* the row as read, and as to be saved
        paid : Nat,        \* the streak whose multiplier the points get
        points : BOOLEAN]  \* there is something for process_gecko_data
Idle == [pc |-> "idle", score |-> 0, paid |-> 0, points |-> FALSE]

Init ==
    /\ begun = 0 /\ running = {}
    /\ score = 0 /\ scored = {0}
    /\ scoreKey = NoKey
    /\ ledger = {}
    /\ job = [w \in Requests |-> Idle]
    /\ calls = 0

Call(w, j) ==
    /\ job[w].pc = "idle"
    /\ calls < MaxCalls
    /\ calls' = calls + 1
    /\ job' = [job EXCEPT ![w] = j]

-----------------------------------------------------------------------------
(* update_gecko_data *)

\* (mutant) the expiry is computed anew though no streak is begun
NewStreakAlways(fresh) == begun + 1

\* The streak to be saved: a new one if it is asked for and the copy's does not run.
NewStreak(fresh) == IF fresh THEN begun + 1 ELSE score
Begin(fresh) ==
    IF fresh THEN /\ begun < MaxStreaks
                  /\ begun' = begun + 1
                  /\ running' = running \cup {begun + 1}
    ELSE UNCHANGED <<begun, running>>

\* A point of update_gecko_data has the client's time: it may be of the streak or not
\* whether or not the streak runs by now.
Resolved(s) == {0, s}

\* (mutant) Redis is told before the row is saved
UpdateTellsFirst(w, asked, points) ==
    /\ LET fresh == asked /\ score \notin running IN
       /\ Begin(fresh)
       /\ scoreKey' = NewStreak(fresh)
       /\ \E p \in Resolved(score) :
             Call(w, [pc |-> "save", score |-> NewStreak(fresh), paid |-> p,
                      points |-> points])
    /\ UNCHANGED <<score, ledger, scored>>

\* apply_gecko_data_update reads the row and resolves the points before it begins a streak.
Update(w, asked, points) ==
    /\ LET fresh == asked /\ score \notin running IN
       /\ Begin(fresh)
       /\ \E p \in Resolved(score) :
             Call(w, [pc |-> "save", score |-> NewStreak(fresh), paid |-> p,
                      points |-> points])
    /\ UNCHANGED <<score, scoreKey, ledger, scored>>

\* Saves multiplier and expires_at as the request has them, whether or not it changed them.
Save(w) ==
    /\ score' = job[w].score
    /\ scored' = scored \cup {job[w].score}
    /\ UNCHANGED <<begun, running, scoreKey, ledger, calls>>

UpdateSave(w) ==
    /\ job[w].pc = "save"
    /\ Save(w)
    /\ job' = [job EXCEPT ![w].pc = "key"]

\* What follows the write to Redis: the points, if there are any.
Booking(j) == IF j.points THEN [j EXCEPT !.pc = "book"] ELSE Idle

WriteKey(w) ==
    /\ scoreKey' = job[w].score
    /\ job' = [job EXCEPT ![w] = Booking(job[w])]
    /\ UNCHANGED <<begun, running, score, ledger, calls, scored>>

UpdateKey(w) == job[w].pc = "key" /\ WriteKey(w)

-----------------------------------------------------------------------------
(* request_points *)

\* A point of the server's own time
Effective(s) == IF s \in running THEN s ELSE 0

Award(w) ==
    /\ scoreKey # NoKey
    /\ Call(w, [pc |-> "book", score |-> 0, paid |-> Effective(scoreKey), points |-> TRUE])
    /\ UNCHANGED <<begun, running, score, scoreKey, ledger, scored>>

\* On a cold cache the row is asked, and Redis is filled.
AwardCold(w) ==
    /\ scoreKey = NoKey
    /\ Call(w, [pc |-> "fill", score |-> score, paid |-> Effective(score), points |-> TRUE])
    /\ UNCHANGED <<begun, running, score, scoreKey, ledger, scored>>

AwardFill(w) == job[w].pc = "fill" /\ WriteKey(w)

-----------------------------------------------------------------------------
(* REST, the booking of points, failures and time *)

\* PATCH gecko/score-state/ begins a streak and is turned down while one runs; PATCH
\* gecko/score-state/configs/ saves the whole row as it was read.  Neither tells Redis.
Patch(w, begins) ==
    /\ begins => score \notin running
    /\ Begin(begins)
    /\ Call(w, [pc |-> "patch", score |-> NewStreak(begins), paid |-> 0, points |-> FALSE])
    /\ UNCHANGED <<score, scoreKey, ledger, scored>>

PatchSave(w) ==
    /\ job[w].pc = "patch"
    /\ Save(w)
    /\ job' = [job EXCEPT ![w] = Idle]

\* PATCH of a friend's data: process_gecko_data resolves the points against the row.
Record(w) ==
    /\ \E p \in Resolved(score) :
          Call(w, [pc |-> "book", score |-> 0, paid |-> p, points |-> TRUE])
    /\ UNCHANGED <<begun, running, score, scoreKey, ledger, scored>>

\* process_gecko_data commits.
Book(w) ==
    /\ job[w].pc = "book"
    /\ ledger' = ledger \cup {job[w].paid}
    /\ job' = [job EXCEPT ![w] = Idle]
    /\ UNCHANGED <<begun, running, score, scoreKey, calls, scored>>

\* An exception, from PostgreSQL or Redis, or the end of the worker
Fail(w) ==
    /\ job[w].pc # "idle"
    /\ job' = [job EXCEPT ![w] = Idle]
    /\ UNCHANGED <<begun, running, score, scoreKey, ledger, calls, scored>>

KeyExpires ==
    /\ scoreKey # NoKey
    /\ scoreKey' = NoKey
    /\ UNCHANGED <<begun, running, score, ledger, job, calls, scored>>

StreakExpires(s) ==
    /\ running' = running \ {s}
    /\ UNCHANGED <<begun, score, scoreKey, ledger, job, calls, scored>>

CallStep(w) ==
    \/ \E asked \in BOOLEAN, points \in BOOLEAN : Update(w, asked, points)
    \/ \E begins \in BOOLEAN : Patch(w, begins)
    \/ Award(w) \/ AwardCold(w) \/ Record(w)

RequestStep(w) ==
    \/ UpdateSave(w) \/ UpdateKey(w) \/ AwardFill(w) \/ PatchSave(w) \/ Book(w) \/ Fail(w)

Next ==
    \/ \E w \in Requests : CallStep(w) \/ RequestStep(w)
    \/ KeyExpires
    \/ \E s \in running : StreakExpires(s)

Spec == Init /\ [][Next]_vars

-----------------------------------------------------------------------------
(* Properties *)

\* Every streak anybody names was computed.
ScoreTypeOK ==
    /\ begun \in Nat /\ calls \in Nat
    /\ running \subseteq 1..begun
    /\ score \in 0..begun
    /\ scoreKey \in 0..begun \cup {NoKey}
    /\ ledger \subseteq 0..begun
    /\ job \in [Requests -> Job]
    /\ \A w \in Requests : job[w].score \in 0..begun /\ job[w].paid \in 0..begun
    /\ scored \subseteq 0..begun

\* What Redis says of the multiplier has been in PostgreSQL ("only update the cache once
\* the multiplier row has actually committed", gecko_score_helpers.py:527-529): also when
\* a cold cache is filled late, and when requests fail on their way.
CacheWasCommitted == scoreKey # NoKey => scoreKey \in scored

\* No point on the ledger has the multiplier of a streak that was never committed,
\* whether it was resolved from Redis or from the row (gecko_score_helpers.py:639-663).
PaidWasCommitted == ledger \subseteq scored
=============================================================================
