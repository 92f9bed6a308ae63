------------------------------ MODULE GeckoData ------------------------------
(***************************************************************************)
(* What one player's play leaves behind: the counters per friend and of a  *)
(* lifetime, the buckets of the hours of the day and their sum in Redis,   *)
(* the combined sessions, and the player's side of the scoreboard of a     *)
(* live session.                                                           *)
(*                                                                         *)
(* process_gecko_data runs in one transaction (READ COMMITTED).  It holds  *)
(* the lock of every row it has updated until the end; a request that      *)
(* wants the row waits for it.  The rows that come first, GeckoData and    *)
(* UserLifetimeTotals, are the only ones a request of the player ever has  *)
(* to wait for.  `units' stands for the steps, the distance and the points *)
(* of a request, which the statements treat alike.                         *)
(***************************************************************************)
EXTENDS Naturals, Sequences, Functions

CONSTANTS
    Requests,     \* the workers that handle the player's requests
    Friends,      \* the player's friends, each with its GeckoData row
    Solo,         \* friend_id None: the peer is not present
    Totals,       \* names the UserLifetimeTotals row among the locks
    NoOne,        \* holds no lock
    Units,        \* what a request may bring
    Windows,      \* the <<started_on, ended_on>> of requests
    NoWindow,     \* a request without them
    Hours,        \* hours of a day
    NoRow,        \* GeckoHourlySteps has no row for the hour
    NoKey,        \* Redis has no such key
    MaxClock,     \* bound: hours that pass
    MaxLogs,      \* bound: live sessions of the player
    MaxCalls      \* bound: requests

ASSUME HoursAssumption == Hours \in Nat \ {0}
ASSUME UnitsAssumption == Units \subseteq Nat
ASSUME WindowsAssumption ==
    /\ Windows \subseteq Nat \X Nat
    /\ NoWindow \notin Windows
ASSUME NamesAssumption ==
    /\ Solo \notin Friends
    /\ Totals \notin Friends
    /\ NoOne \notin Requests
    /\ NoRow \notin [units : Nat, since : Nat]
    /\ NoKey \notin Nat

VARIABLES
    clock,      \* the hour it is, counted from the first
    gecko,      \* [Friends -> the totals of GeckoData]
    lifetime,   \* UserLifetimeTotals
    hours,      \* [hour -> the bucket of GeckoHourlySteps]
    seedKey,    \* gecko_24h:{user_id}
    fill,       \* a load_24h_seed that has missed Redis
    sessions,   \* GeckoCombinedSession, in the order of creation
    logs,       \* the friends of the player's live sessions; the last is current
    side,       \* [log -> the points of the player's UserFriendLiveSeshPoints row]
    lock,       \* [counter row -> the request that has updated it]
    job,        \* [Requests -> where the request is, and its local variables]
    calls       \* requests so far

VARIABLES
    walked,     \* history: per session, the units of the requests it took in
    thisHour,   \* history: units of the requests counted in the present hour
    seedBy      \* history: who wrote seedKey last

counterVars == <<gecko, lifetime, sessions, side, walked>>
bucketVars == <<hours, seedKey, seedBy, thisHour>>
vars == <<clock, counterVars, bucketVars, fill, logs, lock, job, calls>>

HourNos == 0..(Hours - 1)
Hour(t) == t % Hours
Bucket == [units : Nat, since : Nat]       \* since is updated_at
Session == [friend : Friends \cup {Solo}, from : Nat, until : Nat, steps : Nat, log : Nat]
Steps == {"idle", "friend", "totals", "bucket", "session", "accrue", "commit"}
Job == [pc : Steps,
        friend : Friends \cup {Solo},
        units : Nat,
        window : Windows \cup {NoWindow},
        at : Nat,                             \* the hour of its bucket
        bucket : Bucket \cup {NoRow},         \* the bucket as updated
        session : Nat,                        \* the session found, 0 for a new one
        found : Nat,                          \* the steps it had
        tag : Nat,                            \* the log of a new session
        log : Nat]                            \* the log whose side row accrues
Idle == [pc |-> "idle", friend |-> Solo, units |-> 0,
         window |-> NoWindow, at |-> 0, bucket |-> NoRow, session |-> 0, found |-> 0,
         tag |-> 0, log |-> 0]

\* Sum('steps') over the user's buckets
Sum24(h) == SumFunction([x \in HourNos |-> IF h[x] = NoRow THEN 0 ELSE h[x].units])

Init ==
    /\ clock = 0
    /\ gecko = [f \in Friends |-> 0] /\ lifetime = 0
    /\ sessions = <<>> /\ walked = <<>>
    /\ hours = [h \in HourNos |-> NoRow]
    /\ seedKey = NoKey /\ seedBy = "none" /\ thisHour = 0
    /\ fill = [pc |-> "idle", sum |-> 0]
    /\ logs = <<>> /\ side = <<>>
    /\ lock = [r \in Friends \cup {Totals} |-> NoOne]
    /\ job = [w \in Requests |-> Idle]
    /\ calls = 0

-----------------------------------------------------------------------------
(* The way of a request through process_gecko_data: steps that have nothing to do are
   left out. *)

AccrueOrCommit(n, f) == IF n > 0 /\ f # Solo THEN "accrue" ELSE "commit"
SessionOrLater(n, f, win) == IF win # NoWindow THEN "session" ELSE AccrueOrCommit(n, f)
BucketOrLater(n, f, win) == IF n > 0 THEN "bucket" ELSE SessionOrLater(n, f, win)

\* The lifetime's totals count the duration, too.
Lasts(win) == win # NoWindow /\ win[1] # win[2]
TotalsOrLater(n, f, win) ==
    IF n > 0 \/ Lasts(win) THEN "totals" ELSE SessionOrLater(n, f, win)
FriendOrLater(n, f, win) == IF f # Solo THEN "friend" ELSE TotalsOrLater(n, f, win)

\* It has put its units into a bucket that is not committed.
Counting(j) == j.units > 0 /\ j.pc \in {"session", "accrue", "commit"}

-----------------------------------------------------------------------------
(* process_gecko_data *)

\* update_gecko_data and request_points come from the relay only if they bring something,
\* with the friend or without; the PATCH of a friend's data may bring nothing.
Record(w, f, n, win) ==
    /\ job[w].pc = "idle"
    /\ calls < MaxCalls
    /\ n > 0 \/ f # Solo
    /\ calls' = calls + 1
    /\ job' = [job EXCEPT ![w] =
                 [Idle EXCEPT !.pc = FriendOrLater(n, f, win), !.friend = f,
                              !.units = n, !.window = win]]
    /\ UNCHANGED <<clock, counterVars, bucketVars, fill, logs, lock>>

Take(w, r) == lock[r] = NoOne /\ lock' = [lock EXCEPT ![r] = w]

LockFriend(w) ==
    /\ job[w].pc = "friend"
    /\ Take(w, job[w].friend)
    /\ job' = [job EXCEPT ![w].pc = TotalsOrLater(job[w].units, job[w].friend, job[w].window)]
    /\ UNCHANGED <<clock, counterVars, bucketVars, fill, logs, calls>>

\* (mutant) the totals are added to without an UPDATE that locks the row
NoLockTotals(w) ==
    /\ job[w].pc = "totals"
    /\ job' = [job EXCEPT ![w].pc = BucketOrLater(job[w].units, job[w].friend, job[w].window)]
    /\ UNCHANGED <<clock, counterVars, bucketVars, fill, logs, lock, calls>>

LockTotals(w) ==
    /\ job[w].pc = "totals"
    /\ Take(w, Totals)
    /\ job' = [job EXCEPT ![w].pc = BucketOrLater(job[w].units, job[w].friend, job[w].window)]
    /\ UNCHANGED <<clock, counterVars, bucketVars, fill, logs, calls>>

\* update_hourly_steps on the bucket b: .update() leaves updated_at alone.
Counted(b, n) ==
    IF b = NoRow THEN [units |-> n, since |-> clock]
    ELSE [b EXCEPT !.units = IF b.since # clock THEN n ELSE @ + n]

\* (mutant) the sum is taken before the bucket is updated
SumBefore(b) == Sum24(hours)

\* The sum with the bucket b, which the transaction sees and nobody has committed
SumWith(b) == Sum24([hours EXCEPT ![Hour(clock)] = b])

Count(w) ==
    /\ job[w].pc = "bucket"
    /\ LET b == Counted(hours[Hour(clock)], job[w].units) IN
       /\ seedKey' = SumWith(b)
       /\ job' = [job EXCEPT ![w].pc = SessionOrLater(job[w].units, job[w].friend, job[w].window),
                             ![w].at = clock, ![w].bucket = b]
    /\ seedBy' = "update"
    /\ UNCHANGED <<clock, counterVars, hours, thisHour, fill, logs, lock, calls>>

\* The sessions with the friend that are under way at started_on, the last begun first
UnderWay(f, t) ==
    {i \in 1..Len(sessions) : /\ sessions[i].friend = f
                              /\ sessions[i].from <= t /\ t <= sessions[i].until}
LastBegun(S) == {i \in S : \A k \in S : sessions[k].from <= sessions[i].from}

FindSession(w) ==
    /\ job[w].pc = "session"
    /\ LET j == job[w]
           S == UnderWay(j.friend, j.window[1])
           next == [j EXCEPT !.pc = AccrueOrCommit(j.units, j.friend)]
       IN IF S # {}
          THEN \E i \in LastBegun(S) :
                  job' = [job EXCEPT ![w] =
                            [next EXCEPT !.session = i, !.found = sessions[i].steps]]
          ELSE job' = [job EXCEPT ![w] =
                         [next EXCEPT !.tag = IF j.friend = Solo THEN 0 ELSE Len(logs)]]
    /\ UNCHANGED <<clock, counterVars, bucketVars, fill, logs, lock, calls>>

\* (mutant) the log that comes next
LogAfter(f) == IF logs # <<>> /\ logs[Len(logs)] = f THEN Len(logs) + 1 ELSE 0

\* (mutant) whoever the live session is with
LogWithAnybody(f) == Len(logs)

\* The player's log, if the live session is with the friend of the request
LogWith(f) == IF logs # <<>> /\ logs[Len(logs)] = f THEN Len(logs) ELSE 0

Accrue(w) ==
    /\ job[w].pc = "accrue"
    /\ job' = [job EXCEPT ![w].pc = "commit", ![w].log = LogWith(job[w].friend)]
    /\ UNCHANGED <<clock, counterVars, bucketVars, fill, logs, lock, calls>>

Released(w) == [r \in DOMAIN lock |-> IF lock[r] = w THEN NoOne ELSE lock[r]]

CommitCounters(j) ==
    /\ gecko' = [f \in Friends |-> IF f = j.friend THEN gecko[f] + j.units ELSE gecko[f]]
    /\ lifetime' = lifetime + j.units
    /\ side' = [l \in 1..Len(side) |-> IF l = j.log THEN side[l] + j.units ELSE side[l]]

CommitSession(j) ==
    IF j.window = NoWindow THEN UNCHANGED <<sessions, walked>>
    ELSE IF j.session = 0
    THEN /\ sessions' = Append(sessions, [friend |-> j.friend, from |-> j.window[1],
                                          until |-> j.window[2], steps |-> j.units,
                                          log |-> j.tag])
         /\ walked' = Append(walked, j.units)
    ELSE /\ sessions' = [sessions EXCEPT ![j.session].until = j.window[2],
                                         ![j.session].steps = j.found + j.units]
         /\ walked' = [walked EXCEPT ![j.session] = @ + j.units]

CommitBucket(j) ==
    /\ hours' = IF j.units > 0 THEN [hours EXCEPT ![Hour(j.at)] = j.bucket] ELSE hours
    /\ thisHour' = IF j.at = clock THEN thisHour + j.units ELSE thisHour
    /\ UNCHANGED <<seedKey, seedBy>>

Commit(w) ==
    /\ job[w].pc = "commit"
    /\ CommitCounters(job[w])
    /\ CommitSession(job[w])
    /\ CommitBucket(job[w])
    /\ lock' = Released(w)
    /\ job' = [job EXCEPT ![w] = Idle]
    /\ UNCHANGED <<clock, fill, logs, calls>>

\* An exception, or the end of the worker.  The transaction is rolled back, what it has
\* told Redis is not.
Fail(w) ==
    /\ job[w].pc # "idle"
    /\ lock' = Released(w)
    /\ seedBy' = IF Counting(job[w]) /\ seedBy = "update" THEN "rolledback" ELSE seedBy
    /\ job' = [job EXCEPT ![w] = Idle]
    /\ UNCHANGED <<clock, counterVars, hours, seedKey, thisHour, fill, logs, calls>>

-----------------------------------------------------------------------------
(* The seed on a cold cache, and what time does *)

SeedMiss ==
    /\ fill.pc = "idle"
    /\ seedKey = NoKey
    /\ fill' = [pc |-> "write", sum |-> Sum24(hours)]
    /\ UNCHANGED <<clock, counterVars, bucketVars, logs, lock, job, calls>>

SeedFill ==
    /\ fill.pc = "write"
    /\ seedKey' = fill.sum
    /\ seedBy' = "fill"
    /\ fill' = [pc |-> "idle", sum |-> 0]
    /\ UNCHANGED <<clock, counterVars, hours, thisHour, logs, lock, job, calls>>

SeedExpires ==
    /\ seedKey # NoKey
    /\ seedKey' = NoKey
    /\ seedBy' = "none"
    /\ UNCHANGED <<clock, counterVars, hours, thisHour, fill, logs, lock, job, calls>>

\* An hour passes.  A transaction does not last for two.
Tick ==
    /\ clock < MaxClock
    /\ \A w \in Requests : Counting(job[w]) => job[w].at = clock
    /\ clock' = clock + 1
    /\ thisHour' = 0
    /\ UNCHANGED <<counterVars, hours, seedKey, seedBy, fill, logs, lock, job, calls>>

\* The player accepts, or has accepted, an invite of f: accept_live_sesh_invite replaces
\* current_log and friend of the player's row.
NewLiveSesh(f) ==
    /\ Len(logs) < MaxLogs
    /\ logs' = Append(logs, f)
    /\ side' = Append(side, 0)
    /\ UNCHANGED <<clock, gecko, lifetime, sessions, walked, bucketVars,
                   fill, lock, job, calls>>

-----------------------------------------------------------------------------
RecordStep(w) ==
    \/ \E f \in Friends \cup {Solo}, n \in Units, win \in Windows \cup {NoWindow} :
          Record(w, f, n, win)
    \/ LockFriend(w) \/ LockTotals(w) \/ Count(w) \/ FindSession(w) \/ Accrue(w)
    \/ Commit(w) \/ Fail(w)

Elsewhere ==
    \/ SeedMiss \/ SeedFill \/ SeedExpires \/ Tick
    \/ \E f \in Friends : NewLiveSesh(f)

Next == (\E w \in Requests : RecordStep(w)) \/ Elsewhere

Spec == Init /\ [][Next]_vars

-----------------------------------------------------------------------------
(* Properties *)

CountersOK ==
    /\ clock \in Nat /\ thisHour \in Nat /\ calls \in Nat /\ lifetime \in Nat
    /\ gecko \in [Friends -> Nat]
    /\ hours \in [HourNos -> Bucket \cup {NoRow}]
    /\ sessions \in Seq(Session)
    /\ walked \in Seq(Nat) /\ Len(walked) = Len(sessions)
    /\ logs \in Seq(Friends)
    /\ side \in Seq(Nat) /\ Len(side) = Len(logs)

\* Every row is of its type; the sum in Redis is left to SeedIsSum.
DTypeOK ==
    /\ CountersOK
    /\ seedBy \in {"none", "update", "fill", "rolledback"}
    /\ lock \in [Friends \cup {Totals} -> Requests \cup {NoOne}]
    /\ job \in [Requests -> Job]
    /\ \A w \in Requests : job[w].session \in 0..Len(sessions) /\ job[w].log \in 0..Len(logs)

\* A combined session has the steps of every request that it took in, though each reads
\* it, adds to it in Python and saves the whole of it (gecko_helpers.py:420-437): the
\* counters a request has updated before keep the others out.
SessionsKeepSteps == \A i \in 1..Len(sessions) : sessions[i].steps = walked[i]

\* What a player's sides of the scoreboards of the live sessions with a friend say is no
\* more than what the player's GeckoData says of the friend ("Only accrue to the shared
\* scoreboard when the FE-attributed friend IS the sesh's friend", gecko_helpers.py:487).
ScoreboardWithinFriend ==
    \A f \in Friends : SumFunctionOnSet(side, {l \in 1..Len(side) : logs[l] = f}) <= gecko[f]

\* Redis has the sum of the buckets as committed whenever an update wrote it last and no
\* request has one in hand, though each writes it before it commits
\* (gecko_helpers.py:269-277).  What fails after that, and what fills a cold cache, may
\* leave another sum.
SeedIsSum ==
    seedBy = "update" /\ (\A w \in Requests : ~Counting(job[w])) => seedKey = Sum24(hours)

\* The bucket of the present hour has what was counted in it: it "Resets a bucket when its
\* updated_at is older than 1 hour ago, otherwise increments" (gecko_helpers.py:236-237).
HourCounts ==
    thisHour > 0 => /\ hours[Hour(clock)] # NoRow
                    /\ hours[Hour(clock)].units = thisHour
=============================================================================
