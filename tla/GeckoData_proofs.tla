-------------------------- MODULE GeckoData_proofs --------------------------
(* What is proved about GeckoData, for any number of requests, friends, windows, hours and
   live sessions: the types, that the combined sessions lose no steps, that the seed in
   Redis is the sum of the buckets, and that the scoreboards stay within the counters. *)
EXTENDS GeckoData, FiniteSetTheorems, NaturalsInduction, WellFoundedInduction, TLAPS

(***************************************************************************)
(* Where a request goes next                                               *)
(***************************************************************************)

LEMMA Ways ==
  ASSUME NEW n, NEW f, NEW win
  PROVE  /\ AccrueOrCommit(n, f) \in {"accrue", "commit"}
         /\ SessionOrLater(n, f, win) \in {"session", "accrue", "commit"}
         /\ BucketOrLater(n, f, win) \in {"bucket", "session", "accrue", "commit"}
         /\ TotalsOrLater(n, f, win) \in {"totals", "session", "accrue", "commit"}
         /\ FriendOrLater(n, f, win) \in {"friend", "totals", "session", "accrue", "commit"}
  BY DEF AccrueOrCommit, SessionOrLater, BucketOrLater, TotalsOrLater, FriendOrLater

\* A request that has not updated the friend's row has none to update; one that has not
\* updated the totals brings nothing for them.
LEMMA Locking ==
  ASSUME NEW n, NEW f, NEW win
  PROVE  /\ FriendOrLater(n, f, win) # "friend" => f = Solo
         /\ TotalsOrLater(n, f, win) # "totals" => ~(n > 0)
         /\ FriendOrLater(n, f, win) \notin {"friend", "totals"} => ~(n > 0)
  BY DEF FriendOrLater, TotalsOrLater, SessionOrLater, AccrueOrCommit

LEMMA IdleType == Idle \in Job
  BY NamesAssumption DEF Idle, Job, Steps

LEMMA HourType == ASSUME NEW t \in Nat PROVE Hour(t) \in HourNos
  BY HoursAssumption DEF Hour, HourNos

(***************************************************************************)
(* Types                                                                   *)
(***************************************************************************)

JobsOK == job \in [Requests -> Job]
LocksOK == lock \in [Friends \cup {Totals} -> Requests \cup {NoOne}]

LEMMA InitTypes == Init => DTypeOK
  BY IdleType DEF Init, DTypeOK, CountersOK, HourNos, Idle

\* The job of one request is replaced.
LEMMA JobStep ==
  ASSUME JobsOK, NEW w \in Requests, NEW j \in Job, job' = [job EXCEPT ![w] = j]
  PROVE  JobsOK'
  BY DEF JobsOK

\* The bucket a request has updated is one.
LEMMA CountedType ==
  ASSUME CountersOK, NEW n \in Nat, NEW b \in Bucket \cup {NoRow}
  PROVE  Counted(b, n) \in Bucket
<1>1. CASE b = NoRow
  BY <1>1 DEF Counted, Bucket, CountersOK
<1>2. CASE b # NoRow
  <2>1. b.units \in Nat /\ b.units + n \in Nat /\ b \in Bucket
    BY <1>2 DEF Bucket
  <2>2. Counted(b, n) = [b EXCEPT !.units = IF b.since # clock THEN n ELSE b.units + n]
    BY <1>2 DEF Counted
  <2>3. QED
    BY <2>1, <2>2 DEF Bucket
<1>3. QED
  BY <1>1, <1>2

LEMMA JobsNext ==
  ASSUME DTypeOK, [Next]_vars
  PROVE  JobsOK'
<1>1. JobsOK
  BY DEF DTypeOK, JobsOK
<1>2. ASSUME NEW w \in Requests, NEW f \in Friends \cup {Solo}, NEW n \in Units,
             NEW win \in Windows \cup {NoWindow}, Record(w, f, n, win)
      PROVE  JobsOK'
  <2> DEFINE pc == FriendOrLater(n, f, win)
             j == [Idle EXCEPT !.pc = pc, !.friend = f, !.units = n, !.window = win]
  <2>1. pc \in Steps /\ n \in Nat
    BY Ways, UnitsAssumption DEF Steps
  <2>2. job' = [job EXCEPT ![w] = j]
    BY <1>2 DEF Record
  <2> HIDE DEF pc
  <2>3. j \in Job
    BY <2>1, IdleType DEF Job
  <2> HIDE DEF j
  <2>4. QED
    BY <1>1, <2>2, <2>3, JobStep
<1>3. ASSUME NEW w \in Requests, LockFriend(w)
      PROVE  JobsOK'
  <2>1. TotalsOrLater(job[w].units, job[w].friend, job[w].window) \in Steps
    BY Ways DEF Steps
  <2>2. QED
    BY <1>1, <1>3, <2>1 DEF LockFriend, JobsOK, Job
<1>4. ASSUME NEW w \in Requests, LockTotals(w)
      PROVE  JobsOK'
  <2>1. BucketOrLater(job[w].units, job[w].friend, job[w].window) \in Steps
    BY Ways DEF Steps
  <2>2. QED
    BY <1>1, <1>4, <2>1 DEF LockTotals, JobsOK, Job
<1>5. ASSUME NEW w \in Requests, Count(w)
      PROVE  JobsOK'
  <2> DEFINE b == Counted(hours[Hour(clock)], job[w].units)
             pc == SessionOrLater(job[w].units, job[w].friend, job[w].window)
  <2>1. pc \in Steps
    BY Ways DEF Steps
  <2>2. clock \in Nat /\ hours[Hour(clock)] \in Bucket \cup {NoRow} /\ job[w].units \in Nat
    BY HourType DEF DTypeOK, CountersOK, Job
  <2>3. b \in Bucket
    BY <2>2, CountedType DEF DTypeOK
  <2>4. job' = [job EXCEPT ![w].pc = pc, ![w].at = clock, ![w].bucket = b]
    BY <1>5 DEF Count
  <2> DEFINE j == [job[w] EXCEPT !.pc = pc, !.at = clock, !.bucket = b]
  <2> HIDE DEF b, pc
  <2>5. j \in Job
    BY <1>1, <2>1, <2>2, <2>3 DEF JobsOK, Job
  <2>6. job' = [job EXCEPT ![w] = j]
    BY <1>1, <2>4 DEF JobsOK
  <2> HIDE DEF j
  <2>7. QED
    BY <1>1, <2>5, <2>6, JobStep
<1>6. ASSUME NEW w \in Requests, FindSession(w)
      PROVE  JobsOK'
  <2> DEFINE pc == AccrueOrCommit(job[w].units, job[w].friend)
             next == [job[w] EXCEPT !.pc = pc]
             S == UnderWay(job[w].friend, job[w].window[1])
  <2>1. pc \in Steps
    BY Ways DEF Steps
  <2>2. next \in Job
    <3> HIDE DEF pc
    <3>1. QED
      BY <1>1, <2>1 DEF JobsOK, Job
  <2>3. CASE S # {}
    <3>1. PICK i \in LastBegun(S) :
             job' = [job EXCEPT ![w] = [next EXCEPT !.session = i, !.found = sessions[i].steps]]
      BY <1>6, <2>3 DEF FindSession
    <3>2. i \in 1..Len(sessions)
      BY <3>1 DEF LastBegun, UnderWay
    <3>3. sessions[i] \in Session
      BY <3>2 DEF DTypeOK, CountersOK
    <3>4. i \in Nat /\ sessions[i].steps \in Nat
      BY <3>2, <3>3, SMTT(30) DEF DTypeOK, CountersOK, Session
    <3> HIDE DEF next
    <3>5. [next EXCEPT !.session = i, !.found = sessions[i].steps] \in Job
      BY <2>2, <3>4 DEF Job
    <3>6. QED
      BY <1>1, <3>1, <3>5, JobStep
  <2>4. CASE S = {}
    <3> DEFINE tag == IF job[w].friend = Solo THEN 0 ELSE Len(logs)
    <3>1. job' = [job EXCEPT ![w] = [next EXCEPT !.tag = tag]]
      BY <1>6, <2>4 DEF FindSession
    <3>2. tag \in Nat
      BY DEF DTypeOK, CountersOK
    <3> HIDE DEF next, tag
    <3>3. [next EXCEPT !.tag = tag] \in Job
      BY <2>2, <3>2 DEF Job
    <3>4. QED
      BY <1>1, <3>1, <3>3, JobStep
  <2>5. QED
    BY <2>3, <2>4
<1>7. ASSUME NEW w \in Requests, Accrue(w)
      PROVE  JobsOK'
  <2>1. LogWith(job[w].friend) \in Nat
    BY DEF LogWith, DTypeOK, CountersOK
  <2> DEFINE j == [job[w] EXCEPT !.pc = "commit", !.log = LogWith(job[w].friend)]
  <2>2. j \in Job
    BY <1>1, <2>1 DEF JobsOK, Job, Steps
  <2>3. job' = [job EXCEPT ![w] = j]
    BY <1>1, <1>7 DEF Accrue, JobsOK
  <2> HIDE DEF j
  <2>4. QED
    BY <1>1, <2>2, <2>3, JobStep
<1>8. ASSUME NEW w \in Requests, Commit(w) \/ Fail(w)
      PROVE  JobsOK'
  BY <1>1, <1>8, JobStep, IdleType DEF Commit, Fail
<1>9. ASSUME UNCHANGED job
      PROVE  JobsOK'
  BY <1>1, <1>9 DEF JobsOK
<1>10. QED
  BY <1>2, <1>3, <1>4, <1>5, <1>6, <1>7, <1>8, <1>9 DEF Next, RecordStep, Elsewhere, vars,
     SeedMiss, SeedFill, SeedExpires, Tick, NewLiveSesh

LEMMA LocksNext ==
  ASSUME DTypeOK, [Next]_vars
  PROVE  LocksOK'
<1>1. LocksOK
  BY DEF DTypeOK, LocksOK
<1>2. ASSUME NEW w \in Requests, NEW r, Take(w, r)
      PROVE  LocksOK'
  BY <1>1, <1>2 DEF Take, LocksOK
<1>3. ASSUME NEW w \in Requests, lock' = Released(w)
      PROVE  LocksOK'
  BY <1>1, <1>3 DEF Released, LocksOK
<1>4. ASSUME UNCHANGED lock
      PROVE  LocksOK'
  BY <1>1, <1>4 DEF LocksOK
<1>5. QED
  BY <1>2, <1>3, <1>4 DEF Next, RecordStep, Elsewhere, vars, Record, LockFriend, LockTotals,
     Count, FindSession, Accrue, Commit, Fail, SeedMiss, SeedFill, SeedExpires, Tick,
     NewLiveSesh

LEMMA JobFacts ==
  ASSUME DTypeOK, NEW w \in Requests
  PROVE  /\ job[w] \in Job
         /\ job[w].units \in Nat /\ job[w].found \in Nat /\ job[w].tag \in Nat
         /\ job[w].at \in Nat
         /\ job[w].friend \in Friends \cup {Solo}
         /\ job[w].bucket \in Bucket \cup {NoRow}
         /\ job[w].window # NoWindow => job[w].window[1] \in Nat /\ job[w].window[2] \in Nat
         /\ job[w].session \in 0..Len(sessions)
  BY WindowsAssumption DEF DTypeOK, Job

\* What a commit does to the sessions
LEMMA CommitSessionTypes ==
  ASSUME DTypeOK, NEW w \in Requests, CommitSession(job[w])
  PROVE  /\ sessions' \in Seq(Session) /\ walked' \in Seq(Nat)
         /\ Len(walked') = Len(sessions') /\ Len(sessions) <= Len(sessions')
<1> DEFINE j == job[w]
<1>1. /\ sessions \in Seq(Session) /\ walked \in Seq(Nat) /\ Len(walked) = Len(sessions)
      /\ Len(sessions) \in Nat
  BY DEF DTypeOK, CountersOK
<1>2. CASE j.window = NoWindow
  BY <1>1, <1>2 DEF CommitSession
<1>3. CASE j.window # NoWindow /\ j.session = 0
  <2> DEFINE s == [friend |-> j.friend, from |-> j.window[1], until |-> j.window[2],
                   steps |-> j.units, log |-> j.tag]
  <2>1. s \in Session
    BY <1>3, JobFacts DEF Session
  <2>2. sessions' = Append(sessions, s) /\ walked' = Append(walked, j.units)
    BY <1>3 DEF CommitSession
  <2> HIDE DEF s
  <2>3. QED
    BY <1>1, <2>1, <2>2, JobFacts
<1>4. CASE j.window # NoWindow /\ j.session # 0
  <2> DEFINE i == j.session
  <2>1. i \in 1..Len(sessions)
    BY <1>1, <1>4, JobFacts
  <2>2. sessions' = [sessions EXCEPT ![i].until = j.window[2], ![i].steps = j.found + j.units]
    BY <1>4 DEF CommitSession
  <2>3. walked' = [walked EXCEPT ![i] = @ + j.units]
    BY <1>4 DEF CommitSession
  <2>4. sessions[i] \in Session /\ walked[i] \in Nat
    BY <1>1, <2>1
  <2> DEFINE s == [sessions[i] EXCEPT !.until = j.window[2], !.steps = j.found + j.units]
  <2>5. j.window[2] \in Nat /\ j.found + j.units \in Nat /\ walked[i] + j.units \in Nat
    BY <1>4, <2>4, JobFacts, SMTT(30)
  <2>6. s \in Session
    BY <2>4, <2>5 DEF Session
  <2>7. sessions' = [sessions EXCEPT ![i] = s]
    BY <1>1, <2>1, <2>2
  <2> HIDE DEF s, i
  <2>8. sessions' \in Seq(Session) /\ Len(sessions') = Len(sessions)
    BY <1>1, <2>1, <2>6, <2>7
  <2>9. walked' \in Seq(Nat) /\ Len(walked') = Len(walked)
    BY <1>1, <2>1, <2>3, <2>5
  <2>10. QED
    BY <1>1, <2>8, <2>9
<1>5. QED
  BY <1>2, <1>3, <1>4

LEMMA CommitCounterTypes ==
  ASSUME DTypeOK, NEW w \in Requests, CommitCounters(job[w])
  PROVE  /\ gecko' \in [Friends -> Nat] /\ lifetime' \in Nat
         /\ side' \in Seq(Nat) /\ Len(side') = Len(side)
<1> DEFINE n == job[w].units
<1>1. n \in Nat
  BY JobFacts
<1>2. gecko \in [Friends -> Nat] /\ lifetime \in Nat /\ side \in Seq(Nat) /\ Len(side) \in Nat
  BY DEF DTypeOK, CountersOK
<1>3. gecko' \in [Friends -> Nat] /\ lifetime' \in Nat
  BY <1>1, <1>2 DEF CommitCounters
<1>4. side' = [l \in 1..Len(side) |-> IF l = job[w].log THEN side[l] + n ELSE side[l]]
  BY DEF CommitCounters
<1>5. \A l \in 1..Len(side) : side[l] \in Nat
  BY <1>2
<1> HIDE DEF n
<1>6. side' \in [1..Len(side) -> Nat]
  BY <1>1, <1>4, <1>5
<1>7. side' \in Seq(Nat)
  BY <1>2, <1>6
<1>8. Len(side') = Len(side)
  BY <1>2, <1>4, <1>7
<1>9. QED
  BY <1>3, <1>7, <1>8

LEMMA CommitBucketTypes ==
  ASSUME DTypeOK, NEW w \in Requests, CommitBucket(job[w])
  PROVE  hours' \in [HourNos -> Bucket \cup {NoRow}] /\ thisHour' \in Nat
<1>1. job[w].units \in Nat /\ job[w].bucket \in Bucket \cup {NoRow}
  BY JobFacts
<1>2. hours \in [HourNos -> Bucket \cup {NoRow}] /\ thisHour \in Nat
  BY DEF DTypeOK, CountersOK
<1>3. hours' \in [HourNos -> Bucket \cup {NoRow}]
  <2>1. hours' = hours \/ hours' = [hours EXCEPT ![Hour(job[w].at)] = job[w].bucket]
    BY DEF CommitBucket
  <2>2. QED
    BY <1>1, <1>2, <2>1
<1>4. thisHour' \in Nat
  BY <1>1, <1>2 DEF CommitBucket
<1>5. QED
  BY <1>3, <1>4

LEMMA CountersNext ==
  ASSUME DTypeOK, [Next]_vars
  PROVE  CountersOK' /\ Len(sessions) <= Len(sessions') /\ Len(logs) <= Len(logs')
<1> DEFINE P == CountersOK' /\ Len(sessions) <= Len(sessions') /\ Len(logs) <= Len(logs')
<1>1. CountersOK /\ Len(sessions) \in Nat /\ Len(logs) \in Nat
  BY DEF DTypeOK, CountersOK
<1>2. ASSUME UNCHANGED <<clock, counterVars, hours, thisHour, logs, calls>>
      PROVE  P
  BY <1>1, <1>2 DEF CountersOK, counterVars
<1>3. ASSUME NEW w \in Requests, NEW f, NEW n, NEW win, Record(w, f, n, win)
      PROVE  P
  <2>1. calls' \in Nat /\ UNCHANGED <<clock, counterVars, hours, thisHour, logs>>
    BY <1>1, <1>3 DEF Record, CountersOK, bucketVars
  <2>2. QED
    BY <1>1, <2>1 DEF CountersOK, counterVars
<1>4. ASSUME NEW w \in Requests, Commit(w)
      PROVE  P
  <2>1. UNCHANGED <<clock, logs, calls>>
    BY <1>4 DEF Commit
  <2>2. CommitCounters(job[w]) /\ CommitSession(job[w]) /\ CommitBucket(job[w])
    BY <1>4 DEF Commit
  <2>3. /\ sessions' \in Seq(Session) /\ walked' \in Seq(Nat)
        /\ Len(walked') = Len(sessions') /\ Len(sessions) <= Len(sessions')
    BY <2>2, CommitSessionTypes
  <2>4. /\ gecko' \in [Friends -> Nat] /\ lifetime' \in Nat
        /\ side' \in Seq(Nat) /\ Len(side') = Len(side)
    BY <2>2, CommitCounterTypes
  <2>5. hours' \in [HourNos -> Bucket \cup {NoRow}] /\ thisHour' \in Nat
    BY <2>2, CommitBucketTypes
  <2>6. QED
    BY <1>1, <2>1, <2>3, <2>4, <2>5 DEF CountersOK
<1>5. ASSUME Tick
      PROVE  P
  BY <1>1, <1>5 DEF Tick, CountersOK, counterVars
<1>6. ASSUME NEW f \in Friends, NewLiveSesh(f)
      PROVE  P
  <2>1. logs \in Seq(Friends) /\ side \in Seq(Nat) /\ Len(side) = Len(logs)
    BY <1>1 DEF CountersOK
  <2>2. logs' = Append(logs, f) /\ side' = Append(side, 0)
    BY <1>6 DEF NewLiveSesh
  <2>3. /\ logs' \in Seq(Friends) /\ side' \in Seq(Nat) /\ Len(side') = Len(logs')
        /\ Len(logs) <= Len(logs')
    BY <2>1, <2>2
  <2>4. UNCHANGED <<clock, gecko, lifetime, sessions, walked, hours, thisHour, calls>>
    BY <1>6 DEF NewLiveSesh, bucketVars
  <2>5. QED
    BY <1>1, <2>3, <2>4 DEF CountersOK
<1>7. ASSUME NEW w \in Requests,
             LockFriend(w) \/ LockTotals(w) \/ Count(w) \/ FindSession(w) \/ Accrue(w) \/ Fail(w)
      PROVE  UNCHANGED <<clock, counterVars, hours, thisHour, logs, calls>>
  BY <1>7 DEF LockFriend, LockTotals, Count, FindSession, Accrue, Fail, bucketVars
<1>8. ASSUME SeedMiss \/ SeedFill \/ SeedExpires \/ UNCHANGED vars
      PROVE  UNCHANGED <<clock, counterVars, hours, thisHour, logs, calls>>
  BY <1>8 DEF SeedMiss, SeedFill, SeedExpires, vars, bucketVars
<1> HIDE DEF P
<1>9. P
  BY <1>2, <1>3, <1>4, <1>5, <1>6, <1>7, <1>8 DEF Next, RecordStep, Elsewhere
<1>10. QED
  BY <1>9 DEF P

\* What a request points to exists.
LEMMA PointersNext ==
  ASSUME DTypeOK, [Next]_vars,
         Len(sessions) <= Len(sessions'), Len(sessions') \in Nat,
         Len(logs) <= Len(logs'), Len(logs') \in Nat,
         NEW v \in Requests
  PROVE  job'[v].session \in 0..Len(sessions') /\ job'[v].log \in 0..Len(logs')
<1> DEFINE P == job'[v].session \in 0..Len(sessions') /\ job'[v].log \in 0..Len(logs')
<1>1. /\ job[v].session \in 0..Len(sessions) /\ job[v].log \in 0..Len(logs)
      /\ job \in [Requests -> Job] /\ Len(sessions) \in Nat /\ Len(logs) \in Nat
  BY DEF DTypeOK, CountersOK
<1>2. ASSUME job'[v].session = job[v].session, job'[v].log = job[v].log
      PROVE  P
  BY <1>1, <1>2
<1>3. ASSUME job'[v].session = 0, job'[v].log = 0
      PROVE  P
  BY <1>3
<1>4. ASSUME NEW w \in Requests, NEW f, NEW n, NEW win, Record(w, f, n, win)
      PROVE  P
  <2>1. CASE v = w
    <3>1. job'[v].session = 0 /\ job'[v].log = 0
      BY <1>1, <1>4, <2>1 DEF Record, Idle
    <3>2. QED
      BY <1>3, <3>1
  <2>2. CASE v # w
    BY <1>1, <1>2, <1>4, <2>2 DEF Record
  <2>3. QED
    BY <2>1, <2>2
<1>5. ASSUME NEW w \in Requests, LockFriend(w) \/ LockTotals(w) \/ Count(w)
      PROVE  P
  <2>1. job'[v].session = job[v].session /\ job'[v].log = job[v].log
    <3>1. CASE LockFriend(w)
      BY <1>1, <3>1 DEF LockFriend, Job
    <3>2. CASE LockTotals(w)
      BY <1>1, <3>2 DEF LockTotals, Job
    <3>3. CASE Count(w)
      <4>1. PICK pc, b : job' = [job EXCEPT ![w] = [job[w] EXCEPT !.pc = pc, !.at = clock, !.bucket = b]]
        BY <1>1, <3>3 DEF Count
      <4>2. QED
        BY <1>1, <4>1 DEF Job
    <3>4. QED
      BY <1>5, <3>1, <3>2, <3>3
  <2>2. QED
    BY <1>2, <2>1
<1>6. ASSUME NEW w \in Requests, FindSession(w)
      PROVE  P
  <2> DEFINE S == UnderWay(job[w].friend, job[w].window[1])
  <2>1. job[v] \in Job /\ job[w] \in Job
    BY <1>1
  <2>2. CASE v = w /\ S # {}
    <3>1. PICK i \in LastBegun(S) : job'[w].session = i /\ job'[w].log = job[w].log
      <4> DEFINE pc == AccrueOrCommit(job[w].units, job[w].friend)
                 Found(i) == [[job[w] EXCEPT !.pc = pc]
                                 EXCEPT !.session = i, !.found = sessions[i].steps]
      <4>1. PICK i \in LastBegun(S) : job' = [job EXCEPT ![w] = Found(i)]
        BY <1>6, <2>2 DEF FindSession
      <4>2. Found(i).session = i /\ Found(i).log = job[w].log
        BY <2>1 DEF Job
      <4> HIDE DEF Found
      <4>3. job'[w] = Found(i)
        BY <1>1, <4>1
      <4>4. QED
        BY <4>1, <4>2, <4>3
    <3>2. i \in 1..Len(sessions)
      BY <3>1 DEF LastBegun, UnderWay
    <3>3. QED
      BY <1>1, <2>2, <3>1, <3>2
  <2>3. CASE v = w /\ S = {}
    <3>1. PICK pc, tag : job' = [job EXCEPT ![w] = [job[w] EXCEPT !.pc = pc, !.tag = tag]]
      BY <1>6, <2>1, <2>3 DEF FindSession, Job
    <3>2. job'[v].session = job[v].session /\ job'[v].log = job[v].log
      BY <1>1, <2>1, <2>3, <3>1 DEF Job
    <3>3. QED
      BY <1>2, <3>2
  <2>4. CASE v # w
    <3>1. \E j : job' = [job EXCEPT ![w] = j]
      BY <1>6 DEF FindSession
    <3>2. job'[v] = job[v]
      BY <1>1, <2>4, <3>1
    <3>3. QED
      BY <1>2, <3>2
  <2>5. QED
    BY <2>2, <2>3, <2>4
<1>7. ASSUME NEW w \in Requests, Accrue(w)
      PROVE  P
  <2>1. CASE v = w
    <3>1. job'[v].session = job[v].session /\ job'[v].log = LogWith(job[w].friend)
      BY <1>1, <1>7, <2>1 DEF Accrue, Job
    <3>2. LogWith(job[w].friend) \in 0..Len(logs)
      BY <1>1 DEF LogWith
    <3>3. QED
      BY <1>1, <3>1, <3>2
  <2>2. CASE v # w
    BY <1>1, <1>2, <1>7, <2>2 DEF Accrue
  <2>3. QED
    BY <2>1, <2>2
<1>8. ASSUME NEW w \in Requests, Commit(w) \/ Fail(w)
      PROVE  P
  <2>1. CASE v = w
    <3>1. job'[v].session = 0 /\ job'[v].log = 0
      BY <1>1, <1>8, <2>1 DEF Commit, Fail, Idle
    <3>2. QED
      BY <1>3, <3>1
  <2>2. CASE v # w
    BY <1>1, <1>2, <1>8, <2>2 DEF Commit, Fail
  <2>3. QED
    BY <2>1, <2>2
<1>9. ASSUME UNCHANGED job
      PROVE  P
  BY <1>2, <1>9
<1> HIDE DEF P
<1>10. P
  BY <1>4, <1>5, <1>6, <1>7, <1>8, <1>9 DEF Next, RecordStep, Elsewhere, vars,
     SeedMiss, SeedFill, SeedExpires, Tick, NewLiveSesh
<1>11. QED
  BY <1>10 DEF P

LEMMA TypesNext == DTypeOK /\ [Next]_vars => DTypeOK'
<1> SUFFICES ASSUME DTypeOK, [Next]_vars
             PROVE  DTypeOK'
  OBVIOUS
<1>1. CountersOK' /\ Len(sessions) <= Len(sessions') /\ Len(logs) <= Len(logs')
  BY CountersNext
<1>2. Len(sessions') \in Nat /\ Len(logs') \in Nat
  BY <1>1 DEF CountersOK
<1>3. \A v \in Requests : job'[v].session \in 0..Len(sessions') /\ job'[v].log \in 0..Len(logs')
  BY <1>1, <1>2, PointersNext
<1>4. seedBy' \in {"none", "update", "fill", "rolledback"}
  BY ZenonT(30) DEF Next, RecordStep, Elsewhere, vars, bucketVars, DTypeOK, Record, LockFriend,
     LockTotals, Count, FindSession, Accrue, Commit, CommitBucket, Fail, SeedMiss,
     SeedFill, SeedExpires, Tick, NewLiveSesh
<1>5. QED
  BY <1>1, <1>3, <1>4, JobsNext, LocksNext DEF DTypeOK, JobsOK, LocksOK

\* Every row, and what a request has read of it, is of its type
\* (models.py:679-704, 1235-1253; gecko_helpers.py:280-549).
THEOREM DTypeCorrect == Spec => []DTypeOK
  BY InitTypes, TypesNext, PTL DEF Spec

(***************************************************************************)
(* No steps are lost                                                       *)
(***************************************************************************)

Begun == {"totals", "bucket", "session", "accrue", "commit"}

\* A request that is past the update of a row holds its lock; without the friend's row it
\* has something to add to the totals.
HoldsRows ==
    \A w \in Requests :
        /\ job[w].pc \in Begun /\ job[w].friend # Solo => lock[job[w].friend] = w
        /\ job[w].pc \in Begun \ {"totals"} /\ job[w].units > 0 => lock[Totals] = w
        /\ job[w].pc # "idle" /\ job[w].friend = Solo => job[w].units > 0

\* The session a request has read is as it has read it.
ReadsStand ==
    \A w \in Requests :
        job[w].session # 0 =>
            /\ job[w].pc \in {"accrue", "commit"}
            /\ sessions[job[w].session].friend = job[w].friend
            /\ sessions[job[w].session].steps = job[w].found

DataInv == DTypeOK /\ HoldsRows /\ ReadsStand /\ SessionsKeepSteps

LEMMA DataInit == Init => DataInv
<1> SUFFICES ASSUME Init PROVE HoldsRows /\ ReadsStand /\ SessionsKeepSteps
  BY InitTypes DEF DataInv
<1>1. \A w \in Requests : job[w] = Idle
  BY DEF Init
<1>2. QED
  BY <1>1 DEF Init, Idle, HoldsRows, ReadsStand, SessionsKeepSteps, Begun

\* Of the requests for one friend, or for none, one at a time has read a session.
LEMMA OneAtATime ==
  ASSUME DTypeOK, HoldsRows, NEW v \in Requests, NEW w \in Requests,
         job[v].pc \in Begun \ {"totals"}, job[w].pc \in Begun \ {"totals"},
         job[v].friend = job[w].friend
  PROVE  v = w
  BY DEF HoldsRows, Begun

\* A request that looks for a session finds one of the friend's, or means to create one.
LEMMA Finding ==
  ASSUME DTypeOK, NEW w \in Requests, FindSession(w)
  PROVE  /\ job[w].pc = "session"
         /\ job'[w].pc \in {"accrue", "commit"}
         /\ job'[w].friend = job[w].friend /\ job'[w].units = job[w].units
         /\ \A v \in Requests \ {w} : job'[v] = job[v]
         /\ UNCHANGED <<sessions, walked, lock>>
         /\ \/ job'[w].session = job[w].session
            \/ \E i \in 1..Len(sessions) : /\ sessions[i].friend = job[w].friend
                                           /\ job'[w].session = i
                                           /\ job'[w].found = sessions[i].steps
<1> DEFINE pc == AccrueOrCommit(job[w].units, job[w].friend)
           next == [job[w] EXCEPT !.pc = pc]
           S == UnderWay(job[w].friend, job[w].window[1])
<1>1. job \in [Requests -> Job] /\ job[w] \in Job
  BY DEF DTypeOK
<1>2. pc \in {"accrue", "commit"}
  BY Ways
<1>3. job[w].pc = "session" /\ UNCHANGED <<sessions, walked, lock>>
  BY DEF FindSession, counterVars
<1>4. CASE S # {}
  <2>1. PICK i \in LastBegun(S) :
           job' = [job EXCEPT ![w] = [next EXCEPT !.session = i, !.found = sessions[i].steps]]
    BY <1>4 DEF FindSession
  <2>2. i \in 1..Len(sessions) /\ sessions[i].friend = job[w].friend
    BY <2>1 DEF LastBegun, UnderWay
  <2> HIDE DEF pc, S
  <2>3. /\ job'[w].pc = pc /\ job'[w].friend = job[w].friend /\ job'[w].units = job[w].units
        /\ job'[w].session = i /\ job'[w].found = sessions[i].steps
        /\ \A v \in Requests \ {w} : job'[v] = job[v]
    BY <1>1, <2>1 DEF Job
  <2>4. QED
    BY <1>2, <1>3, <2>2, <2>3
<1>5. CASE S = {}
  <2>1. PICK tag : job' = [job EXCEPT ![w] = [next EXCEPT !.tag = tag]]
    BY <1>5 DEF FindSession
  <2> HIDE DEF pc, S
  <2>2. /\ job'[w].pc = pc /\ job'[w].friend = job[w].friend /\ job'[w].units = job[w].units
        /\ job'[w].session = job[w].session
        /\ \A v \in Requests \ {w} : job'[v] = job[v]
    BY <1>1, <2>1 DEF Job
  <2>3. QED
    BY <1>2, <1>3, <2>2
<1>6. QED
  BY <1>4, <1>5

\* What the steps inside the transaction have in common
LEMMA Inside ==
  ASSUME DTypeOK, NEW w \in Requests,
         LockFriend(w) \/ LockTotals(w) \/ Count(w) \/ FindSession(w) \/ Accrue(w)
  PROVE  /\ job'[w].friend = job[w].friend /\ job'[w].units = job[w].units
         /\ \A v \in Requests \ {w} : job'[v] = job[v]
         /\ UNCHANGED <<sessions, walked>>
<1>1. job \in [Requests -> Job] /\ job[w] \in Job
  BY DEF DTypeOK
<1>2. UNCHANGED <<sessions, walked>>
  BY DEF LockFriend, LockTotals, Count, FindSession, Accrue, counterVars
<1>3. CASE LockFriend(w)
  BY <1>1, <1>2, <1>3 DEF LockFriend, Job
<1>4. CASE LockTotals(w)
  BY <1>1, <1>2, <1>4 DEF LockTotals, Job
<1>5. CASE Count(w)
  <2>1. PICK pc, b : job' = [job EXCEPT ![w] = [job[w] EXCEPT !.pc = pc, !.at = clock, !.bucket = b]]
    BY <1>1, <1>5 DEF Count
  <2>2. QED
    BY <1>1, <1>2, <2>1 DEF Job
<1>6. CASE FindSession(w)
  BY <1>6, Finding
<1>7. CASE Accrue(w)
  <2>1. PICK l : job' = [job EXCEPT ![w] = [job[w] EXCEPT !.pc = "commit", !.log = l]]
    BY <1>1, <1>7 DEF Accrue
  <2>2. QED
    BY <1>1, <1>2, <2>1 DEF Job
<1>8. QED
  BY <1>3, <1>4, <1>5, <1>6, <1>7

\* Where they lead
LEMMA InsideSteps ==
  ASSUME DTypeOK, NEW w \in Requests
  PROVE  /\ LockFriend(w) => /\ job[w].pc = "friend"
                             /\ job'[w].pc = TotalsOrLater(job[w].units, job[w].friend, job[w].window)
                             /\ Take(w, job[w].friend)
         /\ LockTotals(w) => /\ job[w].pc = "totals"
                             /\ job'[w].pc = BucketOrLater(job[w].units, job[w].friend, job[w].window)
                             /\ Take(w, Totals)
         /\ Count(w) => /\ job[w].pc = "bucket"
                        /\ job'[w].pc \in {"session", "accrue", "commit"}
                        /\ UNCHANGED lock
         /\ FindSession(w) => /\ job[w].pc = "session"
                              /\ job'[w].pc \in {"accrue", "commit"}
                              /\ UNCHANGED lock
         /\ Accrue(w) => /\ job[w].pc = "accrue"
                         /\ job'[w].pc = "commit"
                         /\ UNCHANGED lock
<1>1. job \in [Requests -> Job] /\ job[w] \in Job
  BY DEF DTypeOK
<1>2. LockFriend(w) => /\ job[w].pc = "friend"
                       /\ job'[w].pc = TotalsOrLater(job[w].units, job[w].friend, job[w].window)
                       /\ Take(w, job[w].friend)
  BY <1>1 DEF LockFriend, Job
<1>3. LockTotals(w) => /\ job[w].pc = "totals"
                       /\ job'[w].pc = BucketOrLater(job[w].units, job[w].friend, job[w].window)
                       /\ Take(w, Totals)
  BY <1>1 DEF LockTotals, Job
<1>4. ASSUME Count(w)
      PROVE  job[w].pc = "bucket" /\ job'[w].pc \in {"session", "accrue", "commit"} /\ UNCHANGED lock
  <2> DEFINE pc == SessionOrLater(job[w].units, job[w].friend, job[w].window)
  <2>1. PICK b : job' = [job EXCEPT ![w] = [job[w] EXCEPT !.pc = pc, !.at = clock, !.bucket = b]]
    BY <1>1, <1>4 DEF Count
  <2>2. pc \in {"session", "accrue", "commit"}
    BY Ways
  <2> HIDE DEF pc
  <2>3. QED
    BY <1>1, <1>4, <2>1, <2>2, ZenonT(30) DEF Count, Job
<1>5. FindSession(w) =>
        job[w].pc = "session" /\ job'[w].pc \in {"accrue", "commit"} /\ UNCHANGED lock
  BY Finding
<1>6. Accrue(w) => job[w].pc = "accrue" /\ job'[w].pc = "commit" /\ UNCHANGED lock
  BY <1>1 DEF Accrue, Job
<1>7. QED
  BY <1>2, <1>3, <1>4, <1>5, <1>6

LEMMA HoldsRowsNext ==
  ASSUME DTypeOK, HoldsRows, [Next]_vars
  PROVE  HoldsRows'
<1>1. job \in [Requests -> Job] /\ LocksOK
  BY DEF DTypeOK, LocksOK
<1>2. ASSUME UNCHANGED <<job, lock>>
      PROVE  HoldsRows'
  BY <1>2 DEF HoldsRows
<1>3. ASSUME NEW w \in Requests, NEW f \in Friends \cup {Solo}, NEW n \in Units,
             NEW win \in Windows \cup {NoWindow}, Record(w, f, n, win)
      PROVE  HoldsRows'
  <2> DEFINE pc == FriendOrLater(n, f, win)
  <2>1. UNCHANGED lock /\ (n > 0 \/ f # Solo)
        /\ \A v \in Requests \ {w} : job'[v] = job[v]
    BY <1>1, <1>3 DEF Record
  <2>2. job'[w].pc = pc /\ job'[w].friend = f /\ job'[w].units = n
    BY <1>1, <1>3 DEF Record, Idle
  <2>3. /\ f # Solo => pc = "friend"
        /\ n > 0 => pc \in {"friend", "totals"}
    BY DEF FriendOrLater, TotalsOrLater
  <2> HIDE DEF pc
  <2>4. QED
    BY <2>1, <2>2, <2>3 DEF HoldsRows, Begun
<1>4. ASSUME NEW w \in Requests, LockFriend(w)
      PROVE  HoldsRows'
  <2> DEFINE f == job[w].friend
  <2>1. /\ job'[w].friend = f /\ job'[w].units = job[w].units
        /\ \A v \in Requests \ {w} : job'[v] = job[v]
    BY <1>4, Inside
  <2>2. job[w].pc = "friend" /\ Take(w, f)
        /\ job'[w].pc = TotalsOrLater(job[w].units, f, job[w].window)
    BY <1>4, InsideSteps
  <2>3. f \in Friends \cup {Solo}
    BY JobFacts
  <2>4. job'[w].pc # "totals" => ~(job[w].units > 0)
    BY <2>2, Locking
  <2>5. f # Solo => lock'[f] = w
    BY <1>1, <2>2, <2>3 DEF Take, LocksOK
  <2>6. \A r \in Friends \cup {Totals}, v \in Requests : lock[r] = v => lock'[r] = v
    BY <1>1, <2>2, NamesAssumption DEF Take, LocksOK
  <2>7. \A v \in Requests : job[v].friend \in Friends \cup {Solo}
    BY JobFacts
  <2>8. f = Solo => job[w].units > 0
    BY <2>2 DEF HoldsRows
  <2> HIDE DEF f
  <2>9. ASSUME NEW v \in Requests \ {w}
        PROVE  /\ job'[v].pc \in Begun /\ job'[v].friend # Solo => lock'[job'[v].friend] = v
               /\ job'[v].pc \in Begun \ {"totals"} /\ job'[v].units > 0 => lock'[Totals] = v
               /\ job'[v].pc # "idle" /\ job'[v].friend = Solo => job'[v].units > 0
    BY <2>1, <2>6, <2>7, <2>9 DEF HoldsRows
  <2>10. /\ job'[w].friend # Solo => lock'[job'[w].friend] = w
         /\ job'[w].pc # "totals" => ~(job'[w].units > 0)
         /\ job'[w].friend = Solo => job'[w].units > 0
    BY <2>1, <2>4, <2>5, <2>8
  <2>11. QED
    BY <2>9, <2>10 DEF HoldsRows, Begun
<1>5. ASSUME NEW w \in Requests, LockTotals(w)
      PROVE  HoldsRows'
  <2>1. /\ job'[w].friend = job[w].friend /\ job'[w].units = job[w].units
        /\ \A v \in Requests \ {w} : job'[v] = job[v]
    BY <1>5, Inside
  <2>2. job[w].pc = "totals" /\ Take(w, Totals)
    BY <1>5, InsideSteps
  <2>3. lock'[Totals] = w
    BY <1>1, <2>2 DEF Take, LocksOK
  <2>4. \A r \in Friends \cup {Totals}, v \in Requests : lock[r] = v => lock'[r] = v
    BY <1>1, <2>2, NamesAssumption DEF Take, LocksOK
  <2>5. \A v \in Requests : job[v].friend \in Friends \cup {Solo}
    BY JobFacts
  <2>6. QED
    BY <2>1, <2>2, <2>3, <2>4, <2>5 DEF HoldsRows, Begun
<1>6. ASSUME NEW w \in Requests, Count(w) \/ FindSession(w) \/ Accrue(w)
      PROVE  HoldsRows'
  <2>1. /\ job'[w].friend = job[w].friend /\ job'[w].units = job[w].units
        /\ \A v \in Requests \ {w} : job'[v] = job[v]
    BY <1>6, Inside
  <2>2. job[w].pc \in Begun \ {"totals"} /\ UNCHANGED lock
    BY <1>6, InsideSteps DEF Begun
  <2>3. QED
    BY <2>1, <2>2 DEF HoldsRows, Begun
<1>7. ASSUME NEW w \in Requests, Commit(w) \/ Fail(w)
      PROVE  HoldsRows'
  <2>1. job' = [job EXCEPT ![w] = Idle] /\ lock' = Released(w)
    BY <1>7 DEF Commit, Fail
  <2>2. job'[w].pc = "idle" /\ \A v \in Requests \ {w} : job'[v] = job[v]
    BY <1>1, <2>1 DEF Idle
  <2>3. \A r \in Friends \cup {Totals}, v \in Requests \ {w} : lock[r] = v => lock'[r] = v
    BY <1>1, <2>1 DEF Released, LocksOK
  <2>4. \A v \in Requests : job[v].friend \in Friends \cup {Solo}
    BY JobFacts
  <2>5. QED
    BY <2>2, <2>3, <2>4 DEF HoldsRows, Begun
<1>8. QED
  BY <1>2, <1>3, <1>4, <1>5, <1>6, <1>7 DEF Next, RecordStep, Elsewhere, vars,
     SeedMiss, SeedFill, SeedExpires, Tick, NewLiveSesh

\* What a commit leaves of the sessions and of the history
LEMMA CommitSessionFacts ==
  ASSUME DTypeOK, NEW w \in Requests, CommitSession(job[w])
  PROVE  LET s == job[w].session IN
         /\ \A i \in 1..Len(sessions) :
               (i # s \/ job[w].window = NoWindow)
                  => sessions'[i] = sessions[i] /\ walked'[i] = walked[i]
         /\ \A i \in (1..Len(sessions')) \ (1..Len(sessions)) :
               sessions'[i].steps = walked'[i]
         /\ s # 0 /\ job[w].window # NoWindow =>
               /\ sessions'[s].steps = job[w].found + job[w].units
               /\ walked'[s] = walked[s] + job[w].units
<1> DEFINE j == job[w]
<1>1. /\ sessions \in Seq(Session) /\ walked \in Seq(Nat) /\ Len(walked) = Len(sessions)
      /\ Len(sessions) \in Nat
  BY DEF DTypeOK, CountersOK
<1>2. CASE j.window = NoWindow
  BY <1>1, <1>2 DEF CommitSession
<1>3. CASE j.window # NoWindow /\ j.session = 0
  <2> DEFINE s == [friend |-> j.friend, from |-> j.window[1], until |-> j.window[2],
                   steps |-> j.units, log |-> j.tag]
  <2>1. s.steps = j.units
    OBVIOUS
  <2>2. sessions' = Append(sessions, s) /\ walked' = Append(walked, j.units)
    BY <1>3 DEF CommitSession
  <2> HIDE DEF s
  <2>3. Len(sessions') = Len(sessions) + 1
    BY <1>1, <2>2
  <2>4. sessions'[Len(sessions) + 1] = s /\ walked'[Len(sessions) + 1] = j.units
    BY <1>1, <2>2
  <2>5. \A i \in 1..Len(sessions) : sessions'[i] = sessions[i] /\ walked'[i] = walked[i]
    BY <1>1, <2>2
  <2>6. \A i \in (1..Len(sessions')) \ (1..Len(sessions)) : i = Len(sessions) + 1
    BY <1>1, <2>3
  <2>7. QED
    BY <1>3, <2>1, <2>4, <2>5, <2>6
<1>4. CASE j.window # NoWindow /\ j.session # 0
  <2> DEFINE i == j.session
  <2>1. i \in 1..Len(sessions)
    BY <1>1, <1>4, JobFacts
  <2>2. sessions' = [sessions EXCEPT ![i].until = j.window[2], ![i].steps = j.found + j.units]
    BY <1>4 DEF CommitSession
  <2>3. walked' = [walked EXCEPT ![i] = walked[i] + j.units]
    BY <1>4 DEF CommitSession
  <2>4. sessions[i] \in Session
    BY <1>1, <2>1
  <2> DEFINE s == [sessions[i] EXCEPT !.until = j.window[2], !.steps = j.found + j.units]
  <2>5. s.steps = j.found + j.units
    BY <2>4 DEF Session
  <2>6. sessions' = [sessions EXCEPT ![i] = s]
    BY <1>1, <2>1, <2>2
  <2> HIDE DEF s, i
  <2>7. Len(sessions') = Len(sessions) /\ sessions'[i] = s /\ walked'[i] = walked[i] + j.units
    BY <1>1, <2>1, <2>3, <2>6
  <2>8. \A k \in 1..Len(sessions) : k # i => sessions'[k] = sessions[k] /\ walked'[k] = walked[k]
    BY <1>1, <2>1, <2>3, <2>6
  <2>9. QED
    BY <1>4, <2>5, <2>7, <2>8 DEF i
<1>5. QED
  BY <1>2, <1>3, <1>4

\* A step that leaves the sessions and what requests have read of them alone
LEMMA ReadsKept ==
  ASSUME DTypeOK, ReadsStand, NEW w \in Requests,
         UNCHANGED sessions,
         \A v \in Requests \ {w} : job'[v] = job[v],
         \/ job'[w].session = 0
         \/ /\ job'[w].pc \in {"accrue", "commit"}
            /\ sessions[job'[w].session].friend = job'[w].friend
            /\ sessions[job'[w].session].steps = job'[w].found
  PROVE  ReadsStand'
  BY DEF ReadsStand

LEMMA ReadsStandNext ==
  ASSUME DTypeOK, HoldsRows, ReadsStand, [Next]_vars
  PROVE  ReadsStand'
<1>1. job \in [Requests -> Job]
  BY DEF DTypeOK
<1>2. ASSUME UNCHANGED <<job, sessions>>
      PROVE  ReadsStand'
  BY <1>2 DEF ReadsStand
<1>3. ASSUME NEW w \in Requests, NEW f, NEW n, NEW win, Record(w, f, n, win)
      PROVE  ReadsStand'
  <2>1. job'[w].session = 0 /\ \A v \in Requests \ {w} : job'[v] = job[v]
    BY <1>1, <1>3 DEF Record, Idle
  <2>2. UNCHANGED sessions
    BY <1>3 DEF Record, counterVars
  <2>3. QED
    BY <2>1, <2>2, ReadsKept
<1>4. ASSUME NEW w \in Requests, LockFriend(w) \/ LockTotals(w) \/ Count(w)
      PROVE  ReadsStand'
  <2>1. UNCHANGED sessions /\ \A v \in Requests \ {w} : job'[v] = job[v]
    BY <1>4, Inside
  <2>2. job[w].session = 0
    BY <1>4, InsideSteps DEF ReadsStand
  <2>3. job'[w].session = job[w].session
    <3>1. CASE LockFriend(w)
      BY <1>1, <3>1 DEF LockFriend, Job
    <3>2. CASE LockTotals(w)
      BY <1>1, <3>2 DEF LockTotals, Job
    <3>3. CASE Count(w)
      <4>1. PICK pc, b : job' = [job EXCEPT ![w] = [job[w] EXCEPT !.pc = pc, !.at = clock, !.bucket = b]]
        BY <1>1, <3>3 DEF Count
      <4>2. QED
        BY <1>1, <4>1 DEF Job
    <3>4. QED
      BY <1>4, <3>1, <3>2, <3>3
  <2>4. QED
    BY <2>1, <2>2, <2>3, ReadsKept
<1>5. ASSUME NEW w \in Requests, FindSession(w)
      PROVE  ReadsStand'
  <2>1. job[w].session = 0
    BY <1>5, Finding DEF ReadsStand
  <2>2. QED
    BY <1>5, <2>1, Finding, ReadsKept
<1>6. ASSUME NEW w \in Requests, Accrue(w)
      PROVE  ReadsStand'
  <2>1. UNCHANGED sessions /\ \A v \in Requests \ {w} : job'[v] = job[v]
    BY <1>6, Inside
  <2>2. PICK l : job' = [job EXCEPT ![w] = [job[w] EXCEPT !.pc = "commit", !.log = l]]
    BY <1>1, <1>6 DEF Accrue
  <2>3. /\ job'[w].pc = "commit" /\ job'[w].session = job[w].session
        /\ job'[w].friend = job[w].friend /\ job'[w].found = job[w].found
    BY <1>1, <2>2 DEF Job
  <2>4. QED
    BY <2>1, <2>3, ReadsKept DEF ReadsStand
<1>7. ASSUME NEW w \in Requests, Fail(w)
      PROVE  ReadsStand'
  <2>1. job'[w].session = 0 /\ \A v \in Requests \ {w} : job'[v] = job[v]
    BY <1>1, <1>7 DEF Fail, Idle
  <2>2. UNCHANGED sessions
    BY <1>7 DEF Fail, counterVars
  <2>3. QED
    BY <2>1, <2>2, ReadsKept
<1>8. ASSUME NEW w \in Requests, Commit(w)
      PROVE  ReadsStand'
  <2>1. job'[w].session = 0 /\ \A v \in Requests \ {w} : job'[v] = job[v]
    BY <1>1, <1>8 DEF Commit, Idle
  <2>2. CommitSession(job[w]) /\ job[w].pc = "commit"
    BY <1>8 DEF Commit
  <2>3. ASSUME NEW v \in Requests \ {w}, job[v].session # 0
        PROVE  sessions'[job[v].session] = sessions[job[v].session]
    <3> DEFINE s == job[v].session
    <3>1. s \in 1..Len(sessions) /\ Len(sessions) \in Nat
      BY <2>3, JobFacts DEF DTypeOK, CountersOK
    <3>2. job[v].pc \in Begun \ {"totals"} /\ sessions[s].friend = job[v].friend
      BY <2>3 DEF ReadsStand, Begun
    <3>3. s # job[w].session
      <4>1. SUFFICES ASSUME s = job[w].session PROVE FALSE
        OBVIOUS
      <4>2. sessions[s].friend = job[w].friend
        BY <2>3, <4>1 DEF ReadsStand
      <4>3. v = w
        BY <2>2, <3>2, <4>2, OneAtATime DEF Begun
      <4>4. QED
        BY <4>3
    <3>4. QED
      BY <2>2, <3>1, <3>3, CommitSessionFacts
  <2>4. QED
    BY <2>1, <2>3 DEF ReadsStand
<1>9. QED
  BY <1>2, <1>3, <1>4, <1>5, <1>6, <1>7, <1>8 DEF Next, RecordStep, Elsewhere, vars,
     counterVars, SeedMiss, SeedFill, SeedExpires, Tick, NewLiveSesh

LEMMA StepsKeptNext ==
  ASSUME DTypeOK, ReadsStand, SessionsKeepSteps, [Next]_vars
  PROVE  SessionsKeepSteps'
<1>1. ASSUME UNCHANGED <<sessions, walked>>
      PROVE  SessionsKeepSteps'
  BY <1>1 DEF SessionsKeepSteps
<1>2. ASSUME NEW w \in Requests, Commit(w)
      PROVE  SessionsKeepSteps'
  <2> DEFINE s == job[w].session
  <2>1. CommitSession(job[w])
    BY <1>2 DEF Commit
  <2>2. Len(sessions) \in Nat /\ Len(sessions') \in Nat /\ s \in 0..Len(sessions)
    BY <2>1, CommitSessionTypes, JobFacts DEF DTypeOK, CountersOK
  <2>3. SUFFICES ASSUME NEW i \in 1..Len(sessions')
                 PROVE  sessions'[i].steps = walked'[i]
    BY DEF SessionsKeepSteps
  <2>4. CASE i \notin 1..Len(sessions)
    BY <2>1, <2>4, CommitSessionFacts
  <2>5. CASE i \in 1..Len(sessions) /\ (i # s \/ job[w].window = NoWindow)
    BY <2>1, <2>5, CommitSessionFacts DEF SessionsKeepSteps
  <2>6. CASE i \in 1..Len(sessions) /\ i = s /\ job[w].window # NoWindow
    <3>1. s # 0 /\ sessions[s].steps = job[w].found /\ sessions[s].steps = walked[s]
      BY <2>2, <2>6 DEF ReadsStand, SessionsKeepSteps
    <3>2. QED
      BY <2>1, <2>6, <3>1, CommitSessionFacts
  <2>7. QED
    BY <2>4, <2>5, <2>6
<1>3. ASSUME NEW w \in Requests,
             \/ LockFriend(w) \/ LockTotals(w) \/ Count(w) \/ FindSession(w) \/ Accrue(w)
             \/ Fail(w)
             \/ \E f, n, win : Record(w, f, n, win)
      PROVE  UNCHANGED <<sessions, walked>>
  BY <1>3, Inside DEF Fail, Record, counterVars
<1>4. ASSUME Elsewhere \/ UNCHANGED vars
      PROVE  UNCHANGED <<sessions, walked>>
  BY <1>4 DEF Elsewhere, vars, counterVars, SeedMiss, SeedFill, SeedExpires, Tick, NewLiveSesh
<1>5. QED
  BY <1>1, <1>2, <1>3, <1>4 DEF Next, RecordStep

LEMMA DataNext == DataInv /\ [Next]_vars => DataInv'
  BY TypesNext, HoldsRowsNext, ReadsStandNext, StepsKeptNext DEF DataInv

\* No overlap of the player's requests loses the steps of a combined session
\* (gecko_helpers.py:376-437).
THEOREM NoStepsLost == Spec => []SessionsKeepSteps
<1>1. Spec => []DataInv
  BY DataInit, DataNext, PTL DEF Spec
<1>2. DataInv => SessionsKeepSteps
  BY DEF DataInv
<1>3. QED
  BY <1>1, <1>2, PTL

(***************************************************************************)
(* The sum in Redis                                                        *)
(***************************************************************************)

\* The buckets as they will be when the request has committed
HoursWith(j) == [hours EXCEPT ![Hour(j.at)] = j.bucket]

\* What an update wrote last is the sum with the bucket of the request that is counting, of
\* which there is one at most, or the sum as committed.
SumStands ==
    seedBy = "update" =>
        /\ \A w \in Requests : Counting(job[w]) => seedKey = Sum24(HoursWith(job[w]))
        /\ (\A w \in Requests : ~Counting(job[w])) => seedKey = Sum24(hours)

\* Only a request that brings something comes to the buckets.
BucketsForUnits == \A w \in Requests : job[w].pc = "bucket" => job[w].units > 0

SeedInv == SumStands /\ BucketsForUnits

LEMMA OneCounts ==
  ASSUME HoldsRows, NEW v \in Requests, NEW w \in Requests,
         Counting(job[v]), Counting(job[w])
  PROVE  v = w
  BY DEF HoldsRows, Begun, Counting

\* A step that writes neither the buckets nor the sum, and leaves who is counting what
LEMMA SumKept ==
  ASSUME SumStands, UNCHANGED hours, UNCHANGED seedKey \/ seedBy' # "update",
         seedBy' = "update" => seedBy = "update",
         \A v \in Requests :
            /\ Counting(job'[v]) <=> Counting(job[v])
            /\ Counting(job[v]) => job'[v].at = job[v].at /\ job'[v].bucket = job[v].bucket
  PROVE  SumStands'
  BY DEF SumStands, HoursWith

\* What the requests that are not counting do to the local variables of one
LEMMA InsideKeeps ==
  ASSUME DTypeOK, NEW w \in Requests,
         LockFriend(w) \/ LockTotals(w) \/ FindSession(w) \/ Accrue(w)
  PROVE  /\ job'[w].at = job[w].at /\ job'[w].bucket = job[w].bucket
         /\ UNCHANGED <<hours, seedKey, seedBy>>
<1>1. job \in [Requests -> Job] /\ job[w] \in Job
  BY DEF DTypeOK
<1>2. UNCHANGED <<hours, seedKey, seedBy>>
  BY DEF LockFriend, LockTotals, FindSession, Accrue, bucketVars
<1>3. CASE LockFriend(w)
  BY <1>1, <1>2, <1>3 DEF LockFriend, Job
<1>4. CASE LockTotals(w)
  BY <1>1, <1>2, <1>4 DEF LockTotals, Job
<1>5. CASE FindSession(w)
  <2> DEFINE pc == AccrueOrCommit(job[w].units, job[w].friend)
             next == [job[w] EXCEPT !.pc = pc]
  <2>1. \/ \E i, k : job' = [job EXCEPT ![w] = [next EXCEPT !.session = i, !.found = k]]
        \/ \E k : job' = [job EXCEPT ![w] = [next EXCEPT !.tag = k]]
    BY <1>5 DEF FindSession
  <2> HIDE DEF pc
  <2>2. QED
    BY <1>1, <1>2, <2>1 DEF Job
<1>6. CASE Accrue(w)
  <2>1. PICK l : job' = [job EXCEPT ![w] = [job[w] EXCEPT !.pc = "commit", !.log = l]]
    BY <1>1, <1>6 DEF Accrue
  <2>2. QED
    BY <1>1, <1>2, <2>1 DEF Job
<1>7. QED
  BY <1>3, <1>4, <1>5, <1>6

LEMMA IdleCountsNothing == ~Counting(Idle) /\ Idle.pc # "bucket"
  BY DEF Idle, Counting

LEMMA SeedInit == Init => SeedInv
<1> SUFFICES ASSUME Init PROVE SeedInv
  OBVIOUS
<1>1. seedBy # "update" /\ \A w \in Requests : job[w] = Idle
  BY DEF Init
<1>2. QED
  BY <1>1, IdleCountsNothing DEF SeedInv, SumStands, BucketsForUnits

LEMMA SeedNext ==
  ASSUME DTypeOK, HoldsRows, SeedInv, [Next]_vars
  PROVE  SeedInv'
<1>1. job \in [Requests -> Job] /\ SumStands /\ BucketsForUnits
  BY DEF DTypeOK, SeedInv
<1>2. ASSUME UNCHANGED <<job, hours>>, UNCHANGED seedKey \/ seedBy' # "update",
             seedBy' = "update" => seedBy = "update"
      PROVE  SeedInv'
  <2>1. SumStands'
    BY <1>1, <1>2, SumKept
  <2>2. QED
    BY <1>1, <1>2, <2>1 DEF SeedInv, BucketsForUnits
<1>3. ASSUME NEW w \in Requests, NEW f, NEW n \in Units, NEW win, Record(w, f, n, win)
      PROVE  SeedInv'
  <2> DEFINE pc == FriendOrLater(n, f, win)
  <2>1. /\ job[w].pc = "idle" /\ \A v \in Requests \ {w} : job'[v] = job[v]
        /\ UNCHANGED <<hours, seedKey, seedBy>>
    BY <1>1, <1>3 DEF Record, bucketVars
  <2>2. job'[w].pc = pc /\ job'[w].units = n
    BY <1>1, <1>3 DEF Record, Idle
  <2>3. pc # "bucket" /\ (n > 0 => pc \in {"friend", "totals"})
    BY Ways DEF FriendOrLater, TotalsOrLater
  <2> HIDE DEF pc
  <2>4. ~Counting(job[w]) /\ ~Counting(job'[w])
    BY <2>1, <2>2, <2>3 DEF Counting
  <2>5. SumStands'
    BY <1>1, <2>1, <2>4, SumKept
  <2>6. QED
    BY <1>1, <2>1, <2>2, <2>3, <2>5 DEF SeedInv, BucketsForUnits
<1>4. ASSUME NEW w \in Requests, LockFriend(w) \/ LockTotals(w)
      PROVE  SeedInv'
  <2>1. /\ job'[w].units = job[w].units /\ \A v \in Requests \ {w} : job'[v] = job[v]
        /\ UNCHANGED <<hours, seedKey, seedBy>>
    BY <1>4, Inside, InsideKeeps
  <2>2. /\ job[w].pc \in {"friend", "totals"}
        /\ job[w].units > 0 => job'[w].pc \in {"totals", "bucket"}
        /\ job'[w].pc = "bucket" => job[w].units > 0
    <3>1. CASE LockFriend(w)
      BY <3>1, InsideSteps, Ways, Locking
    <3>2. CASE LockTotals(w)
      <4>1. job[w].pc = "totals" /\
            job'[w].pc = BucketOrLater(job[w].units, job[w].friend, job[w].window)
        BY <3>2, InsideSteps
      <4>2. SessionOrLater(job[w].units, job[w].friend, job[w].window) # "bucket"
        BY Ways
      <4>3. QED
        BY <4>1, <4>2 DEF BucketOrLater
    <3>3. QED
      BY <1>4, <3>1, <3>2
  <2>3. ~Counting(job[w]) /\ ~Counting(job'[w])
    BY <2>1, <2>2 DEF Counting
  <2>4. SumStands'
    BY <1>1, <2>1, <2>3, SumKept
  <2>5. QED
    BY <1>1, <2>1, <2>2, <2>4 DEF SeedInv, BucketsForUnits
<1>5. ASSUME NEW w \in Requests, Count(w)
      PROVE  SeedInv'
  <2> DEFINE b == Counted(hours[Hour(clock)], job[w].units)
             pc == SessionOrLater(job[w].units, job[w].friend, job[w].window)
  <2>1. /\ job' = [job EXCEPT ![w] = [job[w] EXCEPT !.pc = pc, !.at = clock, !.bucket = b]]
        /\ seedKey' = Sum24([hours EXCEPT ![Hour(clock)] = b])
        /\ job[w].pc = "bucket" /\ UNCHANGED hours
    BY <1>1, <1>5 DEF Count, SumWith
  <2>2. pc \in {"session", "accrue", "commit"}
    BY Ways
  <2> HIDE DEF b, pc
  <2>3. /\ job'[w].pc = pc /\ job'[w].at = clock /\ job'[w].bucket = b
        /\ job'[w].units = job[w].units /\ \A v \in Requests \ {w} : job'[v] = job[v]
    BY <1>1, <2>1 DEF Job
  <2>4. HoldsRows'
    BY HoldsRowsNext
  <2>5. Counting(job'[w])
    BY <1>1, <2>1, <2>2, <2>3 DEF Counting, BucketsForUnits
  <2>6. \A v \in Requests : Counting(job'[v]) => v = w
    BY <2>4, <2>5 DEF HoldsRows, Begun, Counting
  <2>7. seedKey' = Sum24(HoursWith(job[w]))'
    <3>1. HoursWith(job[w])' = [hours EXCEPT ![Hour(clock)] = b]
      BY <2>1, <2>3 DEF HoursWith
    <3>2. QED
      BY <2>1, <3>1
  <2>8. SumStands'
    BY <2>5, <2>6, <2>7 DEF SumStands
  <2>9. QED
    BY <1>1, <2>2, <2>3, <2>8 DEF SeedInv, BucketsForUnits
<1>6. ASSUME NEW w \in Requests, FindSession(w) \/ Accrue(w)
      PROVE  SeedInv'
  <2>1. /\ job'[w].units = job[w].units /\ \A v \in Requests \ {w} : job'[v] = job[v]
        /\ job'[w].at = job[w].at /\ job'[w].bucket = job[w].bucket
        /\ UNCHANGED <<hours, seedKey, seedBy>>
    BY <1>6, Inside, InsideKeeps
  <2>2. job[w].pc \in {"session", "accrue"} /\ job'[w].pc \in {"accrue", "commit"}
    BY <1>6, InsideSteps
  <2>3. Counting(job'[w]) <=> Counting(job[w])
    BY <2>1, <2>2 DEF Counting
  <2>4. SumStands'
    BY <1>1, <2>1, <2>3, SumKept
  <2>5. QED
    BY <1>1, <2>1, <2>2, <2>4 DEF SeedInv, BucketsForUnits
<1>7. ASSUME NEW w \in Requests, Commit(w)
      PROVE  SeedInv'
  <2>1. /\ job'[w] = Idle /\ \A v \in Requests \ {w} : job'[v] = job[v]
        /\ job[w].pc = "commit" /\ UNCHANGED <<seedKey, seedBy>>
        /\ hours' = IF job[w].units > 0 THEN HoursWith(job[w]) ELSE hours
    BY <1>1, <1>7 DEF Commit, CommitBucket, HoursWith
  <2>2. SumStands'
    <3>1. CASE job[w].units > 0
      <4>1. Counting(job[w])
        BY <2>1, <3>1 DEF Counting
      <4>2. \A v \in Requests : ~Counting(job'[v])
        BY <2>1, <4>1, OneCounts, IdleCountsNothing
      <4>3. seedBy = "update" => seedKey = Sum24(HoursWith(job[w]))
        BY <1>1, <4>1 DEF SumStands
      <4>4. QED
        BY <2>1, <3>1, <4>2, <4>3 DEF SumStands
    <3>2. CASE ~(job[w].units > 0)
      <4>1. ~Counting(job[w]) /\ ~Counting(job'[w]) /\ UNCHANGED hours
        BY <2>1, <3>2, IdleCountsNothing DEF Counting
      <4>2. QED
        BY <1>1, <2>1, <4>1, SumKept
    <3>3. QED
      BY <3>1, <3>2
  <2>3. QED
    BY <1>1, <2>1, <2>2, IdleCountsNothing DEF SeedInv, BucketsForUnits
<1>8. ASSUME NEW w \in Requests, Fail(w)
      PROVE  SeedInv'
  <2>1. /\ job'[w] = Idle /\ \A v \in Requests \ {w} : job'[v] = job[v]
        /\ UNCHANGED <<hours, seedKey>>
        /\ seedBy' = IF Counting(job[w]) /\ seedBy = "update" THEN "rolledback" ELSE seedBy
    BY <1>1, <1>8 DEF Fail
  <2>2. SumStands'
    <3>1. CASE Counting(job[w])
      BY <2>1, <3>1 DEF SumStands
    <3>2. CASE ~Counting(job[w])
      BY <1>1, <2>1, <3>2, SumKept, IdleCountsNothing
    <3>3. QED
      BY <3>1, <3>2
  <2>3. QED
    BY <1>1, <2>1, <2>2, IdleCountsNothing DEF SeedInv, BucketsForUnits
<1>9. CASE Elsewhere
  BY <1>2, <1>9 DEF Elsewhere, SeedMiss, SeedFill, SeedExpires, Tick, NewLiveSesh, bucketVars
<1>10. CASE UNCHANGED vars
  BY <1>2, <1>10 DEF vars, bucketVars
<1>11. QED
  BY <1>3, <1>4, <1>5, <1>6, <1>7, <1>8, <1>9, <1>10 DEF Next, RecordStep

\* However the player's requests, the expiry and the refills of the key overlap: when an
\* update wrote the sum last and none is under way, it is the sum of the committed buckets
\* (gecko_helpers.py:269-277).
THEOREM SumIsOfBuckets == Spec => []SeedIsSum
<1>1. Spec => [](DataInv /\ SeedInv)
  <2>1. DataInv /\ SeedInv /\ [Next]_vars => (DataInv /\ SeedInv)'
    BY DataNext, SeedNext DEF DataInv
  <2>2. QED
    BY <2>1, DataInit, SeedInit, PTL DEF Spec
<1>2. SeedInv => SeedIsSum
  BY DEF SeedInv, SumStands, SeedIsSum
<1>3. QED
  BY <1>1, <1>2, PTL

(***************************************************************************)
(* Sums                                                                    *)
(***************************************************************************)

\* Induction, stated for a set: a set that has 0 and with every number the next has them all.
LEMMA NatSets ==
  ASSUME NEW T, 0 \in T, \A n \in Nat : n \in T => n + 1 \in T
  PROVE  Nat \subseteq T
<1> DEFINE R == OpToRel(<, Nat)
           M == Nat \ T
<1>1. IsWellFoundedOn(R, Nat)
  BY NatLessThanWellFounded
<1>2. SUFFICES ASSUME M # {} PROVE FALSE
  OBVIOUS
<1>3. \A n \in Nat : n > 0 => <<n - 1, n>> \in R
  BY DEF OpToRel
<1> HIDE DEF R
<1>4. PICK n \in M : \A k \in M : ~ (<<k, n>> \in R)
  BY <1>1, <1>2, WFMin
<1>5. n > 0 /\ n - 1 \in Nat
  BY <1>4
<1>6. n - 1 \in T
  BY <1>3, <1>4, <1>5
<1>7. QED
  BY <1>4, <1>5, <1>6

\* The element the sum of the community module takes first, and what its recursion says
First(s) == CHOOSE x \in s : TRUE
Adds(g, f, S) ==
   g = [s \in S |-> IF s = {} THEN 0 ELSE f[First(s)] + g[s \ {First(s)}]]

LEMMA FirstIsOne == \A s : s # {} => First(s) \in s
  BY DEF First

\* A subset is one smaller without an element, and the empty one has none.
LEMMA Smaller ==
  ASSUME NEW S, IsFiniteSet(S), NEW s \in SUBSET S, NEW x \in s, NEW n \in Nat,
         Cardinality(s) = n + 1
  PROVE  s \ {x} \in SUBSET S /\ Cardinality(s \ {x}) = n
<1>1. IsFiniteSet(s)
  BY FS_Subset
<1>2. QED
  BY <1>1, FS_RemoveElement

LEMMA Sizes ==
  ASSUME NEW S, IsFiniteSet(S), NEW s \in SUBSET S
  PROVE  /\ Cardinality(s) \in Nat /\ Cardinality(s) <= Cardinality(S)
         /\ Cardinality(s) = 0 <=> s = {}
<1>1. IsFiniteSet(s) /\ Cardinality(s) <= Cardinality(S)
  BY FS_Subset
<1>2. QED
  BY <1>1, FS_CardinalityType, FS_EmptySet

\* The equation by which SumFunctionOnSet is defined has a solution, built up from the
\* smaller subsets to the larger ones ...
LEMMA SumExists ==
  ASSUME NEW S, IsFiniteSet(S), NEW f
  PROVE  \E g : Adds(g, f, SUBSET S)
<1> DEFINE Small(n) == {s \in SUBSET S : Cardinality(s) <= n}
           T == {n \in Nat : \E g : Adds(g, f, Small(n))}
<1>1. 0 \in T
  <2>1. Small(0) = {{}}
    BY Sizes
  <2>2. Adds([s \in {{}} |-> 0], f, {{}})
    BY DEF Adds
  <2>3. QED
    BY <2>1, <2>2
<1>2. ASSUME NEW n \in Nat, n \in T
      PROVE  n + 1 \in T
  <2>1. PICK g : Adds(g, f, Small(n))
    BY <1>2
  <2> DEFINE h == [s \in Small(n + 1) |->
                     IF s = {} THEN 0 ELSE f[First(s)] + g[s \ {First(s)}]]
  <2>2. ASSUME NEW s \in Small(n + 1), s # {}
        PROVE  h[s \ {First(s)}] = g[s \ {First(s)}]
    <3> DEFINE t == s \ {First(s)}
    <3>1. t \in Small(n)
      <4>1. First(s) \in s
        BY <2>2, FirstIsOne
      <4>2. Cardinality(s) \in Nat /\ Cardinality(s) # 0 /\ Cardinality(s) <= n + 1
        BY <2>2, Sizes
      <4>3. Cardinality(s) - 1 \in Nat /\ Cardinality(s) = (Cardinality(s) - 1) + 1
        BY <4>2
      <4>4. t \in SUBSET S /\ Cardinality(t) = Cardinality(s) - 1
        BY <4>1, <4>3, Smaller
      <4>5. QED
        BY <4>2, <4>4
    <3>2. t \in Small(n + 1)
      <4>1. Cardinality(t) \in Nat
        BY <3>1, Sizes
      <4>2. QED
        BY <3>1, <4>1
    <3> HIDE DEF t, Small
    <3>3. g[t] = IF t = {} THEN 0 ELSE f[First(t)] + g[t \ {First(t)}]
      BY <2>1, <3>1 DEF Adds
    <3>4. h[t] = IF t = {} THEN 0 ELSE f[First(t)] + g[t \ {First(t)}]
      BY <3>2
    <3>5. QED
      BY <3>3, <3>4 DEF t
  <2>3. Adds(h, f, Small(n + 1))
    <3>1. h = [s \in Small(n + 1) |->
                 IF s = {} THEN 0 ELSE f[First(s)] + h[s \ {First(s)}]]
      <4> HIDE DEF Small
      <4>1. \A s \in Small(n + 1) :
              h[s] = IF s = {} THEN 0 ELSE f[First(s)] + h[s \ {First(s)}]
        BY <2>2
      <4>2. QED
        BY <4>1
    <3>2. QED
      BY <3>1 DEF Adds
  <2> HIDE DEF h, Small
  <2>4. n + 1 \in Nat /\ \E k : Adds(k, f, Small(n + 1))
    BY <2>3
  <2>5. QED
    BY <2>4, Zenon
<1>3. Cardinality(S) \in T
  <2> HIDE DEF T
  <2>1. Nat \subseteq T
    BY <1>1, <1>2, NatSets
  <2>2. QED
    BY <2>1, FS_CardinalityType
<1>4. Small(Cardinality(S)) = SUBSET S
  BY Sizes
<1>5. QED
  BY <1>3, <1>4

\* ... so the sum unfolds: it is the value of one.
LEMMA SumUnfolds ==
  ASSUME NEW S, IsFiniteSet(S), NEW f
  PROVE  \E g : Adds(g, f, SUBSET S) /\ SumFunctionOnSet(f, S) = g[S]
<1> DEFINE g == CHOOSE k : Adds(k, f, SUBSET S)
<1>1. Adds(g, f, SUBSET S)
  BY SumExists
<1>2. SumFunctionOnSet(f, S) = (CHOOSE k : Adds(k, f, SUBSET S))[S]
  BY Zenon DEF SumFunctionOnSet, FoldFunctionOnSet, MapThenFoldSet, Adds, First
<1> HIDE DEF g
<1>3. SumFunctionOnSet(f, S) = g[S]
  BY <1>2 DEF g
<1>4. QED
  BY <1>1, <1>3

LEMMA AddsStep ==
  ASSUME NEW S, NEW f, NEW g, Adds(g, f, SUBSET S), NEW s \in SUBSET S
  PROVE  /\ s = {} => g[s] = 0
         /\ s # {} => First(s) \in s /\ g[s] = f[First(s)] + g[s \ {First(s)}]
<1>1. g[s] = IF s = {} THEN 0 ELSE f[First(s)] + g[s \ {First(s)}]
  BY DEF Adds
<1>2. QED
  BY <1>1, FirstIsOne

\* Three inductions on the size of a subset: a sum of numbers is one, it does not matter
\* which element is taken first, and only the function's values on the set matter.
LEMMA AddsNat ==
  ASSUME NEW S, IsFiniteSet(S), NEW f, \A x \in S : f[x] \in Nat,
         NEW g, Adds(g, f, SUBSET S)
  PROVE  \A s \in SUBSET S : g[s] \in Nat
<1> DEFINE T == {n \in Nat : \A s \in SUBSET S : Cardinality(s) = n => g[s] \in Nat}
<1>1. 0 \in T
  BY Sizes, AddsStep
<1>2. ASSUME NEW n \in Nat, n \in T
      PROVE  n + 1 \in T
  <2>1. ASSUME NEW s \in SUBSET S, Cardinality(s) = n + 1
        PROVE  g[s] \in Nat
    <3>1. s # {}
      BY <2>1, Sizes
    <3>2. First(s) \in s /\ g[s] = f[First(s)] + g[s \ {First(s)}]
      BY <3>1, AddsStep
    <3>3. s \ {First(s)} \in SUBSET S /\ Cardinality(s \ {First(s)}) = n
      BY <2>1, <3>2, Smaller
    <3>4. g[s \ {First(s)}] \in Nat
      BY <1>2, <3>3
    <3>5. QED
      BY <3>2, <3>4
  <2>2. QED
    BY <2>1
<1>3. Nat \subseteq T
  <2> HIDE DEF T
  <2>1. QED
    BY <1>1, <1>2, NatSets
<1>4. QED
  BY <1>3, Sizes

LEMMA AddsAny ==
  ASSUME NEW S, IsFiniteSet(S), NEW f, \A x \in S : f[x] \in Nat,
         NEW g, Adds(g, f, SUBSET S)
  PROVE  \A s \in SUBSET S : \A y \in s : g[s] = f[y] + g[s \ {y}]
<1> DEFINE P(s) == \A y \in s : g[s] = f[y] + g[s \ {y}]
           T == {n \in Nat : \A s \in SUBSET S : Cardinality(s) = n => P(s)}
<1>1. 0 \in T
  BY Sizes
<1>2. ASSUME NEW n \in Nat, n \in T
      PROVE  n + 1 \in T
  <2>1. ASSUME NEW s \in SUBSET S, Cardinality(s) = n + 1, NEW y \in s
        PROVE  g[s] = f[y] + g[s \ {y}]
    <3> DEFINE c == First(s)
    <3>1. c \in s /\ g[s] = f[c] + g[s \ {c}]
      BY AddsStep
    <3>2. CASE y = c
      BY <3>1, <3>2
    <3>3. CASE y # c
      <4> HIDE DEF c
      <4>1. s \ {c} \in SUBSET S /\ Cardinality(s \ {c}) = n
        BY <2>1, <3>1, Smaller
      <4>2. s \ {y} \in SUBSET S /\ Cardinality(s \ {y}) = n
        BY <2>1, Smaller
      <4>3. g[s \ {c}] = f[y] + g[(s \ {c}) \ {y}]
        BY <1>2, <3>3, <4>1
      <4>4. g[s \ {y}] = f[c] + g[(s \ {y}) \ {c}]
        BY <1>2, <3>1, <3>3, <4>2
      <4>5. (s \ {c}) \ {y} = (s \ {y}) \ {c}
        OBVIOUS
      <4>6. f[c] \in Nat /\ f[y] \in Nat /\ g[(s \ {y}) \ {c}] \in Nat
        BY <3>1, AddsNat
      <4>7. g[s \ {c}] = f[y] + g[(s \ {y}) \ {c}]
        BY <4>3, <4>5
      <4>8. QED
        BY <3>1, <4>4, <4>6, <4>7
    <3>4. QED
      BY <3>2, <3>3
  <2>2. QED
    BY <2>1
<1>3. Nat \subseteq T
  <2> HIDE DEF T
  <2>1. QED
    BY <1>1, <1>2, NatSets
<1>4. QED
  BY <1>3, Sizes

Agree(e, f, S) == \A x \in S : e[x] = f[x]

LEMMA AddsSame ==
  ASSUME NEW S, NEW f, NEW g, NEW R, NEW e, NEW h, IsFiniteSet(S),
         Adds(g, f, SUBSET S), Adds(h, e, SUBSET R), R \subseteq S, Agree(e, f, R)
  PROVE  g[R] = h[R]
<1> DEFINE T == {n \in Nat : \A s \in SUBSET R : Cardinality(s) = n => g[s] = h[s]}
<1>1. 0 \in T
  <2>1. \A s \in SUBSET R : Cardinality(s) = 0 => g[s] = 0 /\ h[s] = 0
    BY Sizes, AddsStep
  <2>2. QED
    BY <2>1
<1>2. ASSUME NEW n \in Nat, n \in T
      PROVE  n + 1 \in T
  <2>1. ASSUME NEW s \in SUBSET R, Cardinality(s) = n + 1
        PROVE  g[s] = h[s]
    <3>0. s \in SUBSET S /\ IsFiniteSet(R)
      BY FS_Subset
    <3>1. s # {}
      BY <2>1, <3>0, Sizes
    <3> DEFINE c == First(s)
    <3>2. First(s) \in s /\ g[s] = f[First(s)] + g[s \ {First(s)}]
      BY <3>0, <3>1, FirstIsOne DEF Adds
    <3>3. h[s] = e[First(s)] + h[s \ {First(s)}]
      BY <3>1 DEF Adds
    <3>4. s \ {c} \in SUBSET R /\ Cardinality(s \ {c}) = n
      BY <2>1, <3>0, <3>2, Smaller
    <3>5. g[s \ {c}] = h[s \ {c}] /\ e[c] = f[c]
      BY <1>2, <3>2, <3>4 DEF Agree
    <3>6. QED
      BY <3>2, <3>3, <3>5
  <2>2. QED
    BY <2>1
<1>3. Nat \subseteq T
  <2> HIDE DEF T
  <2>1. QED
    BY <1>1, <1>2, NatSets
<1>4. R \in SUBSET R /\ Cardinality(R) \in Nat
  BY Sizes
<1>5. QED
  BY <1>3, <1>4

LEMMA SumOfNone ==
  ASSUME NEW f
  PROVE  SumFunctionOnSet(f, {}) = 0
<1>1. IsFiniteSet({})
  BY FS_EmptySet
<1>2. PICK g : Adds(g, f, SUBSET {}) /\ SumFunctionOnSet(f, {}) = g[{}]
  BY <1>1, SumUnfolds
<1>3. QED
  BY <1>2, AddsStep

LEMMA SumType ==
  ASSUME NEW S, IsFiniteSet(S), NEW f, \A x \in S : f[x] \in Nat
  PROVE  SumFunctionOnSet(f, S) \in Nat
  BY SumUnfolds, AddsNat, ZenonT(30)

\* Functions that agree on a set have the same sum over it.
LEMMA SumSame ==
  ASSUME NEW S, IsFiniteSet(S), NEW f, NEW e, \A x \in S : e[x] = f[x]
  PROVE  SumFunctionOnSet(e, S) = SumFunctionOnSet(f, S)
<1>1. PICK g : Adds(g, f, SUBSET S) /\ SumFunctionOnSet(f, S) = g[S]
  BY SumUnfolds
<1>2. PICK h : Adds(h, e, SUBSET S) /\ SumFunctionOnSet(e, S) = h[S]
  BY SumUnfolds
<1>3. S \subseteq S /\ Agree(e, f, S)
  BY DEF Agree
<1>4. g[S] = h[S]
  BY <1>1, <1>2, <1>3, AddsSame, SMT
<1>5. QED
  BY <1>1, <1>2, <1>4

\* Any element can be taken off first.
LEMMA SumTakes ==
  ASSUME NEW S, IsFiniteSet(S), NEW f, \A x \in S : f[x] \in Nat, NEW y \in S
  PROVE  SumFunctionOnSet(f, S) = f[y] + SumFunctionOnSet(f, S \ {y})
<1>1. PICK g : Adds(g, f, SUBSET S) /\ SumFunctionOnSet(f, S) = g[S]
  BY SumUnfolds
<1>2. IsFiniteSet(S \ {y}) /\ S \ {y} \in SUBSET S
  BY FS_Subset
<1>3. PICK h : Adds(h, f, SUBSET (S \ {y})) /\ SumFunctionOnSet(f, S \ {y}) = h[S \ {y}]
  BY <1>2, SumUnfolds
<1>4. g[S] = f[y] + g[S \ {y}]
  BY <1>1, AddsAny
<1>5. g[S \ {y}] = h[S \ {y}]
  <2> DEFINE R == S \ {y}
  <2>1. R \subseteq S /\ Agree(f, f, R) /\ Adds(h, f, SUBSET R)
    BY <1>3 DEF Agree
  <2> HIDE DEF R
  <2>2. g[R] = h[R]
    BY <1>1, <2>1, AddsSame, SMT
  <2>3. QED
    BY <2>2 DEF R
<1>6. QED
  BY <1>1, <1>3, <1>4, <1>5

(***************************************************************************)
(* The scoreboard and the friend's totals                                  *)
(***************************************************************************)

LogsOf(f) == {l \in 1..Len(side) : logs[l] = f}

\* The side row a request accrues to is that of a live session with its friend.
LogsFit == \A w \in Requests : job[w].log # 0 => logs[job[w].log] = job[w].friend

BoardInv == LogsFit /\ ScoreboardWithinFriend

LEMMA BoardInit == Init => BoardInv
<1> SUFFICES ASSUME Init PROVE BoardInv
  OBVIOUS
<1>1. \A w \in Requests : job[w].log = 0
  BY DEF Init, Idle
<1>2. ASSUME NEW f \in Friends
      PROVE  SumFunctionOnSet(side, {l \in 1..Len(side) : logs[l] = f}) <= gecko[f]
  <2>1. {l \in 1..Len(side) : logs[l] = f} = {} /\ gecko[f] = 0
    BY <1>2 DEF Init
  <2>2. QED
    BY <2>1, SumOfNone
<1>3. QED
  BY <1>1, <1>2 DEF BoardInv, LogsFit, ScoreboardWithinFriend

\* What there is to sum
LEMMA Sides ==
  ASSUME DTypeOK, NEW f
  PROVE  /\ IsFiniteSet(LogsOf(f)) /\ LogsOf(f) \subseteq 1..Len(side)
         /\ \A l \in LogsOf(f) : side[l] \in Nat
         /\ Len(side) \in Nat /\ DOMAIN side = 1..Len(side) /\ Len(side) = Len(logs)
<1>1. side \in Seq(Nat) /\ Len(side) \in Nat /\ Len(side) = Len(logs)
  BY DEF DTypeOK, CountersOK
<1>2. IsFiniteSet(1..Len(side))
  BY <1>1, FS_Interval
<1>3. LogsOf(f) \in SUBSET (1..Len(side))
  BY DEF LogsOf
<1>4. IsFiniteSet(LogsOf(f))
  BY <1>2, <1>3, FS_Subset
<1>5. \A l \in LogsOf(f) : side[l] \in Nat
  BY <1>1, <1>3
<1>6. QED
  BY <1>1, <1>3, <1>4, <1>5

\* A commit adds the same to the row of the session as to the friend's totals ...
LEMMA CommitBoard ==
  ASSUME DTypeOK, BoardInv, NEW w \in Requests, CommitCounters(job[w]), UNCHANGED logs,
         NEW f \in Friends
  PROVE  SumFunctionOnSet(side', LogsOf(f)') <= gecko'[f]
<1> DEFINE k == job[w].log
           n == job[w].units
           S == LogsOf(f)
<1>1. /\ n \in Nat /\ gecko[f] \in Nat /\ k \in 0..Len(logs)
      /\ gecko'[f] = IF f = job[w].friend THEN gecko[f] + n ELSE gecko[f]
  BY JobFacts DEF DTypeOK, CountersOK, CommitCounters
<1>2. /\ IsFiniteSet(S) /\ S \subseteq 1..Len(side) /\ \A l \in S : side[l] \in Nat
      /\ Len(side) \in Nat /\ Len(side) = Len(logs)
  BY Sides
<1>3. /\ Len(side') = Len(side)
      /\ \A l \in 1..Len(side) : side'[l] = IF l = k THEN side[l] + n ELSE side[l]
  BY <1>2 DEF CommitCounters
<1>4. LogsOf(f)' = S
  BY <1>3 DEF LogsOf
<1>5. SumFunctionOnSet(side, S) <= gecko[f] /\ SumFunctionOnSet(side, S) \in Nat
  BY <1>2, SumType DEF BoardInv, ScoreboardWithinFriend, LogsOf
<1> HIDE DEF S
<1>6. CASE k \in S
  <2>1. f = job[w].friend
    BY <1>6 DEF S, LogsOf, BoardInv, LogsFit
  <2>2. IsFiniteSet(S \ {k}) /\ \A l \in S \ {k} : side'[l] = side[l]
    BY <1>2, <1>3, FS_RemoveElement
  <2>3. SumFunctionOnSet(side', S \ {k}) = SumFunctionOnSet(side, S \ {k})
    BY <2>2, SumSame
  <2>4. SumFunctionOnSet(side, S) = side[k] + SumFunctionOnSet(side, S \ {k})
    BY <1>2, <1>6, SumTakes
  <2>5. SumFunctionOnSet(side', S) = side'[k] + SumFunctionOnSet(side', S \ {k})
    <3>1. \A l \in S : side'[l] \in Nat
      BY <1>1, <1>2, <1>3
    <3>2. QED
      BY <1>2, <1>6, <3>1, SumTakes
  <2>6. side'[k] = side[k] + n /\ side[k] \in Nat /\ SumFunctionOnSet(side, S \ {k}) \in Nat
    <3>1. \A l \in S \ {k} : side[l] \in Nat
      BY <1>2
    <3>2. QED
      BY <1>2, <1>3, <1>6, <2>2, <3>1, SumType
  <2>7. SumFunctionOnSet(side', S) = SumFunctionOnSet(side, S) + n
    BY <1>1, <2>3, <2>4, <2>5, <2>6
  <2>8. QED
    BY <1>1, <1>4, <1>5, <2>1, <2>7
<1>7. CASE k \notin S
  <2>1. \A l \in S : side'[l] = side[l]
    BY <1>2, <1>3, <1>7
  <2>2. SumFunctionOnSet(side', S) = SumFunctionOnSet(side, S)
    BY <1>2, <2>1, SumSame
  <2>3. QED
    BY <1>1, <1>4, <1>5, <2>2
<1>8. QED
  BY <1>6, <1>7

\* ... and a new session begins with nothing.
LEMMA NewBoard ==
  ASSUME DTypeOK, BoardInv, NEW g \in Friends, NewLiveSesh(g), NEW f \in Friends
  PROVE  SumFunctionOnSet(side', LogsOf(f)') <= gecko'[f]
<1> DEFINE S == LogsOf(f)
           k == Len(side) + 1
<1>1. /\ IsFiniteSet(S) /\ S \subseteq 1..Len(side) /\ \A l \in S : side[l] \in Nat
      /\ Len(side) \in Nat /\ Len(side) = Len(logs)
  BY Sides
<1>2. side \in Seq(Nat) /\ logs \in Seq(Friends) /\ gecko[f] \in Nat
  BY DEF DTypeOK, CountersOK
<1>3. /\ Len(side') = k /\ side'[k] = 0 /\ \A l \in 1..Len(side) : side'[l] = side[l]
      /\ logs'[k] = g /\ \A l \in 1..Len(side) : logs'[l] = logs[l]
      /\ UNCHANGED gecko
  BY <1>1, <1>2 DEF NewLiveSesh
<1>4. LogsOf(f)' = S \cup (IF g = f THEN {k} ELSE {})
  BY <1>1, <1>3 DEF LogsOf
<1>5. SumFunctionOnSet(side, S) <= gecko[f]
  BY DEF BoardInv, ScoreboardWithinFriend, LogsOf
<1>6. k \notin S
  BY <1>1
<1> HIDE DEF S
<1>7. SumFunctionOnSet(side', S) = SumFunctionOnSet(side, S)
        /\ SumFunctionOnSet(side, S) \in Nat
  BY <1>1, <1>3, SumSame, SumType
<1>8. CASE g = f
  <2> DEFINE T == S \cup {k}
  <2>1. LogsOf(f)' = T /\ IsFiniteSet(T) /\ T \ {k} = S /\ k \in T
    BY <1>1, <1>4, <1>6, <1>8, FS_AddElement
  <2>2. (\A l \in S : side'[l] \in Nat) /\ side'[k] \in Nat
    <3>1. \A l \in S : side'[l] = side[l]
      BY <1>1, <1>3
    <3>2. side'[k] = 0
      BY <1>3
    <3>3. QED
      BY <1>1, <3>1, <3>2
  <2> HIDE DEF k
  <2>3. \A l \in T : side'[l] \in Nat
    BY <2>2
  <2> HIDE DEF T
  <2>4. SumFunctionOnSet(side', T) = side'[k] + SumFunctionOnSet(side', S)
    BY <2>1, <2>3, SumTakes
  <2>5. QED
    BY <1>2, <1>3, <1>5, <1>7, <2>1, <2>4
<1>9. CASE g # f
  BY <1>3, <1>4, <1>5, <1>7, <1>9
<1>10. QED
  BY <1>8, <1>9

LEMMA BoardKept ==
  ASSUME BoardInv, UNCHANGED <<side, logs, gecko>>
  PROVE  ScoreboardWithinFriend'
  BY DEF BoardInv, ScoreboardWithinFriend

\* Which side row a request accrues to is settled last, and sessions are only added.
LEMMA LogsFitNext ==
  ASSUME DTypeOK, LogsFit, [Next]_vars
  PROVE  LogsFit'
<1>1. /\ job \in [Requests -> Job]
      /\ \A w \in Requests : job[w].log \in 0..Len(logs)
      /\ logs \in Seq(Friends) /\ Len(logs) \in Nat
  BY DEF DTypeOK, CountersOK
<1>2. ASSUME NEW w \in Requests, \A v \in Requests \ {w} : job'[v] = job[v], UNCHANGED logs,
             \/ job'[w].log = 0
             \/ job'[w].log = job[w].log /\ job'[w].friend = job[w].friend
             \/ logs[job'[w].log] = job'[w].friend
      PROVE  LogsFit'
  BY <1>2 DEF LogsFit
<1>3. ASSUME UNCHANGED <<job, logs>>
      PROVE  LogsFit'
  BY <1>3 DEF LogsFit
<1>4. ASSUME NEW w \in Requests, NEW f, NEW n, NEW win, Record(w, f, n, win)
      PROVE  LogsFit'
  <2>1. /\ job'[w].log = 0 /\ \A v \in Requests \ {w} : job'[v] = job[v]
        /\ UNCHANGED logs
    BY <1>1, <1>4 DEF Record, Idle
  <2>2. QED
    BY <1>2, <2>1
<1>5. ASSUME NEW w \in Requests, LockFriend(w) \/ LockTotals(w) \/ Count(w) \/ FindSession(w)
      PROVE  LogsFit'
  <2>1. /\ job'[w].friend = job[w].friend /\ UNCHANGED logs
        /\ \A v \in Requests \ {w} : job'[v] = job[v]
    BY <1>5, Inside DEF LockFriend, LockTotals, Count, FindSession
  <2>2. job'[w].log = job[w].log
    <3>1. CASE LockFriend(w)
      BY <1>1, <3>1 DEF LockFriend, Job
    <3>2. CASE LockTotals(w)
      BY <1>1, <3>2 DEF LockTotals, Job
    <3>3. CASE Count(w)
      <4>1. PICK pc, b : job' = [job EXCEPT ![w] = [job[w] EXCEPT !.pc = pc, !.at = clock, !.bucket = b]]
        BY <1>1, <3>3 DEF Count
      <4>2. QED
        BY <1>1, <4>1 DEF Job
    <3>4. CASE FindSession(w)
      <4> DEFINE pc == AccrueOrCommit(job[w].units, job[w].friend)
                 next == [job[w] EXCEPT !.pc = pc]
      <4>1. \/ \E i, k : job' = [job EXCEPT ![w] = [next EXCEPT !.session = i, !.found = k]]
            \/ \E k : job' = [job EXCEPT ![w] = [next EXCEPT !.tag = k]]
        BY <3>4 DEF FindSession
      <4> HIDE DEF pc
      <4>2. QED
        BY <1>1, <4>1 DEF Job
    <3>5. QED
      BY <1>5, <3>1, <3>2, <3>3, <3>4
  <2>3. QED
    BY <1>2, <2>1, <2>2
<1>6. ASSUME NEW w \in Requests, Accrue(w)
      PROVE  LogsFit'
  <2>1. /\ job'[w].friend = job[w].friend /\ UNCHANGED logs
        /\ \A v \in Requests \ {w} : job'[v] = job[v]
    BY <1>6, Inside DEF Accrue
  <2>2. PICK l : /\ job' = [job EXCEPT ![w] = [job[w] EXCEPT !.pc = "commit", !.log = l]]
                 /\ l = LogWith(job[w].friend)
    BY <1>1, <1>6 DEF Accrue
  <2>3. job'[w].log = LogWith(job[w].friend)
    BY <1>1, <2>2 DEF Job
  <2>4. LogWith(job[w].friend) # 0 => logs[LogWith(job[w].friend)] = job[w].friend
    BY DEF LogWith
  <2>5. QED
    BY <1>2, <2>1, <2>3, <2>4
<1>7. ASSUME NEW w \in Requests, Commit(w) \/ Fail(w)
      PROVE  LogsFit'
  <2>1. job'[w] = Idle /\ UNCHANGED logs /\ \A v \in Requests \ {w} : job'[v] = job[v]
    BY <1>1, <1>7 DEF Commit, Fail
  <2>2. Idle.log = 0
    BY DEF Idle
  <2>3. QED
    BY <1>2, <2>1, <2>2
<1>8. ASSUME NEW f \in Friends, NewLiveSesh(f)
      PROVE  LogsFit'
  <2>1. UNCHANGED job /\ \A l \in 1..Len(logs) : logs'[l] = logs[l]
    BY <1>1, <1>8 DEF NewLiveSesh
  <2>2. QED
    BY <1>1, <2>1 DEF LogsFit
<1>9. CASE Elsewhere
  BY <1>3, <1>8, <1>9 DEF Elsewhere, SeedMiss, SeedFill, SeedExpires, Tick
<1>10. CASE UNCHANGED vars
  BY <1>3, <1>10 DEF vars
<1>11. QED
  BY <1>4, <1>5, <1>6, <1>7, <1>9, <1>10 DEF Next, RecordStep

LEMMA BoardNext ==
  ASSUME DTypeOK, BoardInv, [Next]_vars
  PROVE  BoardInv'
<1>1. LogsFit'
  BY LogsFitNext DEF BoardInv
<1>2. CASE UNCHANGED <<side, logs, gecko>>
  BY <1>1, <1>2, BoardKept DEF BoardInv
<1>3. ASSUME NEW w \in Requests, Commit(w)
      PROVE  BoardInv'
  <2>1. CommitCounters(job[w]) /\ UNCHANGED logs
    BY <1>3 DEF Commit
  <2>2. \A f \in Friends : SumFunctionOnSet(side', LogsOf(f)') <= gecko'[f]
    BY <2>1, CommitBoard
  <2>3. ScoreboardWithinFriend'
    BY <2>2 DEF ScoreboardWithinFriend, LogsOf
  <2>4. QED
    BY <1>1, <2>3 DEF BoardInv
<1>4. ASSUME NEW g \in Friends, NewLiveSesh(g)
      PROVE  BoardInv'
  <2>1. \A f \in Friends : SumFunctionOnSet(side', LogsOf(f)') <= gecko'[f]
    BY <1>4, NewBoard
  <2>2. ScoreboardWithinFriend'
    BY <2>1 DEF ScoreboardWithinFriend, LogsOf
  <2>3. QED
    BY <1>1, <2>2 DEF BoardInv
<1>5. \/ UNCHANGED <<side, logs, gecko>>
      \/ \E w \in Requests : Commit(w)
      \/ \E g \in Friends : NewLiveSesh(g)
  <2>1. CASE UNCHANGED vars
    BY <2>1 DEF vars, counterVars
  <2>2. CASE \E w \in Requests : RecordStep(w)
    BY <2>2, ZenonT(30) DEF RecordStep, Record, LockFriend, LockTotals, Count, FindSession, Accrue, Fail,
       counterVars
  <2>3. CASE Elsewhere
    BY <2>3 DEF Elsewhere, SeedMiss, SeedFill, SeedExpires, Tick, counterVars
  <2>4. QED
    BY <2>1, <2>2, <2>3 DEF Next
<1>6. QED
  BY <1>2, <1>3, <1>4, <1>5

\* What the scoreboards with a friend say never exceeds the friend's totals, for any number
\* of sessions, friends and overlapping requests (gecko_helpers.py:487): a request accrues to
\* the row of a session with its own friend, and both are written in one commit.
THEOREM BoardsWithinFriend == Spec => []ScoreboardWithinFriend
<1>1. DTypeOK /\ BoardInv /\ [Next]_vars => (DTypeOK /\ BoardInv)'
  BY TypesNext, BoardNext
<1>2. BoardInv => ScoreboardWithinFriend
  BY DEF BoardInv
<1>3. QED
  BY <1>1, <1>2, InitTypes, BoardInit, PTL DEF Spec
=============================================================================
