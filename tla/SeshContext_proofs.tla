--------------------------- MODULE SeshContext_proofs ---------------------------
(* What is proved about the registry, LiveSesh, and about the cache above it, SeshContext,
   for any users, links, workers, levels and pulls: first what holds of the registry by
   itself, and that its rows are the sessions of Sessions; then that the cache adds nothing
   to it, and that a context in Redis that is not the database's is one that somebody still
   has to drop. *)
EXTENDS SeshContext, TLAPS

(***************************************************************************)
(* The registry                                                            *)
(***************************************************************************)


\* A request still to commit carries what its first step read: an accept is for an
\* invite between two linked users and never displaces either of them.
RequestsKnowTheirUsers ==
    \A w \in Workers : job[w].op = "accept" =>
        /\ <<job[w].sender, job[w].recipient>> \in Links
        /\ job[w].sender \notin job[w].displaced
        /\ job[w].recipient \notin job[w].displaced

\* No row is of a session that has not been started.
SessionsHaveStarted == \A u \in Users : HasRow(u) => row[u].session_id \in 1..started

IInv ==
    /\ TypeOK
    /\ RequestsKnowTheirUsers
    /\ SessionsHaveStarted
    /\ SessionsArePairs
    /\ LiveAreMatched
    /\ LiveLogIsOpen

LEMMA InitInv == Init => IInv
<1> SUFFICES ASSUME Init PROVE IInv
  OBVIOUS
<1> USE DEF Init
<1>1. TypeOK
  <2>1. DOMAIN log = {}
    OBVIOUS
  <2>2. 1..started = {}
    OBVIOUS
  <2>3. job \in [Workers -> Job]
    BY DEF Job
  <2>4. invite \in [Links -> InviteStatus]
    BY DEF InviteStatus
  <2>5. started \in 0..MaxSessions
    BY MaxSessionsAssumption
  <2>6. QED
    BY <2>1, <2>2, <2>3, <2>4, <2>5 DEF TypeOK
<1>2. \A u \in Users : ~HasRow(u)
  BY DEF HasRow
<1>3. RequestsKnowTheirUsers
  BY DEF RequestsKnowTheirUsers, Idle
<1>4. QED
  BY <1>1, <1>2, <1>3 DEF IInv, SessionsHaveStarted, SessionsArePairs, LiveAreMatched,
    LiveLogIsOpen, Live


-----------------------------------------------------------------------------
(* Steps that start no session: seats stay, and life and open logs only end. *)

LEMMA PairOfRows ==
  ASSUME SessionsArePairs, NEW u \in Users, NEW v \in Users, u # v, HasRow(u), HasRow(v)
  PROVE  (row[v].session_id = row[u].session_id)
            <=> (row[v].other = u /\ row[u].other = v)
<1>1. v \in Users \ {u}
  OBVIOUS
<1>2. QED
  BY <1>1, ZenonT(30) DEF SessionsArePairs

LEMMA SeatsInv ==
  ASSUME IInv, TypeOK', RequestsKnowTheirUsers',
         UNCHANGED <<hello, started, overtaken>>,
         \A u \in Users : row'[u] # NoRow <=> row[u] # NoRow,
         \A u \in Users : HasRow(u) =>
             /\ row'[u].other = row[u].other
             /\ row'[u].is_host = row[u].is_host
             /\ row'[u].session_id = row[u].session_id
             /\ row'[u].current_log = row[u].current_log
             /\ row'[u].live => row[u].live,
         \A s \in DOMAIN log :
             /\ log'[s].host = log[s].host
             /\ log'[s].guest = log[s].guest,
         \A u \in Users : HasRow(u) /\ row'[u].live =>
             log'[row[u].current_log].open = log[row[u].current_log].open
  PROVE  IInv'
<1>0. DOMAIN log' = DOMAIN log
  BY DEF IInv, TypeOK
<1>1. SessionsHaveStarted'
  BY DEF IInv, SessionsHaveStarted, HasRow
<1>2. SessionsArePairs'
  <2> SUFFICES ASSUME NEW u \in Users, row'[u] # NoRow
               PROVE  LET r == row'[u]  s == r.session_id
                      IN  /\ s \in DOMAIN log'
                          /\ r.current_log = s
                          /\ r.other # u
                          /\ <<u, r.other>> = IF r.is_host
                                THEN <<log'[s].host, log'[s].guest>>
                                ELSE <<log'[s].guest, log'[s].host>>
                          /\ \A v \in Users \ {u} : row'[v] # NoRow =>
                                ((row'[v].session_id = s)
                                    <=> (row'[v].other = u /\ r.other = v))
    BY DEF SessionsArePairs, HasRow
  <2> HasRow(u)
    BY DEF HasRow
  <2>1. /\ row[u].session_id \in DOMAIN log
        /\ row[u].current_log = row[u].session_id
        /\ row[u].other # u
        /\ <<u, row[u].other>> = IF row[u].is_host
              THEN <<log[row[u].session_id].host, log[row[u].session_id].guest>>
              ELSE <<log[row[u].session_id].guest, log[row[u].session_id].host>>
    BY DEF IInv, SessionsArePairs
  <2>2. ASSUME NEW v \in Users \ {u}, row'[v] # NoRow
        PROVE  (row'[v].session_id = row'[u].session_id)
                  <=> (row'[v].other = u /\ row'[u].other = v)
    <3>1. HasRow(v)
      BY <2>2 DEF HasRow
    <3>2. (row[v].session_id = row[u].session_id)
             <=> (row[v].other = u /\ row[u].other = v)
      BY <3>1, PairOfRows DEF IInv
    <3>3. QED
      BY <3>1, <3>2
  <2>3. QED
    BY <1>0, <2>1, <2>2
<1>3. LiveAreMatched'
  <2> SUFFICES ASSUME ~overtaken', NEW u \in Users, Live(u)'
               PROVE  /\ row'[row'[u].other] # NoRow
                      /\ row'[row'[u].other].session_id = row'[u].session_id
    BY DEF LiveAreMatched, HasRow
  <2>1. Live(u) /\ row'[u].other = row[u].other /\ row'[u].session_id = row[u].session_id
    BY DEF Live, HasRow
  <2>2. row[u].other \in Users
    BY <2>1 DEF IInv, TypeOK, Live, HasRow, Row
  <2>3. HasRow(row[u].other) /\ row[row[u].other].session_id = row[u].session_id
    BY <2>1 DEF IInv, LiveAreMatched
  <2>4. QED
    BY <2>1, <2>2, <2>3 DEF HasRow
<1>4. LiveLogIsOpen'
  BY DEF IInv, LiveLogIsOpen, Live, HasRow
<1>5. QED
  BY <1>1, <1>2, <1>3, <1>4 DEF IInv

\* Steps that touch an invite or a request only.
LEMMA SameRowsInv ==
  ASSUME IInv, UNCHANGED <<row, log, hello, started, overtaken>>,
         invite' \in [Links -> InviteStatus], job' \in [Workers -> Job],
         RequestsKnowTheirUsers'
  PROVE  IInv'
<1>1. TypeOK'
  BY DEF IInv, TypeOK
<1>2. QED
  BY <1>1, SeatsInv

LEMMA AcceptReadInv ==
  ASSUME IInv, NEW w \in Workers, NEW l \in Links, AcceptRead(w, l)
  PROVE  IInv'
<1> DEFINE d == Displaced(l[1], l[2])
<1>1. l[1] \in Users /\ l[2] \in Users /\ l = <<l[1], l[2]>>
  BY LinksAssumption
<1>2. d \subseteq Users /\ l[1] \notin d /\ l[2] \notin d
  <2>1. \A u \in Users : HasRow(u) => row[u].other \in Users
    BY DEF IInv, TypeOK, Row, HasRow
  <2>2. QED
    BY <1>1, <2>1 DEF Displaced
<1> DEFINE j == [op |-> "accept", sender |-> l[1], recipient |-> l[2], displaced |-> d]
<1>3. j \in Job
  <2>1. j \in AcceptJob
    BY <1>1, <1>2 DEF AcceptJob
  <2>2. QED
    BY <2>1 DEF Job
<1>4. job' = [job EXCEPT ![w] = j]
  BY DEF AcceptRead
<1>5. job' \in [Workers -> Job]
  BY <1>3, <1>4 DEF IInv, TypeOK
<1>6. RequestsKnowTheirUsers'
  <2>1. \A v \in Workers : job'[v] = IF v = w THEN j ELSE job[v]
    BY <1>4 DEF IInv, TypeOK
  <2>2. j.sender = l[1] /\ j.recipient = l[2] /\ j.displaced = d
    OBVIOUS
  <2> HIDE DEF j, d
  <2>3. QED
    BY <1>1, <1>2, <2>1, <2>2 DEF IInv, RequestsKnowTheirUsers
<1>7. QED
  BY <1>5, <1>6, SameRowsInv DEF AcceptRead, IInv, TypeOK

\* A worker that turns to anything but an accept keeps what is known of the others.
LEMMA OtherRequest ==
  ASSUME IInv, NEW w \in Workers, NEW j \in Job, j.op # "accept",
         job' = [job EXCEPT ![w] = j]
  PROVE  job' \in [Workers -> Job] /\ RequestsKnowTheirUsers'
BY DEF IInv, TypeOK, RequestsKnowTheirUsers

LEMMA IdleIsJob == Idle \in Job /\ Idle.op # "accept"
BY DEF Idle, Job

LEMMA AfterIsJob ==
  ASSUME NEW drop \in SUBSET Users, NEW refresh \in SUBSET Users,
         NEW close \in SUBSET Users
  PROVE  LET j == [op |-> "after", drop |-> drop, refresh |-> refresh, close |-> close]
         IN  j \in Job /\ j.op # "accept"
BY DEF Job, AfterJob

LEMMA EndIsJob ==
  ASSUME NEW op \in {"cancel", "hello"}, NEW u \in Users, NEW p \in Users
  PROVE  LET j == [op |-> op, user |-> u, partner |-> p]
         IN  j \in Job /\ j.op # "accept"
BY DEF Job, EndJob

LEMMA LevelIsJob ==
  ASSUME NEW u \in Users, NEW p \in Users, NEW level \in Levels
  PROVE  LET j == [op |-> "level", user |-> u, partner |-> p, level |-> level]
         IN  j \in Job /\ j.op # "accept"
BY DEF Job, LevelJob

LEMMA PartnerIsUser == ASSUME IInv, NEW u \in Users, HasRow(u)
                       PROVE  row[u] \in Row /\ row[u].other \in Users
BY DEF IInv, TypeOK, HasRow, Row

\* A request's fields, by its kind
LEMMA EndFields ==
  ASSUME IInv, NEW w \in Workers, job[w].op \in {"cancel", "hello"}
  PROVE  job[w].user \in Users /\ job[w].partner \in Users
BY DEF IInv, TypeOK, Job, Idle, AcceptJob, EndJob, LevelJob, AfterJob

LEMMA LevelFields ==
  ASSUME IInv, NEW w \in Workers, job[w].op = "level"
  PROVE  job[w].user \in Users /\ job[w].partner \in Users /\ job[w].level \in Levels
BY DEF IInv, TypeOK, Job, Idle, AcceptJob, EndJob, LevelJob, AfterJob

LEMMA AcceptFields ==
  ASSUME IInv, NEW w \in Workers, job[w].op = "accept"
  PROVE  /\ job[w].sender \in Users /\ job[w].recipient \in Users
         /\ job[w].displaced \subseteq Users
BY DEF IInv, TypeOK, Job, Idle, AcceptJob, EndJob, LevelJob, AfterJob

\* What an update of expires_at leaves of a row
LEMMA ExpiredRows ==
  ASSUME IInv, NEW gone
  PROVE  /\ Expired(gone) \in [Users -> Row \cup {NoRow}]
         /\ \A u \in Users : Expired(gone)[u] # NoRow <=> row[u] # NoRow
         /\ \A u \in Users : HasRow(u) =>
               /\ Expired(gone)[u].other = row[u].other
               /\ Expired(gone)[u].is_host = row[u].is_host
               /\ Expired(gone)[u].session_id = row[u].session_id
               /\ Expired(gone)[u].current_log = row[u].current_log
               /\ Expired(gone)[u].level = row[u].level
               /\ Expired(gone)[u].live <=> row[u].live /\ u \notin gone
<1>1. ASSUME NEW u \in Users, HasRow(u), u \in gone
      PROVE  /\ Expired(gone)[u] = [row[u] EXCEPT !.live = FALSE]
             /\ Expired(gone)[u] \in Row
             /\ row[u] \in Row
  BY <1>1, PartnerIsUser DEF Expired, Row
<1>2. ASSUME NEW u \in Users, ~(HasRow(u) /\ u \in gone)
      PROVE  Expired(gone)[u] = row[u] /\ row[u] \in Row \cup {NoRow}
  BY <1>2 DEF Expired, IInv, TypeOK
<1>3. NoRow \notin Row
  BY NoRowAssumption DEF Row, Sids
<1>4. Expired(gone) = [u \in Users |-> Expired(gone)[u]]
  BY DEF Expired
<1>5. Expired(gone) \in [Users -> Row \cup {NoRow}]
  BY <1>1, <1>2, <1>4
<1>6. \A u \in Users : Expired(gone)[u] # NoRow <=> row[u] # NoRow
  BY <1>1, <1>2, <1>3 DEF HasRow
<1>7. ASSUME NEW u \in Users, HasRow(u)
      PROVE  /\ Expired(gone)[u].other = row[u].other
             /\ Expired(gone)[u].is_host = row[u].is_host
             /\ Expired(gone)[u].session_id = row[u].session_id
             /\ Expired(gone)[u].current_log = row[u].current_log
             /\ Expired(gone)[u].level = row[u].level
             /\ Expired(gone)[u].live <=> row[u].live /\ u \notin gone
  <2>1. CASE u \in gone
    BY <1>1, <1>7, <2>1 DEF Row
  <2>2. CASE u \notin gone
    BY <1>2, <1>7, <2>2
  <2>3. QED
    BY <2>1, <2>2
<1>8. QED
  BY <1>5, <1>6, <1>7

\* A cancel or a hello expires two rows and turns to its callbacks.
LEMMA EndCommitInv ==
  ASSUME IInv, NEW w \in Workers, NEW drop \in SUBSET Users, NEW close \in SUBSET Users,
         NEW gone,
         row' = Expired(gone),
         job' = [job EXCEPT ![w] =
                   [op |-> "after", drop |-> drop, refresh |-> {}, close |-> close]],
         UNCHANGED <<invite, log, hello, started, overtaken>>
  PROVE  IInv'
<1>1. job' \in [Workers -> Job] /\ RequestsKnowTheirUsers'
  BY AfterIsJob, OtherRequest
<1>2. TypeOK'
  BY <1>1, ExpiredRows DEF IInv, TypeOK
<1>3. QED
  BY <1>1, <1>2, ExpiredRows, SeatsInv

LEMMA SeshTimeoutInv ==
  ASSUME IInv, NEW s \in Sids, SeshTimeout(s)
  PROVE  IInv'
<1> DEFINE in == {u \in Users : Live(u) /\ row[u].session_id = s}
<1>1. row' = Expired(in) /\ s \in DOMAIN log /\ log' = [log EXCEPT ![s].open = FALSE]
  BY DEF SeshTimeout
<1>2. UNCHANGED <<invite, hello, started, job, overtaken>>
  BY DEF SeshTimeout
<1> HIDE DEF in
<1>3. \A i \in DOMAIN log : log[i] \in Log
  BY DEF IInv, TypeOK
<1>4. /\ DOMAIN log' = DOMAIN log
      /\ \A i \in DOMAIN log : /\ log'[i] \in Log
                               /\ log'[i].host = log[i].host
                               /\ log'[i].guest = log[i].guest
                               /\ i # s => log'[i] = log[i]
  BY <1>1, <1>3 DEF Log
<1>5. TypeOK'
  BY <1>1, <1>2, <1>4, ExpiredRows DEF IInv, TypeOK
<1>6. RequestsKnowTheirUsers'
  BY <1>2 DEF IInv, RequestsKnowTheirUsers
<1>7. ASSUME NEW u \in Users, HasRow(u), row'[u].live
      PROVE  log'[row[u].current_log].open = log[row[u].current_log].open
  <2>1. row[u].live /\ u \notin in
    BY <1>1, <1>7, ExpiredRows
  <2>2. row[u].session_id # s
    BY <1>7, <2>1 DEF in, Live
  <2>3. row[u].current_log = row[u].session_id /\ row[u].session_id \in DOMAIN log
    BY <1>7 DEF IInv, SessionsArePairs
  <2>4. QED
    BY <1>4, <2>2, <2>3
<1>8. /\ \A u \in Users : row'[u] # NoRow <=> row[u] # NoRow
      /\ \A u \in Users : HasRow(u) =>
            /\ row'[u].other = row[u].other
            /\ row'[u].is_host = row[u].is_host
            /\ row'[u].session_id = row[u].session_id
            /\ row'[u].current_log = row[u].current_log
            /\ row'[u].live => row[u].live
  BY <1>1, ExpiredRows
<1>9. \A i \in DOMAIN log : log'[i].host = log[i].host /\ log'[i].guest = log[i].guest
  BY <1>4
<1>10. QED
  BY <1>2, <1>5, <1>6, <1>7, <1>8, <1>9, SeatsInv

LEMMA LevelRows ==
  ASSUME IInv, NEW w \in Workers, LevelCommit(w)
  PROVE  /\ row' \in [Users -> Row \cup {NoRow}]
         /\ \A v \in Users : row'[v] # NoRow <=> row[v] # NoRow
         /\ \A v \in Users : ~HasRow(v) => row'[v] = row[v]
         /\ \A v \in Users : HasRow(v) =>
               /\ row'[v].other = row[v].other
               /\ row'[v].is_host = row[v].is_host
               /\ row'[v].session_id = row[v].session_id
               /\ row'[v].current_log = row[v].current_log
               /\ row'[v].live = row[v].live
<1> DEFINE u == job[w].user
           p == job[w].partner
           named == {v \in {u, p} : HasRow(v) /\ row[v].other \in {u, p}}
<1>1. job[w].level \in Levels
  BY LevelFields DEF LevelCommit
<1>2. row' = [v \in Users |-> IF v \in named
                THEN [row[v] EXCEPT !.level = job[w].level] ELSE row[v]]
  BY DEF LevelCommit
<1>3. \A v \in named : HasRow(v)
  OBVIOUS
<1> HIDE DEF named
<1>4. ASSUME NEW v \in Users, HasRow(v)
      PROVE  /\ row'[v] \in Row
             /\ row'[v].other = row[v].other
             /\ row'[v].is_host = row[v].is_host
             /\ row'[v].session_id = row[v].session_id
             /\ row'[v].current_log = row[v].current_log
             /\ row'[v].live = row[v].live
  <2>1. row[v] \in Row
    BY <1>4, PartnerIsUser
  <2>2. QED
    BY <1>1, <1>2, <2>1 DEF Row
<1>5. \A v \in Users : ~HasRow(v) => row'[v] = NoRow /\ row[v] = NoRow
  BY <1>2, <1>3 DEF HasRow
<1>6. NoRow \notin Row
  BY NoRowAssumption DEF Row, Sids
<1>7. row' \in [Users -> Row \cup {NoRow}]
  BY <1>2, <1>4, <1>5
<1>8. QED
  BY <1>4, <1>5, <1>6, <1>7 DEF HasRow

LEMMA LevelCommitInv ==
  ASSUME IInv, NEW w \in Workers, LevelCommit(w)
  PROVE  IInv'
<1>1. job[w].user \in Users /\ job[w].partner \in Users
  BY LevelFields DEF LevelCommit
<1>2. job' \in [Workers -> Job] /\ RequestsKnowTheirUsers'
  BY <1>1, AfterIsJob, OtherRequest DEF LevelCommit
<1>3. UNCHANGED <<invite, log, hello, started, overtaken>>
  BY DEF LevelCommit
<1>4. TypeOK'
  BY <1>2, <1>3, LevelRows DEF IInv, TypeOK
<1>5. QED
  BY <1>2, <1>3, <1>4, LevelRows, SeatsInv

-----------------------------------------------------------------------------
(* The step that starts a session *)

\* The rows after an accept by s and r: theirs are new, every other row keeps its seat,
\* and only the displaced lose their life.
LEMMA AcceptRows ==
  ASSUME IInv, NEW w \in Workers, AcceptCommit(w)
  PROVE  LET s == job[w].sender
             r == job[w].recipient
             d == job[w].displaced
             sid == started + 1
         IN  /\ s \in Users /\ r \in Users /\ d \subseteq Users
             /\ <<s, r>> \in Links /\ s # r /\ s \notin d /\ r \notin d
             /\ sid \in Sids /\ started \in Nat /\ sid \notin 1..started
             /\ 1..sid = (1..started) \cup {sid}
             /\ row' \in [Users -> Row \cup {NoRow}]
             /\ row'[s].other = r /\ row'[s].is_host = TRUE /\ row'[s].session_id = sid
             /\ row'[s].current_log = sid /\ row'[s] # NoRow
             /\ row'[r].other = s /\ row'[r].is_host = FALSE /\ row'[r].session_id = sid
             /\ row'[r].current_log = sid /\ row'[r] # NoRow
             /\ \A u \in Users \ {s, r} :
                   /\ row'[u] # NoRow <=> HasRow(u)
                   /\ HasRow(u) =>
                         /\ row'[u].other = row[u].other
                         /\ row'[u].is_host = row[u].is_host
                         /\ row'[u].session_id = row[u].session_id
                         /\ row'[u].current_log = row[u].current_log
                         /\ row'[u].live <=> row[u].live /\ u \notin d
<1> DEFINE s == job[w].sender
           r == job[w].recipient
           d == job[w].displaced
           sid == started + 1
<1>1. /\ s \in Users /\ r \in Users /\ d \subseteq Users
      /\ <<s, r>> \in Links /\ s # r /\ s \notin d /\ r \notin d
  BY AcceptFields, LinksAssumption DEF AcceptCommit, IInv, RequestsKnowTheirUsers
<1>2. /\ sid \in Sids /\ started \in Nat /\ sid \notin 1..started
      /\ 1..sid = (1..started) \cup {sid}
  BY MaxSessionsAssumption DEF AcceptCommit, IInv, TypeOK, Sids
<1>3. /\ invite' = [invite EXCEPT ![<<s, r>>] = "closed"]
      /\ row' = [Expired(d) EXCEPT ![s] = NewRow(s, r, TRUE, sid),
                                   ![r] = NewRow(r, s, FALSE, sid)]
      /\ log' = LogsAfterSave(s, r, sid)
      /\ hello' = hello \cup HelloesFor(s, r, sid)
      /\ started' = sid
      /\ job' = [job EXCEPT ![w] = [op |-> "after", drop |-> {s, r} \cup d,
                                     refresh |-> {s, r}, close |-> d]]
      /\ overtaken' = (overtaken \/ d # Displaced(s, r))
  BY DEF AcceptCommit, DropsOfAccept
<1>6. /\ NewRow(s, r, TRUE, sid) \in Row /\ NewRow(r, s, FALSE, sid) \in Row
      /\ NewRow(s, r, TRUE, sid) # NoRow /\ NewRow(r, s, FALSE, sid) # NoRow
  <2>1. \A u \in Users : HasRow(u) => row[u].level \in Levels
    BY PartnerIsUser DEF Row
  <2>2. NoRow \notin Row
    BY NoRowAssumption DEF Row, Sids
  <2>3. NewRow(s, r, TRUE, sid) \in Row
    BY <1>1, <1>2, <2>1, LevelsAssumption DEF NewRow, Row
  <2>4. NewRow(r, s, FALSE, sid) \in Row
    BY <1>1, <1>2, <2>1, LevelsAssumption DEF NewRow, Row
  <2>5. QED
    BY <2>2, <2>3, <2>4
<1>7. /\ row'[s] = NewRow(s, r, TRUE, sid)
      /\ row'[r] = NewRow(r, s, FALSE, sid)
      /\ \A u \in Users \ {s, r} : row'[u] = Expired(d)[u]
      /\ row' \in [Users -> Row \cup {NoRow}]
  <2> DEFINE e == Expired(d)  ns == NewRow(s, r, TRUE, sid)  nr == NewRow(r, s, FALSE, sid)
  <2>1. e \in [Users -> Row \cup {NoRow}]
    BY ExpiredRows
  <2>2. row' = [e EXCEPT ![s] = ns, ![r] = nr] /\ ns \in Row /\ nr \in Row
    BY <1>3, <1>6
  <2> HIDE DEF e, ns, nr
  <2>3. row'[s] = ns /\ row'[r] = nr /\ \A u \in Users \ {s, r} : row'[u] = e[u]
    BY <1>1, <2>1, <2>2
  <2>4. row' \in [Users -> Row \cup {NoRow}]
    BY <1>1, <2>1, <2>2
  <2>5. QED
    BY <2>3, <2>4 DEF e, ns, nr
<1>8. /\ row'[s].other = r /\ row'[s].is_host = TRUE /\ row'[s].session_id = sid
      /\ row'[s].current_log = sid /\ row'[s] # NoRow
      /\ row'[r].other = s /\ row'[r].is_host = FALSE /\ row'[r].session_id = sid
      /\ row'[r].current_log = sid /\ row'[r] # NoRow
  BY <1>6, <1>7 DEF NewRow
<1>9. \A u \in Users \ {s, r} :
        /\ row'[u] # NoRow <=> HasRow(u)
        /\ HasRow(u) =>
              /\ row'[u].other = row[u].other
              /\ row'[u].is_host = row[u].is_host
              /\ row'[u].session_id = row[u].session_id
              /\ row'[u].current_log = row[u].current_log
              /\ row'[u].live <=> row[u].live /\ u \notin d
  BY <1>7, ExpiredRows DEF HasRow
<1>10. QED
  BY <1>1, <1>2, <1>7, <1>8, <1>9

\* The sessions after it: the new one is a pair, and no old one has lost half its pair.
LEMMA AcceptCommitInv ==
  ASSUME IInv, NEW w \in Workers, AcceptCommit(w)
  PROVE  IInv'
<1> DEFINE s == job[w].sender
           r == job[w].recipient
           d == job[w].displaced
           sid == started + 1
<1>1. /\ s \in Users /\ r \in Users /\ d \subseteq Users
      /\ <<s, r>> \in Links /\ s # r /\ s \notin d /\ r \notin d
  BY AcceptRows
<1>2. /\ sid \in Sids /\ started \in Nat /\ sid \notin 1..started
      /\ 1..sid = (1..started) \cup {sid}
  BY AcceptRows
<1>3. /\ invite' = [invite EXCEPT ![<<s, r>>] = "closed"]
      /\ log' = LogsAfterSave(s, r, sid)
      /\ hello' = hello \cup HelloesFor(s, r, sid)
      /\ started' = sid
      /\ job' = [job EXCEPT ![w] = [op |-> "after", drop |-> {s, r} \cup d,
                                     refresh |-> {s, r}, close |-> d]]
      /\ overtaken' = (overtaken \/ d # Displaced(s, r))
  BY DEF AcceptCommit, DropsOfAccept
<1>4. job' \in [Workers -> Job] /\ RequestsKnowTheirUsers'
  BY <1>1, <1>3, AfterIsJob, OtherRequest
<1>5. invite' \in [Links -> InviteStatus]
  BY <1>1, <1>3 DEF IInv, TypeOK, InviteStatus
<1>7. row' \in [Users -> Row \cup {NoRow}]
  BY AcceptRows
<1>8. /\ row'[s].other = r /\ row'[s].is_host = TRUE /\ row'[s].session_id = sid
      /\ row'[s].current_log = sid /\ row'[s] # NoRow
      /\ row'[r].other = s /\ row'[r].is_host = FALSE /\ row'[r].session_id = sid
      /\ row'[r].current_log = sid /\ row'[r] # NoRow
  BY AcceptRows
<1>9. \A u \in Users \ {s, r} :
        /\ row'[u] # NoRow <=> HasRow(u)
        /\ HasRow(u) =>
              /\ row'[u].other = row[u].other
              /\ row'[u].is_host = row[u].is_host
              /\ row'[u].session_id = row[u].session_id
              /\ row'[u].current_log = row[u].current_log
              /\ row'[u].live <=> row[u].live /\ u \notin d
  BY AcceptRows
<1> DEFINE left == {row[u].current_log : u \in {v \in {s, r} : Live(v)}}
<1>10. /\ DOMAIN log' = 1..sid
       /\ log'[sid] = [host |-> s, guest |-> r, open |-> TRUE]
       /\ \A i \in 1..started :
             log'[i] = IF i \in left THEN [log[i] EXCEPT !.open = FALSE] ELSE log[i]
  BY <1>2, <1>3 DEF LogsAfterSave, IInv, TypeOK
<1>11. /\ \A i \in 1..started : /\ log'[i] \in Log
                                /\ log'[i].host = log[i].host
                                /\ log'[i].guest = log[i].guest
                                /\ i \notin left => log'[i].open = log[i].open
       /\ log'[sid] \in Log
  <2> HIDE DEF left
  <2>1. \A i \in 1..started : log[i] \in Log
    BY DEF IInv, TypeOK
  <2>2. ASSUME NEW i \in 1..started
        PROVE  /\ log'[i] \in Log
               /\ log'[i].host = log[i].host
               /\ log'[i].guest = log[i].guest
               /\ i \notin left => log'[i].open = log[i].open
    <3>1. CASE i \in left
      BY <1>10, <2>1, <3>1 DEF Log
    <3>2. CASE i \notin left
      BY <1>10, <2>1, <3>2
    <3>3. QED
      BY <3>1, <3>2
  <2>3. log'[sid] \in Log
    BY <1>1, <1>10 DEF Log
  <2>4. QED
    BY <2>2, <2>3
<1>12. hello' \subseteq Users \X Sids
  BY <1>1, <1>2, <1>3 DEF HelloesFor, IInv, TypeOK
<1>13. TypeOK'
  <2>1. sid \in 0..MaxSessions
    BY <1>2 DEF Sids
  <2>2. \A i \in 1..sid : log'[i] \in Log
    BY <1>2, <1>11
  <2>3. overtaken' \in BOOLEAN
    BY <1>3 DEF IInv, TypeOK
  <2>4. QED
    BY <1>3, <1>4, <1>5, <1>7, <1>10, <1>12, <2>1, <2>2, <2>3 DEF TypeOK
<1>14. \A u \in Users : HasRow(u) =>
         /\ row[u].session_id \in 1..started
         /\ row[u].current_log = row[u].session_id
         /\ row[u].other # u
  BY DEF IInv, TypeOK, SessionsArePairs
<1>15. SessionsHaveStarted'
  <2>1. \A u \in Users : row'[u] # NoRow => row'[u].session_id \in 1..sid
    BY <1>2, <1>8, <1>9, <1>14
  <2>2. QED
    BY <1>3, <2>1 DEF SessionsHaveStarted, HasRow
\* A displaced partner: whoever shares a session with s or r, other than s and r.
<1>16. ASSUME NEW u \in Users \ {s, r}, HasRow(u), NEW v \in {s, r}, HasRow(v),
              row[v].session_id = row[u].session_id
       PROVE  u \in Displaced(s, r)
  <2>1. row[v].other = u
    BY <1>1, <1>16, PairOfRows DEF IInv
  <2>2. QED
    BY <1>16, <2>1 DEF Displaced
<1>17. SessionsArePairs'
  <2> SUFFICES ASSUME NEW u \in Users, row'[u] # NoRow
               PROVE  LET q == row'[u]  t == q.session_id
                      IN  /\ t \in DOMAIN log'
                          /\ q.current_log = t
                          /\ q.other # u
                          /\ <<u, q.other>> = IF q.is_host
                                THEN <<log'[t].host, log'[t].guest>>
                                ELSE <<log'[t].guest, log'[t].host>>
                          /\ \A v \in Users \ {u} : row'[v] # NoRow =>
                                ((row'[v].session_id = t)
                                    <=> (row'[v].other = u /\ q.other = v))
    BY DEF SessionsArePairs, HasRow
  <2>1. CASE u \in {s, r}
    <3>1. row'[u].session_id \in DOMAIN log'
      BY <1>2, <1>8, <1>10, <2>1
    <3>2. <<u, row'[u].other>> = IF row'[u].is_host
            THEN <<log'[row'[u].session_id].host, log'[row'[u].session_id].guest>>
            ELSE <<log'[row'[u].session_id].guest, log'[row'[u].session_id].host>>
      BY <1>8, <1>10, <2>1
    <3>3. ASSUME NEW v \in Users \ {u}, row'[v] # NoRow
          PROVE  (row'[v].session_id = row'[u].session_id)
                    <=> (row'[v].other = u /\ row'[u].other = v)
      <4>1. CASE v \in {s, r}
        BY <1>8, <2>1, <4>1
      <4>2. CASE v \notin {s, r}
        <5>1. row'[v].session_id \in 1..started
          BY <1>9, <1>14, <3>3, <4>2
        <5>2. row'[u].session_id = sid /\ row'[u].other \in {s, r}
          BY <1>8, <2>1
        <5>3. QED
          BY <1>2, <4>2, <5>1, <5>2
      <4>3. QED
        BY <4>1, <4>2
    <3>4. QED
      BY <1>1, <1>8, <2>1, <3>1, <3>2, <3>3
  <2>2. CASE u \notin {s, r}
    <3> DEFINE t == row[u].session_id
    <3>1. /\ HasRow(u) /\ row'[u].other = row[u].other /\ row'[u].is_host = row[u].is_host
          /\ row'[u].session_id = t /\ row'[u].current_log = t /\ row[u].other # u
          /\ t \in 1..started
      BY <1>9, <1>14, <2>2
    <3>2. <<u, row[u].other>> = IF row[u].is_host THEN <<log[t].host, log[t].guest>>
                                                  ELSE <<log[t].guest, log[t].host>>
      BY <3>1 DEF IInv, SessionsArePairs
    <3>3. log'[t].host = log[t].host /\ log'[t].guest = log[t].guest /\ t \in DOMAIN log'
      BY <1>2, <1>10, <1>11, <3>1
    <3>4. ASSUME NEW v \in Users \ {u}, row'[v] # NoRow
          PROVE  (row'[v].session_id = row'[u].session_id)
                    <=> (row'[v].other = u /\ row'[u].other = v)
      <4>1. CASE v \in {s, r}
        <5>1. row'[v].session_id = sid /\ row'[v].other \in {s, r}
          BY <1>8, <4>1
        <5>2. QED
          BY <1>2, <2>2, <3>1, <5>1
      <4>2. CASE v \notin {s, r}
        <5>1. HasRow(v) /\ row'[v].other = row[v].other
              /\ row'[v].session_id = row[v].session_id
          BY <1>9, <3>4, <4>2
        <5>2. QED
          BY <3>1, <5>1, PairOfRows DEF IInv
      <4>3. QED
        BY <4>1, <4>2
    <3>5. QED
      BY <3>1, <3>2, <3>3, <3>4
  <2>3. QED
    BY <2>1, <2>2
<1>18. LiveAreMatched'
  <2> SUFFICES ASSUME ~overtaken', NEW u \in Users, Live(u)'
               PROVE  /\ row'[row'[u].other] # NoRow
                      /\ row'[row'[u].other].session_id = row'[u].session_id
    BY DEF LiveAreMatched, HasRow
  <2>1. ~overtaken /\ d = Displaced(s, r)
    BY <1>3
  <2>2. CASE u \in {s, r}
    BY <1>8, <2>2
  <2>3. CASE u \notin {s, r}
    <3> DEFINE p == row[u].other
    <3>1. /\ Live(u) /\ HasRow(u) /\ u \notin d
          /\ row'[u].other = p /\ row'[u].session_id = row[u].session_id
      BY <1>9, <2>3 DEF Live, HasRow
    <3>2. p \in Users /\ HasRow(p) /\ row[p].session_id = row[u].session_id
      BY <2>1, <3>1, PartnerIsUser DEF IInv, LiveAreMatched
    <3>3. p \notin {s, r}
      BY <1>16, <2>1, <2>3, <3>1, <3>2
    <3>4. QED
      BY <1>9, <3>1, <3>2, <3>3
  <2>4. QED
    BY <2>2, <2>3
<1>19. LiveLogIsOpen'
  <2> SUFFICES ASSUME ~overtaken', NEW u \in Users, Live(u)'
               PROVE  log'[row'[u].current_log].open
    BY DEF LiveLogIsOpen
  <2>1. ~overtaken /\ d = Displaced(s, r)
    BY <1>3
  <2>2. CASE u \in {s, r}
    BY <1>8, <1>10, <2>2
  <2>3. CASE u \notin {s, r}
    <3> DEFINE c == row[u].current_log
    <3>1. /\ Live(u) /\ HasRow(u) /\ u \notin d /\ row'[u].current_log = c
          /\ c \in 1..started /\ c = row[u].session_id
      BY <1>9, <1>14, <2>3 DEF Live, HasRow
    <3>2. log[c].open
      BY <2>1, <3>1 DEF IInv, LiveLogIsOpen
    <3>3. c \notin left
      <4> SUFFICES ASSUME NEW v \in {s, r}, Live(v), row[v].current_log = c PROVE FALSE
        OBVIOUS
      <4>1. HasRow(v) /\ row[v].session_id = row[u].session_id
        BY <1>1, <1>14, <3>1 DEF Live
      <4>2. QED
        BY <1>16, <2>1, <2>3, <3>1, <4>1
    <3> HIDE DEF left
    <3>4. QED
      BY <1>11, <3>1, <3>2, <3>3
  <2>4. QED
    BY <2>2, <2>3
<1>20. QED
  BY <1>4, <1>13, <1>15, <1>17, <1>18, <1>19 DEF IInv

-----------------------------------------------------------------------------

LEMMA StepInv == IInv /\ [Next]_vars => IInv'
<1> SUFFICES ASSUME IInv, [Next]_vars PROVE IInv'
  OBVIOUS
<1>1. ASSUME NEW l \in Links, CreateInvite(l) \/ DeclineInvite(l) \/ InviteTimeout(l)
      PROVE  IInv'
  <2>1. /\ invite' \in [Links -> InviteStatus]
        /\ UNCHANGED <<row, log, hello, started, job, overtaken>>
    BY <1>1 DEF CreateInvite, DeclineInvite, InviteTimeout, IInv, TypeOK, InviteStatus
  <2>2. job' \in [Workers -> Job] /\ RequestsKnowTheirUsers'
    BY <2>1 DEF IInv, TypeOK, RequestsKnowTheirUsers
  <2>3. QED
    BY <2>1, <2>2, SameRowsInv
<1>2. ASSUME NEW w \in Workers, NEW l \in Links, AcceptRead(w, l) PROVE IInv'
  BY <1>2, AcceptReadInv
<1>3. ASSUME NEW w \in Workers, NEW u \in Users, CancelRead(w, u) \/ HelloRead(w, u)
      PROVE  IInv'
  <2>1. HasRow(u) /\ row[u].other \in Users
    BY <1>3, PartnerIsUser DEF CancelRead, HelloRead, Live
  <2>2. PICK op \in {"cancel", "hello"} :
          job' = [job EXCEPT ![w] = [op |-> op, user |-> u, partner |-> row[u].other]]
    BY <1>3 DEF CancelRead, HelloRead
  <2>3. job' \in [Workers -> Job] /\ RequestsKnowTheirUsers'
    BY <2>1, <2>2, EndIsJob, OtherRequest
  <2>4. UNCHANGED <<invite, row, log, hello, started, overtaken>>
    BY <1>3 DEF CancelRead, HelloRead
  <2>5. QED
    BY <2>3, <2>4, SameRowsInv DEF IInv, TypeOK
<1>4. ASSUME NEW w \in Workers, NEW u \in Users, NEW level \in Levels, LevelRead(w, u, level)
      PROVE  IInv'
  <2>1. HasRow(u) /\ row[u].other \in Users
    BY <1>4, PartnerIsUser DEF LevelRead, Live
  <2>2. job' \in [Workers -> Job] /\ RequestsKnowTheirUsers'
    BY <1>4, <2>1, LevelIsJob, OtherRequest DEF LevelRead
  <2>3. QED
    BY <1>4, <2>2, SameRowsInv DEF LevelRead, IInv, TypeOK
<1>5. ASSUME NEW w \in Workers, AcceptCommit(w) PROVE IInv'
  BY <1>5, AcceptCommitInv
<1>6. ASSUME NEW w \in Workers, CancelCommit(w) \/ HelloCommit(w) PROVE IInv'
  <2>1. job[w].user \in Users /\ job[w].partner \in Users
    BY <1>6, EndFields DEF CancelCommit, HelloCommit
  <2>2. CASE CancelCommit(w)
    BY <2>1, <2>2, EndCommitInv DEF CancelCommit
  <2>3. CASE HelloCommit(w)
    BY <2>1, <2>3, EndCommitInv DEF HelloCommit
  <2>4. QED
    BY <1>6, <2>2, <2>3
<1>7. ASSUME NEW w \in Workers, LevelCommit(w) PROVE IInv'
  BY <1>7, LevelCommitInv
<1>8. ASSUME NEW w \in Workers, After(w) \/ Crash(w) PROVE IInv'
  <2>1. /\ job' = [job EXCEPT ![w] = Idle]
        /\ UNCHANGED <<invite, row, log, hello, started, overtaken>>
    BY <1>8 DEF After, Crash
  <2>2. job' \in [Workers -> Job] /\ RequestsKnowTheirUsers'
    BY <2>1, IdleIsJob, OtherRequest
  <2>3. QED
    BY <2>1, <2>2, SameRowsInv DEF IInv, TypeOK
<1>9. ASSUME NEW s \in Sids, SeshTimeout(s) PROVE IInv'
  BY <1>9, SeshTimeoutInv
<1>10. CASE UNCHANGED vars
  BY <1>10, SameRowsInv DEF vars, IInv, TypeOK, RequestsKnowTheirUsers
<1>11. QED
  BY <1>1, <1>2, <1>3, <1>4, <1>5, <1>6, <1>7, <1>8, <1>9, <1>10
    DEF Next, InviteStep, ReadStep, CommitStep

THEOREM Invariance == Spec => []IInv
<1>1. QED
  BY InitInv, StepInv, PTL DEF Spec

\* Every variable keeps its type, for any number of users, workers and sessions.
THEOREM TypeCorrect == Spec => []TypeOK
<1>1. IInv => TypeOK
  BY DEF IInv
<1>2. QED
  BY <1>1, Invariance, PTL

\* However requests interleave, a session is two rows that name each other, in opposite
\* seats, and two rows that name each other are one session.
THEOREM PairsAreSessions == Spec => []SessionsArePairs
<1>1. IInv => SessionsArePairs
  BY DEF IInv
<1>2. QED
  BY <1>1, Invariance, PTL

\* Unless an accept commits on a stale displacement read, nobody is left live in a session
\* whose other member has gone on to another one.
THEOREM NobodyIsStranded == Spec => []LiveAreMatched
<1>1. IInv => LiveAreMatched
  BY DEF IInv
<1>2. QED
  BY <1>1, Invariance, PTL

\* Under the same condition a live row's log is still open.
THEOREM LogsOutliveRows == Spec => []LiveLogIsOpen
<1>1. IInv => LiveLogIsOpen
  BY DEF IInv
<1>2. QED
  BY <1>1, Invariance, PTL

\* A session that has ended stays ended, and nobody ever changes seats in it.
THEOREM SessionsAreFinal == Spec => SessionIsFinal
<1> DEFINE Final == \A u \in Users : row'[u] # row[u] =>
          /\ row'[u] # NoRow
          /\ \/ row'[u].session_id = started + 1 /\ started' = started + 1
             \/ /\ HasRow(u)
                /\ row'[u].session_id = row[u].session_id
                /\ row'[u].other = row[u].other /\ row'[u].is_host = row[u].is_host
                /\ row'[u].live => row[u].live
<1>1. ASSUME IInv, NEW gone, row' = Expired(gone) PROVE Final
  <2>1. \A u \in Users : ~HasRow(u) => row'[u] = row[u]
    BY <1>1 DEF Expired
  <2>2. QED
    BY <1>1, <2>1, ExpiredRows DEF HasRow
<1>2. ASSUME IInv, NEW w \in Workers, AcceptCommit(w) PROVE Final
  <2>1. started' = started + 1
    BY <1>2 DEF AcceptCommit
  <2>2. ASSUME NEW u \in Users, u \notin {job[w].sender, job[w].recipient},
               row'[u] # row[u]
        PROVE  HasRow(u)
    BY <1>2, <2>2, AcceptRows DEF HasRow
  <2>3. QED
    BY <1>2, <2>1, <2>2, AcceptRows DEF HasRow
<1>3. ASSUME IInv, NEW w \in Workers, LevelCommit(w) PROVE Final
  BY <1>3, LevelRows DEF HasRow
<1>4. IInv /\ [Next]_vars => [Final]_vars
  <2> SUFFICES ASSUME IInv, Next PROVE Final \/ UNCHANGED row
    BY DEF vars
  <2>1. ASSUME NEW w \in Workers, CancelCommit(w) \/ HelloCommit(w) PROVE Final
    BY <1>1, <2>1 DEF CancelCommit, HelloCommit
  <2>2. ASSUME NEW s \in Sids, SeshTimeout(s) PROVE Final
    BY <1>1, <2>2 DEF SeshTimeout
  <2>3. ASSUME NEW w \in Workers, ReadStep(w) \/ After(w) \/ Crash(w)
        PROVE  UNCHANGED row
    BY <2>3 DEF ReadStep, AcceptRead, CancelRead, HelloRead, LevelRead, After, Crash
  <2>4. ASSUME InviteStep PROVE UNCHANGED row
    BY <2>4 DEF InviteStep, CreateInvite, DeclineInvite, InviteTimeout
  <2> HIDE DEF Final
  <2>5. QED
    BY <1>2, <1>3, <2>1, <2>2, <2>3, <2>4 DEF Next, CommitStep
<1>5. QED
  BY <1>4, Invariance, PTL DEF Spec, SessionIsFinal


(***************************************************************************)
(* Rows are sessions: LiveSesh implements Sessions.                        *)
(***************************************************************************)

\* Expiring rows takes the users of these rows out of what they play in.
LEMMA ExpiryLeaves ==
  ASSUME IInv, NEW gone, row' = Expired(gone), UNCHANGED <<started, overtaken>>
  PROVE  Registry!Next
<1> DEFINE out == gone \cap Users
<1>1. ASSUME NEW s \in 1..started PROVE PlayersOf(s)' = PlayersOf(s) \ out
  <2>1. \A u \in Users : (Live(u) /\ row[u].session_id = s)'
                            <=> (Live(u) /\ row[u].session_id = s) /\ u \notin gone
    BY <1>1, ExpiredRows DEF Live, HasRow
  <2>2. QED
    BY <2>1 DEF PlayersOf
<1>2. Registry!Leave(out)
  BY <1>1 DEF Registry!Leave
<1>3. QED
  BY <1>2 DEF Registry!Next

\* Whoever plays with one of two users is one of them, or is named by the row of the other.
LEMMA PlayersAreNamed ==
  ASSUME IInv, NEW s \in Users, NEW r \in Users, NEW n,
         PlayersOf(n) \cap {s, r} # {}
  PROVE  PlayersOf(n) \subseteq {s, r} \cup Displaced(s, r)
<1>1. PICK u \in {s, r} : u \in PlayersOf(n)
  OBVIOUS
<1>2. SUFFICES ASSUME NEW v \in PlayersOf(n), v \notin {s, r} PROVE v \in Displaced(s, r)
  OBVIOUS
<1>3. /\ u \in Users /\ v \in Users /\ u # v /\ HasRow(u) /\ HasRow(v)
      /\ row[v].session_id = row[u].session_id
  BY <1>1, <1>2 DEF PlayersOf, Live
<1>4. row[u].other = v
  BY <1>3, PairOfRows DEF IInv
<1>5. QED
  BY <1>1, <1>2, <1>3, <1>4 DEF Displaced

\* An accept begins a session of the two, and those it displaces leave theirs.
LEMMA AcceptBegins == ASSUME IInv, NEW w \in Workers, AcceptCommit(w) PROVE Registry!Next
<1> DEFINE s == job[w].sender
           r == job[w].recipient
           d == job[w].displaced
           sid == started + 1
<1>1. /\ s \in Users /\ r \in Users /\ d \subseteq Users /\ s # r
      /\ s \notin d /\ r \notin d
      /\ started \in Nat /\ sid \notin 1..started
      /\ row'[s].session_id = sid /\ row'[s] # NoRow
      /\ row'[r].session_id = sid /\ row'[r] # NoRow
      /\ \A u \in Users \ {s, r} :
            /\ row'[u] # NoRow <=> HasRow(u)
            /\ HasRow(u) => /\ row'[u].session_id = row[u].session_id
                            /\ row'[u].live <=> row[u].live /\ u \notin d
  BY AcceptRows
<1>2. row'[s].live /\ row'[r].live
  <2>1. row' = [Expired(d) EXCEPT ![s] = NewRow(s, r, TRUE, sid),
                                  ![r] = NewRow(r, s, FALSE, sid)]
    BY DEF AcceptCommit
  <2>2. Expired(d) = [u \in Users |-> Expired(d)[u]]
    BY DEF Expired
  <2> DEFINE e == Expired(d)  ns == NewRow(s, r, TRUE, sid)  nr == NewRow(r, s, FALSE, sid)
  <2>3. ns.live /\ nr.live
    BY DEF NewRow
  <2>4. row' = [e EXCEPT ![s] = ns, ![r] = nr] /\ e = [u \in Users |-> e[u]]
    BY <2>1, <2>2
  <2> HIDE DEF e, ns, nr, s, r
  <2>5. row'[s] = ns /\ row'[r] = nr
    BY <1>1, <2>4
  <2>6. QED
    BY <2>3, <2>5
<1>3. started' = sid /\ overtaken' = (overtaken \/ d # Displaced(s, r))
  BY DEF AcceptCommit
<1>4. \A u \in Users : HasRow(u) => row[u].session_id \in 1..started
  BY DEF IInv, SessionsHaveStarted
<1>5. overtaken \in BOOLEAN
  BY DEF IInv, TypeOK
<1>6. \A n : PlayersOf(n) \cap {s, r} # {} => PlayersOf(n) \subseteq {s, r} \cup Displaced(s, r)
  BY <1>1, PlayersAreNamed
<1> HIDE DEF s, r, d, sid
<1>7. ASSUME NEW n, n = sid PROVE PlayersOf(n)' = {s, r}
  <2>1. ASSUME NEW u \in Users, u \notin {s, r}, HasRow(u)' PROVE row'[u].session_id # n
    <3>1. HasRow(u) /\ row'[u].session_id = row[u].session_id
      BY <1>1, <2>1 DEF HasRow
    <3>2. QED
      BY <1>1, <1>4, <1>7, <3>1
  <2>2. PlayersOf(n)' = {u \in Users : row'[u] # NoRow /\ row'[u].live /\ row'[u].session_id = n}
    BY DEF PlayersOf, Live, HasRow
  <2>3. QED
    BY <1>1, <1>2, <1>7, <2>1, <2>2 DEF HasRow
<1>8. ASSUME NEW n \in 1..started
      PROVE  PlayersOf(n)' = PlayersOf(n) \ ({s, r} \cup d)
  <2>1. n # sid
    BY <1>1
  <2>2. \A u \in Users : (Live(u) /\ row[u].session_id = n)'
                            <=> Live(u) /\ row[u].session_id = n /\ u \notin {s, r} \cup d
    BY <1>1, <1>2, <2>1 DEF Live, HasRow
  <2>3. QED
    BY <2>2 DEF PlayersOf
<1>9. Registry!Begin(s, r, d)
  <2>1. overtaken' \in {overtaken, TRUE}
    BY <1>3, <1>5
  <2>2. overtaken' \/ \A n \in 1..started :
          PlayersOf(n) \cap {s, r} # {} => PlayersOf(n) \subseteq {s, r} \cup d
    BY <1>3, <1>6
  <2>3. ASSUME NEW n \in 1..started + 1
        PROVE  PlayersOf(n)' = IF n = started + 1 THEN {s, r}
                               ELSE PlayersOf(n) \ ({s, r} \cup d)
    BY <1>1, <1>7, <1>8, <2>3 DEF sid
  <2>4. [n \in 1..started |-> PlayersOf(n)]' =
          [n \in 1..started + 1 |-> IF n = started + 1 THEN {s, r}
              ELSE [i \in 1..started |-> PlayersOf(i)][n] \ ({s, r} \cup d)]
    BY <1>1, <1>3, <2>3 DEF sid
  <2>5. \A n \in 1..started : [i \in 1..started |-> PlayersOf(i)][n] = PlayersOf(n)
    OBVIOUS
  <2>6. QED
    BY <1>1, <1>3, <2>1, <2>2, <2>4, <2>5 DEF Registry!Begin, sid
<1>10. QED
  BY <1>1, <1>9 DEF Registry!Next

\* However requests interleave, the live rows behave as a set of sessions: each begins with two
\* players and only loses players, nobody returns, and nobody's partner is left behind by who
\* goes on to another session, until an accept commits on a stale displacement read.
THEOREM RowsAreSessions == Spec => RegistryOfPairs
<1>1. Init => Registry!Init
  BY DEF Init, Registry!Init
<1>2. ASSUME IInv, [Next]_vars PROVE [Registry!Next]_Registry!vars
  <2>1. ASSUME UNCHANGED <<row, started, overtaken>> PROVE UNCHANGED Registry!vars
    BY <2>1 DEF Registry!vars, PlayersOf, Live, HasRow
  <2>2. ASSUME NEW w \in Workers, CancelCommit(w) \/ HelloCommit(w) PROVE Registry!Next
    BY <1>2, <2>2, ExpiryLeaves DEF CancelCommit, HelloCommit
  <2>3. ASSUME NEW s \in Sids, SeshTimeout(s) PROVE Registry!Next
    BY <1>2, <2>3, ExpiryLeaves DEF SeshTimeout
  <2>4. ASSUME NEW w \in Workers, AcceptCommit(w) PROVE Registry!Next
    BY <1>2, <2>4, AcceptBegins
  <2>5. ASSUME NEW w \in Workers, LevelCommit(w) PROVE UNCHANGED Registry!vars
    <3>1. \A u \in Users : (Live(u) <=> Live(u)') /\ (Live(u) => row'[u].session_id = row[u].session_id)
      BY <1>2, <2>5, LevelRows DEF Live, HasRow
    <3>2. \A n : PlayersOf(n)' = PlayersOf(n)
      BY <3>1 DEF PlayersOf
    <3>3. UNCHANGED <<started, overtaken>>
      BY <2>5 DEF LevelCommit
    <3>4. QED
      BY <3>2, <3>3 DEF Registry!vars
  <2>6. ASSUME NEW w \in Workers, ReadStep(w) \/ After(w) \/ Crash(w)
        PROVE  UNCHANGED Registry!vars
    BY <2>1, <2>6 DEF ReadStep, AcceptRead, CancelRead, HelloRead, LevelRead, After, Crash
  <2>7. ASSUME InviteStep PROVE UNCHANGED Registry!vars
    BY <2>1, <2>7 DEF InviteStep, CreateInvite, DeclineInvite, InviteTimeout
  <2>8. CASE UNCHANGED vars
    BY <2>1, <2>8 DEF vars
  <2>9. QED
    BY <1>2, <2>2, <2>3, <2>4, <2>5, <2>6, <2>7, <2>8 DEF Next, CommitStep
<1>3. QED
  BY <1>1, <1>2, Invariance, PTL DEF Spec, RegistryOfPairs, Registry!Spec


(***************************************************************************)
(* The registry below the cache is the registry of LiveSesh.               *)
(***************************************************************************)

\* The steps of this module are steps of LiveSesh, or leave its variables alone.
LEMMA StepOfRegistry == [CNext]_allVars => [Next]_vars
<1> SUFFICES ASSUME CNext PROVE [Next]_vars
  BY DEF allVars
<1>1. CASE RegistryStep
  BY <1>1 DEF RegistryStep, Next
<1>2. ASSUME NEW w \in Workers, DropKeys(w) \/ Push(w) \/ WorkerCrash(w)
      PROVE  [Next]_vars
  BY <1>2 DEF DropKeys, Push, WorkerCrash, Next
<1>3. ASSUME NEW s \in Sids, SessionRunsOut(s) PROVE [Next]_vars
  BY <1>3 DEF SessionRunsOut, Next
<1>4. ASSUME NEW u \in Readers, KeyExpires(u) \/ SocketStep(u) PROVE UNCHANGED vars
  BY <1>4 DEF KeyExpires, SocketStep, Connect, Disconnect, Join
<1>5. ASSUME NEW p \in Pulls, PullStep(p) \/ PullFails(p) PROVE UNCHANGED vars
  BY <1>5 DEF PullStep, PullFails, CacheHit, CacheMiss, ContextRead, ContextWrite, Apply
<1>6. QED
  BY <1>1, <1>2, <1>3, <1>4, <1>5 DEF CNext

\* Sockets, pulls and Redis never make the registry do what it would not do by itself,
\* so all that is proved of LiveSesh holds here.
THEOREM CacheKeepsRegistry == CSpec => Spec
<1>1. CInit => Init
  BY DEF CInit
<1>2. QED
  BY <1>1, StepOfRegistry, PTL DEF CSpec, Spec

(***************************************************************************)
(* Types                                                                   *)
(***************************************************************************)

LEMMA ContextType == ASSUME TypeOK, NEW u \in Users PROVE Context(u) \in Contexts
<1>1. Live(u) => row[u] \in Row
  BY DEF TypeOK, Live, HasRow
<1>2. QED
  BY <1>1 DEF Context, Contexts, Row

LEMMA CInitType == CInit => CTypeOK
  BY DEF CInit, CTypeOK

LEMMA UnheardType ==
    ASSUME CTypeOK, NEW us PROVE Unheard(us) \in [Pulls -> Pull \cup {NoPull}]
<1>1. ASSUME NEW p \in Pulls, pull[p] # NoPull
      PROVE  [pull[p] EXCEPT !.heard = FALSE] \in Pull
  <2>1. pull[p] \in Pull
    BY <1>1 DEF CTypeOK
  <2>2. QED
    BY <2>1 DEF Pull
<1>2. QED
  BY <1>1 DEF CTypeOK, Unheard

LEMMA NewPullType == ASSUME NEW u \in Readers PROVE NewPull(u) \in Pull
  BY DEF NewPull, Pull, Contexts

\* Steps of requests.
LEMMA WorkerStepType ==
    ASSUME TypeOK, CTypeOK,
           \/ RegistryStep
           \/ \E w \in Workers : DropKeys(w) \/ Push(w) \/ WorkerCrash(w)
           \/ \E s \in Sids : SessionRunsOut(s)
    PROVE  CTypeOK'
<1>1. CASE RegistryStep
  <2>1. \A w \in Workers : dropped[w] => job'[w] = job[w] \/ job'[w].op = "after"
    <3>1. ASSUME InviteStep PROVE job' = job
      BY <3>1 DEF InviteStep, CreateInvite, DeclineInvite, InviteTimeout
    <3>2. ASSUME NEW w \in Workers, ReadStep(w)
          PROVE  ~dropped[w] /\ \A v \in Workers \ {w} : job'[v] = job[v]
      <4>1. job[w] = Idle
        BY <3>2 DEF ReadStep, AcceptRead, CancelRead, HelloRead, LevelRead
      <4>2. Idle.op # "after"
        BY DEF Idle
      <4>3. \A v \in Workers \ {w} : job'[v] = job[v]
        BY <3>2 DEF TypeOK, ReadStep, AcceptRead, CancelRead, HelloRead, LevelRead
      <4>4. QED
        BY <4>1, <4>2, <4>3 DEF CTypeOK
    <3>3. ASSUME NEW w \in Workers, CommitStep(w)
          PROVE  ~dropped[w] /\ \A v \in Workers \ {w} : job'[v] = job[v]
      <4>1. job[w].op \in {"accept", "cancel", "hello", "level"}
        BY <3>3 DEF CommitStep, AcceptCommit, CancelCommit, HelloCommit, LevelCommit
      <4>2. \A v \in Workers \ {w} : job'[v] = job[v]
        BY <3>3 DEF TypeOK, CommitStep, AcceptCommit, CancelCommit, HelloCommit,
                    LevelCommit
      <4>3. QED
        BY <4>1, <4>2 DEF CTypeOK
    <3>4. QED
      BY <1>1, <3>1, <3>2, <3>3 DEF RegistryStep
  <2>2. QED
    BY <1>1, <2>1 DEF RegistryStep, cacheVars, CTypeOK
<1>2. ASSUME NEW w \in Workers, DropKeys(w) PROVE CTypeOK'
  BY <1>2 DEF DropKeys, Dropped, CTypeOK, vars
<1>3. ASSUME NEW w \in Workers, Push(w) PROVE CTypeOK'
  <2>1. PICK told \in SUBSET (job[w].refresh \cap Readers),
             shut \in SUBSET (job[w].close \cap Readers) :
          /\ sock' = [u \in Readers |-> IF u \in shut THEN Off ELSE sock[u]]
          /\ pull' = Unheard(shut)
          /\ refreshed' = Told(told, shut)
    BY <1>3 DEF Push
  <2>2. \A v \in Workers : dropped'[v] => job'[v].op = "after"
    BY <1>3 DEF Push, After, CTypeOK, TypeOK
  <2>3. refreshed' \subseteq {u \in Readers : sock'[u] # Off}
    BY <2>1 DEF CTypeOK, Told
  <2>4. QED
    BY <1>3, <2>1, <2>2, <2>3, UnheardType DEF Push, CTypeOK
<1>4. ASSUME NEW w \in Workers, WorkerCrash(w) PROVE CTypeOK'
  <2>1. \A v \in Workers : dropped'[v] => job'[v].op = "after"
    BY <1>4 DEF WorkerCrash, Crash, CTypeOK, TypeOK
  <2>2. QED
    BY <1>4, <2>1 DEF WorkerCrash, CTypeOK
<1>5. ASSUME NEW s \in Sids, SessionRunsOut(s) PROVE CTypeOK'
  BY <1>5 DEF SessionRunsOut, SeshTimeout, CTypeOK
<1>6. QED
  BY <1>1, <1>2, <1>3, <1>4, <1>5
\* Steps of sockets and pulls, which do not touch the registry.
LEMMA SocketStepType ==
    ASSUME TypeOK, CTypeOK,
           \/ \E u \in Readers : KeyExpires(u) \/ SocketStep(u)
           \/ \E p \in Pulls : PullStep(p) \/ PullFails(p)
    PROVE  CTypeOK'
<1>1. ASSUME NEW u \in Readers, KeyExpires(u) PROVE CTypeOK'
  BY <1>1 DEF KeyExpires, Dropped, CTypeOK, vars
<1>2. ASSUME NEW u \in Readers, Connect(u) PROVE CTypeOK'
  <2>1. Unheard({u}) \in [Pulls -> Pull \cup {NoPull}]
    BY UnheardType
  <2>2. pull' \in [Pulls -> Pull \cup {NoPull}]
    <3> PICK p \in Pulls : pull' = [Unheard({u}) EXCEPT ![p] = NewPull(u)]
      BY <1>2 DEF Connect
    <3>1. NewPull(u) \in Pull
      BY NewPullType
    <3>2. QED
      BY <2>1, <3>1
  <2>3. refreshed' \subseteq {v \in Readers : sock'[v] # Off}
    BY <1>2, ContextsAssumption DEF Connect, CTypeOK
  <2>4. sock' \in [Readers -> Users \cup {NoSesh, Off}]
    BY <1>2 DEF Connect, CTypeOK
  <2>5. QED
    BY <1>2, <2>2, <2>3, <2>4 DEF Connect, CTypeOK, vars
<1>3. ASSUME NEW u \in Readers, Disconnect(u) PROVE CTypeOK'
  BY <1>3, UnheardType DEF Disconnect, CTypeOK, vars
<1>4. ASSUME NEW u \in Readers, Join(u) PROVE CTypeOK'
  <2>1. pull' \in [Pulls -> Pull \cup {NoPull}]
    <3>1. CASE sock[u] = NoSesh
      BY <1>4, <3>1, NewPullType DEF Join, CTypeOK
    <3>2. CASE sock[u] # NoSesh
      BY <1>4, <3>2 DEF Join, CTypeOK
    <3>3. QED
      BY <3>1, <3>2
  <2>2. refreshed' \subseteq {v \in Readers : sock'[v] # Off}
    BY <1>4 DEF Join, CTypeOK
  <2>3. QED
    BY <1>4, <2>1, <2>2 DEF Join, CTypeOK, vars
<1>5. ASSUME NEW p \in Pulls, pull[p] # NoPull,
             NEW step \in {"ask", "django", "write", "apply"}, NEW got \in Contexts
      PROVE  [pull[p] EXCEPT !.step = step, !.got = got] \in Pull
  <2>1. pull[p] \in Pull
    BY <1>5 DEF CTypeOK
  <2>2. QED
    BY <2>1 DEF Pull
<1>6. ASSUME NEW p \in Pulls, pull[p] # NoPull
      PROVE  /\ pull[p] \in Pull /\ pull[p].user \in Readers
             /\ pull[p].got \in Contexts
  BY <1>6 DEF CTypeOK, Pull
<1>7. ASSUME NEW p \in Pulls, CacheHit(p) PROVE CTypeOK'
  <2>1. redis[pull[p].user] \in Contexts
    BY <1>6, <1>7 DEF CacheHit, CTypeOK
  <2>2. pull' = [pull EXCEPT ![p] =
                    [pull[p] EXCEPT !.step = "apply", !.got = redis[pull[p].user]]]
    BY <1>7 DEF CacheHit, CTypeOK
  <2>3. pull' \in [Pulls -> Pull \cup {NoPull}]
    <3>1. [pull[p] EXCEPT !.step = "apply", !.got = redis[pull[p].user]] \in Pull
      BY <1>5, <1>7, <2>1 DEF CacheHit
    <3>2. QED
      BY <2>2, <3>1 DEF CTypeOK
  <2>4. QED
    BY <1>7, <2>3 DEF CacheHit, CTypeOK, vars
<1>8. ASSUME NEW p \in Pulls, CacheMiss(p) PROVE CTypeOK'
  <2>1. [pull[p] EXCEPT !.step = "django"] \in Pull
    BY <1>6, <1>8 DEF CacheMiss, Pull
  <2>2. pull' = [pull EXCEPT ![p] = [pull[p] EXCEPT !.step = "django"]]
    BY <1>8 DEF CacheMiss, CTypeOK
  <2>3. pull' \in [Pulls -> Pull \cup {NoPull}]
    BY <2>1, <2>2 DEF CTypeOK
  <2>4. QED
    BY <1>8, <2>3 DEF CacheMiss, CTypeOK, vars
<1>9. ASSUME NEW p \in Pulls, ContextRead(p) PROVE CTypeOK'
  <2>1. Context(pull[p].user) \in Contexts
    BY <1>6, <1>9, ContextType, ReadersAssumption DEF ContextRead
  <2>2. pull' = [pull EXCEPT ![p] =
                    [pull[p] EXCEPT !.step = "write", !.got = Context(pull[p].user)]]
    BY <1>9 DEF ContextRead, CTypeOK
  <2>3. pull' \in [Pulls -> Pull \cup {NoPull}]
    <3>1. [pull[p] EXCEPT !.step = "write", !.got = Context(pull[p].user)] \in Pull
      BY <1>5, <1>9, <2>1 DEF ContextRead
    <3>2. QED
      BY <2>2, <3>1 DEF CTypeOK
  <2>4. QED
    BY <1>9, <2>3 DEF ContextRead, CTypeOK, vars
<1>10. ASSUME NEW p \in Pulls, ContextWrite(p) PROVE CTypeOK'
  <2>1. [pull[p] EXCEPT !.step = "apply"] \in Pull
    BY <1>6, <1>10 DEF ContextWrite, Pull
  <2>2. pull' \in [Pulls -> Pull \cup {NoPull}]
    BY <1>10, <2>1 DEF ContextWrite, CTypeOK
  <2>3. redis' \in [Readers -> Contexts \cup {None}] /\ slipped' \subseteq Readers
    BY <1>6, <1>10 DEF ContextWrite, CTypeOK
  <2>4. QED
    BY <1>10, <2>2, <2>3 DEF ContextWrite, CTypeOK, vars
<1>11. ASSUME NEW p \in Pulls, Apply(p) PROVE CTypeOK'
  <2>1. pull[p].got # NoSesh => pull[p].got.partner \in Users
    BY <1>6, <1>11 DEF Apply, Contexts
  <2>2. sock' \in [Readers -> Users \cup {NoSesh, Off}]
    BY <1>6, <1>11, <2>1 DEF Apply, CTypeOK
  <2>3. refreshed' \subseteq {v \in Readers : sock'[v] # Off}
    BY <1>11, <2>1, ContextsAssumption DEF Apply, CTypeOK
  <2>4. QED
    BY <1>11, <2>2, <2>3 DEF Apply, CTypeOK, vars
<1>12. ASSUME NEW p \in Pulls, PullFails(p) PROVE CTypeOK'
  BY <1>12 DEF PullFails, CTypeOK, vars
<1>13. QED
  BY <1>1, <1>2, <1>3, <1>4, <1>7, <1>8, <1>9, <1>10, <1>11, <1>12 DEF SocketStep, PullStep

LEMMA StepType == TypeOK /\ CTypeOK /\ [CNext]_allVars => CTypeOK'
<1>1. TypeOK /\ CTypeOK /\ CNext => CTypeOK'
  BY WorkerStepType, SocketStepType DEF CNext
<1>2. CTypeOK /\ UNCHANGED allVars => CTypeOK'
  BY DEF CTypeOK, allVars, vars, cacheVars
<1>3. QED
  BY <1>1, <1>2

\* Every reachable state of Redis, the pulls and the sockets is well typed.
THEOREM CTypeCorrect == CSpec => []CTypeOK
<1>1. CSpec => []TypeOK
  BY CacheKeepsRegistry, TypeCorrect, PTL
<1>2. QED
  BY <1>1, CInitType, StepType, PTL DEF CSpec

(***************************************************************************)
(* Redis and the database                                                  *)
(***************************************************************************)

Owed(w, u) == job[w].op = "after" /\ ~dropped[w] /\ u \in job[w].drop

\* A context that a step changes is owed after it, or its key has slipped.
LEMMA RowsOfCommit ==
    ASSUME IInv, CTypeOK, NEW w \in Workers, CommitStep(w)
    PROVE  /\ job'[w].op = "after" /\ ~dropped[w]
           /\ \A v \in Workers \ {w} : job'[v] = job[v]
           /\ job[w].op # "after"
           /\ \A u \in Users \ job'[w].drop : row'[u] = row[u]
<1>1. w \in DOMAIN job
  BY DEF IInv, TypeOK
<1>2. CASE AcceptCommit(w)
  <2>1. job'[w].drop = {job[w].sender, job[w].recipient} \cup job[w].displaced
    BY <1>1, <1>2 DEF AcceptCommit, DropsOfAccept
  <2>2. \A u \in Users \ job'[w].drop : row'[u] = row[u]
    <3> DEFINE s == job[w].sender
               r == job[w].recipient
               d == job[w].displaced
               x == NewRow(s, r, TRUE, started + 1)
               y == NewRow(r, s, FALSE, started + 1)
    <3>1. row' = [Expired(d) EXCEPT ![s] = x, ![r] = y]
      BY <1>2 DEF AcceptCommit
    <3> HIDE DEF x, y
    <3>2. ASSUME NEW u \in Users, u \notin {s, r} \cup d PROVE row'[u] = row[u]
      <4>1. row'[u] = Expired(d)[u]
        BY <3>1, <3>2 DEF Expired
      <4>2. Expired(d)[u] = row[u]
        BY <3>2 DEF Expired
      <4>3. QED
        BY <4>1, <4>2
    <3>3. QED
      BY <2>1, <3>2
  <2>3. /\ job[w].op = "accept" /\ job'[w].op = "after"
        /\ \A v \in Workers \ {w} : job'[v] = job[v]
    BY <1>1, <1>2 DEF AcceptCommit
  <2>4. QED
    BY <2>2, <2>3 DEF CTypeOK
<1>3. CASE CancelCommit(w)
  BY <1>1, <1>3 DEF CancelCommit, Expired, CTypeOK
<1>4. CASE HelloCommit(w)
  BY <1>1, <1>4 DEF HelloCommit, Expired, CTypeOK
<1>5. CASE LevelCommit(w)
  BY <1>1, <1>5 DEF LevelCommit, CTypeOK
<1>6. QED
  BY <1>2, <1>3, <1>4, <1>5 DEF CommitStep

\* Django's requests and the clock.
LEMMA WorkerStepOwed ==
    ASSUME IInv, CTypeOK, StaleKeyIsOwed,
           \/ RegistryStep
           \/ \E w \in Workers : DropKeys(w) \/ Push(w) \/ WorkerCrash(w)
           \/ \E s \in Sids : SessionRunsOut(s)
    PROVE  StaleKeyIsOwed'
<1> USE DEF Owed
<1>a. \A u \in Readers : redis[u] \notin {None, Context(u)} =>
          u \in slipped \/ \E w \in Workers : Owed(w, u)
  BY DEF StaleKeyIsOwed
<1>b. ASSUME \A u \in Readers : redis'[u] \notin {None, Context(u)'} =>
                u \in slipped' \/ \E w \in Workers : Owed(w, u)'
      PROVE  StaleKeyIsOwed'
  BY <1>b DEF StaleKeyIsOwed
<1>c. ASSUME NEW u \in Users, row'[u] = row[u] PROVE Context(u)' = Context(u)
  BY <1>c DEF Context, Live, HasRow
<1>1. CASE RegistryStep
  <2>1. UNCHANGED <<redis, slipped, dropped>>
    BY <1>1 DEF RegistryStep, cacheVars
  <2>2. CASE InviteStep
    <3>1. UNCHANGED <<row, job>>
      BY <2>2 DEF InviteStep, CreateInvite, DeclineInvite, InviteTimeout
    <3>2. QED
      BY <1>a, <1>b, <1>c, <2>1, <3>1, ReadersAssumption
  <2>3. ASSUME NEW w \in Workers, ReadStep(w) PROVE StaleKeyIsOwed'
    <3>1. UNCHANGED row /\ job[w] = Idle /\ \A v \in Workers \ {w} : job'[v] = job[v]
      BY <2>3 DEF ReadStep, AcceptRead, CancelRead, HelloRead, LevelRead, IInv, TypeOK
    <3>2. \A v \in Workers, u \in Readers : Owed(v, u) => Owed(v, u)'
      BY <2>1, <3>1 DEF Idle
    <3>3. QED
      BY <1>a, <1>b, <1>c, <2>1, <3>1, <3>2, ReadersAssumption
  <2>4. ASSUME NEW w \in Workers, CommitStep(w) PROVE StaleKeyIsOwed'
    <3>1. \A v \in Workers, u \in Readers : Owed(v, u) => Owed(v, u)'
      BY <2>1, <2>4, RowsOfCommit
    <3>2. \A u \in Readers : Owed(w, u)' \/ Context(u)' = Context(u)
      BY <1>c, <2>1, <2>4, RowsOfCommit, ReadersAssumption
    <3>3. QED
      BY <1>a, <1>b, <2>1, <3>1, <3>2
  <2>5. QED
    BY <1>1, <2>2, <2>3, <2>4 DEF RegistryStep
<1>2. ASSUME NEW w \in Workers, DropKeys(w) PROVE StaleKeyIsOwed'
  <2>1. UNCHANGED <<row, job>>
    BY <1>2 DEF DropKeys, vars
  <2>2. \A u \in Readers : u \in job[w].drop => redis'[u] = None
    BY <1>2 DEF DropKeys, Dropped
  <2>3. \A u \in Readers : u \notin job[w].drop =>
            redis'[u] = redis[u] /\ (u \in slipped => u \in slipped')
    BY <1>2 DEF DropKeys, Dropped
  <2>4. \A v \in Workers, u \in Readers :
            u \notin job[w].drop /\ Owed(v, u) => Owed(v, u)'
    BY <1>2, <2>1 DEF DropKeys, CTypeOK
  <2>5. QED
    BY <1>a, <1>b, <1>c, <2>1, <2>2, <2>3, <2>4, ReadersAssumption
<1>3. ASSUME NEW w \in Workers, Push(w) PROVE StaleKeyIsOwed'
  <2>1. UNCHANGED <<row, redis, slipped>> /\ dropped[w]
    BY <1>3 DEF Push, After
  <2>2. \A v \in Workers \ {w} : job'[v] = job[v] /\ dropped'[v] = dropped[v]
    BY <1>3 DEF Push, After, CTypeOK, IInv, TypeOK
  <2>3. \A v \in Workers, u \in Readers : Owed(v, u) => Owed(v, u)'
    BY <2>1, <2>2
  <2>4. QED
    BY <1>a, <1>b, <1>c, <2>1, <2>3, ReadersAssumption
<1>4. ASSUME NEW w \in Workers, WorkerCrash(w) PROVE StaleKeyIsOwed'
  <2>1. UNCHANGED <<row, redis>>
    BY <1>4 DEF WorkerCrash, Crash
  <2>2. \A v \in Workers \ {w} : job'[v] = job[v] /\ dropped'[v] = dropped[v]
    BY <1>4 DEF WorkerCrash, Crash, CTypeOK, IInv, TypeOK
  <2>3. \A u \in Readers : /\ u \in slipped => u \in slipped'
                           /\ Owed(w, u) => u \in slipped'
    BY <1>4 DEF WorkerCrash
  <2>4. \A v \in Workers \ {w}, u \in Readers : Owed(v, u) => Owed(v, u)'
    BY <2>2
  <2>5. QED
    BY <1>a, <1>b, <1>c, <2>1, <2>3, <2>4, ReadersAssumption
<1>5. ASSUME NEW s \in Sids, SessionRunsOut(s) PROVE StaleKeyIsOwed'
  <2>1. UNCHANGED <<redis, job, dropped>>
    BY <1>5 DEF SessionRunsOut, SeshTimeout
  <2>2. \A u \in Readers : u \in slipped => u \in slipped'
    BY <1>5 DEF SessionRunsOut
  <2>3. \A u \in Readers : u \in slipped' \/ row'[u] = row[u]
    BY <1>5, ReadersAssumption DEF SessionRunsOut, SeshTimeout, Expired
  <2>4. QED
    BY <1>a, <1>b, <1>c, <2>1, <2>2, <2>3, ReadersAssumption
<1>6. QED
  BY <1>1, <1>2, <1>3, <1>4, <1>5

\* Sockets and pulls.
LEMMA SocketStepOwed ==
    ASSUME CTypeOK, StaleKeyIsOwed,
           \/ \E u \in Readers : KeyExpires(u) \/ SocketStep(u)
           \/ \E p \in Pulls : PullStep(p) \/ PullFails(p)
    PROVE  StaleKeyIsOwed'
<1>1. UNCHANGED <<row, job, dropped>>
  BY DEF KeyExpires, SocketStep, Connect, Disconnect, Join, PullStep, PullFails, CacheHit,
         CacheMiss, ContextRead, ContextWrite, Apply, vars
<1>2. \A u \in Readers : Context(u)' = Context(u)
  BY <1>1 DEF Context, Live, HasRow
<1>3. \A w \in Workers, u \in Readers : Owed(w, u)' <=> Owed(w, u)
  BY <1>1 DEF Owed
<1>4. ASSUME NEW u \in Readers, KeyExpires(u) PROVE StaleKeyIsOwed'
  <2>1. redis'[u] = None
    BY <1>4 DEF KeyExpires, Dropped
  <2>2. \A v \in Readers \ {u} : redis'[v] = redis[v] /\ (v \in slipped => v \in slipped')
    BY <1>4 DEF KeyExpires, Dropped
  <2>3. QED
    BY <1>1, <1>2, <2>1, <2>2 DEF StaleKeyIsOwed
<1>5. ASSUME NEW p \in Pulls, ContextWrite(p) PROVE StaleKeyIsOwed'
  <2> DEFINE u == pull[p].user
  <2>1. redis'[u] = pull[p].got
    BY <1>5 DEF ContextWrite, CTypeOK, Pull
  <2>2. pull[p].got = Context(u) \/ u \in slipped'
    BY <1>5 DEF ContextWrite
  <2>3. \A v \in Readers \ {u} : redis'[v] = redis[v] /\ (v \in slipped => v \in slipped')
    BY <1>5 DEF ContextWrite
  <2>4. QED
    BY <1>1, <1>2, <2>1, <2>2, <2>3 DEF StaleKeyIsOwed
<1>6. CASE UNCHANGED <<redis, slipped>>
  BY <1>1, <1>2, <1>6 DEF StaleKeyIsOwed
<1>7. QED
  BY <1>4, <1>5, <1>6 DEF SocketStep, Connect, Disconnect, Join, PullStep, PullFails,
                          CacheHit, CacheMiss, ContextRead, Apply

LEMMA StepOwed ==
    IInv /\ CTypeOK /\ StaleKeyIsOwed /\ [CNext]_allVars => StaleKeyIsOwed'
<1>1. IInv /\ CTypeOK /\ StaleKeyIsOwed /\ CNext => StaleKeyIsOwed'
  BY WorkerStepOwed, SocketStepOwed DEF CNext
<1>2. StaleKeyIsOwed /\ UNCHANGED allVars => StaleKeyIsOwed'
  BY DEF StaleKeyIsOwed, Context, Live, HasRow, allVars, vars, cacheVars
<1>3. QED
  BY <1>1, <1>2

\* A context in Redis that is not the database's is owed to a request that has committed,
\* or has slipped through one of the three gaps the code leaves, for any number of
\* handlers, pulls and sessions.
THEOREM StaleKeysAreOwed == CSpec => []StaleKeyIsOwed
<1>1. CInit => StaleKeyIsOwed
  BY DEF CInit, StaleKeyIsOwed
<1>2. CSpec => []IInv
  BY CacheKeepsRegistry, Invariance, PTL
<1>3. QED
  BY <1>1, <1>2, CTypeCorrect, StepOwed, PTL DEF CSpec
=============================================================================
