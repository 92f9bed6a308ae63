------------------------------ MODULE LiveSesh ------------------------------
(***************************************************************************)
(* Live sessions between two linked users, as Django keeps them: the       *)
(* invites, one UserFriendCurrentLiveSesh row per user, and the session    *)
(* logs.  A request handler is split where the code lets another request   *)
(* in: what it reads before its transaction, the transaction, and what it  *)
(* does after the commit.  A transaction is one step, because it holds the *)
(* lock of every row it has read or written until it commits.              *)
(*                                                                         *)
(* Time is not a number: a row is live while expires_at lies ahead, and a  *)
(* log is open while its end does.                                         *)
(***************************************************************************)
EXTENDS Naturals, FiniteSets

CONSTANTS Users,        \* accounts
          Links,        \* <<u, v>>: u has a Friend row whose linked_user is v
          Workers,      \* request handlers that can run at the same time
          Levels,       \* GeckoGameLevel
          Level1,       \* GeckoGameLevel.LEVEL_ONE, the column's default
          MaxSessions,  \* bound: sessions started in a behaviour
          NoRow         \* the user has never been in a session

ASSUME LinksAssumption ==
    /\ Links \subseteq Users \X Users
    /\ \A u \in Users : <<u, u>> \notin Links
ASSUME LevelsAssumption == Level1 \in Levels
ASSUME MaxSessionsAssumption == MaxSessions \in Nat
ASSUME NoRowAssumption == NoRow \notin [other : Users, is_host : BOOLEAN,
    session_id : 1..MaxSessions, current_log : 1..MaxSessions,
    live : BOOLEAN, level : Levels]

VARIABLES
    invite,     \* [Links -> status of the one invite of a sender and a recipient]
    row,        \* [Users -> the user's UserFriendCurrentLiveSesh, or NoRow]
    log,        \* [session number -> its UserFriendLiveSeshLog]
    hello,      \* <<u, s>>: the PastMeet that u got for the session s
    started,    \* number of sessions stamped so far
    job,        \* [Workers -> the request the worker is in the middle of]
    overtaken   \* history: a session was started on a stale displacement read

vars == <<invite, row, log, hello, started, job, overtaken>>

Sids == 1..MaxSessions
\* "closed": there is nothing to accept; none was sent, or it was accepted, declined or ran out.
InviteStatus == {"closed", "pending"}
Row == [other : Users, is_host : BOOLEAN, session_id : Sids,
        current_log : Sids, live : BOOLEAN, level : Levels]
Log == [host : Users, guest : Users, open : BOOLEAN]

\* A request between its steps.  "after" is a committed request that has yet to drop
\* the cached contexts of the users in drop, to tell the sockets of those in refresh
\* that their context changed, and to close the sockets of those in close.
Idle == [op |-> "idle"]
AcceptJob == [op : {"accept"}, sender : Users, recipient : Users,
              displaced : SUBSET Users]
EndJob == [op : {"cancel", "hello"}, user : Users, partner : Users]
LevelJob == [op : {"level"}, user : Users, partner : Users, level : Levels]
AfterJob == [op : {"after"}, drop : SUBSET Users, refresh : SUBSET Users,
             close : SUBSET Users]
Job == {Idle} \cup AcceptJob \cup EndJob \cup LevelJob \cup AfterJob

HasRow(u) == row[u] # NoRow
Live(u) == HasRow(u) /\ row[u].live

\* (mutant) the recipient's row is not looked at
DisplacedOfSender(s, r) ==
    {row[u].other : u \in {v \in {s} : HasRow(v)}} \ {s, r}

\* The users a new session of s and r takes a partner from: whoever their rows
\* name, live or not.
Displaced(s, r) ==
    {row[u].other : u \in {v \in {s, r} : HasRow(v)}} \ {s, r}

\* queryset.update(expires_at=now) on the rows of the users in gone
Expired(gone) ==
    [u \in Users |-> IF u \in gone /\ HasRow(u)
                     THEN [row[u] EXCEPT !.live = FALSE] ELSE row[u]]

Init ==
    /\ invite = [l \in Links |-> "closed"]
    /\ row = [u \in Users |-> NoRow]
    /\ log = [s \in {} |-> {}]
    /\ hello = {}
    /\ started = 0
    /\ job = [w \in Workers |-> Idle]
    /\ overtaken = FALSE

-----------------------------------------------------------------------------
(* Invites *)

\* create_live_sesh_invite: one row per sender and recipient, created or reset.
CreateInvite(l) ==
    /\ invite' = [invite EXCEPT ![l] = "pending"]
    /\ UNCHANGED <<row, log, hello, started, job, overtaken>>

\* decline_live_sesh_invite: sets invite_expires_on to now; refused once accepted, and
\* without effect on an invite that has run out.
DeclineInvite(l) ==
    /\ invite[l] = "pending"
    /\ invite' = [invite EXCEPT ![l] = "closed"]
    /\ UNCHANGED <<row, log, hello, started, job, overtaken>>

\* Six hours pass.
InviteTimeout(l) ==
    /\ invite[l] = "pending"
    /\ invite' = [invite EXCEPT ![l] = "closed"]
    /\ UNCHANGED <<row, log, hello, started, job, overtaken>>

\* accept_live_sesh_invite up to its transaction: nothing is locked.
AcceptRead(w, l) ==
    /\ job[w] = Idle
    /\ invite[l] = "pending"
    /\ job' = [job EXCEPT ![w] =
          [op |-> "accept", sender |-> l[1], recipient |-> l[2],
           displaced |-> Displaced(l[1], l[2])]]
    /\ UNCHANGED <<invite, row, log, hello, started, overtaken>>

\* (mutant) session_id is missing from the defaults: an old row keeps its session
NewRowKeepsSession(u, other, is_host, sid) ==
    [other |-> other, is_host |-> is_host,
     session_id |-> IF HasRow(u) THEN row[u].session_id ELSE sid, current_log |-> sid,
     live |-> TRUE, level |-> IF HasRow(u) THEN row[u].level ELSE Level1]

\* What update_or_create leaves in a user's row; the level is not among its defaults.
NewRow(u, other, is_host, sid) ==
    [other |-> other, is_host |-> is_host, session_id |-> sid, current_log |-> sid,
     live |-> TRUE, level |-> IF HasRow(u) THEN row[u].level ELSE Level1]

\* (mutant) a user who has a row is not given a new log
LogsOfFirstSave(s, r, sid) ==
    IF HasRow(s) THEN log
    ELSE [i \in DOMAIN log \cup {sid} |->
             IF i = sid THEN [host |-> s, guest |-> r, open |-> TRUE] ELSE log[i]]

\* UserFriendCurrentLiveSesh.save of s and r: the logs their live rows leave behind
\* end now, and the host's row gets a log of its own, which the guest's row shares.
LogsAfterSave(s, r, sid) ==
    LET left == {row[u].current_log : u \in {v \in {s, r} : Live(v)}}
    IN  [i \in DOMAIN log \cup {sid} |->
            IF i = sid THEN [host |-> s, guest |-> r, open |-> TRUE]
            ELSE IF i \in left THEN [log[i] EXCEPT !.open = FALSE] ELSE log[i]]

\* The PastMeets that an accept writes: the host's, whose Friend row the invite needed,
\* and the guest's if it has the host friended back.
HelloesFor(s, r, sid) ==
    {<<s, sid>>} \cup IF <<r, s>> \in Links THEN {<<r, sid>>} ELSE {}

\* (mutant) only the two who play now
DropsOfPlayers(s, r, d) == {s, r}

\* The users whose cached context an accept drops.
DropsOfAccept(s, r, d) == {s, r} \cup d

\* The transaction of accept_live_sesh_invite.
AcceptCommit(w) ==
    /\ job[w].op = "accept"
    /\ started < MaxSessions
    /\ LET s == job[w].sender
           r == job[w].recipient
           d == job[w].displaced
           sid == started + 1
       IN  /\ invite' = [invite EXCEPT ![<<s, r>>] = "closed"]
           /\ row' = [Expired(d) EXCEPT ![s] = NewRow(s, r, TRUE, sid),
                                        ![r] = NewRow(r, s, FALSE, sid)]
           /\ log' = LogsAfterSave(s, r, sid)
           /\ hello' = hello \cup HelloesFor(s, r, sid)
           /\ started' = sid
           /\ job' = [job EXCEPT ![w] =
                 [op |-> "after", drop |-> DropsOfAccept(s, r, d),
                  refresh |-> {s, r}, close |-> d]]
           /\ overtaken' = (overtaken \/ d # Displaced(s, r))

-----------------------------------------------------------------------------
(* Ending a session *)

\* cancel_current_live_sesh reads the caller's row, whether or not it has expired.
CancelRead(w, u) ==
    /\ job[w] = Idle
    /\ HasRow(u)
    /\ job' = [job EXCEPT ![w] =
          [op |-> "cancel", user |-> u, partner |-> row[u].other]]
    /\ UNCHANGED <<invite, row, log, hello, started, overtaken>>

\* Its transaction expires the rows of the caller and of the partner it read.
CancelCommit(w) ==
    /\ job[w].op = "cancel"
    /\ LET both == {job[w].user, job[w].partner}
       IN  /\ row' = Expired(both)
           /\ job' = [job EXCEPT ![w] =
                 [op |-> "after", drop |-> both, refresh |-> {}, close |-> both]]
    /\ UNCHANGED <<invite, log, hello, started, overtaken>>

\* HelloCreate.perform_create: a hello written by hand ends the author's live session.
\* (Without one the hello touches nothing of this module.)
HelloRead(w, u) ==
    /\ job[w] = Idle
    /\ Live(u)
    /\ job' = [job EXCEPT ![w] =
          [op |-> "hello", user |-> u, partner |-> row[u].other]]
    /\ UNCHANGED <<invite, row, log, hello, started, overtaken>>

\* It drops both cached contexts and tells no socket.
HelloCommit(w) ==
    /\ job[w].op = "hello"
    /\ LET both == {job[w].user, job[w].partner}
       IN  /\ row' = Expired(both)
           /\ job' = [job EXCEPT ![w] =
                 [op |-> "after", drop |-> both, refresh |-> {}, close |-> {}]]
    /\ UNCHANGED <<invite, log, hello, started, overtaken>>

\* LIVE_SESH_DURATION passes: the rows still in the session expire, its log ends.
SeshTimeout(s) ==
    LET in == {u \in Users : Live(u) /\ row[u].session_id = s}
    IN  /\ s \in DOMAIN log
        /\ log[s].open \/ in # {}
        /\ row' = Expired(in)
        /\ log' = [log EXCEPT ![s].open = FALSE]
        /\ UNCHANGED <<invite, hello, started, job, overtaken>>

-----------------------------------------------------------------------------
(* The level of the game *)

\* apply_level_change up to its transaction
LevelRead(w, u, level) ==
    /\ job[w] = Idle
    /\ Live(u)
    /\ job' = [job EXCEPT ![w] =
          [op |-> "level", user |-> u, partner |-> row[u].other, level |-> level]]
    /\ UNCHANGED <<invite, row, log, hello, started, overtaken>>

\* The two rows that name each other, whichever of them still does.
LevelCommit(w) ==
    /\ job[w].op = "level"
    /\ LET u == job[w].user
           p == job[w].partner
           named == {v \in {u, p} : HasRow(v) /\ row[v].other \in {u, p}}
       IN  /\ row' = [v \in Users |-> IF v \in named
                        THEN [row[v] EXCEPT !.level = job[w].level] ELSE row[v]]
           /\ job' = [job EXCEPT ![w] =
                 [op |-> "after", drop |-> {u, p}, refresh |-> {}, close |-> {}]]
    /\ UNCHANGED <<invite, log, hello, started, overtaken>>

-----------------------------------------------------------------------------

\* The callbacks after the commit run to their end.
After(w) ==
    /\ job[w].op = "after"
    /\ job' = [job EXCEPT ![w] = Idle]
    /\ UNCHANGED <<invite, row, log, hello, started, overtaken>>

\* The worker dies, or its transaction is rolled back as a deadlock victim.
Crash(w) ==
    /\ job[w] # Idle
    /\ job' = [job EXCEPT ![w] = Idle]
    /\ UNCHANGED <<invite, row, log, hello, started, overtaken>>

InviteStep ==
    \E l \in Links : CreateInvite(l) \/ DeclineInvite(l) \/ InviteTimeout(l)
ReadStep(w) ==
    \/ \E l \in Links : AcceptRead(w, l)
    \/ \E u \in Users : CancelRead(w, u) \/ HelloRead(w, u)
    \/ \E u \in Users, level \in Levels : LevelRead(w, u, level)
CommitStep(w) ==
    AcceptCommit(w) \/ CancelCommit(w) \/ HelloCommit(w) \/ LevelCommit(w)

Next ==
    \/ InviteStep
    \/ \E w \in Workers : ReadStep(w) \/ CommitStep(w) \/ After(w) \/ Crash(w)
    \/ \E s \in Sids : SeshTimeout(s)

Spec == Init /\ [][Next]_vars

-----------------------------------------------------------------------------
(* Properties *)

\* Every variable holds a value of its kind; sessions are numbered without gaps.
TypeOK ==
    /\ invite \in [Links -> InviteStatus]
    /\ row \in [Users -> Row \cup {NoRow}]
    /\ started \in 0..MaxSessions
    /\ DOMAIN log = 1..started
    /\ \A s \in 1..started : log[s] \in Log
    /\ hello \subseteq Users \X Sids
    /\ job \in [Workers -> Job]
    /\ overtaken \in BOOLEAN

\* Two rows are of the same session exactly when they name each other, and then one is
\* the host and the other the guest, in the seats that the session's log records: no
\* interleaving of accepts, cancels and level changes gives a session a third member,
\* or leaves two users who name each other in different sessions
\* (update_or_create of both rows, views.py).
SessionsArePairs ==
    \A u \in Users : HasRow(u) =>
        LET r == row[u]  s == r.session_id
        IN  /\ s \in DOMAIN log
            /\ r.current_log = s
            /\ r.other # u
            /\ <<u, r.other>> = IF r.is_host THEN <<log[s].host, log[s].guest>>
                                             ELSE <<log[s].guest, log[s].host>>
            /\ \A v \in Users \ {u} : HasRow(v) =>
                  ((row[v].session_id = s) <=> (row[v].other = u /\ r.other = v))

\* A live session has both its members: whoever is live is matched by a partner whose
\* row is of the same session.  The one way to break this is an accept that displaces
\* the partners it read before its transaction rather than those of the rows it
\* replaces (displaced_partner_ids, views.py).
LiveAreMatched ==
    ~overtaken => \A u \in Users : Live(u) =>
        LET p == row[u].other
        IN  HasRow(p) /\ row[p].session_id = row[u].session_id

\* Playing goes on only while the log of the session is open: save() closes the log of
\* the row it replaces, and then no row of that session is live any more.
LiveLogIsOpen ==
    ~overtaken => \A u \in Users : Live(u) => log[row[u].current_log].open

\* A session that has ended for a user stays ended, and its two seats never change: a
\* row comes to life, or changes partner or seat, only with a session id never used before.
SessionIsFinal ==
    [][\A u \in Users : row'[u] # row[u] =>
          /\ row'[u] # NoRow
          /\ \/ row'[u].session_id = started + 1 /\ started' = started + 1
             \/ /\ HasRow(u)
                /\ row'[u].session_id = row[u].session_id
                /\ row'[u].other = row[u].other /\ row'[u].is_host = row[u].is_host
                /\ row'[u].live => row[u].live]_vars

PlayersOf(s) == {u \in Users : Live(u) /\ row[u].session_id = s}
Registry == INSTANCE Sessions
    WITH begun <- started, players <- [s \in 1..started |-> PlayersOf(s)], torn <- overtaken

\* The live rows are sessions as one thinks of them: two players at the start, who only
\* leave, and a player who goes on to another session ends the one it played in for its
\* partner as well, until an accept is overtaken (accept_live_sesh_invite and all that
\* expires rows).
RegistryOfPairs == Registry!Spec
=============================================================================
