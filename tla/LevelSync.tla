----------------------------- MODULE LevelSync ------------------------------
(***************************************************************************)
(* The level of a live session's game, which is kept in three places: in   *)
(* the relay's Client of each player, in the row of each player, and, for  *)
(* a while, under each player's key in Redis.  A change is written to the  *)
(* clients and told to the players at once; a task of its own then posts   *)
(* it to Django.  A player who connects pulls the level from Redis or      *)
(* Django, and tells the other one what it got.                            *)
(*                                                                         *)
(* The session lasts, and a player has one client at a time: how sessions  *)
(* end is in LiveSesh, how sockets replace each other in GeckoSocket.      *)
(***************************************************************************)
EXTENDS Naturals

CONSTANTS
    host, guest,
    Levels,   \* bound: the levels that are tried
    Level1,   \* the level of a new session
    NoLevel,  \* gecko_game_level is None
    None,     \* no key in Redis
    Off,      \* the player has no client; no frame with a level is sent
    Changes,  \* bound: the changes there will be
    Tasks,    \* bound: the tasks there will be that tell levels
    Leavers,  \* bound: the players who close the session's screen, or the app
    Ready, Done \* a change or task that has not begun, and one that is over

Players == {host, guest}
Other(p) == CHOOSE q \in Players : q # p

ASSUME PlayersAssumption == host # guest
ASSUME LevelsAssumption ==
    /\ Level1 \in Levels
    /\ {NoLevel, None, Off} \cap Levels = {}
    /\ NoLevel # Off

VARIABLES
    client,   \* [Players -> the player's Client, or Off]
    row,      \* [Players -> gecko_game_level of the player's UserFriendCurrentLiveSesh]
    redis,    \* [Players -> the level under gecko_sesh:{user_id}, or None]
    change,   \* [Changes -> a request_level_change]
    task,     \* [Tasks -> a connect, join_live_sesh or request_peer_presence]
    told      \* [Players -> the level last heard of, since in the other's room]

\* history: the last change was made "alone" and is through ("yes"), is being made so, or
\* was lost, or crossed by another change or the reading of a level ("no")
VARIABLE trust

levelVars == <<client, row, redis, change, task, told, trust>>

Client == [level : Levels \cup {NoLevel},
           on : BOOLEAN,      \* the session is on the player's screen
           bound : BOOLEAN]   \* the client has its context: partner_id is set
NewClient == [level |-> NoLevel, on |-> FALSE, bound |-> FALSE]

Change == [player : Players, level : Levels,
           step : {"tell", "look", "post", "drop"},
           mine : BOOLEAN]    \* until it is posted: the client that asked for it is there
Said == Levels \cup {NoLevel, Off}
Task == [kind : {"connect", "join", "ask"}, player : Players,
         step : {"pull", "django", "write", "apply", "look", "send"},
         mine : BOOLEAN,
         got : Levels \cup {NoLevel},   \* the level that was pulled
         own : Said, other : Said]      \* what the other player, and the player, will hear

ASSUME MarkersAssumption ==
    /\ Off \notin Client
    /\ {Ready, Done} \cap (Change \cup Task) = {}

UnderWay(x) == x \notin {Ready, Done}
At(x, step) == UnderWay(x) /\ x.step = step

Here(p) == client[p] # Off
\* sesh_presence_allowed: who is a host is in the context.
Allowed(p) == Here(p) /\ client[p].on /\ (p = host => client[p].bound)
\* The other's room is joined once both are so.
InRoom(p) == Allowed(p) /\ client[p].bound

Changing == \E k \in Changes : UnderWay(change[k])
Reading == \E t \in Tasks : UnderWay(task[t]) /\ task[t].step \in {"write", "apply", "send"}
\* What becomes of the trust when a level is read
Read == IF Changing THEN "no" ELSE trust

\* Both play.
LInit ==
    /\ client = [p \in Players |-> [level |-> Level1, on |-> TRUE, bound |-> TRUE]]
    /\ row = [p \in Players |-> Level1]
    /\ redis = [p \in Players |-> None]
    /\ change = [k \in Changes |-> Ready]
    /\ task = [t \in Tasks |-> Ready]
    /\ told = [p \in Players |-> NoLevel]
    /\ trust = "yes"

-----------------------------------------------------------------------------
(* Changes *)

\* A client handles one message at a time.
Busy(p) ==
    \/ \E k \in Changes : At(change[k], "tell") /\ change[k].player = p /\ change[k].mine
    \/ \E t \in Tasks : /\ UnderWay(task[t])
                        /\ task[t].kind = "ask" /\ task[t].player = p /\ task[t].mine

\* (mutant) the other player's client is left as it is
OwnClient(p) == {p}
\* The clients whose level the handler writes; one without its context knows no partner.
Rewritten(p) == IF client[p].bound THEN Players ELSE {p}

\* handle_request_level_change writes the clients, ...  (Bound: nobody asks for the level
\* that is.)
RequestLevelChange(k, p, l) ==
    /\ change[k] = Ready
    /\ Allowed(p) /\ ~Busy(p) /\ client[p].level # l
    /\ change' = [change EXCEPT ![k] = [player |-> p, level |-> l, step |-> "tell", mine |-> TRUE]]
    /\ client' = [q \in Players |-> IF q \in Rewritten(p) /\ Here(q)
                                    THEN [client[q] EXCEPT !.level = l] ELSE client[q]]
    /\ trust' = IF Changing \/ Reading \/ ~client[p].bound THEN "no" ELSE "alone"
    /\ UNCHANGED <<row, redis, task, told>>

\* The player's own clients are in the player's room, the other's when it has joined.
Room(p) == {q \in Players : IF q = p THEN Here(q) ELSE InRoom(q)}

\* ... tells all in the room, and spawns a task.
BroadcastLevel(k) ==
    LET c == change[k]
    IN  /\ At(c, "tell")
        /\ told' = [q \in Players |-> IF q \in Room(c.player) THEN c.level ELSE told[q]]
        /\ change' = [change EXCEPT ![k].step = "look"]
        /\ UNCHANGED <<client, row, redis, task, trust>>

\* persist_level_change_to_django posts the change if the client is still there.
Persist(k) ==
    LET c == change[k]
    IN  /\ At(c, "look")
        /\ change' = [change EXCEPT ![k] = IF c.mine THEN [c EXCEPT !.step = "post"] ELSE Done]
        /\ trust' = IF c.mine THEN trust ELSE "no"
        /\ UNCHANGED <<client, row, redis, task, told>>

\* apply_level_change updates both rows ...
ApplyLevelChange(k) ==
    LET c == change[k]
    IN  /\ At(c, "post")
        /\ row' = [p \in Players |-> c.level]
        /\ change' = [change EXCEPT ![k].step = "drop"]
        /\ UNCHANGED <<client, redis, task, told, trust>>

\* ... and, committed, drops both keys.
DropKeys(k) ==
    /\ At(change[k], "drop")
    /\ redis' = [p \in Players |-> None]
    /\ change' = [change EXCEPT ![k] = Done]
    /\ trust' = IF trust = "alone" THEN "yes" ELSE trust
    /\ UNCHANGED <<client, row, task, told>>

\* The POST fails, or Django dies before it has dropped the keys; that is logged at most.
FailPersist(k) ==
    /\ At(change[k], "post") \/ At(change[k], "drop")
    /\ change' = [change EXCEPT ![k] = Done]
    /\ trust' = "no"
    /\ UNCHANGED <<client, row, redis, task, told>>

-----------------------------------------------------------------------------
(* Players come and go *)

NewTask(kind, p, step) ==
    [kind |-> kind, player |-> p, step |-> step, mine |-> TRUE, got |-> NoLevel,
     own |-> Off, other |-> Off]

Connect(p, t) ==
    /\ ~Here(p) /\ task[t] = Ready
    /\ client' = [client EXCEPT ![p] = NewClient]
    /\ task' = [task EXCEPT ![t] = NewTask("connect", p, "pull")]
    /\ UNCHANGED <<row, redis, change, told, trust>>

\* (mutant) a task takes its client to be there
StillMine(x) == x

\* A task that has no client any more goes on only where it does not look it up: to fill
\* Redis, or to tell the room.
Orphaned(x) ==
    IF x.step \in {"django", "write", "send"} THEN [x EXCEPT !.mine = FALSE, !.other = Off]
    ELSE Done

Asking(k, p) == (At(change[k], "tell") \/ At(change[k], "look")) /\ change[k].player = p
Disconnect(p) ==
    /\ Here(p) /\ p \in Leavers
    /\ client' = [client EXCEPT ![p] = Off]
    /\ told' = [told EXCEPT ![p] = NoLevel]
    /\ change' = [k \in Changes |-> IF Asking(k, p) THEN [change[k] EXCEPT !.mine = FALSE]
                                    ELSE change[k]]
    /\ task' = [t \in Tasks |-> IF UnderWay(task[t]) /\ task[t].player = p
                                THEN Orphaned(task[t]) ELSE task[t]]
    /\ UNCHANGED <<row, redis, trust>>

\* set_friend of a host, set_guest_on_screen of a guest
SetScreen(p) ==
    /\ Here(p) /\ ~Busy(p)
    /\ client[p].on => p \in Leavers
    /\ client' = [client EXCEPT ![p].on = ~@]
    /\ told' = [told EXCEPT ![p] = NoLevel]
    /\ UNCHANGED <<row, redis, change, task, trust>>

\* join_live_sesh pulls the context if the client has none.
JoinLiveSesh(p, t) ==
    /\ Here(p) /\ ~Busy(p) /\ task[t] = Ready
    /\ task' = [task EXCEPT ![t] =
                   NewTask("join", p, IF client[p].bound THEN "look" ELSE "pull")]
    /\ UNCHANGED <<client, row, redis, change, told, trust>>

RequestPeerPresence(p, t) ==
    /\ Here(p) /\ ~Busy(p) /\ task[t] = Ready
    /\ task' = [task EXCEPT ![t] = NewTask("ask", p, "look")]
    /\ UNCHANGED <<client, row, redis, change, told, trust>>

-----------------------------------------------------------------------------
(* hydrate_live_sesh_context *)

Pull(t) ==
    LET x == task[t]
    IN  /\ At(x, "pull")
        /\ task' = [task EXCEPT ![t] =
              IF redis[x.player] = None THEN [x EXCEPT !.step = "django"]
              ELSE [x EXCEPT !.step = "apply", !.got = redis[x.player]]]
        /\ trust' = IF redis[x.player] = None THEN trust ELSE Read
        /\ UNCHANGED <<client, row, redis, change, told>>

\* rust_live_sesh_context reads the row ...
ReadRow(t) ==
    /\ At(task[t], "django")
    /\ task' = [task EXCEPT ![t].step = "write", ![t].got = row[task[t].player]]
    /\ trust' = Read
    /\ UNCHANGED <<client, row, redis, change, told>>

\* ... and fills Redis.
Fill(t) ==
    LET x == task[t]
    IN  /\ At(x, "write")
        /\ redis' = [redis EXCEPT ![x.player] = x.got]
        /\ task' = [task EXCEPT ![t] = IF x.mine THEN [x EXCEPT !.step = "apply"] ELSE Done]
        /\ UNCHANGED <<client, row, change, told, trust>>

\* Django does not answer: the hydrate ends with nothing, and the task goes on.
NoAnswer(t) ==
    /\ At(task[t], "django")
    /\ task' = [task EXCEPT ![t] = IF task[t].mine THEN [task[t] EXCEPT !.step = "look"] ELSE Done]
    /\ UNCHANGED <<client, row, redis, change, told, trust>>

\* apply_hydrate_value
Apply(t) ==
    LET x == task[t]
        p == x.player
    IN  /\ At(x, "apply")
        /\ client' = [client EXCEPT ![p].level = x.got, ![p].bound = TRUE]
        /\ told' = IF client[p].bound THEN told ELSE [told EXCEPT ![p] = NoLevel]
        /\ task' = [task EXCEPT ![t].step = "look", ![t].got = NoLevel]
        /\ UNCHANGED <<row, redis, change, trust>>

KeyExpires(p) ==
    /\ redis[p] # None
    /\ redis' = [redis EXCEPT ![p] = None]
    /\ UNCHANGED <<client, row, change, task, told, trust>>

-----------------------------------------------------------------------------
(* peer_presence *)

\* What the other player is told of p (by connect and join), p of the other (by connect
\* and request_peer_presence)
OwnLevel(x) ==
    IF x.kind \in {"connect", "join"} /\ InRoom(x.player) THEN client[x.player].level ELSE Off
OtherLevel(x) ==
    LET p == x.player
        q == Other(p)
    IN  IF x.kind \in {"connect", "ask"} /\ InRoom(p) /\ Allowed(q) THEN client[q].level ELSE Off

\* The clients are looked up ...
Look(t) ==
    LET x == task[t]
    IN  /\ At(x, "look")
        /\ task' = [task EXCEPT ![t] = [x EXCEPT !.step = "send", !.own = OwnLevel(x),
                                                 !.other = OtherLevel(x)]]
        /\ trust' = Read
        /\ UNCHANGED <<client, row, redis, change, told>>

\* ... and the frames are sent.
Send(t) ==
    LET x == task[t]
        p == x.player
        q == Other(p)
        reached == (IF x.other # Off THEN {p} ELSE {})
                     \cup (IF x.own # Off /\ InRoom(q) THEN {q} ELSE {})
    IN  /\ At(x, "send")
        /\ told' = [r \in Players |-> IF r \notin reached THEN told[r]
                                      ELSE IF r = p THEN x.other ELSE x.own]
        /\ task' = [task EXCEPT ![t] = Done]
        /\ UNCHANGED <<client, row, redis, change, trust>>

-----------------------------------------------------------------------------
LNext ==
    \/ \E p \in Players :
         \/ Disconnect(p) \/ SetScreen(p) \/ KeyExpires(p)
         \/ \E t \in Tasks : Connect(p, t) \/ JoinLiveSesh(p, t) \/ RequestPeerPresence(p, t)
         \/ \E k \in Changes, l \in Levels : RequestLevelChange(k, p, l)
    \/ \E k \in Changes :
         BroadcastLevel(k) \/ Persist(k) \/ ApplyLevelChange(k) \/ DropKeys(k) \/ FailPersist(k)
    \/ \E t \in Tasks :
         Pull(t) \/ ReadRow(t) \/ Fill(t) \/ NoAnswer(t) \/ Apply(t) \/ Look(t) \/ Send(t)

LSpec == LInit /\ [][LNext]_levelVars

-----------------------------------------------------------------------------
\* Every variable holds a value of its kind, and what has no client is marked so.
LTypeOK ==
    /\ client \in [Players -> Client \cup {Off}]
    /\ row \in [Players -> Levels]
    /\ redis \in [Players -> Levels \cup {None}]
    /\ change \in [Changes -> Change \cup {Ready, Done}]
    /\ task \in [Tasks -> Task \cup {Ready, Done}]
    /\ told \in [Players -> Levels \cup {NoLevel}]
    /\ trust \in {"yes", "alone", "no"}
    /\ \A k \in Changes, p \in Players : Asking(k, p) /\ change[k].mine => Here(p)
    /\ \A t \in Tasks :
          UnderWay(task[t]) => (task[t].mine \/ task[t].step \in {"django", "write", "send"})
                               /\ (task[t].mine => Here(task[t].player))

\* A lost change "self-heals on the next successful change": however far rows, keys, clients
\* and front ends have come apart, through changes that were lost or crossed each other, one
\* change that nothing crosses brings them together, and what connects after it keeps to it.
ChangeAloneHeals ==
    trust = "yes" =>
        \A p \in Players :
            /\ row[p] = row[Other(p)]
            /\ redis[p] \in {None, row[p]}
            /\ Here(p) => client[p].level \in {NoLevel, row[p]}
            /\ InRoom(p) => told[p] \in {NoLevel, row[p]}
=============================================================================
