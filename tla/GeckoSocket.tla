----------------------------- MODULE GeckoSocket -----------------------------
(***************************************************************************)
(* The Rust relay between the two players of a live session.  Every socket *)
(* is a Client in a shared map.  A frame of a user goes to the user's room *)
(* gecko_shared_with_friend_{user_id}, which the partner's client joins    *)
(* when it is "bound": a host whose front end shows the session's friend   *)
(* (set_friend), a guest whose front end shows the session                 *)
(* (set_guest_on_screen).                                                  *)
(*                                                                         *)
(* A client's messages are handled one at a time, but what tells it of its *)
(* session, the context, comes from a task of its own (hydrate).  The      *)
(* task, the handler and the cleanup of a closed socket each take the      *)
(* locks of the two maps several times, and go on with the copies of the   *)
(* client they took under an earlier one.  A step here is what is done     *)
(* under one lock, but for a broadcast, which reads who is in the room and *)
(* then who they are.                                                      *)
(***************************************************************************)
EXTENDS Naturals, FiniteSets

CONSTANTS Users,
          Clients,  \* bound: the connections there will be
          Owner,    \* [Clients -> Users], whose connection it is
          Friends,
          FriendsOf, \* [Users -> SUBSET Friends], whom the user's front end can look at
          Contexts, \* the contexts Redis or Django may answer with, stale ones too
          Tasks,    \* bound: spawned tasks that can be under way at a time
          MaxMessages, \* bound: [Clients -> Nat], how many messages a front end sends
          Nobody, NoFriend, Gone, Idle, NoTask

Client == [friend_id : Friends \cup {NoFriend},
           is_host : BOOLEAN,
           guest_on_screen : BOOLEAN,
           partner_id : Users \cup {Nobody},
           sesh_friend_id : Friends \cup {NoFriend},
           partner_room : Users \cup {Nobody}]  \* the user whose shared room it is

\* What a handler has still to do.  Whoever goes dark carries the copy of the room it has
\* to leave, and the message that makes it: set_friend that is refused, set_guest_on_screen
\* with false, leave_live_sesh.
Handler ==
    [step : {"write"}, friend : Friends]
        \cup [step : {"screen"}, on : BOOLEAN]
        \cup [step : {"unseen"}, of : {"friend", "screen"},
              partner : Users \cup {Nobody}, room : Users \cup {Nobody}]
        \cup [step : {"darken", "leave"}, of : {"friend", "screen", "sesh"},
              room : Users \cup {Nobody}]
        \cup [step : {"answer"}, partner : Users \cup {Nobody}, online : SUBSET Users]
        \cup [step : {"join"}, room : Users]
        \cup [step : {"look", "check", "clear"}]

Task == [kind : {"connect", "join"}, step : {"test", "hydrate", "speak"}, client : Clients]
            \cup [kind : {"connect", "join"}, step : {"check", "join"}, client : Clients,
                  room : Users]
            \cup [step : {"tell"}, client : Clients, online : SUBSET Users]

ASSUME MessagesAssumption == MaxMessages \in [Clients -> Nat]
ASSUME OwnerAssumption ==
    Owner \in [Clients -> Users] /\ FriendsOf \in [Users -> SUBSET Friends]
ASSUME ContextsAssumption ==
    Contexts \in [Users -> SUBSET [partner_id : Users, is_host : BOOLEAN,
                                   sesh_friend_id : Friends \cup {NoFriend}]]
ASSUME NullsAssumption ==
    /\ Nobody \notin Users /\ NoFriend \notin Friends
    /\ Gone \notin Client /\ Idle \notin Handler /\ NoTask \notin Task

VARIABLES
    client,   \* [Clients -> its Client, Gone when it is not in the map]
    conn,     \* [Clients -> how far the connection is]
    rooms,    \* [Users -> the clients of others in the user's shared room]
    handler,  \* [Clients -> the message being handled]
    task,     \* [Tasks -> a spawned task]
    sees,     \* [Clients -> the users the last peer_presence said are online]
    ousted,   \* history: clients that a message put out of the room they are bound to
    sent,     \* [Clients -> messages received so far]
    crossed   \* history: clients that a context, a join or a word reached at a bad moment

vars == <<client, conn, rooms, handler, task, sees, sent, ousted, crossed>>

Registered(c) == client[c] # Gone

\* sesh_presence_allowed
Allowed(k) ==
    IF k.is_host THEN k.friend_id # NoFriend /\ k.friend_id = k.sesh_friend_id
                 ELSE k.guest_on_screen

NewClient ==
    [friend_id |-> NoFriend, is_host |-> FALSE, guest_on_screen |-> FALSE,
     partner_id |-> Nobody, sesh_friend_id |-> NoFriend, partner_room |-> Nobody]

Init ==
    /\ client = [c \in Clients |-> Gone]
    /\ conn = [c \in Clients |-> "unused"]
    /\ rooms = [u \in Users |-> {}]
    /\ handler = [c \in Clients |-> Idle]
    /\ task = [t \in Tasks |-> NoTask]
    /\ sees = [c \in Clients |-> {}]
    /\ sent = [c \in Clients |-> 0]
    /\ ousted = {}
    /\ crossed = {}

-----------------------------------------------------------------------------
(* Rooms and presence frames *)

JoinRoom(r, c) == rooms' = [rooms EXCEPT ![r] = @ \cup {c}]

\* leave_room, where there may be no room to leave
Left(r, c) == [u \in Users |-> IF u = r THEN rooms[u] \ {c} ELSE rooms[u]]

\* broadcast_to_room with an offline frame of u: all in the room get it.
Darkened(u) ==
    [c \in Clients |->
        IF c \in rooms[u] /\ Registered(c) /\ Owner[c] # u THEN sees[c] \ {u} ELSE sees[c]]

\* broadcast_peer_presence_online_to_room: those get it who are in the session.
Lit(u, seen) ==
    [c \in Clients |->
        IF /\ c \in rooms[u] /\ Registered(c) /\ Owner[c] # u
           /\ Allowed(client[c])
        THEN seen[c] \cup {u} ELSE seen[c]]

\* (mutant) only the others in the room are told
UnseenByOthers(c, p) == sees

\* peer_presence with online: false about p, to c itself
Unseen(c, p) == [sees EXCEPT ![c] = @ \ {p}]

Handling(c, step) == handler[c] # Idle /\ handler[c].step = step

\* Its handler has the copy of the client by which it will take it out of a room.
GoingDark(c) == Handling(c, "unseen") \/ Handling(c, "darken") \/ Handling(c, "leave")

\* The guest went off its screen, and its handler has yet to take it out of r.
Unscreened(c, r) ==
    \/ Handling(c, "look")
    \/ GoingDark(c) /\ handler[c].of = "screen" /\ handler[c].room = r

\* The client is leaving the session, and is not taken out of r any more.
Deserting(c, r) ==
    \/ Handling(c, "clear")
    \/ GoingDark(c) /\ handler[c].of = "sesh" /\ handler[c].room # r

\* A join is late when the client is not bound to the room any more, or just leaving.
Late(c, r) ==
    IF /\ Registered(c) /\ client[c].partner_room = r
       /\ Unscreened(c, r) \/ (Allowed(client[c]) /\ ~Deserting(c, r))
    THEN {} ELSE {c}

\* The task begins with the hydrate; that of join_live_sesh tests first if there is need.
Spawn(kind, c) ==
    \E t \in Tasks :
        /\ task[t] = NoTask
        /\ task' = [task EXCEPT ![t] =
              [kind |-> kind, step |-> IF kind = "join" THEN "test" ELSE "hydrate",
               client |-> c]]

-----------------------------------------------------------------------------
(* Connections *)

\* handle_socket: the client is put in the map and its context is asked for.  The older
\* sockets of the user are told to close, which is one of the reasons to Hangup.
Connect(c) ==
    /\ conn[c] = "unused"
    /\ conn' = [conn EXCEPT ![c] = "open"]
    /\ client' = [client EXCEPT ![c] = NewClient]
    /\ Spawn("connect", c)
    /\ UNCHANGED <<rooms, handler, sees, ousted, crossed, sent>>

\* The socket closes, from either end, and disconnect_cleanup begins.  The task that
\* receives is not stopped: a message that is being handled goes on, and so may others.
Hangup(c) ==
    /\ conn[c] = "open"
    /\ conn' = [conn EXCEPT ![c] = "closing"]
    /\ sees' = Darkened(Owner[c])
    /\ UNCHANGED <<client, rooms, handler, task, ousted, crossed, sent>>

Remove(c) ==
    /\ conn[c] = "closing"
    /\ conn' = [conn EXCEPT ![c] = "purging"]
    /\ client' = [client EXCEPT ![c] = Gone]
    /\ sees' = [sees EXCEPT ![c] = {}]
    /\ ousted' = ousted \ {c}
    /\ UNCHANGED <<rooms, handler, task, crossed, sent>>

Purge(c) ==
    /\ conn[c] = "purging"
    /\ conn' = [conn EXCEPT ![c] = "gone"]
    /\ rooms' = [u \in Users |-> rooms[u] \ {c}]
    /\ UNCHANGED <<client, handler, task, sees, ousted, crossed, sent>>

-----------------------------------------------------------------------------
(* Messages of the front end; a client that is gone is not looked up, nothing happens *)

Receive(c) ==
    /\ Registered(c) /\ handler[c] = Idle
    /\ sent[c] < MaxMessages[c]
    /\ sent' = [sent EXCEPT ![c] = @ + 1]

\* (mutant) a guest's join is left to hydrate
NextOfHost(k) ==
    IF Allowed(k) /\ k.is_host /\ k.partner_room # Nobody
    THEN [step |-> "join", room |-> k.partner_room] ELSE Idle

\* How a handler that finds client k goes on: it joins the partner's room if k is bound.
NextOf(k) ==
    IF Allowed(k) /\ k.partner_room # Nobody
    THEN [step |-> "join", room |-> k.partner_room] ELSE Idle

\* (mutant) any friend will do
NoMismatch(c, f) == FALSE

Mismatch(c, f) ==
    /\ client[c].is_host
    /\ client[c].sesh_friend_id \notin {NoFriend, f}

\* What a message does next; it is done with Idle.
Proceed(c, next) == handler' = [handler EXCEPT ![c] = next]

\* get_client, by whose copy the client is to go dark
GoDark(c, message) ==
    Proceed(c, [step |-> "unseen", of |-> message,
                partner |-> client[c].partner_id, room |-> client[c].partner_room])

\* set_friend, its check: a host that looks at another friend is to be put out of the room ...
SetFriend(c, f) ==
    /\ Receive(c)
    /\ IF Mismatch(c, f) THEN GoDark(c, "friend")
                         ELSE Proceed(c, [step |-> "write", friend |-> f])
    /\ UNCHANGED <<client, conn, rooms, task, sees, ousted, crossed>>

\* ... any other client gets its friend_id.
WriteFriend(c) ==
    /\ Handling(c, "write")
    /\ client' = [client EXCEPT ![c] =
          IF Registered(c) THEN [client[c] EXCEPT !.friend_id = handler[c].friend] ELSE Gone]
    /\ ousted' = ousted \ {c}
    /\ Proceed(c, [step |-> "check"])
    /\ UNCHANGED <<conn, rooms, task, sees, crossed, sent>>

\* set_guest_on_screen, its check ...
SetGuestOnScreen(c, on) ==
    /\ Receive(c)
    /\ ~client[c].is_host
    /\ Proceed(c, [step |-> "screen", on |-> on])
    /\ UNCHANGED <<client, conn, rooms, task, sees, ousted, crossed>>

\* ... its write, whatever the client is by now ...
WriteScreen(c) ==
    /\ Handling(c, "screen")
    /\ client' = [client EXCEPT ![c] =
          IF Registered(c) THEN [client[c] EXCEPT !.guest_on_screen = handler[c].on] ELSE Gone]
    /\ ousted' = IF handler[c].on THEN ousted \ {c} ELSE ousted
    /\ Proceed(c, [step |-> IF handler[c].on THEN "check" ELSE "look"])
    /\ UNCHANGED <<conn, rooms, task, sees, crossed, sent>>

\* ... and the look of one that is off its screen.
Look(c) ==
    /\ Handling(c, "look")
    /\ IF Registered(c) THEN GoDark(c, "screen") ELSE Proceed(c, Idle)
    /\ UNCHANGED <<client, conn, rooms, task, sees, ousted, crossed, sent>>

\* leave_live_sesh begins with the look.  The client itself is not told.
Leave(c) ==
    /\ Receive(c)
    /\ Proceed(c, [step |-> "darken", of |-> "sesh", room |-> client[c].partner_room])
    /\ UNCHANGED <<client, conn, rooms, task, sees, ousted, crossed>>

\* Who goes dark is told that its partner is offline, ...
UnseePartner(c) ==
    /\ Handling(c, "unseen")
    /\ sees' = Unseen(c, handler[c].partner)
    /\ Proceed(c, [step |-> "darken", of |-> handler[c].of, room |-> handler[c].room])
    /\ UNCHANGED <<client, conn, rooms, task, ousted, crossed, sent>>

\* ... its own room is told that it is offline, ...
Darken(c) ==
    /\ Handling(c, "darken")
    /\ sees' = Darkened(Owner[c])
    /\ Proceed(c, [handler[c] EXCEPT !.step = "leave"])
    /\ UNCHANGED <<client, conn, rooms, task, ousted, crossed, sent>>

\* ... and it is taken out of the partner's room of the copy, whatever it is bound to by now.
LeaveRoom(c) ==
    /\ Handling(c, "leave")
    /\ rooms' = Left(handler[c].room, c)
    /\ ousted' = IF /\ Registered(c) /\ Allowed(client[c])
                    /\ client[c].partner_room = handler[c].room
                    /\ \E u \in Users : u = handler[c].room /\ c \in rooms[u]
                 THEN ousted \cup {c} ELSE ousted
    /\ Proceed(c, IF handler[c].of = "sesh" THEN [step |-> "clear"] ELSE Idle)
    /\ UNCHANGED <<client, conn, task, sees, crossed, sent>>

\* The end of set_friend and set_guest_on_screen: the client is looked up once more ...
Check(c) ==
    /\ Handling(c, "check")
    /\ Proceed(c, IF Registered(c) THEN NextOf(client[c]) ELSE Idle)
    /\ UNCHANGED <<client, conn, rooms, task, sees, ousted, crossed, sent>>

\* ... and joins the partner's room.
Bind(c) ==
    /\ Handling(c, "join")
    /\ JoinRoom(handler[c].room, c)
    /\ crossed' = crossed \cup Late(c, handler[c].room)
    /\ Proceed(c, Idle)
    /\ UNCHANGED <<client, conn, task, sees, ousted, sent>>

\* (mutant) the client is written though it is not in the map any more
ClearAnyway(c) ==
    /\ Handling(c, "clear")
    /\ client' = [client EXCEPT ![c] = NewClient]
    /\ ousted' = ousted \ {c}
    /\ Proceed(c, Idle)
    /\ UNCHANGED <<conn, rooms, task, sees, crossed, sent>>

\* The end of leave_live_sesh: the client is no longer bound to the room.  The partner stays.
Clear(c) ==
    /\ Handling(c, "clear")
    /\ client' = [client EXCEPT ![c] =
          IF Registered(c)
          THEN [client[c] EXCEPT !.partner_room = Nobody, !.is_host = FALSE,
                                 !.guest_on_screen = FALSE]
          ELSE Gone]
    /\ ousted' = ousted \ {c}
    /\ Proceed(c, Idle)
    /\ UNCHANGED <<conn, rooms, task, sees, crossed, sent>>

\* join_live_sesh is a task of its own.
JoinLiveSesh(c) ==
    /\ Receive(c)
    /\ Spawn("join", c)
    /\ UNCHANGED <<client, conn, rooms, handler, sees, ousted, crossed>>

\* What can be found out about user p: the first of p's sockets there is, of two any, is
\* in the session or is not.
Answers(p) ==
    LET Sockets == {d \in Clients : Registered(d) /\ Owner[d] = p}
    IN  {IF Allowed(client[d]) THEN {p} ELSE {} : d \in Sockets}
            \cup (IF Sockets = {} THEN {{}} ELSE {})

\* request_peer_presence: the client and its partner are looked at ...
RequestPeerPresence(c) ==
    /\ Receive(c)
    /\ \E online \in IF Allowed(client[c]) THEN Answers(client[c].partner_id) ELSE {{}} :
          Proceed(c, [step |-> "answer", partner |-> client[c].partner_id, online |-> online])
    /\ UNCHANGED <<client, conn, rooms, task, sees, ousted, crossed>>

\* ... and the client is told by what was seen then.
Answer(c) ==
    /\ Handling(c, "answer")
    /\ sees' = IF handler[c].online # {} /\ Registered(c)
               THEN [sees EXCEPT ![c] = @ \cup handler[c].online]
               ELSE Unseen(c, handler[c].partner)
    /\ Proceed(c, Idle)
    /\ UNCHANGED <<client, conn, rooms, task, ousted, crossed, sent>>

-----------------------------------------------------------------------------
(* Tasks: hydrate_live_sesh_context and what connect and join say after it *)

Goto(t, step) == task' = [task EXCEPT ![t] = step]
Done(t) == Goto(t, NoTask)
\* What comes after the hydrate: nothing, for a client that is gone.
Speaks(k) ==
    IF Registered(k.client)
    THEN [kind |-> k.kind, step |-> "speak", client |-> k.client] ELSE NoTask

At(t, step) == task[t] # NoTask /\ task[t].step = step

\* join_live_sesh asks only for a client that has no partner, or is gone.
TestPartner(t) ==
    /\ At(t, "test")
    /\ LET c == task[t].client IN
       Goto(t, IF Registered(c) /\ client[c].partner_id # Nobody
               THEN Speaks(task[t]) ELSE [task[t] EXCEPT !.step = "hydrate"])
    /\ UNCHANGED <<client, conn, rooms, handler, sees, ousted, crossed, sent>>

\* There is no session, no answer or no client.
NoHydrate(t) ==
    /\ At(t, "hydrate")
    /\ Goto(t, Speaks(task[t]))
    /\ UNCHANGED <<client, conn, rooms, handler, sees, ousted, crossed, sent>>

\* A context comes at a bad moment when it makes the client a host of another friend than
\* the one a set_friend has checked and is about to write; or when it is another one than
\* the client has.
Crosses(c, x) ==
    \/ /\ Handling(c, "write")
       /\ x.is_host /\ x.sesh_friend_id \notin {NoFriend, handler[c].friend}
    \/ /\ client[c].partner_id # Nobody
       /\ \/ client[c].partner_room # x.partner_id
          \/ client[c].is_host # x.is_host
          \/ client[c].sesh_friend_id # x.sesh_friend_id

\* apply_hydrate_value writes the client, ...
Apply(t) ==
    /\ At(t, "hydrate")
    /\ LET c == task[t].client IN
       /\ Registered(c)
       /\ \E x \in Contexts[Owner[c]] :
          LET k == [client[c] EXCEPT
                       !.partner_id = x.partner_id, !.is_host = x.is_host,
                       !.sesh_friend_id = x.sesh_friend_id,
                       !.partner_room = x.partner_id,
                       !.friend_id = IF x.is_host \/ x.sesh_friend_id = NoFriend
                                     THEN @ ELSE x.sesh_friend_id]
          IN  /\ client' = [client EXCEPT ![c] = k]
              /\ Goto(t, [kind |-> task[t].kind, step |-> "check", client |-> c,
                          room |-> x.partner_id])
              /\ crossed' = IF Crosses(c, x) THEN crossed \cup {c} ELSE crossed
    /\ UNCHANGED <<conn, rooms, handler, sees, ousted, sent>>

\* ... looks it up ...
HydrateChecks(t) ==
    /\ At(t, "check")
    /\ Goto(t, IF Registered(task[t].client) /\ Allowed(client[task[t].client])
               THEN [task[t] EXCEPT !.step = "join"] ELSE Speaks(task[t]))
    /\ UNCHANGED <<client, conn, rooms, handler, sees, ousted, crossed, sent>>

\* ... and joins the room if the client is bound.
HydrateJoins(t) ==
    /\ At(t, "join")
    /\ JoinRoom(task[t].room, task[t].client)
    /\ crossed' = crossed \cup Late(task[t].client, task[t].room)
    /\ Goto(t, Speaks(task[t]))
    /\ UNCHANGED <<client, conn, handler, sees, ousted, sent>>

\* The client and, on connect, its partner are looked at ...
Speak(t) ==
    /\ At(t, "speak")
    /\ LET c == task[t].client IN
       IF Registered(c) /\ client[c].partner_id # Nobody /\ Allowed(client[c])
       THEN \E online \in IF task[t].kind = "connect"
                          THEN Answers(client[c].partner_id) ELSE {{}} :
               Goto(t, [step |-> "tell", client |-> c, online |-> online])
       ELSE Done(t)
    /\ UNCHANGED <<client, conn, rooms, handler, sees, ousted, crossed, sent>>

\* ... and each is told of the other, by what was seen then.
Tell(t) ==
    /\ At(t, "tell")
    /\ LET c == task[t].client
           heard == IF Registered(c) THEN [sees EXCEPT ![c] = @ \cup task[t].online] ELSE sees
       IN  /\ sees' = Lit(Owner[c], heard)
           /\ crossed' = IF task[t].online # {} /\ Registered(c) /\ ~Allowed(client[c])
                         THEN crossed \cup {c} ELSE crossed
    /\ Done(t)
    /\ UNCHANGED <<client, conn, rooms, handler, ousted, sent>>

MessageStep(c) ==
    \/ \E f \in FriendsOf[Owner[c]] : SetFriend(c, f)
    \/ \E on \in BOOLEAN : SetGuestOnScreen(c, on)
    \/ WriteFriend(c) \/ WriteScreen(c) \/ Look(c) \/ Check(c) \/ Bind(c)
    \/ Leave(c) \/ UnseePartner(c) \/ Darken(c) \/ LeaveRoom(c) \/ Clear(c)
    \/ JoinLiveSesh(c) \/ RequestPeerPresence(c) \/ Answer(c)
ConnStep(c) == Connect(c) \/ Hangup(c) \/ Remove(c) \/ Purge(c)
TaskStep(t) ==
    \/ TestPartner(t) \/ NoHydrate(t) \/ Apply(t) \/ HydrateChecks(t) \/ HydrateJoins(t)
    \/ Speak(t) \/ Tell(t)

Next ==
    \/ \E c \in Clients : ConnStep(c) \/ MessageStep(c)
    \/ \E t \in Tasks : TaskStep(t)

Spec == Init /\ [][Next]_vars

-----------------------------------------------------------------------------
(* Properties *)

\* Every variable holds a value of its kind, and the map has exactly the clients whose
\* connection is open or closing.
STypeOK ==
    /\ client \in [Clients -> Client \cup {Gone}]
    /\ conn \in [Clients -> {"unused", "open", "closing", "purging", "gone"}]
    /\ \A c \in Clients : Registered(c) <=> conn[c] \in {"open", "closing"}
    /\ rooms \in [Users -> SUBSET Clients]
    /\ handler \in [Clients -> Handler \cup {Idle}]
    /\ task \in [Tasks -> Task \cup {NoTask}]
    /\ sees \in [Clients -> SUBSET Users]
    /\ sent \in [Clients -> Nat]
    /\ ousted \subseteq Clients
    /\ crossed \subseteq Clients

\* Who is in a user's room receives that user's frames.  It is a client that is bound to
\* the room: its context names the room's user and its front end shows the session.  Once
\* it leaves, looks elsewhere or disconnects it is out, or on its way.  Excepted are the
\* clients that were crossed, by what the code does not guard against: a context that makes
\* a client the host of one friend between the check of set_friend and its write of another,
\* or that names another session than the one before; and a join decided before and carried
\* out after the client left or went.
MembersAreBound ==
    \A u \in Users : \A c \in rooms[u] \ crossed :
        \/ conn[c] = "purging"
        \/ /\ Registered(c) /\ client[c].partner_room = u
           /\ Allowed(client[c]) \/ Unscreened(c, u)

\* No message is being handled, and no task has yet to join a room.
Quiet(c) ==
    /\ handler[c] = Idle
    /\ \A t \in Tasks : task[t] # NoTask /\ task[t].client = c =>
          task[t].step \notin {"check", "join"}

\* A client becomes bound by two things that happen in either order, or at once: its
\* context comes, and its front end says what it shows.  Whichever is second, the client is
\* in the partner's room in the end.  Excepted is who was put out of the room it was bound
\* to, until its front end says again what it shows: a host that was refused a friend, and
\* one whose context came while it was taken for a guest that goes off its screen.
BoundAreMembers ==
    \A c \in Clients \ ousted :
        /\ Registered(c) /\ Quiet(c)
        /\ client[c].partner_room # Nobody /\ Allowed(client[c])
        => c \in rooms[client[c].partner_room]

\* A guest that is not looking at the session is shown nobody as online, however the partner
\* comes and goes, as soon as the message that took it off its screen has told it so (but
\* for a client that is crossed, see MembersAreBound, or that a connect task tells late).
OffScreenSeesNobody ==
    \A c \in Clients \ crossed :
        /\ Registered(c)
        /\ client[c].partner_room # Nobody
        /\ ~client[c].is_host /\ ~client[c].guest_on_screen
        /\ ~Handling(c, "look") /\ ~Handling(c, "unseen")
        => sees[c] = {}
=============================================================================
