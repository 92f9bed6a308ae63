-------------------------- MODULE GeckoSocket_proofs --------------------------
(* What is proved about GeckoSocket, for any users, connections, contexts, tasks and
   number of messages. *)
EXTENDS GeckoSocket, TLAPS

(***************************************************************************)
(* Types                                                                   *)
(***************************************************************************)

LEMMA InitTypes == Init => STypeOK
  BY NullsAssumption DEF Init, STypeOK, Registered

LEMMA NewClientType == NewClient \in Client
  BY DEF NewClient, Client

\* What the steps of handlers and tasks carry.
LEMMA HandlerKinds ==
    ASSUME STypeOK, NEW c \in Clients, handler[c] # Idle
    PROVE  /\ handler[c].step = "write" => handler[c].friend \in Friends
           /\ handler[c].step = "screen" => handler[c].on \in BOOLEAN
           /\ handler[c].step = "unseen" => /\ handler[c].of \in {"friend", "screen"}
                                            /\ handler[c].partner \in Users \cup {Nobody}
           /\ handler[c].step \in {"unseen", "darken", "leave"} =>
                 /\ handler[c].of \in {"friend", "screen", "sesh"}
                 /\ handler[c].room \in Users \cup {Nobody}
           /\ handler[c].step = "answer" => /\ handler[c].partner \in Users \cup {Nobody}
                                            /\ handler[c].online \in SUBSET Users
           /\ handler[c].step = "join" => handler[c].room \in Users
           /\ handler[c] \in Handler
  BY DEF STypeOK, Handler

\* What the records are that a handler goes on with.
LEMMA HandlerRecords ==
    ASSUME NEW of \in {"friend", "screen", "sesh"}, NEW room \in Users \cup {Nobody},
           NEW partner \in Users \cup {Nobody}
    PROVE  /\ [step |-> "darken", of |-> of, room |-> room] \in Handler
           /\ [step |-> "leave", of |-> of, room |-> room] \in Handler
           /\ of # "sesh" => [step |-> "unseen", of |-> of, partner |-> partner, room |-> room]
                             \in Handler
           /\ \A online \in SUBSET Users :
                 [step |-> "answer", partner |-> partner, online |-> online] \in Handler
           /\ [step |-> "look"] \in Handler /\ [step |-> "check"] \in Handler
           /\ [step |-> "clear"] \in Handler
           /\ \A on \in BOOLEAN : [step |-> "screen", on |-> on] \in Handler
           /\ \A f \in Friends : [step |-> "write", friend |-> f] \in Handler
  BY DEF Handler

\* Whoever goes on with a record is at its step.
LEMMA ProceedType ==
    ASSUME STypeOK, NEW c \in Clients, NEW h \in Handler \cup {Idle}, Proceed(c, h)
    PROVE  /\ handler' \in [Clients -> Handler \cup {Idle}]
           /\ handler'[c] = h
           /\ h \in Handler => handler'[c] # Idle
           /\ \A d \in Clients : d # c => handler'[d] = handler[d]
  BY NullsAssumption DEF Proceed, STypeOK

\* The record with which a broadcast goes on to leave.
LEMMA LeaveRecord ==
    ASSUME STypeOK, NEW c \in Clients, Handling(c, "darken")
    PROVE  [handler[c] EXCEPT !.step = "leave"]
             = [step |-> "leave", of |-> handler[c].of, room |-> handler[c].room]
  BY DEF Handling, STypeOK, Handler

LEMMA TaskKinds ==
    ASSUME STypeOK, NEW t \in Tasks, task[t] # NoTask
    PROVE  /\ task[t].client \in Clients
           /\ task[t].step \in {"test", "hydrate", "check", "join", "speak", "tell"}
           /\ task[t].step # "tell" => task[t].kind \in {"connect", "join"}
           /\ task[t].step \in {"check", "join"} => task[t].room \in Users
           /\ task[t].step = "tell" => task[t].online \in SUBSET Users
  BY DEF STypeOK, Task

LEMMA ClientKinds ==
    ASSUME STypeOK, NEW c \in Clients, Registered(c) PROVE client[c] \in Client
  BY DEF STypeOK, Registered

LEMMA NextOfType ==
    ASSUME NEW k \in Client PROVE NextOf(k) \in Handler \cup {Idle}
  BY DEF NextOf, Handler, Client

LEMMA SpeaksType ==
    ASSUME NEW k, k.client \in Clients, k.kind \in {"connect", "join"}
    PROVE  Speaks(k) \in Task \cup {NoTask}
  BY DEF Speaks, Task

LEMMA GotoType ==
    ASSUME STypeOK, NEW t \in Tasks, NEW s \in Task \cup {NoTask}, Goto(t, s)
    PROVE  task' \in [Tasks -> Task \cup {NoTask}]
  BY DEF Goto, STypeOK

LEMMA SpawnType ==
    ASSUME STypeOK, NEW c \in Clients, NEW kind \in {"connect", "join"}, Spawn(kind, c)
    PROVE  task' \in [Tasks -> Task \cup {NoTask}]
<1>1. /\ [kind |-> kind, step |-> "hydrate", client |-> c] \in Task
      /\ [kind |-> kind, step |-> "test", client |-> c] \in Task
  BY DEF Task
<1>2. QED
  BY <1>1 DEF Spawn, STypeOK

\* What the application of a context does, in one place.
LEMMA ApplyFacts ==
    ASSUME STypeOK, NEW t \in Tasks, Apply(t)
    PROVE  \E c \in Clients : \E x \in Contexts[Owner[c]], k \in Client :
             /\ c = task[t].client /\ Registered(c)
             /\ task[t].kind \in {"connect", "join"}
             /\ x.partner_id \in Users /\ x.is_host \in BOOLEAN
             /\ client' = [client EXCEPT ![c] = k]
             /\ k.partner_id = x.partner_id /\ k.partner_room = x.partner_id
             /\ k.is_host = x.is_host /\ k.sesh_friend_id = x.sesh_friend_id
             /\ k.guest_on_screen = client[c].guest_on_screen
             /\ k.is_host => k.friend_id = client[c].friend_id
             /\ task' = [task EXCEPT ![t] = [kind |-> task[t].kind, step |-> "check",
                                             client |-> c, room |-> x.partner_id]]
             /\ crossed' = IF Crosses(c, x) THEN crossed \cup {c} ELSE crossed
<1> DEFINE c == task[t].client
<1>1. c \in Clients /\ Registered(c) /\ task[t].kind \in {"connect", "join"}
  BY TaskKinds DEF Apply, At
<1>2. PICK x \in Contexts[Owner[c]] :
        LET k == [client[c] EXCEPT
                     !.partner_id = x.partner_id, !.is_host = x.is_host,
                     !.sesh_friend_id = x.sesh_friend_id,
                     !.partner_room = x.partner_id,
                     !.friend_id = IF x.is_host \/ x.sesh_friend_id = NoFriend
                                   THEN @ ELSE x.sesh_friend_id]
        IN  /\ client' = [client EXCEPT ![c] = k]
            /\ Goto(t, [kind |-> task[t].kind, step |-> "check", client |-> c,
                        room |-> x.partner_id])
            /\ crossed' = IF Crosses(c, x) THEN crossed \cup {c} ELSE crossed
  BY ZenonT(60) DEF Apply
<1> DEFINE k == [client[c] EXCEPT
                     !.partner_id = x.partner_id, !.is_host = x.is_host,
                     !.sesh_friend_id = x.sesh_friend_id,
                     !.partner_room = x.partner_id,
                     !.friend_id = IF x.is_host \/ x.sesh_friend_id = NoFriend
                                   THEN client[c].friend_id ELSE x.sesh_friend_id]
<1>3. /\ client' = [client EXCEPT ![c] = k]
      /\ task' = [task EXCEPT ![t] = [kind |-> task[t].kind, step |-> "check",
                                      client |-> c, room |-> x.partner_id]]
      /\ crossed' = IF Crosses(c, x) THEN crossed \cup {c} ELSE crossed
  BY <1>2 DEF Goto
<1>4. client[c] \in Client
  BY <1>1, ClientKinds
<1>5. x \in [partner_id : Users, is_host : BOOLEAN, sesh_friend_id : Friends \cup {NoFriend}]
  BY <1>1, OwnerAssumption, ContextsAssumption
<1>6. k \in Client
  BY <1>4, <1>5 DEF Client
<1>7. /\ k.partner_id = x.partner_id /\ k.partner_room = x.partner_id
      /\ k.is_host = x.is_host /\ k.sesh_friend_id = x.sesh_friend_id
      /\ k.guest_on_screen = client[c].guest_on_screen
      /\ k.is_host => k.friend_id = client[c].friend_id
  BY <1>4 DEF Client
<1> HIDE DEF c, k
<1>8. c = task[t].client
  BY DEF c
<1>9. QED
  BY <1>1, <1>3, <1>5, <1>6, <1>7, <1>8

LEMMA TaskKeeps ==
    ASSUME STypeOK, NEW t \in Tasks, TaskStep(t)
    PROVE  /\ handler' = handler /\ conn' = conn /\ ousted' = ousted
           /\ crossed \subseteq crossed'
<1>1. CASE Apply(t)
  <2>1. crossed \subseteq crossed'
    BY <1>1, ApplyFacts
  <2>2. handler' = handler /\ conn' = conn /\ ousted' = ousted
    BY <1>1 DEF Apply
  <2>3. QED
    BY <2>1, <2>2
<1>2. CASE \/ TestPartner(t) \/ NoHydrate(t) \/ HydrateChecks(t) \/ HydrateJoins(t)
           \/ Speak(t) \/ Tell(t)
  BY <1>2 DEF TestPartner, NoHydrate, HydrateChecks, HydrateJoins, Speak, Tell
<1>3. QED
  BY <1>1, <1>2 DEF TaskStep

LEMMA AnswersType == ASSUME NEW p PROVE Answers(p) \subseteq {{}, {p}}
  BY DEF Answers

LEMMA FramesType ==
    ASSUME STypeOK, NEW u \in Users
    PROVE  /\ Darkened(u) \in [Clients -> SUBSET Users]
           /\ \A seen \in [Clients -> SUBSET Users] :
                 /\ Lit(u, seen) \in [Clients -> SUBSET Users]
           /\ \A c \in Clients : \A p : Unseen(c, p) \in [Clients -> SUBSET Users]
  BY DEF STypeOK, Darkened, Lit, Unseen

LEMMA ConnStepTypes ==
    ASSUME STypeOK, NEW c \in Clients, ConnStep(c) PROVE STypeOK'
<1>1. CASE Connect(c)
  <2>1. task' \in [Tasks -> Task \cup {NoTask}]
    BY <1>1, SpawnType DEF Connect
  <2>2. NewClient \in Client /\ NewClient # Gone
    BY NewClientType, NullsAssumption
  <2>3. QED
    BY <1>1, <2>1, <2>2 DEF Connect, STypeOK, Registered
<1>2. CASE Hangup(c)
  <2>1. Darkened(Owner[c]) \in [Clients -> SUBSET Users]
    BY FramesType, OwnerAssumption
  <2>2. QED
    BY <1>2, <2>1 DEF Hangup, STypeOK, Registered
<1>3. CASE Remove(c)
  BY <1>3 DEF Remove, STypeOK, Registered
<1>4. CASE Purge(c)
  BY <1>4 DEF Purge, STypeOK, Registered
<1>5. QED
  BY <1>1, <1>2, <1>3, <1>4 DEF ConnStep

\* Who is found online is a user.
LEMMA AnswersUsers == ASSUME NEW p PROVE Answers(p) \subseteq SUBSET Users
  BY OwnerAssumption DEF Answers

LEMMA MessageStepTypes ==
    ASSUME STypeOK, NEW c \in Clients, MessageStep(c) PROVE STypeOK'
\* A step that goes on with a handler record and leaves the client as it is.
<1>1. ASSUME NEW h \in Handler \cup {Idle}, Proceed(c, h), client' = client, conn' = conn,
             task' = task, rooms' \in [Users -> SUBSET Clients],
             sees' \in [Clients -> SUBSET Users], sent' \in [Clients -> Nat],
             ousted' \subseteq Clients, crossed' \subseteq Clients
      PROVE  STypeOK'
  BY <1>1, ProceedType DEF STypeOK, Registered
\* A step that writes the client, if it is there.
<1>2. ASSUME NEW h \in Handler \cup {Idle}, Proceed(c, h), NEW k,
             Registered(c) => k \in Client,
             client' = [client EXCEPT ![c] = IF Registered(c) THEN k ELSE Gone],
             conn' = conn, task' = task, rooms' = rooms, sees' = sees, sent' = sent,
             ousted' \subseteq Clients, crossed' = crossed
      PROVE  STypeOK'
  <2>1. Registered(c) => k # Gone
    BY <1>2, NullsAssumption
  <2>2. QED
    BY <1>2, <2>1, ProceedType DEF STypeOK, Registered
<1>3. Registered(c) => /\ client[c] \in Client
                       /\ client[c].partner_id \in Users \cup {Nobody}
                       /\ client[c].partner_room \in Users \cup {Nobody}
  BY ClientKinds DEF Client
<1>4. Receive(c) => Registered(c) /\ sent' \in [Clients -> Nat]
  BY DEF Receive, STypeOK
<1>5. Darkened(Owner[c]) \in [Clients -> SUBSET Users]
  BY FramesType, OwnerAssumption
<1>6. /\ rooms \in [Users -> SUBSET Clients] /\ sees \in [Clients -> SUBSET Users]
      /\ sent \in [Clients -> Nat] /\ ousted \subseteq Clients /\ crossed \subseteq Clients
  BY DEF STypeOK
<1>7. ASSUME NEW f \in FriendsOf[Owner[c]], SetFriend(c, f) PROVE STypeOK'
  <2>1. f \in Friends
    BY OwnerAssumption
  <2>2. CASE Mismatch(c, f)
    <3>1. [step |-> "unseen", of |-> "friend", partner |-> client[c].partner_id,
           room |-> client[c].partner_room] \in Handler
      BY <1>3, <1>4, <1>7, HandlerRecords DEF SetFriend
    <3>2. QED
      BY <1>1, <1>4, <1>6, <1>7, <2>2, <3>1 DEF SetFriend, GoDark
  <2>3. CASE ~Mismatch(c, f)
    <3>1. [step |-> "write", friend |-> f] \in Handler
      BY <2>1 DEF Handler
    <3>2. QED
      BY <1>1, <1>4, <1>6, <1>7, <2>3, <3>1 DEF SetFriend
  <2>4. QED
    BY <2>2, <2>3
<1>8. CASE WriteFriend(c)
  <2> DEFINE k == [client[c] EXCEPT !.friend_id = handler[c].friend]
  <2>1. Registered(c) => k \in Client
    BY <1>3, <1>8, HandlerKinds DEF WriteFriend, Handling, Client
  <2>2. [step |-> "check"] \in Handler
    BY DEF Handler
  <2>3. client' = [client EXCEPT ![c] = IF Registered(c) THEN k ELSE Gone]
    BY <1>8 DEF WriteFriend
  <2> HIDE DEF k
  <2>4. QED
    BY <1>2, <1>6, <1>8, <2>1, <2>2, <2>3 DEF WriteFriend
<1>9. ASSUME NEW on \in BOOLEAN, SetGuestOnScreen(c, on) PROVE STypeOK'
  <2>1. [step |-> "screen", on |-> on] \in Handler
    BY DEF Handler
  <2>2. QED
    BY <1>1, <1>4, <1>6, <1>9, <2>1 DEF SetGuestOnScreen
<1>10. CASE WriteScreen(c)
  <2> DEFINE k == [client[c] EXCEPT !.guest_on_screen = handler[c].on]
  <2>1. Registered(c) => k \in Client
    BY <1>3, <1>10, HandlerKinds DEF WriteScreen, Handling, Client
  <2>2. [step |-> IF handler[c].on THEN "check" ELSE "look"] \in Handler
    BY DEF Handler
  <2>3. client' = [client EXCEPT ![c] = IF Registered(c) THEN k ELSE Gone]
    BY <1>10 DEF WriteScreen
  <2> HIDE DEF k
  <2>4. QED
    BY <1>2, <1>6, <1>10, <2>1, <2>2, <2>3 DEF WriteScreen
<1>11. CASE Look(c)
  <2>1. CASE Registered(c)
    <3>1. [step |-> "unseen", of |-> "screen", partner |-> client[c].partner_id,
           room |-> client[c].partner_room] \in Handler
      BY <1>3, <2>1, HandlerRecords
    <3>2. QED
      BY <1>1, <1>6, <1>11, <2>1, <3>1 DEF Look, GoDark
  <2>2. CASE ~Registered(c)
    BY <1>1, <1>6, <1>11, <2>2 DEF Look
  <2>3. QED
    BY <2>1, <2>2
<1>12. CASE Leave(c)
  <2>1. [step |-> "darken", of |-> "sesh", room |-> client[c].partner_room] \in Handler
    BY <1>3, <1>4, <1>12, HandlerRecords DEF Leave
  <2>2. QED
    BY <1>1, <1>4, <1>6, <1>12, <2>1 DEF Leave
<1>13. CASE UnseePartner(c)
  <2>1. [step |-> "darken", of |-> handler[c].of, room |-> handler[c].room] \in Handler
    BY <1>13, HandlerKinds, HandlerRecords DEF UnseePartner, Handling
  <2>2. sees' \in [Clients -> SUBSET Users]
    BY <1>13, FramesType, OwnerAssumption DEF UnseePartner
  <2>3. QED
    BY <1>1, <1>6, <1>13, <2>1, <2>2 DEF UnseePartner
<1>14. CASE Darken(c)
  <2>1. [step |-> "leave", of |-> handler[c].of, room |-> handler[c].room] \in Handler
    BY <1>14, HandlerKinds, HandlerRecords DEF Darken, Handling
  <2>2. [handler[c] EXCEPT !.step = "leave"] \in Handler
    BY <1>14, <2>1, LeaveRecord DEF Darken
  <2>3. QED
    BY <1>1, <1>5, <1>6, <1>14, <2>2 DEF Darken
<1>15. CASE LeaveRoom(c)
  <2>1. [step |-> "clear"] \in Handler
    BY DEF Handler
  <2>2. rooms' \in [Users -> SUBSET Clients]
    BY <1>6, <1>15 DEF LeaveRoom, Left
  <2>3. QED
    BY <1>1, <1>6, <1>15, <2>1, <2>2 DEF LeaveRoom
<1>16. CASE Check(c)
  <2>1. Registered(c) => NextOf(client[c]) \in Handler \cup {Idle}
    BY <1>3, NextOfType
  <2>2. QED
    BY <1>1, <1>6, <1>16, <2>1 DEF Check
<1>17. CASE Bind(c)
  <2>1. handler[c].room \in Users
    BY <1>17, HandlerKinds DEF Bind, Handling
  <2>2. rooms' \in [Users -> SUBSET Clients] /\ crossed' \subseteq Clients
    BY <1>6, <1>17, <2>1 DEF Bind, JoinRoom, Late
  <2>3. QED
    BY <1>1, <1>6, <1>17, <2>2 DEF Bind
<1>18. CASE Clear(c)
  <2> DEFINE k == [client[c] EXCEPT !.partner_room = Nobody, !.is_host = FALSE,
                                    !.guest_on_screen = FALSE]
  <2>1. Registered(c) => k \in Client
    BY <1>3 DEF Client
  <2>2. client' = [client EXCEPT ![c] = IF Registered(c) THEN k ELSE Gone]
    BY <1>18 DEF Clear
  <2> HIDE DEF k
  <2>3. QED
    BY <1>2, <1>6, <1>18, <2>1, <2>2 DEF Clear
<1>19. CASE JoinLiveSesh(c)
  <2>1. task' \in [Tasks -> Task \cup {NoTask}]
    BY <1>19, SpawnType DEF JoinLiveSesh
  <2>2. QED
    BY <1>4, <1>19, <2>1 DEF JoinLiveSesh, STypeOK, Registered
<1>20. CASE RequestPeerPresence(c)
  <2>1. PICK online \in IF Allowed(client[c]) THEN Answers(client[c].partner_id) ELSE {{}} :
           Proceed(c, [step |-> "answer", partner |-> client[c].partner_id, online |-> online])
    BY <1>20 DEF RequestPeerPresence
  <2>2. online \in SUBSET Users
    BY <2>1, AnswersUsers
  <2>3. [step |-> "answer", partner |-> client[c].partner_id, online |-> online] \in Handler
    BY <1>3, <1>4, <1>20, <2>2, HandlerRecords DEF RequestPeerPresence
  <2>4. QED
    BY <1>1, <1>4, <1>6, <1>20, <2>1, <2>3 DEF RequestPeerPresence
<1>21. CASE Answer(c)
  <2>1. handler[c].online \in SUBSET Users
    BY <1>21, HandlerKinds DEF Answer, Handling
  <2>2. sees' \in [Clients -> SUBSET Users]
    <3>1. CASE handler[c].online # {} /\ Registered(c)
      BY <1>6, <1>21, <2>1, <3>1 DEF Answer
    <3>2. CASE ~(handler[c].online # {} /\ Registered(c))
      BY <1>21, <3>2, FramesType, OwnerAssumption DEF Answer
    <3>3. QED
      BY <3>1, <3>2
  <2>3. QED
    BY <1>1, <1>6, <1>21, <2>2 DEF Answer
<1>22. QED
  BY <1>7, <1>8, <1>9, <1>10, <1>11, <1>12, <1>13, <1>14, <1>15, <1>16, <1>17, <1>18, <1>19,
     <1>20, <1>21 DEF MessageStep

LEMMA TaskStepTypes ==
    ASSUME STypeOK, NEW t \in Tasks, TaskStep(t) PROVE STypeOK'
<1>1. CASE NoHydrate(t)
  <2>1. Speaks(task[t]) \in Task \cup {NoTask}
    BY <1>1, TaskKinds, SpeaksType DEF NoHydrate, At
  <2>2. task' \in [Tasks -> Task \cup {NoTask}]
    BY <1>1, <2>1, GotoType DEF NoHydrate
  <2>3. QED
    BY <1>1, <2>2 DEF NoHydrate, STypeOK, Registered
<1>2. CASE Apply(t)
  <2>1. PICK c \in Clients, x \in Users, k \in Client :
          /\ Registered(c) /\ task[t].kind \in {"connect", "join"}
          /\ client' = [client EXCEPT ![c] = k]
          /\ task' = [task EXCEPT ![t] = [kind |-> task[t].kind, step |-> "check",
                                          client |-> c, room |-> x]]
          /\ crossed' \in {crossed, crossed \cup {c}}
    BY <1>2, ApplyFacts
  <2>2. [kind |-> task[t].kind, step |-> "check", client |-> c, room |-> x] \in Task
    BY <2>1 DEF Task
  <2>3. k # Gone
    BY NullsAssumption
  <2>4. task' \in [Tasks -> Task \cup {NoTask}]
    BY <2>1, <2>2 DEF STypeOK
  <2>5. QED
    BY <1>2, <2>1, <2>3, <2>4 DEF Apply, STypeOK, Registered
<1>3. CASE HydrateJoins(t)
  <2>1. task[t].client \in Clients /\ task[t].kind \in {"connect", "join"} /\ task[t].room \in Users
    BY <1>3, TaskKinds DEF HydrateJoins, At
  <2>2. Speaks(task[t]) \in Task \cup {NoTask}
    BY <2>1, SpeaksType
  <2>3. task' \in [Tasks -> Task \cup {NoTask}]
    BY <1>3, <2>2, GotoType DEF HydrateJoins
  <2>4. QED
    BY <1>3, <2>1, <2>3 DEF HydrateJoins, JoinRoom, Late, STypeOK, Registered
<1>4. CASE Speak(t)
  <2>1. task[t].client \in Clients
    BY <1>4, TaskKinds DEF Speak, At
  <2>2. task' \in [Tasks -> Task \cup {NoTask}]
    <3>1. CASE Done(t)
      BY <3>1, GotoType DEF Done
    <3>2. ASSUME NEW online \in SUBSET Users,
                 Goto(t, [step |-> "tell", client |-> task[t].client, online |-> online])
          PROVE  task' \in [Tasks -> Task \cup {NoTask}]
      <4>1. [step |-> "tell", client |-> task[t].client, online |-> online] \in Task
        BY <2>1 DEF Task
      <4>2. QED
        BY <3>2, <4>1, GotoType
    <3>3. Answers(client[task[t].client].partner_id) \subseteq SUBSET Users
      BY AnswersUsers
    <3>4. QED
      BY <1>4, <3>1, <3>2, <3>3 DEF Speak
  <2>3. QED
    BY <1>4, <2>2 DEF Speak, STypeOK, Registered
<1>5. CASE Tell(t)
  <2> DEFINE c == task[t].client
             heard == IF Registered(c) THEN [sees EXCEPT ![c] = @ \cup task[t].online] ELSE sees
  <2>1. c \in Clients /\ task[t].online \in SUBSET Users
    BY <1>5, TaskKinds DEF Tell, At
  <2>2. heard \in [Clients -> SUBSET Users]
    BY <2>1 DEF STypeOK
  <2>3. sees' = Lit(Owner[c], heard)
    BY <1>5 DEF Tell
  <2> HIDE DEF heard
  <2>4. sees' \in [Clients -> SUBSET Users]
    BY <2>1, <2>2, <2>3, FramesType, OwnerAssumption
  <2>5. task' \in [Tasks -> Task \cup {NoTask}]
    BY <1>5, GotoType DEF Tell, Done
  <2>6. QED
    BY <1>5, <2>1, <2>4, <2>5 DEF Tell, STypeOK, Registered
<1>6. CASE HydrateChecks(t)
  <2>1. /\ task[t].client \in Clients /\ task[t].kind \in {"connect", "join"}
        /\ task[t] \in Task /\ task[t].step = "check" /\ task[t].room \in Users
    BY <1>6, TaskKinds DEF HydrateChecks, At, STypeOK
  <2>2. Speaks(task[t]) \in Task \cup {NoTask}
    BY <2>1, SpeaksType
  <2>3. [task[t] EXCEPT !.step = "join"] \in Task
    BY <2>1 DEF Task
  <2>4. task' \in [Tasks -> Task \cup {NoTask}]
    BY <1>6, <2>2, <2>3, GotoType DEF HydrateChecks
  <2>5. QED
    BY <1>6, <2>4 DEF HydrateChecks, STypeOK, Registered
<1>7. CASE TestPartner(t)
  <2>1. /\ task[t].client \in Clients /\ task[t].kind \in {"connect", "join"}
        /\ task[t] \in Task /\ task[t].step = "test"
    BY <1>7, TaskKinds DEF TestPartner, At, STypeOK
  <2>2. Speaks(task[t]) \in Task \cup {NoTask}
    BY <2>1, SpeaksType
  <2>3. [task[t] EXCEPT !.step = "hydrate"] \in Task
    BY <2>1 DEF Task
  <2>4. task' \in [Tasks -> Task \cup {NoTask}]
    BY <1>7, <2>2, <2>3, GotoType DEF TestPartner
  <2>5. QED
    BY <1>7, <2>4 DEF TestPartner, STypeOK, Registered
<1>8. QED
  BY <1>1, <1>2, <1>3, <1>4, <1>5, <1>6, <1>7 DEF TaskStep

LEMMA NextTypes == STypeOK /\ [Next]_vars => STypeOK'
<1> SUFFICES ASSUME STypeOK, [Next]_vars PROVE STypeOK'
  OBVIOUS
<1>1. CASE UNCHANGED vars
  BY <1>1 DEF vars, STypeOK, Registered
<1>2. CASE Next
  BY <1>2, ConnStepTypes, MessageStepTypes, TaskStepTypes DEF Next
<1>3. QED
  BY <1>1, <1>2

\* Every reachable state is well typed.
THEOREM STypeCorrect == Spec => []STypeOK
  BY InitTypes, NextTypes, PTL DEF Spec

(***************************************************************************)
(* Who is in a room is bound to it                                         *)
(***************************************************************************)

\* What makes MembersAreBound inductive: whoever is leaving the session is in no room but the
\* one it will leave, and a host's message about another friend does not get past the check.
Sits(c) ==
    /\ \A u \in Users : c \in rooms[u] =>
          \/ conn[c] = "purging"
          \/ /\ Registered(c) /\ client[c].partner_room = u
             /\ Unscreened(c, u) \/ Allowed(client[c])
             /\ ~Deserting(c, u)
    /\ Registered(c) /\ client[c].is_host /\ Handling(c, "write")
       => client[c].sesh_friend_id \in {NoFriend, handler[c].friend}

\* A client has no room but its partner's.
PInv ==
    \A c \in Clients : Registered(c) =>
        client[c].partner_room \in {Nobody, client[c].partner_id}

MInv == PInv /\ \A c \in Clients \ crossed : Sits(c)

LEMMA InitMembers == Init => MInv
  BY DEF Init, MInv, PInv, Sits, Registered

LEMMA SitsStill ==
    ASSUME NEW c, Sits(c), client'[c] = client[c], handler'[c] = handler[c],
           conn'[c] = conn[c], \A u \in Users : c \in rooms'[u] => c \in rooms[u]
    PROVE  Sits(c)'
  BY DEF Sits, Registered, Unscreened, Deserting, GoingDark, Handling

\* A step of the handler that leaves the client bound to what it is bound to, and puts it
\* into no room.
LEMMA SitsOn ==
    ASSUME NEW c, Sits(c), conn'[c] = conn[c],
           \A u \in Users : c \in rooms'[u] => c \in rooms[u],
           Registered(c) => Registered(c)' /\ client'[c].partner_room = client[c].partner_room,
           \A u \in Users :
              /\ c \in rooms'[u] /\ Registered(c) /\ client[c].partner_room = u
              /\ Unscreened(c, u) \/ Allowed(client[c])
              /\ ~Deserting(c, u)
              => (Unscreened(c, u) \/ Allowed(client[c]))' /\ ~Deserting(c, u)',
           ~Handling(c, "write")'
    PROVE  Sits(c)'
  BY DEF Sits

LEMMA NextRooms == STypeOK /\ PInv /\ [Next]_vars => PInv'
<1> SUFFICES ASSUME STypeOK, PInv, [Next]_vars, NEW d \in Clients, Registered(d)'
             PROVE  client'[d].partner_room \in {Nobody, client'[d].partner_id}
  BY DEF PInv
<1>1. CASE client'[d] = client[d]
  BY <1>1 DEF PInv, Registered
<1>2. ASSUME NEW c \in Clients, Connect(c), client' # client
      PROVE  client'[d].partner_room \in {Nobody, client'[d].partner_id}
  BY <1>2 DEF Connect, STypeOK, PInv, Registered, NewClient
<1>3. ASSUME NEW c \in Clients, Remove(c)
      PROVE  client'[d].partner_room \in {Nobody, client'[d].partner_id}
  BY <1>3 DEF Remove, STypeOK, PInv, Registered
<1>4. ASSUME NEW c \in Clients, WriteFriend(c) \/ WriteScreen(c) \/ Clear(c)
      PROVE  client'[d].partner_room \in {Nobody, client'[d].partner_id}
  <2>1. Registered(c) => client[c] \in Client
    BY ClientKinds
  <2>2. CASE WriteFriend(c)
    BY <2>1, <2>2 DEF WriteFriend, STypeOK, PInv, Registered, Client
  <2>3. CASE WriteScreen(c)
    BY <2>1, <2>3 DEF WriteScreen, STypeOK, PInv, Registered, Client
  <2>4. CASE Clear(c)
    BY <2>1, <2>4 DEF Clear, STypeOK, PInv, Registered, Client
  <2>5. QED
    BY <1>4, <2>2, <2>3, <2>4
<1>5. ASSUME NEW t \in Tasks, Apply(t)
      PROVE  client'[d].partner_room \in {Nobody, client'[d].partner_id}
  <2>1. PICK c \in Clients, k \in Client :
          client' = [client EXCEPT ![c] = k] /\ k.partner_room = k.partner_id
    BY <1>5, ApplyFacts
  <2>2. QED
    BY <2>1 DEF STypeOK, PInv, Registered
<1>6. CASE UNCHANGED vars
  BY <1>1, <1>6 DEF vars
<1>7. CASE Next
  <2>1. ASSUME NEW c \in Clients, ConnStep(c) PROVE client' = client \/ Connect(c) \/ Remove(c)
    BY <2>1 DEF ConnStep, Hangup, Purge
  <2>2. ASSUME NEW c \in Clients, MessageStep(c)
        PROVE  client' = client \/ WriteFriend(c) \/ WriteScreen(c) \/ Clear(c)
    BY <2>2 DEF MessageStep, SetFriend, SetGuestOnScreen, Look, Leave, UnseePartner, Darken,
                LeaveRoom, Check, Bind, JoinLiveSesh, RequestPeerPresence, Answer
  <2>3. ASSUME NEW t \in Tasks, TaskStep(t) PROVE client' = client \/ Apply(t)
    BY <2>3 DEF TaskStep, TestPartner, NoHydrate, HydrateChecks, HydrateJoins, Speak, Tell
  <2>4. QED
    BY <1>1, <1>2, <1>3, <1>4, <1>5, <1>7, <2>1, <2>2, <2>3 DEF Next
<1>8. QED
  BY <1>6, <1>7

LEMMA ConnStepMembers ==
    ASSUME STypeOK, MInv, NEW c \in Clients, ConnStep(c), NEW d \in Clients \ crossed'
    PROVE  Sits(d)'
<1>1. Sits(d)
  <2>1. crossed' = crossed
    BY DEF ConnStep, Connect, Hangup, Remove, Purge
  <2>2. QED
    BY <2>1 DEF MInv
<1>2. /\ handler' = handler
      /\ \A u \in Users : d \in rooms'[u] => d \in rooms[u]
  BY DEF ConnStep, Connect, Hangup, Remove, Purge, STypeOK
<1>3. CASE d # c
  <2>1. client'[d] = client[d] /\ conn'[d] = conn[d]
    BY <1>3 DEF ConnStep, Connect, Hangup, Remove, Purge, STypeOK
  <2>2. QED
    BY <1>1, <1>2, <2>1, SitsStill
<1>4. CASE d = c
  <2>1. CASE Connect(c)
    <3>1. ~Registered(c)
      BY <2>1 DEF Connect, STypeOK
    <3>2. \A u \in Users : c \notin rooms[u]
      BY <1>1, <1>4, <2>1, <3>1 DEF Sits, Connect
    <3>3. client'[c] = NewClient
      BY <2>1 DEF Connect, STypeOK
    <3>4. ~client'[c].is_host
      BY <3>3 DEF NewClient
    <3>5. QED
      BY <1>2, <1>4, <3>2, <3>4 DEF Sits
  <2>2. CASE Hangup(c)
    <3>1. client' = client /\ conn[c] # "purging"
      BY <2>2 DEF Hangup
    <3>2. QED
      BY <1>1, <1>2, <1>4, <3>1 DEF Sits, Registered, Unscreened, Deserting, GoingDark, Handling
  <2>3. CASE Remove(c)
    <3>1. conn'[c] = "purging" /\ client'[c] = Gone
      BY <2>3 DEF Remove, STypeOK
    <3>2. QED
      BY <1>4, <3>1 DEF Sits, Registered
  <2>4. CASE Purge(c)
    <3>1. client' = client /\ \A u \in Users : c \notin rooms'[u]
      BY <2>4 DEF Purge, STypeOK
    <3>2. QED
      BY <1>1, <1>2, <1>4, <3>1 DEF Sits, Registered, Handling
  <2>5. QED
    BY <2>1, <2>2, <2>3, <2>4 DEF ConnStep
<1>5. QED
  BY <1>3, <1>4

\* A message changes nothing of the clients it is not from.
LEMMA MessageOfOne ==
    ASSUME STypeOK, NEW c \in Clients, MessageStep(c), NEW d \in Clients, d # c
    PROVE  /\ client'[d] = client[d] /\ handler'[d] = handler[d] /\ conn'[d] = conn[d]
           /\ \A u \in Users : d \in rooms'[u] <=> d \in rooms[u]
<1>1. conn' = conn
  BY DEF MessageStep, SetFriend, WriteFriend, SetGuestOnScreen, WriteScreen, Look, Leave,
         UnseePartner, Darken, LeaveRoom, Check, Bind, Clear, JoinLiveSesh, RequestPeerPresence,
         Answer
<1>2. handler'[d] = handler[d]
  BY DEF MessageStep, SetFriend, WriteFriend, SetGuestOnScreen, WriteScreen, Look, Leave,
         UnseePartner, Darken, LeaveRoom, Check, Bind, Clear, JoinLiveSesh, RequestPeerPresence,
         Answer, GoDark, Proceed, STypeOK
<1>3. client'[d] = client[d]
  BY DEF MessageStep, SetFriend, WriteFriend, SetGuestOnScreen, WriteScreen, Look, Leave,
         UnseePartner, Darken, LeaveRoom, Check, Bind, Clear, JoinLiveSesh, RequestPeerPresence,
         Answer, STypeOK
<1>4. \A u \in Users : d \in rooms'[u] <=> d \in rooms[u]
  <2>1. CASE Bind(c)
    BY <2>1 DEF Bind, JoinRoom, STypeOK
  <2>2. CASE LeaveRoom(c)
    BY <2>2 DEF LeaveRoom, Left, STypeOK
  <2>3. CASE rooms' = rooms
    BY <2>3
  <2>4. QED
    BY <2>1, <2>2, <2>3 DEF MessageStep, SetFriend, WriteFriend, SetGuestOnScreen, WriteScreen,
       Look, Leave, UnseePartner, Darken, Check, Clear, JoinLiveSesh, RequestPeerPresence, Answer
<1>5. QED
  BY <1>1, <1>2, <1>3, <1>4

LEMMA MessageKeeps ==
    ASSUME NEW c \in Clients, MessageStep(c)
    PROVE  conn' = conn /\ crossed \subseteq crossed'
  BY DEF MessageStep, SetFriend, WriteFriend, SetGuestOnScreen, WriteScreen, Look, Leave,
         UnseePartner, Darken, LeaveRoom, Check, Bind, Clear, JoinLiveSesh, RequestPeerPresence,
         Answer

LEMMA MessageStepMembers ==
    ASSUME STypeOK, MInv, NEW c \in Clients, MessageStep(c), c \notin crossed'
    PROVE  Sits(c)'
<1>1. Sits(c) /\ (Registered(c) => client[c] \in Client)
  BY MessageKeeps, ClientKinds DEF MInv
<1>2. conn' = conn
  BY MessageKeeps
\* A step that only goes on, from an ordinary step to another one.
<1>3. ASSUME NEW h \in Handler \cup {Idle}, Proceed(c, h), client' = client, rooms' = rooms,
             ~Handling(c, "look"), ~GoingDark(c),
             h # Idle => /\ h.step \notin {"write", "clear"}
                         /\ h.step \in {"unseen", "darken", "leave"} =>
                               h.of # "sesh" \/ h.room = client[c].partner_room
      PROVE  Sits(c)'
  <2>1. handler'[c] = h
    BY <1>3, ProceedType
  <2>2. QED
    BY <1>1, <1>2, <1>3, <2>1, SitsOn DEF Unscreened, Deserting, GoingDark, Handling, Registered
\* A step that writes the client, from an ordinary step to a look.
<1>4. ASSUME rooms' = rooms, ~Handling(c, "look"), ~GoingDark(c),
             handler'[c] # Idle, handler'[c].step \in {"check", "look"},
             Registered(c) =>
                /\ Registered(c)' /\ client'[c].partner_room = client[c].partner_room
                /\ handler'[c].step = "check" /\ Allowed(client[c]) => Allowed(client'[c])
      PROVE  Sits(c)'
  BY <1>1, <1>2, <1>4, SitsOn DEF Unscreened, Deserting, GoingDark, Handling
<1>5. ASSUME Receive(c) PROVE Registered(c) /\ handler[c] = Idle
  BY <1>5 DEF Receive
<1>6. ASSUME NEW f \in FriendsOf[Owner[c]], SetFriend(c, f) PROVE Sits(c)'
  <2>1. Registered(c) /\ handler[c] = Idle /\ client' = client /\ rooms' = rooms
    BY <1>5, <1>6 DEF SetFriend
  <2>2. CASE Mismatch(c, f)
    <3> DEFINE h == [step |-> "unseen", of |-> "friend", partner |-> client[c].partner_id,
                     room |-> client[c].partner_room]
    <3>1. h \in Handler /\ h.step = "unseen" /\ h.of = "friend"
      BY <1>1, <2>1 DEF Handler, Client
    <3>2. Proceed(c, h)
      BY <1>6, <2>2 DEF SetFriend, GoDark
    <3> HIDE DEF h
    <3>3. QED
      BY <1>3, <2>1, <3>1, <3>2 DEF GoingDark, Handling
  <2>3. CASE ~Mismatch(c, f)
    <3>1. [step |-> "write", friend |-> f] \in Handler
      BY OwnerAssumption DEF Handler
    <3>2. handler'[c] = [step |-> "write", friend |-> f]
      BY <1>6, <2>3, <3>1, ProceedType DEF SetFriend
    <3>3. client[c].is_host => client[c].sesh_friend_id \in {NoFriend, f}
      BY <2>3 DEF Mismatch
    <3>4. QED
      BY <1>1, <1>2, <2>1, <3>2, <3>3
      DEF Sits, Registered, Unscreened, Deserting, GoingDark, Handling
  <2>4. QED
    BY <2>2, <2>3
<1>7. CASE WriteFriend(c)
  <2> DEFINE k == IF Registered(c) THEN [client[c] EXCEPT !.friend_id = handler[c].friend]
                                   ELSE NewClient
  <2>1. k \in Client /\ k # Gone
    BY <1>1, <1>7, HandlerKinds, NewClientType, NullsAssumption DEF WriteFriend, Handling, Client
  <2>2. Registered(c) /\ Allowed(client[c]) => Allowed(k)
    <3> SUFFICES ASSUME Registered(c), Allowed(client[c]) PROVE Allowed(k)
      OBVIOUS
    <3>1. /\ k.is_host = client[c].is_host /\ k.guest_on_screen = client[c].guest_on_screen
          /\ k.sesh_friend_id = client[c].sesh_friend_id /\ k.friend_id = handler[c].friend
      BY <1>1 DEF Client
    <3>2. client[c].is_host => client[c].sesh_friend_id \in {NoFriend, handler[c].friend}
      BY <1>1, <1>7 DEF Sits, WriteFriend
    <3>3. handler[c].friend # NoFriend
      BY <1>7, HandlerKinds, NullsAssumption DEF WriteFriend, Handling
    <3>4. QED
      BY <3>1, <3>2, <3>3 DEF Allowed
  <2>3. Registered(c) => k.partner_room = client[c].partner_room
    BY <1>1 DEF Client
  <2>4. /\ client' = [client EXCEPT ![c] = IF Registered(c) THEN k ELSE Gone] /\ rooms' = rooms
        /\ Proceed(c, [step |-> "check"]) /\ handler[c].step = "write"
    BY <1>7 DEF WriteFriend, Handling
  <2>5. [step |-> "check"] \in Handler
    BY DEF Handler
  <2> HIDE DEF k
  <2>6. handler'[c] = [step |-> "check"] /\ handler'[c] # Idle
    BY <2>4, <2>5, ProceedType
  <2>7. Registered(c) => Registered(c)' /\ client'[c] = k
    BY <2>1, <2>4 DEF STypeOK, Registered
  <2>8. QED
    BY <1>4, <2>2, <2>3, <2>4, <2>6, <2>7 DEF GoingDark, Handling
<1>8. ASSUME NEW on \in BOOLEAN, SetGuestOnScreen(c, on) PROVE Sits(c)'
  <2>1. [step |-> "screen", on |-> on] \in Handler
    BY DEF Handler
  <2>2. Registered(c) /\ handler[c] = Idle
    BY <1>5, <1>8 DEF SetGuestOnScreen
  <2>3. QED
    BY <1>3, <1>8, <2>1, <2>2 DEF SetGuestOnScreen, GoingDark, Handling
<1>9. CASE WriteScreen(c)
  <2> DEFINE k == IF Registered(c) THEN [client[c] EXCEPT !.guest_on_screen = handler[c].on]
                                   ELSE NewClient
             h == [step |-> IF handler[c].on THEN "check" ELSE "look"]
  <2>1. k \in Client /\ k # Gone
    BY <1>1, <1>9, HandlerKinds, NewClientType, NullsAssumption DEF WriteScreen, Handling, Client
  <2>2. Registered(c) => /\ k.partner_room = client[c].partner_room
                         /\ k.is_host = client[c].is_host /\ k.guest_on_screen = handler[c].on
                         /\ k.sesh_friend_id = client[c].sesh_friend_id
                         /\ k.friend_id = client[c].friend_id
    BY <1>1 DEF Client
  <2>3. /\ client' = [client EXCEPT ![c] = IF Registered(c) THEN k ELSE Gone] /\ rooms' = rooms
        /\ Proceed(c, h) /\ handler[c].step = "screen"
    BY <1>9 DEF WriteScreen, Handling
  <2>4. h \in Handler /\ h.step \in {"check", "look"} /\ (h.step = "check" => handler[c].on)
    BY DEF Handler
  <2>5. h.step = "check" => (Registered(c) /\ Allowed(client[c]) => Allowed(k))
    BY <2>2, <2>4 DEF Allowed
  <2> HIDE DEF k, h
  <2>6. handler'[c] = h /\ handler'[c] # Idle
    BY <2>3, <2>4, ProceedType
  <2>7. Registered(c) => Registered(c)' /\ client'[c] = k
    BY <2>1, <2>3 DEF STypeOK, Registered
  <2>8. QED
    BY <1>4, <2>2, <2>3, <2>4, <2>5, <2>6, <2>7 DEF GoingDark, Handling
<1>10. CASE Look(c)
  <2>1. CASE Registered(c)
    <3> DEFINE h == [step |-> "unseen", of |-> "screen", partner |-> client[c].partner_id,
                     room |-> client[c].partner_room]
    <3>1. /\ h \in Handler /\ h.step = "unseen" /\ h.of = "screen"
          /\ h.room = client[c].partner_room
      BY <1>1, <2>1 DEF Handler, Client
    <3>2. Proceed(c, h) /\ client' = client /\ rooms' = rooms
      BY <1>10, <2>1 DEF Look, GoDark
    <3> HIDE DEF h
    <3>3. handler'[c] = h /\ h # Idle
      BY <3>1, <3>2, ProceedType, NullsAssumption
    <3>4. QED
      BY <1>1, <1>2, <3>1, <3>2, <3>3, SitsOn
      DEF Registered, Unscreened, Deserting, GoingDark, Handling
  <2>2. CASE ~Registered(c)
    <3>1. handler'[c] = Idle /\ client' = client /\ rooms' = rooms
      BY <1>10, <2>2, ProceedType DEF Look
    <3>2. QED
      BY <1>1, <1>2, <2>2, <3>1 DEF Sits, Registered, Handling
  <2>3. QED
    BY <2>1, <2>2
<1>11. CASE Leave(c)
  <2> DEFINE h == [step |-> "darken", of |-> "sesh", room |-> client[c].partner_room]
  <2>1. Registered(c) /\ handler[c] = Idle /\ client' = client /\ rooms' = rooms /\ Proceed(c, h)
    BY <1>5, <1>11 DEF Leave
  <2>2. h \in Handler /\ h.step = "darken" /\ h.room = client[c].partner_room
    BY <1>1, <2>1 DEF Handler, Client
  <2> HIDE DEF h
  <2>3. QED
    BY <1>3, <2>1, <2>2 DEF GoingDark, Handling
<1>12. CASE UnseePartner(c)
  <2> DEFINE h == [step |-> "darken", of |-> handler[c].of, room |-> handler[c].room]
  <2>1. /\ client' = client /\ rooms' = rooms /\ Proceed(c, h)
        /\ handler[c] # Idle /\ handler[c].step = "unseen" /\ handler[c].of # "sesh"
    BY <1>12, HandlerKinds DEF UnseePartner, Handling
  <2>2. /\ h \in Handler /\ h.step = "darken"
        /\ h.room = handler[c].room /\ h.of = handler[c].of
    BY <2>1, HandlerKinds, HandlerRecords
  <2> HIDE DEF h
  <2>3. handler'[c] = h /\ h # Idle
    BY <2>1, <2>2, ProceedType, NullsAssumption
  <2>4. QED
    BY <1>1, <1>2, <2>1, <2>2, <2>3, SitsOn
    DEF Registered, Unscreened, Deserting, GoingDark, Handling
<1>13. CASE Darken(c)
  <2> DEFINE h == [step |-> "leave", of |-> handler[c].of, room |-> handler[c].room]
  <2>1. /\ client' = client /\ rooms' = rooms /\ Proceed(c, h)
        /\ handler[c] # Idle /\ handler[c].step = "darken"
    BY <1>13, LeaveRecord DEF Darken, Handling
  <2>2. /\ h \in Handler /\ h.step = "leave"
        /\ h.room = handler[c].room /\ h.of = handler[c].of
    BY <2>1, HandlerKinds, HandlerRecords
  <2> HIDE DEF h
  <2>3. handler'[c] = h /\ h # Idle
    BY <2>1, <2>2, ProceedType, NullsAssumption
  <2>4. QED
    BY <1>1, <1>2, <2>1, <2>2, <2>3, SitsOn
    DEF Registered, Unscreened, Deserting, GoingDark, Handling
<1>14. CASE LeaveRoom(c)
  <2> DEFINE h == IF handler[c].of = "sesh" THEN [step |-> "clear"] ELSE Idle
  <2>1. /\ client' = client /\ rooms' = Left(handler[c].room, c) /\ Proceed(c, h)
        /\ handler[c] # Idle /\ handler[c].step = "leave"
    BY <1>14 DEF LeaveRoom, Handling
  <2>2. [step |-> "clear"] \in Handler
    BY DEF Handler
  <2>3. /\ handler'[c] = h
        /\ h # Idle => handler[c].of = "sesh" /\ h.step = "clear"
        /\ h = Idle => handler[c].of # "sesh"
    BY <2>1, <2>2, ProceedType, NullsAssumption
  <2> HIDE DEF h
  <2>4. \A u \in Users : c \in rooms'[u] => c \in rooms[u] /\ u # handler[c].room
    BY <2>1 DEF Left, STypeOK
  <2>5. QED
    BY <1>1, <1>2, <2>1, <2>3, <2>4, SitsOn
    DEF Registered, Unscreened, Deserting, GoingDark, Handling
<1>15. CASE Check(c)
  <2> DEFINE h == IF Registered(c) THEN NextOf(client[c]) ELSE Idle
  <2>1. /\ client' = client /\ rooms' = rooms /\ Proceed(c, h) /\ handler[c].step = "check"
    BY <1>15 DEF Check, Handling
  <2>2. h \in Handler \cup {Idle} /\ (h # Idle => h.step = "join")
    BY <1>1, NextOfType DEF NextOf
  <2> HIDE DEF h
  <2>3. QED
    BY <1>3, <2>1, <2>2 DEF GoingDark, Handling
<1>16. CASE Bind(c)
  <2>1. /\ client' = client /\ handler'[c] = Idle /\ handler[c].step = "join"
        /\ \A u \in Users : c \in rooms'[u] => c \in rooms[u] \/ u = handler[c].room
    BY <1>16, ProceedType DEF Bind, JoinRoom, Handling, STypeOK
  <2>2. /\ Registered(c) /\ client[c].partner_room = handler[c].room /\ Allowed(client[c])
    BY <1>16, <2>1 DEF Bind, Late, Unscreened, GoingDark, Handling
  <2>3. \A u \in Users : c \in rooms[u] /\ conn[c] # "purging" =>
          client[c].partner_room = u
    BY <1>1 DEF Sits
  <2>4. QED
    BY <1>2, <2>1, <2>2, <2>3 DEF Sits, Registered, Unscreened, Deserting, GoingDark, Handling
<1>17. CASE Clear(c)
  <2>1. rooms' = rooms /\ handler'[c] = Idle /\ \A u \in Users : Deserting(c, u)
    BY <1>17, ProceedType DEF Clear, Deserting
  <2>2. \A u \in Users : c \in rooms'[u] => conn'[c] = "purging"
    BY <1>1, <1>2, <2>1 DEF Sits
  <2>3. QED
    BY <2>1, <2>2 DEF Sits, Handling
<1>18. CASE JoinLiveSesh(c)
  BY <1>1, <1>2, <1>18, SitsStill DEF JoinLiveSesh
<1>19. CASE RequestPeerPresence(c)
  <2>1. PICK h : /\ \E online \in SUBSET Users :
                       h = [step |-> "answer", partner |-> client[c].partner_id,
                            online |-> online]
                 /\ Proceed(c, h)
    BY <1>19, AnswersUsers DEF RequestPeerPresence
  <2>2. Registered(c) /\ handler[c] = Idle /\ client' = client /\ rooms' = rooms
    BY <1>5, <1>19 DEF RequestPeerPresence
  <2>3. h \in Handler /\ h.step = "answer"
    BY <1>1, <2>1, <2>2 DEF Handler, Client
  <2>4. QED
    BY <1>3, <2>1, <2>2, <2>3 DEF GoingDark, Handling
<1>20. CASE Answer(c)
  <2>1. client' = client /\ rooms' = rooms /\ Proceed(c, Idle) /\ handler[c].step = "answer"
    BY <1>20 DEF Answer, Handling
  <2>2. QED
    BY <1>3, <2>1 DEF GoingDark, Handling
<1>21. QED
  BY <1>6, <1>7, <1>8, <1>9, <1>10, <1>11, <1>12, <1>13, <1>14, <1>15, <1>16, <1>17, <1>18,
     <1>19, <1>20 DEF MessageStep

LEMMA TaskStepMembers ==
    ASSUME STypeOK, MInv, NEW t \in Tasks, TaskStep(t), NEW d \in Clients \ crossed'
    PROVE  Sits(d)'
<1>1. Sits(d)
  BY TaskKeeps DEF MInv
<1>2. handler' = handler /\ conn' = conn
  BY TaskKeeps
<1>3. CASE TestPartner(t) \/ NoHydrate(t) \/ HydrateChecks(t) \/ Speak(t) \/ Tell(t)
  <2>1. client' = client /\ rooms' = rooms
    BY <1>3 DEF TestPartner, NoHydrate, HydrateChecks, Speak, Tell
  <2>2. QED
    BY <1>1, <1>2, <2>1, SitsStill
<1>4. CASE HydrateJoins(t)
  <2> DEFINE c == task[t].client
  <2>1. c \in Clients /\ task[t].room \in Users /\ client' = client
    BY <1>4, TaskKinds DEF HydrateJoins, At
  <2>2. CASE d # c
    BY <1>1, <1>2, <1>4, <2>1, <2>2, SitsStill DEF HydrateJoins, JoinRoom, STypeOK
  <2>3. CASE d = c
    <3>1. /\ Registered(d) /\ client[d].partner_room = task[t].room
          /\ Unscreened(d, task[t].room) \/ (Allowed(client[d]) /\ ~Deserting(d, task[t].room))
      BY <1>4, <2>3 DEF HydrateJoins, Late
    <3>2. Unscreened(d, task[t].room) => ~Deserting(d, task[t].room)
      BY DEF Unscreened, Deserting, GoingDark, Handling
    <3>3. \A u \in Users : d \in rooms'[u] => d \in rooms[u] \/ u = task[t].room
      BY <1>4 DEF HydrateJoins, JoinRoom, STypeOK
    <3>4. QED
      BY <1>1, <1>2, <2>1, <3>1, <3>2, <3>3
      DEF Sits, Registered, Unscreened, Deserting, GoingDark, Handling
  <2>4. QED
    BY <2>2, <2>3
<1>5. CASE Apply(t)
  <2>1. PICK c \in Clients : \E x \in Contexts[Owner[c]], k \in Client :
          /\ Registered(c)
          /\ client' = [client EXCEPT ![c] = k]
          /\ k.partner_room = x.partner_id
          /\ k.is_host = x.is_host /\ k.sesh_friend_id = x.sesh_friend_id
          /\ k.guest_on_screen = client[c].guest_on_screen
          /\ k.is_host => k.friend_id = client[c].friend_id
          /\ crossed' = IF Crosses(c, x) THEN crossed \cup {c} ELSE crossed
    BY <1>5, ApplyFacts
  <2>2. rooms' = rooms
    BY <1>5 DEF Apply
  <2>3. CASE d # c
    <3>1. client'[d] = client[d]
      BY <2>1, <2>3 DEF STypeOK
    <3>2. QED
      BY <1>1, <1>2, <2>2, <3>1, SitsStill
  <2>4. CASE d = c
    <3>1. PICK x \in Contexts[Owner[c]], k \in Client :
          /\ client'[c] = k
          /\ k.partner_room = x.partner_id
          /\ k.is_host = x.is_host /\ k.sesh_friend_id = x.sesh_friend_id
          /\ k.guest_on_screen = client[c].guest_on_screen
          /\ k.is_host => k.friend_id = client[c].friend_id
          /\ ~Crosses(c, x)
      BY <2>1, <2>4 DEF STypeOK
    <3>2. k.is_host /\ Handling(c, "write") => k.sesh_friend_id \in {NoFriend, handler[c].friend}
      BY <3>1 DEF Crosses
    <3>3. k # Gone
      BY NullsAssumption
    <3>4. CASE client[c].partner_id = Nobody
      <4>1. client[c].partner_room = Nobody
        BY <2>1, <3>4 DEF MInv, PInv
      <4>2. \A u \in Users : c \in rooms[u] => conn[c] = "purging"
        BY <1>1, <2>4, <4>1, NullsAssumption DEF Sits
      <4>3. QED
        BY <1>2, <2>2, <2>4, <3>1, <3>2, <4>2 DEF Sits, Handling
    <3>5. CASE client[c].partner_id # Nobody
      <4>1. /\ client[c].partner_room = k.partner_room /\ client[c].is_host = k.is_host
            /\ client[c].sesh_friend_id = k.sesh_friend_id
        BY <3>1, <3>5 DEF Crosses
      <4>2. Allowed(client[c]) => Allowed(k)
        BY <3>1, <4>1 DEF Allowed
      <4>3. \A u \in Users : /\ Unscreened(c, u)' <=> Unscreened(c, u)
                             /\ Deserting(c, u)' <=> Deserting(c, u)
        BY <1>2 DEF Unscreened, Deserting, GoingDark, Handling
      <4>4. \A u \in Users : c \in rooms'[u] =>
               \/ conn'[c] = "purging"
               \/ /\ Registered(c)' /\ client'[c].partner_room = u
                  /\ Unscreened(c, u)' \/ Allowed(client'[c])
                  /\ ~Deserting(c, u)'
        BY <1>1, <1>2, <2>2, <2>4, <3>1, <3>3, <4>1, <4>2, <4>3 DEF Sits, Registered
      <4>5. QED
        BY <1>2, <2>4, <3>1, <3>2, <4>4 DEF Sits, Handling
    <3>6. QED
      BY <3>4, <3>5
  <2>5. QED
    BY <2>3, <2>4
<1>6. QED
  BY <1>3, <1>4, <1>5 DEF TaskStep

LEMMA NextMembers == STypeOK /\ MInv /\ [Next]_vars => MInv'
<1> SUFFICES ASSUME STypeOK, MInv, [Next]_vars PROVE MInv'
  OBVIOUS
<1>1. PInv'
  BY NextRooms DEF MInv
<1>2. ASSUME NEW d \in Clients \ crossed' PROVE Sits(d)'
  <2>1. CASE UNCHANGED vars
    BY <1>2, <2>1, SitsStill DEF vars, MInv
  <2>2. ASSUME NEW c \in Clients, ConnStep(c) PROVE Sits(d)'
    BY <1>2, <2>2, ConnStepMembers
  <2>3. ASSUME NEW c \in Clients, MessageStep(c) PROVE Sits(d)'
    <3>1. CASE d = c
      BY <1>2, <2>3, <3>1, MessageStepMembers
    <3>2. CASE d # c
      <4>1. Sits(d)
        BY <2>3, MessageKeeps DEF MInv
      <4>2. /\ client'[d] = client[d] /\ handler'[d] = handler[d] /\ conn'[d] = conn[d]
            /\ \A u \in Users : d \in rooms'[u] <=> d \in rooms[u]
        BY <2>3, <3>2, MessageOfOne
      <4>3. QED
        BY <4>1, <4>2, SitsStill
    <3>3. QED
      BY <3>1, <3>2
  <2>4. ASSUME NEW t \in Tasks, TaskStep(t) PROVE Sits(d)'
    BY <1>2, <2>4, TaskStepMembers
  <2>5. QED
    BY <2>1, <2>2, <2>3, <2>4 DEF Next
<1>3. QED
  BY <1>1, <1>2 DEF MInv

\* A member of a user's room is bound to it, or on its way out, whatever the interleaving of
\* messages, tasks and cleanups; but for the clients in crossed, which a context reached in
\* the middle of set_friend or from another session, or which a join of before reached late.
THEOREM MembersStayBound == Spec => []MembersAreBound
<1>1. Init => STypeOK /\ MInv
  BY InitTypes, InitMembers
<1>2. (STypeOK /\ MInv) /\ [Next]_vars => (STypeOK /\ MInv)'
  BY NextTypes, NextMembers
<1>3. STypeOK /\ MInv => MembersAreBound
  BY DEF MInv, Sits, MembersAreBound, STypeOK
<1>4. QED
  BY <1>1, <1>2, <1>3, PTL DEF Spec

(***************************************************************************)
(* Who is bound gets into the room                                         *)
(***************************************************************************)

Bound(c) ==
    /\ Registered(c)
    /\ client[c].partner_room # Nobody /\ Allowed(client[c])
    /\ c \notin ousted

\* Task t has read the context for c and has yet to join the room.
Enters(t, c) ==
    task[t] # NoTask /\ task[t].step \in {"check", "join"} /\ task[t].client = c

\* It is there, or a handler or a task has yet to do its part.
Joining(c) ==
    \/ c \in rooms[client[c].partner_room]
    \/ Handling(c, "check")
    \/ Handling(c, "join") /\ handler[c].room = client[c].partner_room
    \/ \E t \in Tasks : Enters(t, c) /\ task[t].room = client[c].partner_room

BInv == \A c \in Clients : Bound(c) => Joining(c)

LEMMA JoiningStill ==
    ASSUME STypeOK, NEW c \in Clients, Bound(c) => Joining(c),
           Bound(c)' => /\ Bound(c) /\ client'[c].partner_room = client[c].partner_room
                        /\ c \in rooms[client[c].partner_room]
                           => c \in rooms'[client[c].partner_room],
           Handling(c, "check") \/ Handling(c, "join") => handler'[c] = handler[c],
           \A t \in Tasks : Enters(t, c) => task'[t] = task[t] \/ c \in rooms'[task[t].room]
    PROVE  Bound(c)' => Joining(c)'
<1> SUFFICES ASSUME Bound(c)' PROVE Joining(c)'
  OBVIOUS
<1>1. Bound(c) /\ client'[c].partner_room = client[c].partner_room
  OBVIOUS
<1>2. Joining(c)
  BY <1>1
<1>3. CASE \E t \in Tasks : Enters(t, c) /\ task[t].room = client[c].partner_room
  <2> PICK t \in Tasks : Enters(t, c) /\ task[t].room = client[c].partner_room
    BY <1>3
  <2>1. CASE c \in rooms'[task[t].room]
    BY <1>1, <2>1 DEF Joining
  <2>2. CASE task'[t] = task[t]
    BY <1>1, <2>2 DEF Joining, Enters
  <2>3. QED
    BY <2>1, <2>2
<1>4. CASE c \in rooms[client[c].partner_room]
  BY <1>1, <1>4 DEF Joining
<1>5. CASE \/ Handling(c, "check")
           \/ Handling(c, "join") /\ handler[c].room = client[c].partner_room
  <2>1. handler'[c] = handler[c]
    BY <1>5
  <2>2. QED
    BY <1>1, <1>5, <2>1 DEF Joining, Handling
<1>6. QED
  BY <1>2, <1>3, <1>4, <1>5 DEF Joining

LEMMA BoundRoom ==
    ASSUME STypeOK, NEW c \in Clients, Bound(c) PROVE client[c].partner_room \in Users
<1>1. client[c] \in Client
  BY ClientKinds DEF Bound
<1>2. QED
  BY <1>1 DEF Bound, Client

LEMMA SpawnKeeps ==
    ASSUME STypeOK, NEW c, NEW kind, Spawn(kind, c)
    PROVE  \A t \in Tasks : task[t] # NoTask => task'[t] = task[t]
  BY DEF Spawn, STypeOK

LEMMA ConnStepJoining ==
    ASSUME STypeOK, BInv, NEW c \in Clients, ConnStep(c), NEW d \in Clients
    PROVE  Bound(d)' => Joining(d)'
<1>1. \A t \in Tasks : task[t] # NoTask => task'[t] = task[t]
  BY SpawnKeeps DEF ConnStep, Connect, Hangup, Remove, Purge
<1>2. handler' = handler
  BY DEF ConnStep, Connect, Hangup, Remove, Purge
<1>3. CASE d # c
  <2>1. /\ client'[d] = client[d]
        /\ d \in ousted => d \in ousted'
        /\ \A u \in Users : d \in rooms[u] => d \in rooms'[u]
    BY <1>3 DEF ConnStep, Connect, Hangup, Remove, Purge, STypeOK
  <2>2. Bound(d)' => Bound(d)
    BY <2>1 DEF Bound, Registered
  <2>3. QED
    BY <1>1, <1>2, <2>1, <2>2, BoundRoom, JoiningStill DEF BInv, Enters
<1>4. CASE d = c /\ Connect(c)
  <2>1. client'[c] = NewClient
    BY <1>4 DEF Connect, STypeOK
  <2>2. client'[c].partner_room = Nobody
    BY <2>1 DEF NewClient
  <2>3. QED
    BY <1>4, <2>2 DEF Bound
<1>5. CASE d = c /\ Hangup(c)
  <2>1. client' = client /\ ousted' = ousted /\ rooms' = rooms
    BY <1>5 DEF Hangup
  <2>2. Bound(d)' => Bound(d)
    BY <2>1 DEF Bound, Registered
  <2>3. QED
    BY <1>1, <1>2, <2>1, <2>2, JoiningStill DEF BInv, Enters
<1>6. CASE d = c /\ Remove(c)
  BY <1>6 DEF Remove, Bound, Registered, STypeOK
<1>7. CASE d = c /\ Purge(c)
  BY <1>7 DEF Purge, Bound, Registered, STypeOK
<1>8. QED
  BY <1>3, <1>4, <1>5, <1>6, <1>7 DEF ConnStep

LEMMA MessageStepJoining ==
    ASSUME STypeOK, BInv, NEW c \in Clients, MessageStep(c), NEW d \in Clients
    PROVE  Bound(d)' => Joining(d)'
<1>1. \A t \in Tasks : task[t] # NoTask => task'[t] = task[t]
  BY SpawnKeeps DEF MessageStep, SetFriend, WriteFriend, SetGuestOnScreen, WriteScreen, Look,
     Leave, UnseePartner, Darken, LeaveRoom, Check, Bind, Clear, JoinLiveSesh,
     RequestPeerPresence, Answer
<1>2. CASE d # c
  <2>1. d \in ousted => d \in ousted'
    BY <1>2 DEF MessageStep, SetFriend, WriteFriend, SetGuestOnScreen, WriteScreen, Look,
       Leave, UnseePartner, Darken, LeaveRoom, Check, Bind, Clear, JoinLiveSesh,
       RequestPeerPresence, Answer
  <2>2. /\ client'[d] = client[d] /\ handler'[d] = handler[d]
        /\ \A u \in Users : d \in rooms'[u] <=> d \in rooms[u]
    BY <1>2, MessageOfOne
  <2>3. Bound(d)' => Bound(d)
    BY <2>1, <2>2 DEF Bound, Registered
  <2>4. QED
    BY <1>1, <2>2, <2>3, BoundRoom, JoiningStill DEF BInv, Enters
<1>3. CASE d = c
  <2> SUFFICES Bound(c)' => Joining(c)'
    BY <1>3
  <2>1. Registered(c) => client[c] \in Client
    BY ClientKinds
  \* A step that changes neither what the client is bound to nor where it is.
  <2>2. ASSUME client' = client, rooms' = rooms, ousted' = ousted,
               ~Handling(c, "check"), ~Handling(c, "join")
        PROVE  Bound(c)' => Joining(c)'
    <3>1. Bound(c)' => Bound(c)
      BY <2>2 DEF Bound, Registered
    <3>2. QED
      BY <1>1, <2>2, <3>1, JoiningStill DEF BInv, Enters
  <2>3. ASSUME Receive(c) PROVE ~Handling(c, "check") /\ ~Handling(c, "join")
    BY <2>3 DEF Receive, Handling
  <2>4. ASSUME NEW f \in FriendsOf[Owner[c]], SetFriend(c, f) PROVE Bound(c)' => Joining(c)'
    BY <2>2, <2>3, <2>4 DEF SetFriend
  <2>5. ASSUME NEW on \in BOOLEAN, SetGuestOnScreen(c, on) PROVE Bound(c)' => Joining(c)'
    BY <2>2, <2>3, <2>5 DEF SetGuestOnScreen
  <2>6. CASE Leave(c) \/ JoinLiveSesh(c) \/ RequestPeerPresence(c)
    BY <2>2, <2>3, <2>6 DEF Leave, JoinLiveSesh, RequestPeerPresence
  <2>7. CASE Look(c) \/ UnseePartner(c) \/ Darken(c) \/ Answer(c)
    BY <2>2, <2>7 DEF Look, UnseePartner, Darken, Answer, Handling
  <2>8. ASSUME Proceed(c, [step |-> "check"]) PROVE Joining(c)'
    <3>1. [step |-> "check"] \in Handler /\ [step |-> "check"].step = "check"
      BY DEF Handler
    <3>2. handler'[c] # Idle /\ handler'[c].step = "check"
      BY <2>8, <3>1, ProceedType
    <3>3. QED
      BY <3>2 DEF Joining, Handling
  <2>9. CASE WriteFriend(c)
    BY <2>8, <2>9 DEF WriteFriend
  <2>10. CASE WriteScreen(c)
    <3>1. CASE handler[c].on
      BY <2>8, <2>10, <3>1 DEF WriteScreen
    <3>2. CASE ~handler[c].on
      <4>1. rooms' = rooms /\ ousted' = ousted /\ ~Handling(c, "check") /\ ~Handling(c, "join")
        BY <2>10, <3>2 DEF WriteScreen, Handling
      <4>2. handler[c].on = FALSE
        BY <2>10, <3>2, HandlerKinds DEF WriteScreen, Handling
      <4>3. Registered(c)' => /\ Registered(c)
                              /\ client'[c] = [client[c] EXCEPT !.guest_on_screen = FALSE]
        BY <2>10, <4>2 DEF WriteScreen, Registered, STypeOK
      <4>4. Registered(c)' => /\ Registered(c)
                              /\ client'[c].partner_room = client[c].partner_room
                              /\ Allowed(client'[c]) => Allowed(client[c])
        BY <2>1, <4>3 DEF Allowed, Client
      <4>5. Bound(c)' => Bound(c) /\ client'[c].partner_room = client[c].partner_room
        BY <4>1, <4>4 DEF Bound
      <4>6. QED
        BY <1>1, <4>1, <4>5, JoiningStill DEF BInv, Enters
    <3>3. QED
      BY <3>1, <3>2
  <2>11. CASE LeaveRoom(c)
    <3> SUFFICES ASSUME Bound(c)' PROVE Joining(c)'
      OBVIOUS
    <3>1. client' = client /\ ~Handling(c, "check") /\ ~Handling(c, "join")
      BY <2>11 DEF LeaveRoom, Handling
    <3>2. c \notin ousted
      BY <2>11 DEF LeaveRoom, Bound
    <3>3. Bound(c)
      BY <3>1, <3>2 DEF Bound, Registered
    <3>4. client[c].partner_room \in Users
      BY <3>3, BoundRoom
    <3>5. client[c].partner_room # handler[c].room \/ c \notin rooms[client[c].partner_room]
      <4>1. SUFFICES ASSUME client[c].partner_room = handler[c].room,
                            c \in rooms[client[c].partner_room]
                     PROVE  c \in ousted'
        BY DEF Bound
      <4>2. QED
        BY <2>11, <3>3, <3>4, <4>1 DEF LeaveRoom, Bound
    <3>6. c \in rooms[client[c].partner_room] => c \in rooms'[client[c].partner_room]
      BY <2>11, <3>4, <3>5 DEF LeaveRoom, Left
    <3>7. QED
      BY <1>1, <3>1, <3>3, <3>6, JoiningStill DEF BInv, Enters
  <2>12. CASE Bind(c)
    <3> SUFFICES ASSUME Bound(c)' PROVE Joining(c)'
      OBVIOUS
    <3>1. /\ client' = client /\ ousted' = ousted /\ task' = task
          /\ \A u \in Users : c \in rooms'[u] <=> c \in rooms[u] \/ u = handler[c].room
          /\ ~Handling(c, "check")
      BY <2>12 DEF Bind, JoinRoom, Handling, STypeOK
    <3>2. Bound(c)
      BY <3>1 DEF Bound, Registered
    <3>3. Joining(c) /\ client[c].partner_room \in Users
      BY <3>2, BoundRoom DEF BInv
    <3>4. CASE c \in rooms'[client[c].partner_room]
      BY <3>1, <3>4 DEF Joining
    <3>5. CASE \E t \in Tasks : Enters(t, c) /\ task[t].room = client[c].partner_room
      BY <3>1, <3>5 DEF Joining, Enters
    <3>6. QED
      BY <3>1, <3>3, <3>4, <3>5 DEF Joining
  <2>13. CASE Clear(c)
    <3>1. Registered(c) => client'[c].partner_room = Nobody
      BY <2>1, <2>13 DEF Clear, STypeOK, Client
    <3>2. ~Registered(c) => ~Registered(c)'
      BY <2>13 DEF Clear, STypeOK, Registered
    <3>3. QED
      BY <3>1, <3>2 DEF Bound
  <2>14. CASE Check(c)
    <3> SUFFICES ASSUME Bound(c)' PROVE Joining(c)'
      OBVIOUS
    <3>1. client' = client /\ ousted' = ousted
      BY <2>14 DEF Check
    <3>2. Registered(c) /\ client[c] \in Client /\ client[c].partner_room # Nobody
          /\ Allowed(client[c])
      BY <2>1, <3>1 DEF Bound, Registered
    <3>3. [step |-> "join", room |-> client[c].partner_room] \in Handler
      BY <3>2 DEF Handler, Client
    <3>4. Proceed(c, [step |-> "join", room |-> client[c].partner_room])
      BY <2>14, <3>2 DEF Check, NextOf
    <3>5. /\ handler'[c] # Idle /\ handler'[c].step = "join"
          /\ handler'[c].room = client'[c].partner_room
      BY <3>1, <3>3, <3>4, ProceedType
    <3>6. QED
      BY <3>5 DEF Joining, Handling
  <2>15. QED
    BY <2>4, <2>5, <2>6, <2>7, <2>9, <2>10, <2>11, <2>12, <2>13, <2>14 DEF MessageStep
<1>4. QED
  BY <1>2, <1>3

LEMMA TaskStepJoining ==
    ASSUME STypeOK, BInv, NEW t \in Tasks, TaskStep(t), NEW d \in Clients
    PROVE  Bound(d)' => Joining(d)'
<1>1. handler' = handler /\ ousted' = ousted
  BY TaskKeeps
<1>2. \A r \in Tasks \ {t} : task'[r] = task[r]
  <2>1. CASE Apply(t)
    <3>1. PICK v : task' = [task EXCEPT ![t] = v]
      BY <2>1, ApplyFacts
    <3>2. QED
      BY <3>1 DEF STypeOK
  <2>2. CASE \/ TestPartner(t) \/ NoHydrate(t) \/ HydrateChecks(t) \/ HydrateJoins(t)
             \/ Speak(t) \/ Tell(t)
    BY <2>2 DEF TestPartner, NoHydrate, HydrateChecks, HydrateJoins, Speak, Tell, Done, Goto, STypeOK
  <2>3. QED
    BY <2>1, <2>2 DEF TaskStep
<1>3. CASE TestPartner(t) \/ NoHydrate(t) \/ Speak(t) \/ Tell(t)
  <2>1. client' = client /\ rooms' = rooms /\ ~Enters(t, d)
    BY <1>3 DEF TestPartner, NoHydrate, Speak, Tell, At, Enters
  <2>2. Bound(d)' => Bound(d)
    BY <1>1, <2>1 DEF Bound, Registered
  <2>3. QED
    BY <1>1, <1>2, <2>1, <2>2, JoiningStill DEF BInv
<1>4. CASE HydrateJoins(t)
  <2>1. client' = client /\ rooms' = [rooms EXCEPT ![task[t].room] = @ \cup {task[t].client}]
    BY <1>4 DEF HydrateJoins, JoinRoom
  <2>2. task[t].room \in Users
    BY <1>4, TaskKinds DEF HydrateJoins, At
  <2>3. /\ \A u \in Users : d \in rooms[u] => d \in rooms'[u]
        /\ task[t].client = d => d \in rooms'[task[t].room]
    BY <2>1, <2>2 DEF STypeOK
  <2>4. Bound(d)' => Bound(d)
    BY <1>1, <2>1 DEF Bound, Registered
  <2>5. QED
    BY <1>1, <1>2, <2>1, <2>3, <2>4, BoundRoom, JoiningStill DEF BInv, Enters
<1>5. CASE HydrateChecks(t)
  <2>1. client' = client /\ rooms' = rooms
    BY <1>5 DEF HydrateChecks
  <2>2. CASE task[t].client # d
    <3>1. Bound(d)' => Bound(d)
      BY <1>1, <2>1 DEF Bound, Registered
    <3>2. QED
      BY <1>1, <1>2, <2>1, <2>2, <3>1, JoiningStill DEF BInv, Enters
  <2>3. CASE task[t].client = d
    <3> SUFFICES ASSUME Bound(d)' PROVE Joining(d)'
      OBVIOUS
    <3>1. Bound(d)
      BY <1>1, <2>1 DEF Bound, Registered
    <3>2. Joining(d)
      BY <3>1 DEF BInv
    <3>3. task[t] \in Task /\ task[t].step = "check" /\ task[t].kind \in {"connect", "join"}
          /\ task[t].room \in Users
      BY <1>5, TaskKinds DEF HydrateChecks, At, STypeOK
    <3>4. task'[t] = [task[t] EXCEPT !.step = "join"]
      BY <1>5, <2>3, <3>1 DEF HydrateChecks, Goto, Bound, STypeOK
    <3>5. [task[t] EXCEPT !.step = "join"] \in Task
      BY <2>3, <3>3 DEF Task
    <3>6. task'[t] # NoTask
      BY <3>4, <3>5, NullsAssumption
    <3>7. task'[t].step = "join" /\ task'[t].client = d /\ task'[t].room = task[t].room
      BY <2>3, <3>3, <3>4 DEF Task
    <3>8. Enters(t, d)' /\ task'[t].room = task[t].room
      BY <3>6, <3>7 DEF Enters
    <3>9. \A r \in Tasks : Enters(r, d) => Enters(r, d)' /\ task'[r].room = task[r].room
      BY <1>2, <3>8 DEF Enters
    <3>10. QED
      BY <1>1, <2>1, <3>2, <3>9 DEF Joining, Handling
  <2>4. QED
    BY <2>2, <2>3
<1>6. CASE Apply(t)
  <2>1. PICK c \in Clients, x \in Users, k \in Client :
          /\ c = task[t].client
          /\ task[t].kind \in {"connect", "join"}
          /\ client' = [client EXCEPT ![c] = k]
          /\ k.partner_room = x
          /\ task' = [task EXCEPT ![t] = [kind |-> task[t].kind, step |-> "check",
                                          client |-> c, room |-> x]]
    BY <1>6, ApplyFacts
  <2>2. rooms' = rooms /\ ~Enters(t, d)
    BY <1>6 DEF Apply, At, Enters
  <2>3. CASE d # c
    <3>1. client'[d] = client[d]
      BY <2>1, <2>3 DEF STypeOK
    <3>2. Bound(d)' => Bound(d)
      BY <1>1, <3>1 DEF Bound, Registered
    <3>3. QED
      BY <1>1, <1>2, <2>2, <3>1, <3>2, JoiningStill DEF BInv
  <2>4. CASE d = c
    <3>1. client'[d].partner_room = x
      BY <2>1, <2>4 DEF STypeOK
    <3>2. task'[t] = [kind |-> task[t].kind, step |-> "check", client |-> d, room |-> x]
      BY <2>1, <2>4 DEF STypeOK
    <3>3. [kind |-> task[t].kind, step |-> "check", client |-> d, room |-> x] \in Task
      BY <2>1 DEF Task
    <3>4. task'[t] # NoTask
      BY <3>2, <3>3, NullsAssumption
    <3>5. QED
      BY <3>1, <3>2, <3>4 DEF Joining, Enters
  <2>5. QED
    BY <2>3, <2>4
<1>7. QED
  BY <1>3, <1>4, <1>5, <1>6 DEF TaskStep

LEMMA NextJoining == STypeOK /\ BInv /\ [Next]_vars => BInv'
<1> SUFFICES ASSUME STypeOK, BInv, [Next]_vars, NEW d \in Clients
             PROVE  Bound(d)' => Joining(d)'
  BY DEF BInv
<1>1. CASE UNCHANGED vars
  BY <1>1 DEF vars, BInv, Bound, Joining, Registered, Enters, Handling
<1>2. CASE Next
  BY <1>2, ConnStepJoining, MessageStepJoining, TaskStepJoining DEF Next
<1>3. QED
  BY <1>1, <1>2

\* Whichever comes second, the context or the word of the front end, a bound client is in
\* its partner's room once nothing that concerns it is under way; but for the clients in
\* ousted, which a refused set_friend, or a set_guest_on_screen that began before their
\* context came, has put out of the room they are bound to.
THEOREM BoundGetIn == Spec => []BoundAreMembers
<1>1. Init => STypeOK /\ BInv
  BY InitTypes DEF Init, BInv, Bound, Registered
<1>2. (STypeOK /\ BInv) /\ [Next]_vars => (STypeOK /\ BInv)'
  BY NextTypes, NextJoining
<1>3. STypeOK /\ BInv => BoundAreMembers
  <2> SUFFICES ASSUME BInv, NEW c \in Clients, Bound(c), Quiet(c)
               PROVE  c \in rooms[client[c].partner_room]
    BY DEF BoundAreMembers, Bound
  <2>1. Joining(c)
    BY DEF BInv
  <2>2. QED
    BY <2>1 DEF Joining, Quiet, Enters, Handling
<1>4. QED
  BY <1>1, <1>2, <1>3, PTL DEF Spec

(***************************************************************************)
(* Who is off the screen is shown nobody                                   *)
(***************************************************************************)

Hidden(c) ==
    client[c].partner_room # Nobody /\ ~client[c].is_host /\ ~client[c].guest_on_screen

\* A hidden client is shown nobody, or its handler is about to take from it what it is shown.
Blind(c) ==
    Hidden(c) =>
        \/ Handling(c, "look")
        \/ Handling(c, "unseen") /\ sees[c] \subseteq {handler[c].partner}
        \/ sees[c] = {}

\* The answer that is about to be given is about the partner, and no hidden client gets one.
Answering(c) ==
    Handling(c, "answer") /\ handler[c].online # {} =>
        /\ ~Hidden(c) /\ client[c].partner_id # Nobody
        /\ handler[c].online \subseteq {client[c].partner_id}

\* A client is shown its partner or nobody, and a task that is about to tell it of a user
\* tells it of its partner.
Views(c) ==
    /\ conn[c] = "unused" => sees[c] = {} /\ handler[c] = Idle
    /\ Registered(c) => sees[c] \subseteq {client[c].partner_id} /\ Blind(c) /\ Answering(c)
    /\ \A t \in Tasks : At(t, "tell") /\ task[t].client = c =>
          /\ conn[c] # "unused"
          /\ Registered(c) => /\ client[c].partner_id # Nobody
                              /\ task[t].online \subseteq {client[c].partner_id}

VInv == \A c \in Clients \ crossed : Views(c)

LEMMA InitViews == Init => VInv
  BY DEF Init, VInv, Views, Registered, At

\* What leaves the partner, shows no more and starts no telling is harmless.
LEMMA ViewsKept ==
    ASSUME STypeOK, NEW c \in Clients, Views(c),
           conn'[c] = "unused" => conn[c] = "unused" /\ handler'[c] = handler[c],
           conn[c] = "unused" => conn'[c] = "unused",
           sees'[c] \subseteq sees[c],
           Registered(c)' => /\ Registered(c)
                             /\ client'[c].partner_id = client[c].partner_id
                             /\ Blind(c) => Blind(c)'
                             /\ Answering(c) => Answering(c)',
           \A t \in Tasks : task'[t] # NoTask /\ task'[t].step = "tell" /\ task'[t].client = c
              => task'[t] = task[t]
    PROVE  Views(c)'
<1>1. (conn[c] = "unused" => sees[c] = {} /\ handler[c] = Idle)'
  BY DEF Views
<1>2. (Registered(c) => sees[c] \subseteq {client[c].partner_id} /\ Blind(c) /\ Answering(c))'
  BY DEF Views
<1>3. (\A t \in Tasks : At(t, "tell") /\ task[t].client = c =>
          /\ conn[c] # "unused"
          /\ Registered(c) => /\ client[c].partner_id # Nobody
                              /\ task[t].online \subseteq {client[c].partner_id})'
  BY DEF Views, At
<1>4. QED
  BY <1>1, <1>2, <1>3 DEF Views

\* The same for a client whose handler stands still, and that does not become hidden.
LEMMA ViewsStill ==
    ASSUME STypeOK, NEW c \in Clients, Views(c), handler'[c] = handler[c],
           conn'[c] = "unused" <=> conn[c] = "unused",
           sees'[c] \subseteq sees[c],
           Registered(c)' => /\ Registered(c)
                             /\ client'[c].partner_id = client[c].partner_id
                             /\ Hidden(c)' <=> Hidden(c),
           \A t \in Tasks : task'[t] # NoTask /\ task'[t].step = "tell" /\ task'[t].client = c
              => task'[t] = task[t]
    PROVE  Views(c)'
<1>1. ASSUME Registered(c)', Blind(c) PROVE Blind(c)'
  BY <1>1 DEF Blind, Handling
<1>2. ASSUME Registered(c)', Answering(c) PROVE Answering(c)'
  BY <1>2 DEF Answering, Handling
<1>3. QED
  BY <1>1, <1>2, ViewsKept

\* Who is told that u is online is in the session with u.
LEMMA LitToPartners ==
    ASSUME STypeOK, MInv, NEW u \in Users, NEW seen \in [Clients -> SUBSET Users],
           NEW c \in Clients \ crossed
    PROVE  \/ Lit(u, seen)[c] = seen[c]
           \/ /\ Lit(u, seen)[c] = seen[c] \cup {u}
              /\ Registered(c) /\ client[c].partner_id = u /\ ~Hidden(c)
<1>1. SUFFICES ASSUME c \in rooms[u], Registered(c), Allowed(client[c])
               PROVE  client[c].partner_id = u /\ ~Hidden(c)
  BY DEF Lit
<1>2. client[c].partner_room = u
  BY <1>1 DEF MInv, Sits, STypeOK
<1>3. client[c].partner_id = u
  BY <1>1, <1>2, NullsAssumption DEF MInv, PInv
<1>4. ~Hidden(c)
  BY <1>1 DEF Allowed, Hidden
<1>5. QED
  BY <1>3, <1>4

LEMMA DarkenedLess ==
    ASSUME STypeOK, NEW u
    PROVE  /\ Darkened(u) \in [Clients -> SUBSET Users]
           /\ \A c \in Clients : Darkened(u)[c] \subseteq sees[c]
  BY DEF Darkened, STypeOK

LEMMA ConnStepViews ==
    ASSUME STypeOK, VInv, NEW c \in Clients, ConnStep(c), NEW d \in Clients \ crossed'
    PROVE  Views(d)'
<1>1. handler' = handler
  BY DEF ConnStep, Connect, Hangup, Remove, Purge
<1>2. Views(d)
  <2>1. crossed' = crossed
    BY DEF ConnStep, Connect, Hangup, Remove, Purge
  <2>2. QED
    BY <2>1 DEF VInv
<1>3. CASE Connect(c)
  <2>1. \A t \in Tasks : task'[t] # NoTask /\ task'[t].step = "tell" => task'[t] = task[t]
    BY <1>3 DEF Connect, Spawn, STypeOK
  <2>2. CASE d # c
    <3>1. client'[d] = client[d] /\ conn'[d] = conn[d] /\ sees'[d] = sees[d]
      BY <1>3, <2>2 DEF Connect, STypeOK
    <3>2. QED
      BY <1>1, <1>2, <2>1, <3>1, ViewsStill DEF Registered, Hidden
  <2>3. CASE d = c
    <3>1. /\ conn[c] = "unused" /\ conn'[c] = "open"
          /\ client'[c].partner_room = Nobody /\ sees'[c] = sees[c]
      BY <1>3 DEF Connect, NewClient, STypeOK
    <3>2. /\ sees[c] = {} /\ handler[c] = Idle
          /\ \A t \in Tasks : ~(At(t, "tell") /\ task[t].client = c)
      BY <1>2, <2>3, <3>1 DEF Views
    <3>3. \A t \in Tasks : ~(At(t, "tell") /\ task[t].client = c)'
      BY <2>1, <3>2 DEF At
    <3>4. QED
      BY <1>1, <2>3, <3>1, <3>2, <3>3 DEF Views, Blind, Answering, Hidden, Handling
  <2>4. QED
    BY <2>2, <2>3
<1>4. CASE Hangup(c)
  <2>1. sees'[d] \subseteq sees[d] /\ client' = client /\ task' = task
    BY <1>4, DarkenedLess DEF Hangup
  <2>2. conn'[d] = "unused" <=> conn[d] = "unused"
    BY <1>4 DEF Hangup, STypeOK
  <2>3. QED
    BY <1>1, <1>2, <2>1, <2>2, ViewsStill DEF Registered, Hidden
<1>5. CASE Remove(c)
  <2>1. sees'[d] \subseteq sees[d] /\ task' = task
    BY <1>5 DEF Remove, STypeOK
  <2>2. conn'[d] = "unused" <=> conn[d] = "unused"
    BY <1>5 DEF Remove, STypeOK
  <2>3. Registered(d)' => client'[d] = client[d]
    BY <1>5 DEF Remove, Registered, STypeOK
  <2>4. QED
    BY <1>1, <1>2, <2>1, <2>2, <2>3, ViewsStill DEF Registered, Hidden
<1>6. CASE Purge(c)
  <2>1. sees' = sees /\ client' = client /\ task' = task
    BY <1>6 DEF Purge
  <2>2. conn'[d] = "unused" <=> conn[d] = "unused"
    BY <1>6 DEF Purge, STypeOK
  <2>3. QED
    BY <1>1, <1>2, <2>1, <2>2, ViewsStill DEF Registered, Hidden
<1>7. QED
  BY <1>3, <1>4, <1>5, <1>6 DEF ConnStep

\* Every message is of a client that has been connected.
LEMMA MessageConnected ==
    ASSUME STypeOK, NEW c \in Clients, Views(c), MessageStep(c) PROVE conn[c] # "unused"
<1>1. Registered(c) \/ handler[c] # Idle
  BY DEF MessageStep, SetFriend, WriteFriend, SetGuestOnScreen, WriteScreen, Look, Leave,
         UnseePartner, Darken, LeaveRoom, Check, Bind, Clear, JoinLiveSesh, RequestPeerPresence,
         Answer, Receive, Handling
<1>2. QED
  BY <1>1 DEF Views, STypeOK

LEMMA MessageStepViews ==
    ASSUME STypeOK, VInv, NEW c \in Clients, MessageStep(c), NEW d \in Clients \ crossed'
    PROVE  Views(d)'
<1>1. Views(d)
  BY MessageKeeps DEF VInv
<1>2. /\ conn' = conn
      /\ \A t \in Tasks : task'[t] # NoTask /\ task'[t].step = "tell" => task'[t] = task[t]
  <2>1. ASSUME JoinLiveSesh(c)
        PROVE  \A t \in Tasks : task'[t] # NoTask /\ task'[t].step = "tell" => task'[t] = task[t]
    BY <2>1 DEF JoinLiveSesh, Spawn, STypeOK
  <2>2. QED
    BY <2>1, MessageKeeps DEF MessageStep, SetFriend, WriteFriend, SetGuestOnScreen, WriteScreen,
       Look, Leave, UnseePartner, Darken, LeaveRoom, Check, Bind, Clear, RequestPeerPresence,
       Answer
<1>3. CASE d # c
  <2>1. client'[d] = client[d] /\ handler'[d] = handler[d]
    BY <1>3, MessageOfOne
  <2>2. sees'[d] \subseteq sees[d]
    <3>1. ASSUME UnseePartner(c) PROVE sees'[d] = sees[d]
      BY <1>3, <3>1 DEF UnseePartner, Unseen, STypeOK
    <3>2. Darkened(Owner[c])[d] \subseteq sees[d]
      BY DarkenedLess
    <3>3. ASSUME Answer(c) PROVE sees'[d] = sees[d]
      BY <1>3, <3>3 DEF Answer, Unseen, STypeOK
    <3>4. QED
      BY <3>1, <3>2, <3>3 DEF MessageStep, SetFriend, WriteFriend, SetGuestOnScreen, WriteScreen,
         Look, Leave, Darken, LeaveRoom, Check, Bind, Clear, JoinLiveSesh, RequestPeerPresence
  <2>3. QED
    BY <1>1, <1>2, <2>1, <2>2, ViewsStill DEF Registered, Hidden
<1>4. CASE d = c
  <2> SUFFICES Views(c)'
    BY <1>4
  <2>1. /\ Views(c) /\ conn[c] # "unused" /\ conn'[c] # "unused"
        /\ Registered(c) => client[c] \in Client
    BY <1>1, <1>2, <1>4, MessageConnected, ClientKinds
  \* A step from one that is not about to tell the client anything to another such.
  <2>2. ASSUME sees'[c] \subseteq sees[c],
               Registered(c)' => /\ Registered(c)
                                 /\ client'[c].partner_id = client[c].partner_id
                                 /\ Hidden(c)' => Hidden(c),
               ~Handling(c, "look"), ~Handling(c, "unseen"), ~Handling(c, "answer")'
        PROVE  Views(c)'
    <3>1. Registered(c)' /\ Blind(c) => Blind(c)'
      BY <2>2 DEF Blind
    <3>2. Answering(c)'
      BY <2>2 DEF Answering
    <3>3. QED
      BY <1>2, <2>1, <2>2, <3>1, <3>2, ViewsKept
  <2>3. ASSUME client' = client
        PROVE  Registered(c)' => /\ Registered(c)
                                 /\ client'[c].partner_id = client[c].partner_id
                                 /\ Hidden(c)' => Hidden(c)
    BY <2>3 DEF Registered, Hidden
  <2>4. ASSUME Receive(c)
        PROVE  Registered(c) /\ \A step : ~Handling(c, step)
    BY <2>4 DEF Receive, Handling
  <2>5. ASSUME NEW h \in Handler \cup {Idle}, Proceed(c, h), h # Idle => h.step # "answer"
        PROVE  ~Handling(c, "answer")'
    BY <2>5, ProceedType DEF Handling
  <2>6. ASSUME NEW f \in FriendsOf[Owner[c]], SetFriend(c, f) PROVE Views(c)'
    <3>1. client' = client /\ sees' = sees /\ Receive(c)
      BY <2>6 DEF SetFriend
    <3>2. PICK h : /\ Proceed(c, h)
                   /\ \/ h = [step |-> "unseen", of |-> "friend", partner |-> client[c].partner_id,
                              room |-> client[c].partner_room]
                      \/ h = [step |-> "write", friend |-> f]
      BY <2>6 DEF SetFriend, GoDark
    <3>3. h \in Handler /\ h.step # "answer"
      BY <2>1, <2>4, <3>1, <3>2, OwnerAssumption DEF Handler, Client
    <3>4. QED
      BY <2>2, <2>3, <2>4, <2>5, <3>1, <3>2, <3>3
  <2>7. CASE WriteFriend(c)
    <3>1. Registered(c)' => /\ Registered(c)
                            /\ client'[c] = [client[c] EXCEPT !.friend_id = handler[c].friend]
      BY <2>7 DEF WriteFriend, Registered, STypeOK
    <3>2. Registered(c)' => /\ Registered(c)
                            /\ client'[c].partner_id = client[c].partner_id
                            /\ Hidden(c)' => Hidden(c)
      BY <2>1, <3>1 DEF Hidden, Client
    <3>3. [step |-> "check"] \in Handler /\ [step |-> "check"].step # "answer"
      BY DEF Handler
    <3>4. /\ sees' = sees /\ ~Handling(c, "look") /\ ~Handling(c, "unseen")
          /\ Proceed(c, [step |-> "check"])
      BY <2>7 DEF WriteFriend, Handling
    <3>5. ~Handling(c, "answer")'
      BY <2>5, <3>3, <3>4
    <3>6. QED
      BY <2>2, <3>2, <3>4, <3>5
  <2>8. ASSUME NEW on \in BOOLEAN, SetGuestOnScreen(c, on) PROVE Views(c)'
    <3>1. client' = client /\ sees' = sees /\ Receive(c) /\ Proceed(c, [step |-> "screen", on |-> on])
      BY <2>8 DEF SetGuestOnScreen
    <3>2. [step |-> "screen", on |-> on] \in Handler /\ [step |-> "screen", on |-> on].step # "answer"
      BY DEF Handler
    <3>3. ~Handling(c, "answer")'
      BY <2>5, <3>1, <3>2
    <3>4. QED
      BY <2>2, <2>3, <2>4, <3>1, <3>3
  <2>9. CASE WriteScreen(c)
    <3> DEFINE h == [step |-> IF handler[c].on THEN "check" ELSE "look"]
    <3>1. Registered(c)' => /\ Registered(c)
                            /\ client'[c] = [client[c] EXCEPT !.guest_on_screen = handler[c].on]
      BY <2>9 DEF WriteScreen, Registered, STypeOK
    <3>2. Registered(c)' => /\ client'[c].partner_id = client[c].partner_id
                            /\ handler[c].on => ~Hidden(c)'
      BY <2>1, <3>1 DEF Hidden, Client
    <3>3. h \in Handler /\ Proceed(c, h) /\ sees' = sees
      BY <2>9 DEF WriteScreen, Handler
    <3>4. handler'[c] = h /\ handler'[c] # Idle
      BY <3>3, ProceedType
    <3>5. Registered(c)' => Blind(c)'
      <4>1. CASE handler[c].on
        BY <3>2, <4>1 DEF Blind
      <4>2. CASE ~handler[c].on
        <5>1. Handling(c, "look")'
          BY <3>4, <4>2 DEF Handling
        <5>2. QED
          BY <5>1 DEF Blind
      <4>3. QED
        BY <4>1, <4>2
    <3>6. Answering(c)'
      BY <3>4 DEF Answering, Handling
    <3>7. QED
      BY <1>2, <2>1, <3>1, <3>2, <3>3, <3>5, <3>6, ViewsKept
  <2>10. CASE Look(c)
    <3>1. client' = client /\ sees' = sees
      BY <2>10 DEF Look
    <3>2. CASE Registered(c)
      <4> DEFINE h == [step |-> "unseen", of |-> "screen", partner |-> client[c].partner_id,
                       room |-> client[c].partner_room]
      <4>1. /\ h \in Handler /\ Proceed(c, h) /\ h.step = "unseen"
            /\ h.partner = client[c].partner_id
        BY <2>1, <2>10, <3>2 DEF Look, GoDark, Handler, Client
      <4> HIDE DEF h
      <4>2. handler'[c] = h /\ handler'[c] # Idle
        BY <4>1, ProceedType
      <4>3. sees'[c] \subseteq {handler'[c].partner}
        BY <2>1, <3>1, <3>2, <4>1, <4>2 DEF Views
      <4>4. Blind(c)' /\ Answering(c)'
        BY <4>1, <4>2, <4>3 DEF Blind, Answering, Handling
      <4>5. QED
        BY <1>2, <2>1, <3>1, <4>4, ViewsKept DEF Registered
    <3>3. CASE ~Registered(c)
      BY <1>2, <2>1, <3>1, <3>3, ViewsKept DEF Registered
    <3>4. QED
      BY <3>2, <3>3
  <2>11. CASE Leave(c)
    <3>1. /\ client' = client /\ sees' = sees /\ Receive(c)
          /\ Proceed(c, [step |-> "darken", of |-> "sesh", room |-> client[c].partner_room])
      BY <2>11 DEF Leave
    <3>2. [step |-> "darken", of |-> "sesh", room |-> client[c].partner_room] \in Handler
      BY <2>1, <2>4, <3>1 DEF Handler, Client
    <3>3. ~Handling(c, "answer")'
      BY <2>5, <3>1, <3>2
    <3>4. QED
      BY <2>2, <2>3, <2>4, <3>1, <3>3
  <2>12. CASE UnseePartner(c)
    <3> DEFINE h == [step |-> "darken", of |-> handler[c].of, room |-> handler[c].room]
    <3>1. client' = client /\ sees'[c] = sees[c] \ {handler[c].partner} /\ Proceed(c, h)
      BY <2>12 DEF UnseePartner, Unseen, STypeOK
    <3>2. h \in Handler /\ h.step = "darken"
      BY <2>12, HandlerKinds, HandlerRecords DEF UnseePartner, Handling
    <3> HIDE DEF h
    <3>3. Answering(c)'
      BY <2>5, <3>1, <3>2 DEF Answering
    <3>4. Blind(c) => Blind(c)'
      BY <2>12, <3>1 DEF Blind, Hidden, Handling, UnseePartner
    <3>5. QED
      BY <1>2, <2>1, <3>1, <3>3, <3>4, ViewsKept DEF Registered
  <2>13. CASE Darken(c)
    <3> DEFINE h == [step |-> "leave", of |-> handler[c].of, room |-> handler[c].room]
    <3>1. /\ client' = client /\ sees'[c] \subseteq sees[c] /\ Proceed(c, h)
          /\ ~Handling(c, "look") /\ ~Handling(c, "unseen")
      BY <2>13, LeaveRecord, DarkenedLess DEF Darken, Handling
    <3>2. h \in Handler /\ h.step = "leave"
      BY <2>13, HandlerKinds, HandlerRecords DEF Darken, Handling
    <3> HIDE DEF h
    <3>3. ~Handling(c, "answer")'
      BY <2>5, <3>1, <3>2
    <3>4. QED
      BY <2>2, <2>3, <3>1, <3>3
  <2>14. CASE LeaveRoom(c) \/ Check(c) \/ Bind(c)
    <3>1. /\ client' = client /\ sees' = sees
          /\ ~Handling(c, "look") /\ ~Handling(c, "unseen")
      BY <2>14 DEF LeaveRoom, Check, Bind, Handling
    <3>2. [step |-> "clear"] \in Handler
      BY DEF Handler
    <3>3. Registered(c) => /\ NextOf(client[c]) \in Handler \cup {Idle}
                           /\ NextOf(client[c]) # Idle => NextOf(client[c]).step = "join"
      BY <2>1, NextOfType DEF NextOf
    <3>4. PICK h : /\ Proceed(c, h) /\ h \in Handler \cup {Idle}
                   /\ h # Idle => h.step \in {"clear", "join"}
      BY <2>14, <3>2, <3>3 DEF LeaveRoom, Check, Bind
    <3>5. ~Handling(c, "answer")'
      BY <2>5, <3>4
    <3>6. QED
      BY <2>2, <2>3, <3>1, <3>5
  <2>15. CASE Clear(c)
    <3>1. Registered(c)' => /\ Registered(c)
                            /\ client'[c] = [client[c] EXCEPT !.partner_room = Nobody,
                                        !.is_host = FALSE, !.guest_on_screen = FALSE]
      BY <2>15 DEF Clear, Registered, STypeOK
    <3>2. Registered(c)' => /\ Registered(c)
                            /\ client'[c].partner_id = client[c].partner_id
                            /\ ~Hidden(c)'
      BY <2>1, <3>1 DEF Hidden, Client
    <3>3. sees' = sees /\ ~Handling(c, "look") /\ ~Handling(c, "unseen") /\ Proceed(c, Idle)
      BY <2>15 DEF Clear, Handling
    <3>4. ~Handling(c, "answer")'
      BY <2>5, <3>3
    <3>5. QED
      BY <2>2, <3>2, <3>3, <3>4
  <2>16. CASE JoinLiveSesh(c)
    BY <1>1, <1>2, <1>4, <2>16, ViewsStill DEF JoinLiveSesh, Registered, Hidden
  <2>17. CASE RequestPeerPresence(c)
    <3>1. PICK online \in IF Allowed(client[c]) THEN Answers(client[c].partner_id) ELSE {{}} :
             Proceed(c, [step |-> "answer", partner |-> client[c].partner_id, online |-> online])
      BY <2>17 DEF RequestPeerPresence
    <3> DEFINE h == [step |-> "answer", partner |-> client[c].partner_id, online |-> online]
    <3>2. client' = client /\ sees' = sees /\ Registered(c) /\ ~Handling(c, "look")
          /\ ~Handling(c, "unseen")
      BY <2>4, <2>17 DEF RequestPeerPresence
    <3>3. online \in SUBSET Users /\ online \subseteq {client[c].partner_id}
      BY <3>1, AnswersType, AnswersUsers
    <3>4. online # {} => Allowed(client[c]) /\ client[c].partner_id \in Users
      BY <3>1, <3>3
    <3>5. h \in Handler /\ h.online = online
      BY <2>1, <3>2, <3>3, HandlerRecords DEF Client
    <3>6. handler'[c] = h
      BY <3>1, <3>5, ProceedType
    <3> HIDE DEF h
    <3>7. Answering(c)'
      BY <3>2, <3>3, <3>4, <3>5, <3>6, NullsAssumption DEF Answering, Hidden, Allowed
    <3>8. Blind(c) => Blind(c)'
      BY <3>2 DEF Blind, Hidden
    <3>9. QED
      BY <1>2, <2>1, <3>2, <3>7, <3>8, ViewsKept DEF Registered
  <2>18. CASE Answer(c)
    <3>1. client' = client /\ task' = task /\ handler'[c] = Idle
      BY <2>18, ProceedType DEF Answer
    <3>2. CASE handler[c].online # {} /\ Registered(c)
      <4>1. sees'[c] = sees[c] \cup handler[c].online
        BY <2>18, <3>2 DEF Answer, STypeOK
      <4>2. /\ ~Hidden(c) /\ client[c].partner_id # Nobody
            /\ handler[c].online \subseteq {client[c].partner_id}
        BY <2>1, <2>18, <3>2 DEF Views, Answering, Answer
      <4>3. ~Hidden(c)' /\ Answering(c)'
        BY <3>1, <4>2 DEF Hidden, Answering, Handling
      <4>4. QED
        BY <1>2, <2>1, <3>1, <4>1, <4>2, <4>3 DEF Views, Blind, Registered, At
    <3>3. CASE ~(handler[c].online # {} /\ Registered(c))
      <4>1. sees'[c] \subseteq sees[c] /\ ~Handling(c, "look") /\ ~Handling(c, "unseen")
        BY <2>18, <3>3 DEF Answer, Unseen, Handling, STypeOK
      <4>2. ~Handling(c, "answer")'
        BY <3>1 DEF Handling
      <4>3. QED
        BY <2>2, <2>3, <3>1, <4>1, <4>2
    <3>4. QED
      BY <3>2, <3>3
  <2>19. QED
    BY <1>4, <2>6, <2>7, <2>8, <2>9, <2>10, <2>11, <2>12, <2>13, <2>14, <2>15, <2>16, <2>17,
       <2>18 DEF MessageStep
<1>5. QED
  BY <1>3, <1>4

LEMMA TaskStepViews ==
    ASSUME STypeOK, MInv, VInv, NEW t \in Tasks, TaskStep(t), NEW d \in Clients \ crossed'
    PROVE  Views(d)'
<1>1. Views(d) /\ d \notin crossed
  BY TaskKeeps DEF VInv
<1>2. conn' = conn /\ handler' = handler
  BY TaskKeeps
<1>3. \A k : Speaks(k) # NoTask => Speaks(k).step = "speak"
  BY DEF Speaks
<1>4. CASE TestPartner(t) \/ NoHydrate(t) \/ HydrateChecks(t) \/ HydrateJoins(t)
  <2>1. client' = client /\ sees' = sees
    BY <1>4 DEF TestPartner, NoHydrate, HydrateChecks, HydrateJoins
  <2>2. task' \in {[task EXCEPT ![t] = Speaks(task[t])],
                  [task EXCEPT ![t] = [task[t] EXCEPT !.step = "join"]],
                  [task EXCEPT ![t] = [task[t] EXCEPT !.step = "hydrate"]]}
    BY <1>4 DEF TestPartner, NoHydrate, HydrateChecks, HydrateJoins, Goto
  <2>3. /\ [task[t] EXCEPT !.step = "join"].step = "join"
        /\ [task[t] EXCEPT !.step = "hydrate"].step = "hydrate"
    <3>1. task[t] \in Task /\ task[t].step \in {"test", "hydrate", "check", "join"}
      BY <1>4 DEF TestPartner, NoHydrate, HydrateChecks, HydrateJoins, At, STypeOK
    <3>2. QED
      BY <3>1 DEF Task
  <2>4. task'[t] # NoTask => task'[t].step # "tell"
    BY <1>3, <2>2, <2>3 DEF STypeOK
  <2>5. \A r \in Tasks : task'[r] # NoTask /\ task'[r].step = "tell" => task'[r] = task[r]
    BY <2>2, <2>4 DEF STypeOK
  <2>6. QED
    BY <1>1, <1>2, <2>1, <2>5, ViewsStill DEF Registered, Hidden
<1>5. CASE Apply(t)
  <2>1. PICK c \in Clients : \E x \in Contexts[Owner[c]], k \in Client :
          /\ Registered(c)
          /\ client' = [client EXCEPT ![c] = k]
          /\ k.partner_id = x.partner_id /\ k.partner_room = x.partner_id
          /\ k.is_host = x.is_host /\ k.guest_on_screen = client[c].guest_on_screen
          /\ task' = [task EXCEPT ![t] = [kind |-> task[t].kind, step |-> "check",
                                          client |-> c, room |-> x.partner_id]]
          /\ crossed' = IF Crosses(c, x) THEN crossed \cup {c} ELSE crossed
    BY <1>5, ApplyFacts
  <2>2. sees' = sees
    BY <1>5 DEF Apply
  <2>3. \A r \in Tasks : task'[r] # NoTask /\ task'[r].step = "tell" => task'[r] = task[r]
    BY <2>1 DEF STypeOK
  <2>4. CASE d # c
    <3>1. client'[d] = client[d]
      BY <2>1, <2>4 DEF STypeOK
    <3>2. QED
      BY <1>1, <1>2, <2>2, <2>3, <3>1, ViewsStill DEF Registered, Hidden
  <2>5. CASE d = c
    <3>1. PICK x \in Contexts[Owner[c]], k \in Client :
          /\ client'[c] = k
          /\ k.partner_id = x.partner_id /\ k.partner_room = x.partner_id
          /\ k.is_host = x.is_host /\ k.guest_on_screen = client[c].guest_on_screen
          /\ ~Crosses(c, x)
      BY <2>1, <2>5 DEF STypeOK
    <3>2. CASE client[c].partner_id = Nobody
      <4>1. /\ sees[c] = {} /\ \A r \in Tasks : ~(At(r, "tell") /\ task[r].client = c)
            /\ ~(Handling(c, "answer") /\ handler[c].online # {})
        BY <1>1, <2>1, <2>5, <3>2, NullsAssumption DEF Views, Answering, STypeOK
      <4>2. \A r \in Tasks : ~(At(r, "tell") /\ task[r].client = c)'
        BY <2>3, <4>1 DEF At
      <4>3. QED
        BY <1>1, <1>2, <2>2, <2>5, <4>1, <4>2 DEF Views, Blind, Answering, Handling
    <3>3. CASE client[c].partner_id # Nobody
      <4>1. client[c].partner_room = k.partner_room /\ client[c].is_host = k.is_host
        BY <3>1, <3>3 DEF Crosses
      <4>2. k.partner_room # Nobody
        <5>1. x.partner_id \in Users
          BY OwnerAssumption, ContextsAssumption
        <5>2. QED
          BY <3>1, <5>1, NullsAssumption
      <4>3. client[c].partner_id = k.partner_id
        BY <2>1, <3>1, <4>1, <4>2 DEF MInv, PInv
      <4>4. Hidden(c)' <=> Hidden(c)
        BY <3>1, <4>1 DEF Hidden
      <4>5. QED
        BY <1>1, <1>2, <2>1, <2>2, <2>3, <2>5, <3>1, <4>3, <4>4, ViewsStill
    <3>4. QED
      BY <3>2, <3>3
  <2>6. QED
    BY <2>4, <2>5
<1>6. CASE Speak(t)
  <2> PICK c \in Clients : c = task[t].client
    BY <1>6, TaskKinds DEF Speak, At
  <2>1. client' = client /\ sees' = sees
    BY <1>6 DEF Speak
  <2>2. CASE d # c \/ task'[t] = NoTask
    <3>1. \A r \in Tasks : task'[r] # NoTask /\ task'[r].client = d => task'[r] = task[r]
      BY <1>6, <2>2 DEF Speak, Goto, Done, STypeOK
    <3>2. QED
      BY <1>1, <1>2, <2>1, <3>1, ViewsStill DEF Registered, Hidden
  <2>3. CASE d = c /\ task'[t] # NoTask
    <3>1. /\ Registered(c) /\ client[c].partner_id # Nobody
          /\ \E online \in Answers(client[c].partner_id) \cup {{}} :
                task' = [task EXCEPT ![t] =
                           [step |-> "tell", client |-> c, online |-> online]]
      BY <1>6, <2>3 DEF Speak, Goto, Done, STypeOK
    <3>2. task'[t].online \subseteq {client[c].partner_id}
      BY <3>1, AnswersType DEF STypeOK
    <3>3. \A r \in Tasks \ {t} : task'[r] = task[r]
      BY <3>1 DEF STypeOK
    <3>4. conn[c] # "unused"
      BY <3>1 DEF STypeOK
    <3>5. (Blind(c) <=> Blind(c)') /\ (Answering(c) <=> Answering(c)')
      BY <1>2, <2>1 DEF Blind, Answering, Hidden, Handling
    <3>6. QED
      BY <1>1, <1>2, <2>1, <2>3, <3>1, <3>2, <3>3, <3>4, <3>5 DEF Views, Registered, At
  <2>4. QED
    BY <2>2, <2>3
<1>7. CASE Tell(t)
  <2> PICK c \in Clients : c = task[t].client
    BY <1>7, TaskKinds DEF Tell, At
  <2> DEFINE heard == IF Registered(c) THEN [sees EXCEPT ![c] = @ \cup task[t].online] ELSE sees
  <2>1. /\ client' = client /\ sees' = Lit(Owner[c], heard)
        /\ task' = [task EXCEPT ![t] = NoTask]
        /\ crossed' = IF task[t].online # {} /\ Registered(c) /\ ~Allowed(client[c])
                      THEN crossed \cup {c} ELSE crossed
    BY <1>7 DEF Tell, Goto, Done
  <2>2. heard \in [Clients -> SUBSET Users] /\ Owner[c] \in Users
    BY <1>7, TaskKinds, OwnerAssumption DEF Tell, At, STypeOK
  <2>3. \A r \in Tasks : task'[r] # NoTask => task'[r] = task[r]
    BY <2>1 DEF STypeOK
  <2>4. /\ conn[d] = "unused" => heard[d] = {}
        /\ Registered(d) => /\ heard[d] \subseteq {client[d].partner_id}
                            /\ Hidden(d) => heard[d] = sees[d]
    <3>1. CASE d # c \/ ~Registered(c)
      <4>1. heard[d] = sees[d]
        BY <3>1 DEF STypeOK
      <4>2. QED
        BY <1>1, <4>1 DEF Views
    <3>2. CASE d = c /\ Registered(c)
      <4>1. heard[d] = sees[d] \cup task[t].online
        BY <3>2 DEF STypeOK
      <4>2. task[t].online \subseteq {client[d].partner_id} /\ conn[d] # "unused"
        BY <1>1, <1>7, <3>2 DEF Views, Tell
      <4>3. Hidden(d) => task[t].online = {}
        BY <2>1, <3>2 DEF Hidden, Allowed
      <4>4. QED
        BY <1>1, <4>1, <4>2, <4>3 DEF Views
    <3>3. QED
      BY <3>1, <3>2
  <2> HIDE DEF heard
  <2>5. \/ sees'[d] = heard[d]
        \/ /\ sees'[d] = heard[d] \cup {Owner[c]}
           /\ Registered(d) /\ client[d].partner_id = Owner[c] /\ ~Hidden(d)
    BY <1>1, <2>1, <2>2, LitToPartners
  <2>6. Registered(d) => conn[d] # "unused"
    BY DEF STypeOK
  <2>7. QED
    <3>1. Registered(d) => /\ Hidden(d) => sees'[d] = sees[d]
                           /\ sees'[d] \subseteq {client[d].partner_id}
      BY <2>4, <2>5
    <3>2. Registered(d) => Blind(d)' /\ Answering(d)'
      BY <1>1, <1>2, <2>1, <3>1 DEF Views, Blind, Answering, Hidden, Handling
    <3>3. conn[d] = "unused" => sees'[d] = {}
      BY <2>4, <2>5, <2>6
    <3>4. QED
      BY <1>1, <1>2, <2>1, <2>3, <3>1, <3>2, <3>3 DEF Views, Registered, At
<1>8. QED
  BY <1>4, <1>5, <1>6, <1>7 DEF TaskStep

LEMMA NextViews == STypeOK /\ MInv /\ VInv /\ [Next]_vars => VInv'
<1> SUFFICES ASSUME STypeOK, MInv, VInv, [Next]_vars, NEW d \in Clients \ crossed'
             PROVE  Views(d)'
  BY DEF VInv
<1>1. CASE UNCHANGED vars
  BY <1>1 DEF vars, VInv, Views, Blind, Answering, Hidden, Registered, Handling, At
<1>2. CASE Next
  BY <1>2, ConnStepViews, MessageStepViews, TaskStepViews DEF Next
<1>3. QED
  BY <1>1, <1>2

\* A guest that is not looking at the session is shown nobody, as soon as its handler has said
\* so; but for the clients in crossed, which another context, a join of before or the late
\* word of a connect task reached.
THEOREM HiddenSeesNobody == Spec => []OffScreenSeesNobody
<1>1. Init => STypeOK /\ MInv /\ VInv
  BY InitTypes, InitMembers, InitViews
<1>2. (STypeOK /\ MInv /\ VInv) /\ [Next]_vars => (STypeOK /\ MInv /\ VInv)'
  BY NextTypes, NextMembers, NextViews
<1>3. VInv => OffScreenSeesNobody
  BY DEF VInv, Views, Blind, Hidden, OffScreenSeesNobody
<1>4. QED
  BY <1>1, <1>2, <1>3, PTL DEF Spec
=============================================================================
