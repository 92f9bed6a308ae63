----------------------------- MODULE SocketQueue -----------------------------
(***************************************************************************)
(* How frames get to one socket of the Rust relay.  Events wait in a       *)
(* bounded queue (an mpsc channel), positions in a slot per kind, where a  *)
(* newer one takes the place of an older one that was not sent yet.  The   *)
(* socket's send task waits for either, the queue first.                   *)
(*                                                                         *)
(* A step is one use of a lock, of the queue, of the Notify, or of the     *)
(* socket.  Positions are numbered in the order in which they get into the *)
(* slot of their kind; 0 is an empty slot.  Nothing bounds how many        *)
(* positions and events come in, only how far they are counted.            *)
(***************************************************************************)
EXTENDS Naturals, Sequences

CONSTANTS K,         \* the kinds of positions are numbered in the order of the drain
          Capacity,  \* of the queue
          Writers,   \* handlers of those whose positions this socket is sent
          Pushers,   \* requests of Django, or of a newer socket, to close this one
          MaxPuts,   \* bound: [1..K -> Nat], positions of a kind with a number of their own
          MaxFrames, \* bound: frames that are counted
          NoFrame

Kinds == 1..K
\* after: the positions that had been put when the frame was queued
Frame == [close : BOOLEAN, after : [Kinds -> Nat]]

ASSUME KindsAssumption == K \in Nat \ {0}
ASSUME BoundsAssumption == Capacity \in Nat \ {0} /\ MaxPuts \in [Kinds -> Nat] /\ MaxFrames \in Nat
ASSUME NoFrameAssumption == NoFrame \notin Frame

VARIABLES
    slot,       \* [Kinds -> the position that waits]
    permit,     \* the Notify has been notified and nobody has seen it yet
    writer,     \* [Writers -> "idle", or "notify" between the slot and the Notify]
    queue,      \* the mpsc channel
    pusher,     \* [Pushers -> "idle", or what it does next: "action", "close"]
    registered, \* the client is in the map, which holds a sender of the queue
    at,         \* what the send task is doing
    next,       \* ... to which kind
    got,        \* [Kinds -> the position it has drained and not sent yet]
    held,       \* the frame it has received and not sent yet
    puts,       \* [Kinds -> positions put so far]
    shown,      \* [Kinds -> the last position sent]
    accepted,   \* frames the queue has taken, of the first MaxFrames
    sent        \* frames from the queue that the socket has taken, of the first MaxFrames

slots == <<slot, permit, writer, puts>>
events == <<queue, pusher, registered, accepted>>
sending == <<at, next, got, held, shown, sent>>
vars == <<slots, events, sending>>

Steps == {"select", "poll", "drain", "send", "done"}

Init ==
    /\ slot = [k \in Kinds |-> 0]
    /\ permit = FALSE
    /\ writer = [w \in Writers |-> "idle"]
    /\ queue = <<>>
    /\ pusher = [p \in Pushers |-> "idle"]
    /\ registered = TRUE
    /\ at = "select"
    /\ next = 1
    /\ got = [k \in Kinds |-> 0]
    /\ held = NoFrame
    /\ puts = [k \in Kinds |-> 0]
    /\ shown = [k \in Kinds |-> 0]
    /\ accepted = 0 /\ sent = 0

Count(n) == IF n < MaxFrames THEN n + 1 ELSE n

-----------------------------------------------------------------------------
(* Positions come in *)

\* The number of the next position of a kind; the last number is that of all that follow.
Number(k) == IF puts[k] < MaxPuts[k] THEN puts[k] + 1 ELSE puts[k]

\* (mutant) a position that waits is left alone
PutIfEmpty(w, k) ==
    /\ registered
    /\ writer[w] = "idle"
    /\ puts' = [puts EXCEPT ![k] = Number(k)]
    /\ slot' = [slot EXCEPT ![k] = IF @ = 0 THEN Number(k) ELSE @]
    /\ writer' = [writer EXCEPT ![w] = "notify"]
    /\ UNCHANGED <<permit, events, sending>>

\* broadcast_position_to_room finds this client: PositionSlots::put fills the slot ...
Put(w, k) ==
    /\ registered
    /\ writer[w] = "idle"
    /\ puts' = [puts EXCEPT ![k] = Number(k)]
    /\ slot' = [slot EXCEPT ![k] = Number(k)]
    /\ writer' = [writer EXCEPT ![w] = "notify"]
    /\ UNCHANGED <<permit, events, sending>>

\* ... and notifies the send task.
Notify(w) ==
    /\ writer[w] = "notify"
    /\ permit' = TRUE
    /\ writer' = [writer EXCEPT ![w] = "idle"]
    /\ UNCHANGED <<slot, puts, events, sending>>

-----------------------------------------------------------------------------
(* Events come in *)

\* A frame that is not counted is as good as one that was queued before all positions.
Made(close) ==
    [close |-> close, after |-> [k \in Kinds |-> IF accepted < MaxFrames THEN puts[k] ELSE 0]]

\* (mutant) the channel is unbounded
SendUnbounded(close) ==
    IF at # "done"
    THEN /\ queue' = Append(queue, Made(close))
         /\ accepted' = Count(accepted)
    ELSE UNCHANGED <<queue, accepted>>

\* Sender::try_send: what does not fit, or comes when the send task has ended, is lost.
TrySend(close) ==
    IF Len(queue) < Capacity /\ at # "done"
    THEN /\ queue' = Append(queue, Made(close))
         /\ accepted' = Count(accepted)
    ELSE UNCHANGED <<queue, accepted>>

\* send_to_client, and broadcasts that find this client
Tell ==
    /\ registered
    /\ TrySend(FALSE)
    /\ UNCHANGED <<pusher, registered, slots, sending>>

\* internal_push_user, internal_disconnect_user and evict_existing_user find the client and
\* copy its sender; the second only closes.  Then, with no lock, ...
Lookup(p) ==
    /\ registered
    /\ pusher[p] = "idle"
    /\ \E step \in {"action", "close"} : pusher' = [pusher EXCEPT ![p] = step]
    /\ UNCHANGED <<queue, registered, accepted, slots, sending>>

\* ... the action, after which a push without close_after is over, ...
PushAction(p) ==
    /\ pusher[p] = "action"
    /\ TrySend(FALSE)
    /\ \E step \in {"close", "idle"} : pusher' = [pusher EXCEPT ![p] = step]
    /\ UNCHANGED <<registered, slots, sending>>

\* ... and the Close.
PushClose(p) ==
    /\ pusher[p] = "close"
    /\ TrySend(TRUE)
    /\ pusher' = [pusher EXCEPT ![p] = "idle"]
    /\ UNCHANGED <<registered, slots, sending>>

\* disconnect_cleanup takes the client out of the map, which it has to itself: nobody is
\* in the middle of a put.  handle_socket returns after it, and drops its own sender.
Unregister ==
    /\ registered
    /\ \A w \in Writers : writer[w] = "idle"
    /\ registered' = FALSE
    /\ UNCHANGED <<queue, pusher, accepted, slots, sending>>

\* All senders of the queue have been dropped.
Closed == ~registered /\ \A p \in Pushers : pusher[p] = "idle"

-----------------------------------------------------------------------------
(* The send task *)

\* (mutant) the positions that wait are not looked at
TakeFrameOnly ==
    /\ at = "select"
    /\ queue # <<>>
    /\ held' = Head(queue)
    /\ queue' = Tail(queue)
    /\ at' = "send"
    /\ next' = 1
    /\ UNCHANGED <<pusher, registered, accepted, slots, got, shown, sent>>

\* select!, biased: first rx.recv(): an event, after the positions that wait
TakeFrame ==
    /\ at = "select"
    /\ queue # <<>>
    /\ held' = Head(queue)
    /\ queue' = Tail(queue)
    /\ at' = "drain"
    /\ next' = 1
    /\ UNCHANGED <<pusher, registered, accepted, slots, got, shown, sent>>

\* ... or None, when there are no senders any more
NoSenders ==
    /\ at = "select"
    /\ queue = <<>>
    /\ Closed
    /\ at' = "done"
    /\ UNCHANGED <<slots, events, next, got, held, shown, sent>>

\* (mutant) the branches the other way round
PositionsFirst ==
    /\ at = "select"
    /\ permit \/ (queue = <<>> /\ ~Closed)
    /\ at' = "poll"
    /\ UNCHANGED <<slots, events, next, got, held, shown, sent>>

\* ... or nothing yet; then the other branch is polled.
RecvPending ==
    /\ at = "select"
    /\ queue = <<>>
    /\ ~Closed
    /\ at' = "poll"
    /\ UNCHANGED <<slots, events, next, got, held, shown, sent>>

\* notify.notified()
Notified ==
    /\ at = "poll"
    /\ permit
    /\ permit' = FALSE
    /\ at' = "drain"
    /\ next' = 1
    /\ UNCHANGED <<slot, writer, puts, events, got, held, shown, sent>>

\* The queue wakes the task.
Woken ==
    /\ at = "poll"
    /\ queue # <<>> \/ Closed
    /\ at' = "select"
    /\ UNCHANGED <<slots, events, next, got, held, shown, sent>>

\* (mutant) the notifications that came during the drain are taken for served
TakeAndReset ==
    /\ at = "drain"
    /\ got' = [got EXCEPT ![next] = slot[next]]
    /\ slot' = [slot EXCEPT ![next] = 0]
    /\ at' = IF next = K THEN "send" ELSE "drain"
    /\ next' = IF next = K THEN 1 ELSE next + 1
    /\ permit' = (permit /\ next # K)
    /\ UNCHANGED <<writer, puts, events, held, shown, sent>>

\* PositionSlots::drain takes the slots one after the other.
Take ==
    /\ at = "drain"
    /\ got' = [got EXCEPT ![next] = slot[next]]
    /\ slot' = [slot EXCEPT ![next] = 0]
    /\ at' = IF next = K THEN "send" ELSE "drain"
    /\ next' = IF next = K THEN 1 ELSE next + 1
    /\ UNCHANGED <<permit, writer, puts, events, held, shown, sent>>

\* What was drained is sent in the same order, ...
SendPosition ==
    /\ at = "send"
    /\ next <= K
    /\ shown' = IF got[next] = 0 THEN shown ELSE [shown EXCEPT ![next] = got[next]]
    /\ got' = [got EXCEPT ![next] = 0]
    /\ next' = next + 1
    /\ UNCHANGED <<slots, events, at, held, sent>>

\* ... then the event; a Close is the last.
SendFrame ==
    /\ at = "send"
    /\ next = K + 1
    /\ held # NoFrame
    /\ held' = NoFrame
    /\ sent' = Count(sent)
    /\ at' = IF held.close THEN "done" ELSE "select"
    /\ UNCHANGED <<slots, events, next, got, shown>>

AllSent ==
    /\ at = "send"
    /\ next = K + 1
    /\ held = NoFrame
    /\ at' = "select"
    /\ UNCHANGED <<slots, events, next, got, held, shown, sent>>

\* The socket does not take a frame, and the task ends.
SendFails ==
    /\ at = "send"
    /\ IF next <= K THEN got[next] # 0 ELSE held # NoFrame
    /\ at' = "done"
    /\ UNCHANGED <<slots, events, next, got, held, shown, sent>>

SendTask ==
    \/ TakeFrame \/ NoSenders \/ RecvPending \/ Notified \/ Woken
    \/ Take \/ SendPosition \/ SendFrame \/ AllSent \/ SendFails

Next ==
    \/ \E w \in Writers : (\E k \in Kinds : Put(w, k)) \/ Notify(w)
    \/ Tell
    \/ \E p \in Pushers : Lookup(p) \/ PushAction(p) \/ PushClose(p)
    \/ Unregister
    \/ SendTask

\* The runtime polls a task that was woken, no task awaits between a slot and its Notify,
\* or between the action and its Close, and the socket takes a frame or fails.
Fairness ==
    /\ WF_vars(SendTask)
    /\ \A w \in Writers : WF_vars(Notify(w))
    /\ \A p \in Pushers : WF_vars(PushAction(p) \/ PushClose(p))

Spec == Init /\ [][Next]_vars /\ Fairness

-----------------------------------------------------------------------------
(* Properties *)

SlotsType ==
    /\ slot \in [Kinds -> Nat]
    /\ permit \in BOOLEAN
    /\ writer \in [Writers -> {"idle", "notify"}]
    /\ puts \in [Kinds -> Nat]

EventsType ==
    /\ queue \in Seq(Frame) /\ Len(queue) <= Capacity
    /\ pusher \in [Pushers -> {"idle", "action", "close"}]
    /\ registered \in BOOLEAN
    /\ accepted \in Nat

SendingType ==
    /\ at \in Steps
    /\ next \in 1 .. K + 1 /\ (at = "drain" => next <= K)
    /\ got \in [Kinds -> Nat] /\ shown \in [Kinds -> Nat]
    /\ held \in Frame \cup {NoFrame}
    /\ sent \in Nat

\* Every variable holds a value of its kind, and the queue keeps to its capacity.
QTypeOK == SlotsType /\ EventsType /\ SendingType

\* No wake-up is lost: while a position waits in its slot, the send task is on the way to
\* it, or the Notify holds a permit, or a writer is just about to notify.  So the task never
\* sleeps on a position, although it takes the slots one by one while others fill them.
NothingForgotten ==
    \A k \in Kinds : slot[k] # 0 =>
        \/ permit
        \/ \E w \in Writers : writer[w] = "notify"
        \/ at = "drain" /\ next <= k
        \/ at = "done"

\* "Flush any pending position frames first so we don't sit on stale coords while ordered
\* events pass through": when an event is about to be sent, the receiver has been sent the
\* positions, or newer ones, that had been put when the event was queued.
FlushedFirst ==
    at = "send" /\ next = K + 1 /\ held # NoFrame =>
        \A k \in Kinds : shown[k] >= held.after[k]

\* The slots and the send task are a channel in which the latest position wins: positions of
\* a kind are sent in order, and after the last put the last position is sent in the end,
\* unless the socket ends, however many events come first (PositionSlots, send_task).
Channel == INSTANCE PositionChannel WITH newest <- puts, over <- at = "done"
LatestWins == Channel!Spec

\* Whatever the queue has taken is sent in the end, unless the socket ends: no flood of
\* positions, though it has no end, keeps the task from the events (select!, biased).
FramesArrive ==
    \A n \in 1 .. MaxFrames : accepted >= n ~> (sent >= n \/ at = "done")
=============================================================================
