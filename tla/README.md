# A TLA+ verification of hellofriendFS

hellofriendFS keeps track of friends and of what one wants to tell them ("thought
capsules", "hellos"), and lets two users who have each other as friends play live: each
walks a gecko over the other's phone, offers capsules to be won, and earns points.
Two programs serve it. A Django application (`hellofriend/hfroot`) keeps everything that
lasts, in PostgreSQL, and copies of some of it in Redis. A relay written in Rust
(`gecko-socket-rust/src/main.rs`) holds the players' web sockets and passes frames from
one to the other. Django tells the relay over HTTP when a session begins or ends; the
relay asks Django, or Redis before it, who plays with whom.

The project models the part in which actors meet: sessions, their cached contexts, the relay's
rooms and queues, the level of the game, the capsules that two players win from each other, and what
saving a hello does to capsules and to the next meet. Each module says what it leaves out.

File names below are relative to `src/`; `views.py`, `models.py` without a directory are
those of `hellofriend/hfroot/users/`, and `main.rs` is the relay.


## 1. Inventory

| Part | State it keeps | Operations | Hard because |
|---|---|---|---|
| Live session registry (`views.py`, `models.py`, `gecko_level_helpers.py`) | one invite per sender and recipient, one `UserFriendCurrentLiveSesh` row per user, a log per session, the hellos of a session | create, decline, accept an invite; cancel; hello; change the level; two timeouts | a session is two rows of two users, written by requests that read before they lock; a third user's accept displaces a partner |
| Session context (`sesh_cache.py`, `rust_push.py`, `views.py`, `main.rs`) | `gecko_sesh:{user_id}` in Redis, 15 minutes | fill on a miss, drop after a commit, push to the sockets, pull by a socket | a fill races with a commit and its drop; pushes get lost; a worker dies between commit and drop |
| Relay: connections, rooms, presence (`main.rs`) | the map of clients, the map of rooms, each behind a lock of its own | connect, evict, disconnect, `set_friend`, `set_guest_on_screen`, `join_live_sesh`, `leave_live_sesh`, presence requests, the hydrate task | every operation takes the two locks several times; the hydrate task runs beside the handler |
| Relay: queues and position frames (`main.rs`) | a queue of 256 frames and slots of latest positions for every client | send, try_send, position overwrites position | a full queue drops control frames; positions overtake messages |
| Relay: gecko messages, emotions, levels (`main.rs`, `gecko_level_helpers.py`) | the last message for a partner who joins later; the level, in the client of each player, in both rows and in Redis | send, replay on join, broadcast, persist in a task | order of tasks; who connects reads the level while it changes |
| Relay: proxies to Django (`main.rs`) | none | pass a request on, pass the answer back | the answer may come when the client is gone |
| Gecko game wins (`views.py`, `models.py`, `gecko_match_helpers.py`, `friends/`) | a pending offer per recipient, match offers, wins, the scoreboard of a session, points | propose, accept, decline, expire; the capsule's owner edits, deletes or shares it | an offer is read unlocked and answered later; offers, matches and hellos take the same capsule |
| Score and streaks (`gecko_score_helpers.py`, `score_state_cache.py`, `event_award_helpers.py`) | the multiplier row, its copy in Redis, the points ledger | recompute, activate a streak, award | activation by a stale test; Redis is written in another order than PostgreSQL |
| Hourly steps, combined sessions, the 24 h seed (`gecko_helpers.py`, `seed_24h_cache.py`) | 24 buckets per user, sessions of play, totals in Redis | add steps, reset a bucket, extend a session | read, add, save whole; a reset that leaves the time stamp |
| Energy (`gecko_score_helpers.py`) | a number that decays and revives | recompute over a span | floating point over time |
| Friends, links, link codes (`friends/`, `models.py`) | friends, their linked users, codes | make and use a code, link, unlink | uniqueness of a link |
| Capsules, categories, hellos (`friends/`) | rows of one owner | create, edit, delete; a hello archives capsules and deletes others | meets game wins; a save of a hello goes row by row over what other requests write |
| Next meets (`friends/models.py`, `friends/views.py`) | per friend a due date, counters and the previous hello; voided meets; the day of the last refresh | hello, edit, delete; change settings; refresh, remix | rows are read, changed and written whole without a lock; midnights; the client's calendar |
| Accounts, settings, addresses | rows of one owner | plain reads and writes | - |
| Gecko scripts, management commands, migrations, load test, web client | - | - | - |

How they interact: a request to Django commits, then drops keys in Redis, then calls the
relay, which marks or closes sockets. A socket that connects or joins pulls its context
from Redis or Django. The sockets' frames go through the relay's rooms only; a level
change and a game win reach Django through the relay's proxies.

What makes each part correct:

* registry: a live session has two members who name each other, one host and one guest;
  ended sessions stay ended; logs and hellos are those of the session;
* context: Redis says what the database says, or somebody is about to correct it;
* relay: in a room is whoever is bound to it, and nobody else; who is off the screen is
  shown nobody;
* wins: a capsule is won once, from its owner, by the partner; the scoreboard counts the wins of
  its session; what has been shared is not won;
* level: one change that nothing crosses brings rows, keys, clients and front ends together;
* hellos: a capsule is listed, archived or discarded on purpose, and in one place (the code loses
  some that a hello shares, section 4);
* next meets: counters claim no more than there are rows, a meet is voided only when overdue, the
  previous hello is the most recent, and after a refresh nothing is long overdue.

The hazards, each at its line and with the properties that cover it, are listed in
`PROJECT.json`.


## 2. Plan

| Order | Module | Composes | State |
|---|---|---|---|
| 1 | `LiveSesh` | implements `Sessions` | modelled, checked, proved |
| 2 | `SeshContext` | extends `LiveSesh` by Redis, pushes and pulls | modelled, checked, proved; implements `LiveSesh` |
| 3 | `GameWins` | a session reduced to what wins need | modelled, checked, proved |
| 4 | `GeckoSocket` | any context that Redis could answer with | modelled, checked, proved |
| 5 | `SocketQueue` | one client's queue, slots and send task; implements `PositionChannel` | modelled, checked, proved but for liveness |
| 6 | `GeckoData` | one player's counters, buckets, combined sessions, scoreboard side | modelled, checked, proved but for the violation |
| 7 | `GeckoScore` | the multiplier row and its copy | modelled, checked, proved |
| 8 | `Meets` | the next meets of one user's friends | modelled, checked, proved |
| 9 | `HelloCapsules` | one friend's capsules and hellos | modelled, checked, proved but for the violation |
| 10 | `LevelSync` | the level in relay, rows and Redis | modelled, checked, proved |

What could come next: gecko messages beside levels; what `HelloCapsules` and `GameWins` promise together
about one capsule, as an abstract specification.

Every module is written to be proved about: bounds are constants with a named assumption,
there is one action for each operation or for each step of it between two points where
others can run, and no recursive operator is used.


## 3. The modules

Each component `M` has `M.tla`, `MCM.tla` (the instance for TLC), configurations `M*.cfg`
and its proofs (`M_proofs.tla`; those of `LiveSesh` are in `SeshContext_proofs`, which extends it, and
those of the two parts of the relay that concern what it passes on, `SocketQueue` and `LevelSync`,
together in `Relay_proofs`). `PositionChannel` and `Sessions` are abstract specifications with no
instance of their own. Definitions marked `(mutant)` are not used by the specification: they
are the mistakes that the properties are tested with.

### LiveSesh

`row[u]` is the user's `UserFriendCurrentLiveSesh`; it is never deleted, so an old row goes
on naming the last partner. `log[s]` is the session's `UserFriendLiveSeshLog`, `hello` the
`PastMeet`s that an accept writes (the recipient's only if the sender is a friend of theirs:
`Links`), `invite` the one invite of a sender and a recipient.

The database runs at READ COMMITTED without `ATOMIC_REQUESTS`, so a handler is cut exactly
where the code lets another request in: `AcceptRead`, `CancelRead`, `HelloRead` and
`LevelRead` are what is read before the transaction, and `...Commit` is the transaction.
A transaction is one step because it holds the lock of every row it reads or writes.
`After` stands for what follows the commit, `Crash` for a worker that dies or whose
transaction is rolled back.

Time is not a number. A row is live or not, a log open or not, an invite pending or not;
`SeshTimeout` and `InviteTimeout` happen at any moment. The two rows of a session and its
log get the same duration in the same transaction, so they run out together.

`overtaken` is a history variable. An accept displaces the partners it read before its
transaction (`displaced_partner_ids`); when these are not those of the rows that the
transaction then replaces, a partner is left behind in a session with nobody else in it.
`LiveAreMatched` and `LiveLogIsOpen` hold until that has happened.

`Sessions` is the promise: sessions begin one after the other between two users, lose players, and
never get a player back. `RegistryOfPairs` says that the rows keep it.

### SeshContext

The Redis key of a user (`redis`), the socket (`sock`, the `partner_id` of its `Client`),
and what is on its way to the socket (`pull`). A pull is cut at every await:
`CacheHit` or `CacheMiss`, then in Django `ContextRead` and `ContextWrite`, then `Apply`.
After a commit the worker drops its keys (`DropKeys`) and pushes (`Push`); any push may be
lost. `KeyExpires` is the key's time to live. A user has one socket at a time here; that
two may overlap for a moment is in `GeckoSocket`.

`slipped` is a history variable: the keys that may be stale with nobody about to drop them,
for one of the three causes the code has (the session ran out; the worker died; Django
wrote a context that was out of date when it wrote it).

### GameWins

`single[u]` is the user's one `GeckoGameWinPending` row, `match` the open
`GeckoGameMatchWinPending` rows (declined and finalized ones are dropped: nothing looks at
them again), `wins` the `GeckoGameWin` rows. `capsule[c].life` counts how often a row was
brought back: Django's `save()` of a row that has been deleted meanwhile inserts it again.

Requests that read without a lock are jobs of two steps (`AnswerRead` then `ClearOffer` or
`AcceptOffer`; `EditRead`, `EditSave`; `HelloRead`, `HelloArchive`; `ProposeMatch`,
`DeclineOlder`, `InsertMatch`); the finalizers that lock what they read are one. The
cascade of a deleted capsule (`SingleWithout`, `MatchWithout`, `JobsWithout`) is part of
every action that deletes one. `_finalize_locked` clears the user's row before it deletes the
capsule, so the row, empty, survives the cascade, and a second answer that has read the same offer
can save it too: what stops that one is the lock of a capsule that is gone, and `WonOnce` rests on
it (its mutant takes the offer at its word). Two match offers may be open at once: two proposals
that overlap decline the older ones before either inserts its own.

Left out: the points that follow a win in its transaction (`_award_win_points`; a failure is logged
and swallowed, so a win may go unpaid and no property says otherwise), notifications, and
`BatchUpdateCoords`, which changes no type. An offer's expiry is a choice at the time of its
answer. A hello's reads are taken at one moment.

### GeckoSocket

`client[c]` is the `Client` in the shared map or `Gone`, `rooms[u]` the room
`gecko_shared_with_friend_{u}`, `handler[c]` where the handler of c's message is,
`task[t]` a spawned task, `sees[c]` what the last `peer_presence` frames told c.

A step is one use of a lock; only a broadcast, which reads who is in the room and then who they
are, is one step. Between two steps of a handler tasks, cleanups and other clients run:

* `set_friend` is `SetFriend` (the check); then `WriteFriend`, `Check` (the client is looked up
  once more) and `Bind` (it joins). If the check refuses the friend, the client goes dark instead.
* `set_guest_on_screen` is `SetGuestOnScreen` (is it a host?), `WriteScreen`, and then `Check` and
  `Bind`, or `Look`, after which the client goes dark.
* Going dark is `UnseePartner` (the client is told), `Darken` (its room is told) and `LeaveRoom`, all by
  the copy of the client that was looked up first. `leave_live_sesh` is `Leave`, `Darken`,
  `LeaveRoom` and `Clear`.
* `request_peer_presence` is `RequestPeerPresence` and `Answer`.
* A task is `TestPartner` (on a join: a client with a partner asks for no context), then `NoHydrate`,
  or `Apply` (the context is written), `HydrateChecks` and `HydrateJoins`; then `Speak` looks at
  both sides and `Tell` tells them.
* `disconnect_cleanup` is `Hangup`, `Remove` and `Purge`; the receiving task goes on meanwhile, as it
  does in the code when the sending task ends first. Eviction by a newer socket is one of the
  reasons to hang up.

A context is any that Redis or Django may answer with, stale ones included. A user's
membership in the own room is left out: nothing reads it but to skip it.

Two history variables name what the code does not guard against, and each is an exception of the
properties that mention it. `crossed` has the clients that got a context, a join or a word at a bad
moment: a context that makes them host of one friend between the check of `set_friend` and its write
of another, or that is another than the one they had; a join decided before and made after the
client left or went; an answer of the connect task that comes when the client is not bound any
more. `ousted` has the clients that a message put out of the room they are bound to, until they say
again what they show: a host whose `set_friend` is refused, and a guest that goes off its screen
while a host's context arrives.

One observation: `broadcast_peer_presence_online_to_room` filters the room by
`sesh_presence_allowed`; by `MembersAreBound` the filter lets everybody through except for
clients that were crossed. It is what keeps those from being told too much.

### SocketQueue

What waits for one socket of the relay: `queue` (the mpsc channel of `main.rs:349`), `slot[k]`
with the newest position of each kind (`PositionSlots`), `permit` (whether the `Notify` holds
a notification). A position is its number; `puts[k]` counts those put. A frame remembers the
positions that were put before it (`after`), which the code does not: it is what
`FlushedFirst` is about.

Positions and events come without end: no guard counts them. Only the numbers are bounded. The last
number of a kind (`MaxPuts`) is that of all positions that follow, and the frames after the first
`MaxFrames` are passed on like the others but not counted. (Among positions with the last number a
property cannot tell the newest; what it says of an order, it says of those before.) Neither is read by what is modelled
of the code, so that nothing depends on where the numbers end. This is what makes `FramesArrive`
and `LatestWins` claims about floods: with the branches of the `select!` the other way round
(`PositionsFirst`), the positions starve the events.

A step is one use of a lock, the queue, the `Notify` or the socket: `Put` fills a slot and
`Notify` notifies; `Take` empties one of the slots that `drain` goes through. The send task's
biased `select!` is `TakeFrame`, `NoSenders` or `RecvPending` (the first branch), then
`Notified` (the second), or asleep until `Woken`. A send that fails (`SendFails`) ends the task.
`Tell` is any handler that queues an event for the client; pushes from Django and evictions
copy the sender under the lock (`Lookup`) and use it later (`PushAction`, `PushClose`), perhaps
after `Unregister`. What does not fit into the queue is dropped (`TrySend`), a `Close` too: a
push with `close_after` into a full queue closes nothing.

Which clients a broadcast reaches is `GeckoSocket`'s business: here this client is in the map
or not. What drops the last sender of an unregistered client, the return of `handle_socket`, is
one step with its cleanup.

`PositionChannel` is the promise: of each kind the receiver is shown positions in the order
of the puts, some left out, and in the end the newest, unless the socket ends.

### GeckoData

`process_gecko_data` for one player. `gecko[f]` and `lifetime` are the counters per friend and of a
lifetime, `hours[h]` the bucket of an hour of the day with the time of its creation (`since`, the
`updated_at` that no later update changes), `sessions` the combined sessions, `side[l]` the player's
row of the l-th live session's scoreboard, `seedKey` the sum of the buckets in Redis. `units` stands
for steps, distance and points, which the statements add alike.

The function is one transaction, and its locks decide what can overlap: `LockFriend` and
`LockTotals` take the row locks of the first two updates, which last to the end. `Count` writes the
bucket (seen by nobody until the commit) and tells Redis, at once, the sum that the transaction
sees; `FindSession` reads the session to be extended; `Accrue` looks up the live session;
`Commit` makes all of it visible; `Fail` rolls it back, except for Redis. A request skips the steps
for which it brings nothing (`FriendOrLater` to `AccrueOrCommit`), which is why the locks are worth
a proof: who brings no units does not lock the totals, and who plays alone has no friend's row.
`SeedMiss` and `SeedFill` are the two halves of `load_24h_seed`; `NewLiveSesh` is an accept that
replaces the current log.

`walked`, `thisHour` and `seedBy` are history variables: what a session took in, what was counted in
the present hour, and who wrote the seed last.

Left out: the duration; the ledger rows (they are in `GeckoScore`); the context dropped and the
score pushed after an accrual; requests without friend and units, which the relay does not send; a
transaction that lasts for two hours.

Two observations that no run checks. A new combined session is tagged with the player's current
live log whether or not that is with the session's friend (`gecko_helpers.py:441`; the scoreboard's
test at line 500 is not made), though the tag is to mean "same session" (`models.py:1238`). And the
24 h sum has the buckets of hours in which the player has not moved since an earlier day: nothing
resets them but the next update of that hour.

### GeckoScore

A streak is the pair of a multiplier and an expiry, named by a number in the order they were
computed. `score` is the pair in `GeckoScoreState`, `scoreKey` its copy in Redis, `ledger` the
streaks at whose multiplier points were booked. `apply_gecko_data_update` is `Update` (read the row,
resolve the points, perhaps begin a streak), `UpdateSave` (the commit), `UpdateKey` (Redis, after
it) and `Book`; `award_requested_points` is `Award` on a warm cache, `AwardCold` and `AwardFill` on
a cold one; `Patch` and `PatchSave` are the two REST views, of which neither tells Redis. `Fail` ends
a request anywhere. `scored` is a history variable: the streaks the row has had.

One observation that no run checks. An update that begins no streak saves the multiplier and expiry
it read (`gecko_score_helpers.py:520`), and so does a PATCH of the configuration: a streak that
another request began in between is undone in the row, and Redis may have it until the next
update. "Redis can never be ahead of Postgres" (line 529) therefore holds in the sense of
`CacheWasCommitted` only: what Redis says has been in the row, not that it still is.

### Meets

`next[f]` is the friend's `NextMeet`, `helloes[f]` the dates of the `PastMeet`s in the order they
were entered, `voided[f]` the number of `VoidedMeet` rows, `last_upcoming_update` the
`UpdatesTracker`, `upcoming_friend` the field of the settings. `today` is the server's calendar; a
client's may differ by `Skews`.

Django saves whole rows, and none is locked before it is written. A request therefore takes its
copies when it comes (`Hello`, `DeleteHello`, `ChangeSettings`, `Upcoming`, `Combined`, `Remix`);
`Save` is the part of `NextMeet.save` before its `UPDATE`: it looks up the most recent hello and, if
the copy's date is over, makes a voided meet and another date; `Commit` makes it visible. A remix
commits every friend by itself, the others all at once. `Fail` is the foreign key: a request that
has looked up a hello which is deleted meanwhile is refused. `Show` writes the soonest friend to
the settings. `NewDay` is midnight; no request lives through two.

The dates are the code's arithmetic: `timespan` for a new date, `CatchupDays` for a missed one. The
random day is any of the span; `timespan` has at least two days, which the proofs use.

`raced` is a history variable: per friend, what had changed (the row, the helloes) under the request
that saved the row last. `PreviousIsLatest` and `VoidsOnlyOverdue` except what it names, since the code does
not guard it. `VoidsOnlyOverdue` also excepts remixes, which put every date to yesterday to have new ones
drawn, and so count a miss that nobody missed (`friends/views.py:574`); the code says nothing of whether that is
meant.

Left out: `manual_reset`, which nothing passes; the fallback of two days for a date that cannot be
computed.

### HelloCapsules

`listed` are the friend's `ThoughtCapsulez`, `copies[c][h]` the `CompletedThoughtCapsulez` of c and
hello h, `helloes` the `PastMeet`s. `PastMeet.save` runs in one transaction (`Hello` or `EditHello`
and `SaveHello`, then `GetShared`, `DeleteRow`, `Wipe`, `Commit`), but goes row by row, so that two
of them, and the owner's adds, edits and deletions, meet in the middle. `lock[c]` is who has deleted
the row and not yet committed: the next to delete it waits, and finds nothing left if the first
commits. `Fail` is anything that raises, a deadlock of two saves included: all is rolled back.
An edit of a hello saves it again, loop and all (`SaveHello` from "read"); its own row keeps two
saves of one hello apart (`Held`).

Three history variables. `discarded` has what was removed on purpose: by the owner, with a deleted
hello, or by a hello that says so and does not name it. `wiped` has what a hello names as shared and
deletes with the rest all the same. `crossed` has what a request wrote back, or archived, although it was
gone by then. `CapsulesAreAccountedFor` says that the wipe is the only way to lose a capsule, and
excepts `crossed` from "in one place"; that the wipe happens is the run `hellocapsules_shared`.

Categories, locations and images, and the `IntegrityError`s that they may raise, are `Fail` at most.

### LevelSync

A session's game level is in five places: `client[p].level` in the relay, `row[p]`, the key
`redis[p]`, what a front end last heard (`told[p]`), and on its way (`change`, `task`). A change
writes the clients (`RequestLevelChange`), tells the room (`BroadcastLevel`), and in a task of its
own looks its client up and posts (`Persist`); Django updates both rows (`ApplyLevelChange`) and
drops both keys (`DropKeys`). A client that connects or joins without a context pulls it: `Pull` (Redis), `ReadRow`
and `Fill` (Django), `Apply`; then `Look` and `Send` are the `peer_presence` frames, which carry the
level. Any of these may overlap with a change; a post may fail (`FailPersist`), Django may not answer (`NoAnswer`), a key
may expire.

`trust` is a history variable: "alone" while a change is made that nothing crosses, "yes" when it
is through, "no" after a change that was lost, or crossed by another or by somebody who was reading the level.
`ChangeAloneHeals` says that with trust all five places agree. It is the comment in
`persist_level_change_to_django`, that a lost change "self-heals on the next successful change".

Three observations that no run checks. A change whose socket closes before its task looks the client
up is never posted, though it is persisted "so the change survives reconnect/rehydrate"
(`main.rs:1262-1265`). A player who changes the level before the context has arrived changes only
the own client. And a player who connects while a change is on its way pulls the old level and
writes it back over the partner's view: `ChangeAloneHeals` does not claim otherwise.

The session lasts, and a player has one client at a time. Messages and emotions, which are passed on in the
same way but never stored in Django, are left out.


## 4. Model checking

| Run | Expect | What it asks |
|---|---|---|
| `livesesh` | pass | `TypeOK`, `SessionsArePairs`, `LiveAreMatched`, `LiveLogIsOpen`, `RegistryOfPairs` (`Sessions`' specification) |
| `seshcontext` | pass | `CTypeOK`, `StaleKeyIsOwed` |
| `gamewins` | pass | `GTypeOK`, `OffersStand`, `WonOnce`, `WinsAreFair`, `ScoreboardCounts`, `SharedStaysUnwon` |
| `geckosocket` | pass | `STypeOK`, `MembersAreBound`, `BoundAreMembers`, `OffScreenSeesNobody` |
| `socketqueue` | pass | `QTypeOK`, `NothingForgotten`, `FlushedFirst`, `LatestWins` (`PositionChannel`'s specification, fairness included), `FramesArrive` |
| `geckodata` | pass | `DTypeOK`, `SessionsKeepSteps`, `ScoreboardWithinFriend`, `SeedIsSum` |
| `geckodata_hours` | violation | `HourCounts` |
| `geckoscore` | pass | `ScoreTypeOK`, `PaidWasCommitted` |
| `meets` | pass | `MTypeOK`, `VoidsHaveRows`, `PreviousIsLatest`, `OverdueIsBounded`, `VoidsOnlyOverdue` |
| `hellocapsules` | pass | `HTypeOK`, `CapsulesAreAccountedFor` |
| `hellocapsules_shared` | violation | `SharedAreArchived` |
| `levelsync` | pass | `LTypeOK`, `ChangeAloneHeals` |

### Bounds

* `livesesh`: three users, of whom two have each other as linked friends and the third has
  one of them. Three are needed, and enough, for a displaced partner; three sessions let a
  displaced user start one anew; two workers give every overlap of two requests. One level
  is enough: no invariant compares levels.
* `seshcontext`: one worker, two sessions and one followed user who is displaced by the
  second. Redis keys of different users never meet, so one reader is enough; one pull at a
  time, because two pulls of one user differ only in which writes last.
* `gamewins`: two users and three capsules (one that is offered, one that can be offered or
  matched, one to match it with), two requests under way, two open matches, so that overlapping
  proposals both get theirs, and two sessions, so that a win may be counted for a session that is
  over. One capsule can be brought back once.
* `geckosocket`: two users with a connection each and a former partner without one, two
  friends so that a host can look at another than the session's, two messages of the one client and
  one of the other (what happens to a client in the middle of a message comes from tasks and from the
  partner's messages), two tasks at a time. The one user's contexts are the session's, in which
  it is the host, one of an earlier session with the same partner in the other role, and one with
  another partner. Deadlock is not checked: the bounded connections and messages run out.
* `socketqueue`: two of the three kinds (the drain is at one while the other fills), two
  numbers for the positions of the first, so that one overtakes another in its slot, and one for the
  second; a writer and a pusher, two frames that are counted, and a queue of two, which two pushes
  fill. Positions and events themselves have no bound. A second writer would only notify more often;
  the safety properties are proved for any number. Deadlock is not checked: the socket ends.

* `geckodata`: two overlapping requests and a third after or between them, two friends, of whom one
  may have the live session, units zero and one, two windows of which the second goes on where the
  first ends (so a session is extended, or begun beside another), a day of two hours and a
  third hour that returns to the first bucket. `geckodata_hours` needs one request at a time and
  one friend. Deadlock is not checked: calls and hours run out.
* `geckoscore`: three requests at once, so that one can begin a streak, one save its old copy and
  one fill a cold cache, four calls and two streaks. Deadlock is not checked, for the same reason.

* `meets`: one friend (friends meet only in the refresh, which commits all of them, and in `Show`), two
  requests at a time and three in all, so that two overlap and a third finds what they left; one
  hello beside the first, dated today or 40 days ago, so that it may be the earlier or the later of
  the two; three midnights; the shortest spans (`Effort` 5, two priorities, and of their days the
  second and the fourth: `DueIn`), so that meets run out within that time; a catch-up day at its lowest
  (`Draws`); a client on the server's day or a day ahead. The theorems have none of these bounds.
  Deadlock is not checked: calls, helloes and days run out.
* `hellocapsules`: two capsules, since the loop and the deletion of the rest meet at the second; the
  first hello and another; two saves at a time, which deadlock on two rows; four calls, so that an edited
  hello is saved again after others. Deadlock is not checked, for the same reason.
* `levelsync`: two levels; two changes, of which the first may be lost or crossed and the second heals;
  two tasks that tell levels, so that one may cross a change that another has heard of; only the guest
  leaves (either may ask for changes and join). Nobody asks for the level that is: that changes
  nothing. Deadlock is not checked: changes and tasks run out.

Workers and tasks are interchangeable, and are used as symmetry sets where no action property
or ordering depends on them.

### What the violations show

1. `HourCounts`: "Resets a bucket when its updated_at is older than 1 hour ago, otherwise
   increments" (`gecko_helpers.py:236`). `updated_at` is written when the bucket is created and
   never again, so that a day later every update of the hour resets it: the bucket, and with it the
   seed in Redis, has only the last request's steps.
2. `SharedAreArchived`: "Delete all unused capsules?" (`AddHelloModal.jsx:436`, in the web client). The deletion of the rest
   stands inside the loop over the shared capsules (`friends/models.py:1393-1397`), so after the
   first is archived the other shared ones are deleted with the rest, and the loop passes over
   them.

### What the code does not keep, without a run

The models have these steps, so no property says that they do not happen; no run is spent on them.

* `gecko_level_helpers.py:66` says that "a concurrent reconnect can never repopulate Redis from a
  pre-commit read". It can: the fill reads before the commit and writes after the drop
  (`views.py:1306`). `StaleKeyIsOwed` counts it among its causes (`slipped`).
* `rust_push.py:138` says "Rust socket re-pulls ... on next join_live_sesh". Only a socket without
  a partner does (`main.rs:966`), and a partner is never cleared.
* `views.py:2336` says "refuse to finalize a win for a type that can't be gamed". The test reads
  the type in the offer, not the capsule's: an owner who makes a capsule ungameable after offering
  it loses it all the same.
* `main.rs:2539` says that presence flows "only when their FE confirms they're on the correct
  screen". A refused `set_friend` (797) takes the host out of the room but leaves the old
  `friend_id`, so the host still counts as in the session (`ousted` in `GeckoSocket`).
* A guest that goes off its screen is looked up once more (`main.rs:890`) before it leaves the room of
  that copy (923). If a context came in between that makes it a host whose friend is on the screen,
  it leaves the room that it has just joined, and nothing joins it again (`ousted`, too).

* `cancel_current_live_sesh` does not look at `expires_at` (`views.py:1164`), so a user whose session
  is over can cancel the new session of the former partner with somebody else.
* `accept_live_sesh_invite` decides "Invite not found or already accepted." (`views.py:1792`) before its
  transaction and not again in it, so two accepts that overlap start two sessions.
* Two sockets of a user that connect at once do not evict each other (`main.rs:342`), and the `Close` of
  an eviction is dropped by a full queue (2470).

Seen while reading, in code that no module has in this detail:

* a session that expires is not announced to the sockets (`views.py:1122`): frames keep flowing between
  players whose session Django no longer has;
* a failure of a points award is logged and swallowed (`views.py:2092-2093`): the win is never paid;
* two match finalizations that share a capsule lock their two capsules in the orders of their own rows
  (`views.py:2698`); PostgreSQL ends one of them, with nothing changed;
* an edit of an old hello that says to delete the unshared capsules deletes those added since
  (`friends/models.py:1404`);
* the branch of `PastMeet.save` for a typed location uses `new_location` where it may be unbound
  (`friends/models.py:1241-1290`).

### Fairness

All modules but `SocketQueue` assume none: what they are checked for is
safety, and every request may stop anywhere.

`SocketQueue` assumes weak fairness of the send task (`SendTask`: tokio polls a task that was
woken, and a send to the socket succeeds or fails in the end), of a writer between slot and
notification, and of a pusher between its sends (no `await` lies in between). Nothing is assumed
of those who put positions or push events, and nothing makes a client go. Weak fairness of
the send task as a whole is enough because its steps have no choice but a failing socket.


## 5. Proofs

All theorems are for every value of the constants, from the assumptions that the modules
name and TLC evaluates on its instance. Invariants carry the same names as in the runs.

**SeshContext_proofs: LiveSesh.** The module proves `LiveSesh` and what `SeshContext` makes of
it. The inductive invariant `IInv` is the conjunction of all invariants of
the run `livesesh` with two strengthenings. `RequestsKnowTheirUsers`: an accept that has yet
to commit is for an invite between linked users and displaces neither of the two.
`SessionsHaveStarted`: no row and no hello is of a session that has not begun, which is why
an accept's session id is new, and hence why replacing two rows cannot make a third row
theirs. `Invariance` proves `Spec => []IInv`, one step per action; `TypeCorrect`,
`PairsAreSessions` (`SessionsArePairs`), `NobodyIsStranded` (`LiveAreMatched`),
`LogsOutliveRows` (`LiveLogIsOpen`) and the action property `SessionsAreFinal` (`SessionIsFinal`: an ended session stays ended; proved only) follow.

`RowsAreSessions` proves that `LiveSesh` implements the abstract registry `Sessions`
(`RegistryOfPairs`), with the users whose live row is of session s as the players of s. A step of `LiveSesh` begins a session
(`AcceptBegins`), takes users out of sessions (`ExpiryLeaves`) or is a stutter (`LevelRows` and the steps
that write no row). That an accept ends the old sessions of both users for their partners
rests on `SessionsArePairs`: who plays with one of them is named by that one's row (`PlayersAreNamed`).

**SeshContext_proofs: SeshContext.** `CacheKeepsRegistry`: `CSpec => Spec`, every step of the composition is
a step of `LiveSesh` or leaves its variables alone, so all theorems above hold for it;
`CTypeCorrect`; and `StaleKeysAreOwed`, for any number of users, workers and pulls.

**GameWins_proofs.** `OInv` adds two things to `OffersStand`: nobody plays with themselves
(`NotToOneself`), and a request still fits the capsules it read (`RequestsFit`), needed
because a match is inserted by a request that looked at its capsules earlier. `WInv` adds
to `WonOnce` that what is archived, as a win or in a hello, is spent (`ArchivesAreSpent`): its
row is gone, or lives a later life. It rests on lemmas that say how each way of writing
capsules ages them (`CapsuleAges`). The theorems are `GTypeCorrect`, `OffersAlwaysStand`,
`CapsulesWonOnce`, `SharedNeverWon` (the action property `SharedStaysUnwon`) and
`WinsAlwaysFair`. `ScoreboardAlwaysCounts` proves `ScoreboardCounts`. What a counter is compared with is the number of places in the archive that fit (`Places`), which
grows by one with every win that fits and by nothing else (`CountWithOne`, `CountWithTwo`).
`ScoreInv` adds to `ScoreboardCounts` that no win is of a session yet to come (`WinsOfBegun`): a
new scoreboard starts with nothing to count, and a win finalized late, when the player is in another session
by then, is nobody's.

**GeckoSocket_proofs.** `STypeCorrect`. `MembersStayBound` proves `MembersAreBound` from `MInv`:
a client's room is its partner's (`PInv`), and one that is not crossed and sits in a room is bound to
it, or its handler has the copy by which it will be taken out; a host's message past the check names
the session's friend (`Sits`). `BoundGetIn` proves `BoundAreMembers` from `BInv`: a client that is
bound, and not ousted, is in the room, or its handler or a task has yet to look it up or to join it
(`Joining`). `HiddenSeesNobody` proves `OffScreenSeesNobody` from `VInv`: a client is shown its partner
or nobody, nobody if it is off its screen and has been told so (`Blind`), and a handler or a task
that is about to tell it of a user tells it of its partner (`Answering`, `Views`). The exceptions,
`crossed` and `ousted`, are the theorems' as they are the properties'.

**Relay_proofs: SocketQueue.** `QTypeCorrect`. `NothingIsForgotten`: `NothingForgotten` is inductive over
the types. `PositionsFlushedFirst` and `ChannelRefined` (`Spec => Channel!Safety`) rest on
`InOrder`: of each kind the newest position waits, has been drained or has been sent, and one
further on is not newer (`Newest`); a drain starts with nothing left of the last (`Drained`); and an
event that the task holds is after positions that have been drained or sent (`HeldAfter`,
`QueuedAfter`). That the newest position and the events arrive in the end is checked only.

**Relay_proofs: LevelSync.** `LevelsTyped`; it needs that a hydrate which is about to write Redis has read
a row (`Writing`). `OneChangeHeals` proves `ChangeAloneHeals` from `LevelInv`, which says what holds on the
way there. While a change is made alone (`Alone`), it is the only one and no task holds a level
that it has read; the clients have its level from the start, who is in the room has been told
once it is broadcast, and the rows have it once it is applied (`Gathers`). Dropping the keys is what
makes all agree (`Agreed`): rows, keys, clients, what was told, and what every task carries that read
a level since (`Carries`). Who comes, goes or asks disturbs neither, a task that reads during the
change ends the trust in it, and one that reads afterwards reads what all have.

**GeckoData_proofs.** `DTypeCorrect`. `NoStepsLost` proves `SessionsKeepSteps` from `DataInv`: a request
past the first two updates holds the friend's row, or is alone and holds the totals
(`HoldsRows`); hence two requests that extend a session of the same friend are never both between
reading it and committing, and the steps a request has read are those the session still has
(`ReadsStand`). `SumIsOfBuckets` proves `SeedIsSum` from `SeedInv`: the sum a request has told Redis is that
of the buckets with its own in place (`SumStands`), and no two requests have one in hand, as it is only for units that a
request has one and who brings units holds the totals (`BucketsForUnits`). `BoardsWithinFriend` proves
`ScoreboardWithinFriend` from `BoardInv`: a request adds to one side of a friend's boards no more than to the
friend's counter, both at its commit (`LogsFit`). A side of the boards is a sum over
the sessions that still run, a fold of the community modules. What it is, is proved by induction over the
number of sessions, stated for a set of numbers and not for a predicate (`NatSets`), which the provers can
instantiate: it exists (`SumExists`), takes one more number (`SumUnfolds`, `SumTakes`) and is the same for
equal values (`SumSame`). For `SeedIsSum` no such lemma is needed: the sum of 24 hours is
the same function of the same buckets on both sides.

**GeckoScore_proofs.** `ScoreTypeCorrect`, `CacheFollowsCommit` (`CacheWasCommitted`, proved only) and `PointsFollowCommit` from
`ScoreInv`: besides the three properties it says that what a request is about to tell Redis, or
to book, was in the row before (`Known`).

**Meets_proofs.** `MTypeOK` and the other four properties follow from `MInv`, the conjunction of seven
parts: the columns' and the requests' types (`Columns`, `JobsOK`); what a request has loaded fits
its operation (`Shapes`); the counters of the copies do not exceed the voided meets they stand
for, a miss that is yet to be committed included (`Counts`: needed because a request
writes counters that it read before others counted); days (`Days`: no hello is dated more
than three days ahead, no request is older than a midnight, and a copy that is ready to be
written is not overdue by more than that; this gives `OverdueIsBounded`); a copy is the row unless marked as
outdated (`Reads`: gives `VoidsOnlyOverdue`); and a copy that was looked up names the most recent hello as the
request will leave them, unless marked (`Names`: gives `PreviousIsLatest`). Two assumptions
are about the client, which the program does not check: that no hello is dated more than three days
ahead and that its calendar is a day ahead of the server's at most.

**HelloCapsules_proofs.** `CapsulesTyped` and `OnlyTheWipeLoses` (`CapsulesAreAccountedFor`) from `CapsuleInv`. Beside the two
properties it says what a request may rely on (`JobHolds`): the rows it has deleted are its own, by
their locks, and are there until it commits, so that a roll back restores them; what it deletes it has archived,
unless the hello says to delete the rest. What is in an archive was a capsule once.
That two saves of one hello exclude each other (`Held`) is not needed.

Every safety property of the passing runs is proved. What stays with TLC: the liveness of `SocketQueue`
(`LatestWins`, `FramesArrive`), the two violations, and whether every action can happen at all.


## 6. Not modelled

* Gecko messages and emotions in the relay: passed on, the last one replayed to a partner who joins.
* Points for events (`event_award_helpers.py`), which have no multiplier; durations.
* Links and codes: a code is used in one request under a unique constraint. `LiveSesh` takes links as a
  constant; unlinking while sessions run is left out with them.
* Energy: floating-point arithmetic over time spans.
* Accounts, settings, addresses, gecko scripts, categories, images, locations: single rows of their
  owner. (One that is more: saving a capsule without a category makes one, which raises when the user
  has as many as are allowed, `models.py:466-472`.)
* `end_current_live_sesh` (`views.py:1127`): no route leads to it. Its transaction is the one of
  `cancel_current_live_sesh`.
* `consumers.py` and its routes: commented out; the relay has taken their place.
* Management commands, migrations, the load test, the web client, vendored files.

Most of the repository's lines are in files without logic of its own to check: the vendored
`get-pip.py` is more than half of them, `consumers.py` is commented out, and serializers, admin and
plain views are single reads and writes. What is mapped is the code in which actors meet.
