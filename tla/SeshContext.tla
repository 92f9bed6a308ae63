----------------------------- MODULE SeshContext -----------------------------
(***************************************************************************)
(* How a session reaches a player's socket.  The Rust server pulls the     *)
(* context of a user (the partner, the seat, the level) from Redis, or,    *)
(* when there is none, from Django, which reads the user's session row and *)
(* fills Redis.  A request that changes session rows drops the cached      *)
(* contexts once it has committed, then pushes to the sockets.             *)
(*                                                                         *)
(* A user has one socket at a time: handle_socket evicts the older one.    *)
(***************************************************************************)
EXTENDS LiveSesh

CONSTANTS Readers,  \* the users whose socket and Redis key are followed
          Pulls,    \* bound: context pulls that can be under way at a time
          None,     \* no key in Redis
          NoSesh,   \* the context of a user without a live session
          NoPull,
          Off       \* the user has no socket

ASSUME ReadersAssumption == Readers \subseteq Users
ASSUME ContextsAssumption ==
    /\ None \notin [partner : Users, is_host : BOOLEAN, level : Levels] \cup {NoSesh}
    /\ NoSesh \notin [partner : Users, is_host : BOOLEAN, level : Levels]
    /\ {NoSesh, Off} \cap Users = {}
    /\ NoSesh # Off
ASSUME NoPullAssumption ==
    NoPull \notin [user : Readers, step : {"ask", "django", "write", "apply"},
                   heard : BOOLEAN,
                   got : [partner : Users, is_host : BOOLEAN, level : Levels]
                            \cup {NoSesh}]

VARIABLES
    redis,      \* [Readers -> the context under gecko_sesh:{user_id}, or None]
    pull,       \* [Pulls -> a context on its way to a socket]
    sock,       \* [Readers -> partner_id of the user's Client, NoSesh if it has none]
    refreshed,  \* the sockets told sesh_context_refresh that have not joined since
    dropped,    \* [Workers -> the worker's request has dropped its keys]
    slipped     \* history: keys that nobody is going to drop though they may be stale

cacheVars == <<redis, pull, sock, refreshed, dropped, slipped>>
allVars == <<vars, cacheVars>>

Contexts == [partner : Users, is_host : BOOLEAN, level : Levels] \cup {NoSesh}
Pull == [user : Readers, step : {"ask", "django", "write", "apply"}, heard : BOOLEAN,
         got : Contexts]

\* What rust_live_sesh_context answers for u, read from the row and what hangs on it.
Context(u) ==
    IF Live(u) THEN [partner |-> row[u].other, is_host |-> row[u].is_host,
                     level |-> row[u].level]
    ELSE NoSesh

\* sesh_cache.invalidate
Dropped(us) == [u \in Readers |-> IF u \in us THEN None ELSE redis[u]]

CInit ==
    /\ Init
    /\ redis = [u \in Readers |-> None]
    /\ pull = [p \in Pulls |-> NoPull]
    /\ sock = [u \in Readers |-> Off]
    /\ refreshed = {}
    /\ dropped = [w \in Workers |-> FALSE]
    /\ slipped = {}

-----------------------------------------------------------------------------
(* The requests of LiveSesh, as the cache sees them *)

\* Everything up to and including the commits leaves Redis and the sockets alone.
RegistryStep ==
    /\ InviteStep \/ \E w \in Workers : ReadStep(w) \/ CommitStep(w)
    /\ UNCHANGED cacheVars

\* The first callback after the commit
DropKeys(w) ==
    /\ job[w].op = "after"
    /\ ~dropped[w]
    /\ redis' = Dropped(job[w].drop)
    /\ slipped' = slipped \ job[w].drop
    /\ dropped' = [dropped EXCEPT ![w] = TRUE]
    /\ UNCHANGED <<vars, pull, sock, refreshed>>

\* What closing the sockets of us leaves of the pulls: one that is not at Django has
\* nobody to apply it to, one that is at Django goes on and fills Redis.
Unheard(us) ==
    [p \in Pulls |->
        IF pull[p] # NoPull /\ pull[p].user \in us
        THEN IF pull[p].step \in {"django", "write"}
             THEN [pull[p] EXCEPT !.heard = FALSE] ELSE NoPull
        ELSE pull[p]]

\* (mutant) a user without a socket is told, too
ToldAnybody(told, shut) == (refreshed \cup told) \ shut

\* internal_push_user reaches the users who have a socket.
Told(told, shut) == (refreshed \cup {u \in told : sock[u] # Off}) \ shut

\* refresh_sesh_context and cancel_live_sesh.  A push may get lost: Django logs the
\* failure and goes on, Rust drops what does not fit in the socket's queue.
Push(w) ==
    /\ dropped[w]
    /\ After(w)
    /\ dropped' = [dropped EXCEPT ![w] = FALSE]
    /\ \E told \in SUBSET (job[w].refresh \cap Readers),
          shut \in SUBSET (job[w].close \cap Readers) :
          /\ sock' = [u \in Readers |-> IF u \in shut THEN Off ELSE sock[u]]
          /\ pull' = Unheard(shut)
          /\ refreshed' = Told(told, shut)
    /\ UNCHANGED <<redis, slipped>>

\* A worker that dies with its keys not yet dropped leaves them to their time to live.
WorkerCrash(w) ==
    /\ Crash(w)
    /\ dropped' = [dropped EXCEPT ![w] = FALSE]
    /\ slipped' = IF job[w].op = "after" /\ ~dropped[w]
                  THEN slipped \cup (job[w].drop \cap Readers) ELSE slipped
    /\ UNCHANGED <<redis, pull, sock, refreshed>>

\* Nothing drops the key of a user whose session runs out.
SessionRunsOut(s) ==
    /\ SeshTimeout(s)
    /\ slipped' = slipped \cup
          {u \in Readers : Live(u) /\ row[u].session_id = s}
    /\ UNCHANGED <<redis, pull, sock, refreshed, dropped>>

\* TTL_SECONDS
KeyExpires(u) ==
    /\ redis[u] # None
    /\ redis' = Dropped({u})
    /\ slipped' = slipped \ {u}
    /\ UNCHANGED <<vars, pull, sock, refreshed, dropped>>

-----------------------------------------------------------------------------
(* Sockets and their pulls *)

NewPull(u) == [user |-> u, step |-> "ask", heard |-> TRUE, got |-> NoSesh]

\* handle_socket: the new socket evicts the older one and pulls the context.
Connect(u) ==
    /\ \E p \in Pulls : /\ pull[p] = NoPull
                       /\ pull' = [Unheard({u}) EXCEPT ![p] = NewPull(u)]
    /\ sock' = [sock EXCEPT ![u] = NoSesh]
    /\ refreshed' = refreshed \ {u}
    /\ UNCHANGED <<vars, redis, dropped, slipped>>

\* disconnect_cleanup
Disconnect(u) ==
    /\ sock[u] # Off
    /\ sock' = [sock EXCEPT ![u] = Off]
    /\ pull' = Unheard({u})
    /\ refreshed' = refreshed \ {u}
    /\ UNCHANGED <<vars, redis, dropped, slipped>>

\* handle_join_live_sesh pulls the context of a client that has no partner, and
\* answers from what the client has otherwise.
Join(u) ==
    /\ sock[u] # Off
    /\ refreshed' = refreshed \ {u}
    /\ IF sock[u] = NoSesh
       THEN \E p \in Pulls : pull[p] = NoPull /\ pull' = [pull EXCEPT ![p] = NewPull(u)]
       ELSE pull' = pull
    /\ UNCHANGED <<vars, redis, sock, dropped, slipped>>

\* hydrate_live_sesh_context finds the key ...
CacheHit(p) ==
    /\ pull[p] # NoPull
    /\ pull[p].step = "ask"
    /\ redis[pull[p].user] # None
    /\ pull' = [pull EXCEPT ![p] =
          [@ EXCEPT !.step = "apply", !.got = redis[pull[p].user]]]
    /\ UNCHANGED <<vars, redis, sock, refreshed, dropped, slipped>>

\* ... or not, or Redis fails, and it asks Django.
CacheMiss(p) ==
    /\ pull[p] # NoPull
    /\ pull[p].step = "ask"
    /\ pull' = [pull EXCEPT ![p].step = "django"]
    /\ UNCHANGED <<vars, redis, sock, refreshed, dropped, slipped>>

\* rust_live_sesh_context reads the row ...
ContextRead(p) ==
    /\ pull[p] # NoPull
    /\ pull[p].step = "django"
    /\ pull' = [pull EXCEPT ![p] =
          [@ EXCEPT !.step = "write", !.got = Context(pull[p].user)]]
    /\ UNCHANGED <<vars, redis, sock, refreshed, dropped, slipped>>

\* ... and writes what it read into Redis, whatever happened in between.
ContextWrite(p) ==
    /\ pull[p] # NoPull
    /\ pull[p].step = "write"
    /\ LET u == pull[p].user
       IN  /\ redis' = [redis EXCEPT ![u] = pull[p].got]
           /\ slipped' = IF pull[p].got = Context(u) THEN slipped \ {u}
                                                     ELSE slipped \cup {u}
    /\ pull' = [pull EXCEPT ![p] = IF pull[p].heard
                                   THEN [pull[p] EXCEPT !.step = "apply"] ELSE NoPull]
    /\ UNCHANGED <<vars, sock, refreshed, dropped>>

\* apply_hydrate_value: a context without a partner changes nothing.
Apply(p) ==
    /\ pull[p] # NoPull
    /\ pull[p].step = "apply"
    /\ sock' = IF pull[p].got = NoSesh THEN sock
               ELSE [sock EXCEPT ![pull[p].user] = pull[p].got.partner]
    /\ pull' = [pull EXCEPT ![p] = NoPull]
    /\ UNCHANGED <<vars, redis, refreshed, dropped, slipped>>

\* Django cannot be reached, or its answer gets lost.
PullFails(p) ==
    /\ pull[p] # NoPull
    /\ pull' = [pull EXCEPT ![p] = NoPull]
    /\ UNCHANGED <<vars, redis, sock, refreshed, dropped, slipped>>

SocketStep(u) == Connect(u) \/ Disconnect(u) \/ Join(u)
PullStep(p) ==
    CacheHit(p) \/ CacheMiss(p) \/ ContextRead(p) \/ ContextWrite(p) \/ Apply(p)

CNext ==
    \/ RegistryStep
    \/ \E w \in Workers : DropKeys(w) \/ Push(w) \/ WorkerCrash(w)
    \/ \E s \in Sids : SessionRunsOut(s)
    \/ \E u \in Readers : KeyExpires(u) \/ SocketStep(u)
    \/ \E p \in Pulls : PullStep(p) \/ PullFails(p)

CSpec == CInit /\ [][CNext]_allVars

-----------------------------------------------------------------------------
(* Properties *)

\* Every variable holds a value of its kind, and only a committed request has dropped
\* keys.
CTypeOK ==
    /\ redis \in [Readers -> Contexts \cup {None}]
    /\ pull \in [Pulls -> Pull \cup {NoPull}]
    /\ sock \in [Readers -> Users \cup {NoSesh, Off}]
    /\ refreshed \subseteq {u \in Readers : sock[u] # Off}
    /\ dropped \in [Workers -> BOOLEAN]
    /\ \A w \in Workers : dropped[w] => job[w].op = "after"
    /\ slipped \subseteq Readers

\* A context in Redis is the one in the database, or a request that has committed is
\* still to drop it.  The exceptions are the three ways the code does not guard (and
\* which last for TTL_SECONDS at most): the session ran out, the worker died before it
\* dropped the key, or Django wrote a context that was out of date when it wrote it.
\* So every request drops the keys of all the users whose context it changes,
\* displaced partners included, and drops them after its commit.
StaleKeyIsOwed ==
    \A u \in Readers : redis[u] \notin {None, Context(u)} =>
        \/ u \in slipped
        \/ \E w \in Workers : job[w].op = "after" /\ ~dropped[w] /\ u \in job[w].drop
=============================================================================
