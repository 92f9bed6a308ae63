---------------------------- MODULE HelloCapsules ----------------------------
(***************************************************************************)
(* What a hello does to the capsules of its friend: those it names as      *)
(* shared are archived and deleted, the others are deleted if it says so.  *)
(* PastMeet.save does all that in one transaction, row by row, and does it *)
(* again whenever the hello is edited; meanwhile the owner adds, edits and *)
(* deletes capsules, and saves other helloes.                              *)
(*                                                                         *)
(* The next meet, which the same transaction saves, is in Meets; capsules  *)
(* that are won are in GameWins.                                           *)
(***************************************************************************)
EXTENDS Naturals

CONSTANTS
    Capsules, \* ThoughtCapsulez of one user about one friend
    Helloes,  \* PastMeets of the friend
    Requests, \* the workers that handle the user's requests
    NoOne,    \* no transaction holds the row
    NoHello,  \* the request is not about a hello
    First,    \* the earliest hello of the friend, entered with the friend
    MaxCalls  \* bound: requests

ASSUME HelloesAssumption == First \in Helloes /\ NoHello \notin Helloes
ASSUME RequestsAssumption == NoOne \notin Requests /\ MaxCalls \in Nat

VARIABLES
    listed,   \* the ThoughtCapsulez rows
    added,    \* capsules that were ever created
    helloes,  \* the PastMeet rows
    begun,    \* helloes that were ever asked for
    copies,   \* [Capsules -> [Helloes -> CompletedThoughtCapsulez rows]]
    lock,     \* [Capsules -> who has deleted the row and not yet committed]
    job,      \* [Requests -> where a request is, and its local variables]
    calls     \* requests so far

\* history: capsules that the owner, a hello that does not name them and says so, or the
\* deletion of the hello that archived them, has removed
VARIABLE discarded
\* history: capsules that a hello names as shared, and has deleted with the rest
VARIABLE wiped
\* history: capsules that were gone when a request that had read them wrote
VARIABLE crossed

vars == <<listed, added, helloes, begun, copies, lock, job, calls, discarded, wiped, crossed>>

\* thought_capsules_shared and delete_all_unshared_capsules of a PastMeet
Share == [names : SUBSET Capsules, all : BOOLEAN]
Job == [pc : {"idle", "read", "save"},
        hello : Helloes \cup {NoHello},   \* the hello that is saved
        share : Share,                    \* what it says of the capsules
        capsule : SUBSET Capsules,        \* the capsule that is edited
        todo : SUBSET Capsules,           \* of the names, those the loop has not come to
        going : SUBSET Capsules,          \* rows to delete before it goes on
        wipe : BOOLEAN,                   \* all others are to be deleted then
        copied : SUBSET Capsules,         \* archived by this transaction
        gone : SUBSET Capsules]           \* deleted by this transaction

Idle == [pc |-> "idle", hello |-> NoHello, share |-> [names |-> {}, all |-> FALSE],
         capsule |-> {}, todo |-> {}, going |-> {}, wipe |-> FALSE, copied |-> {}, gone |-> {}]

Init ==
    /\ listed = {} /\ added = {}
    /\ helloes = {First} /\ begun = {First}
    /\ copies = [c \in Capsules |-> [h \in Helloes |-> 0]]
    /\ lock = [c \in Capsules |-> NoOne]
    /\ job = [w \in Requests |-> Idle]
    /\ calls = 0
    /\ discarded = {} /\ wiped = {} /\ crossed = {}

Call(w, j) ==
    /\ job[w] = Idle
    /\ calls < MaxCalls
    /\ calls' = calls + 1
    /\ job' = [job EXCEPT ![w] = j]

-----------------------------------------------------------------------------
(* The owner's capsules *)

\* ThoughtCapsuleCreate
AddCapsule(c) ==
    /\ c \notin added
    /\ added' = added \cup {c}
    /\ listed' = listed \cup {c}
    /\ UNCHANGED <<helloes, begun, copies, lock, job, calls, discarded, wiped, crossed>>

\* ThoughtCapsuleDetail.destroy: the DELETE waits for a transaction that has the row.
DeleteCapsule(c) ==
    /\ c \in listed /\ lock[c] = NoOne
    /\ listed' = listed \ {c}
    /\ discarded' = discarded \cup {c}
    /\ UNCHANGED <<added, helloes, begun, copies, lock, job, calls, wiped, crossed>>

\* ThoughtCapsuleDetail and ThoughtCapsulesUpdateMultiple read the row without a lock ...
EditCapsule(w, c) ==
    /\ c \in listed
    /\ Call(w, [Idle EXCEPT !.pc = "read", !.capsule = {c}])
    /\ UNCHANGED <<listed, added, helloes, begun, copies, lock, discarded, wiped, crossed>>

\* ... and write all of it: if it has gone, save() inserts it again.
SaveCapsule(w) ==
    /\ job[w].pc = "read"
    /\ \E c \in job[w].capsule :
         /\ lock[c] = NoOne
         /\ listed' = listed \cup {c}
         /\ crossed' = IF c \in listed THEN crossed ELSE crossed \cup {c}
    /\ job' = [job EXCEPT ![w] = Idle]
    /\ UNCHANGED <<added, helloes, begun, copies, lock, calls, discarded, wiped>>

-----------------------------------------------------------------------------
(* PastMeet.save *)

Saving(h, s) ==
    [Idle EXCEPT !.pc = "save", !.hello = h, !.share = s, !.todo = s.names,
                 !.wipe = s.all /\ s.names = {}]

\* HelloCreate
Hello(w, h, s) ==
    /\ h \notin begun
    /\ begun' = begun \cup {h}
    /\ Call(w, Saving(h, s))
    /\ UNCHANGED <<listed, added, helloes, copies, lock, discarded, wiped, crossed>>

\* HelloDetail.update gets the hello and sets what the client sent; s is what the fields
\* are then ...
EditHello(w, h, s) ==
    /\ h \in helloes
    /\ Call(w, [Idle EXCEPT !.pc = "read", !.hello = h, !.share = s])
    /\ UNCHANGED <<listed, added, helloes, begun, copies, lock, discarded, wiped, crossed>>

\* One save of a hello at a time: its row is written, and so locked, before the loop.
Held(h) == \E v \in Requests : job[v].pc = "save" /\ job[v].hello = h

\* ... and saves it.
SaveHello(w) ==
    LET j == job[w]
    IN  /\ j.pc = "read" /\ j.hello # NoHello /\ ~Held(j.hello)
        /\ job' = [job EXCEPT ![w] = Saving(j.hello, j.share)]
        /\ UNCHANGED <<listed, added, helloes, begun, copies, lock, calls, discarded,
                       wiped, crossed>>

\* The rows as the transaction sees them.
Visible(j) == listed \ j.gone

\* The loop over thought_capsules_shared gets a capsule, without a lock, and archives it.
\* One that does not exist is passed over.
GetShared(w, c) ==
    LET j == job[w]
        found == [j EXCEPT !.todo = @ \ {c}, !.copied = @ \cup {c}, !.going = {c},
                           !.wipe = j.share.all]
        passed == [j EXCEPT !.todo = @ \ {c}]
    IN  /\ j.pc = "save" /\ j.going = {} /\ ~j.wipe /\ c \in j.todo
        /\ job' = [job EXCEPT ![w] = IF c \in Visible(j) THEN found ELSE passed]
        /\ UNCHANGED <<listed, added, helloes, begun, copies, lock, calls, discarded,
                       wiped, crossed>>

\* After a capsule that was archived, or if none was named, all that are left are deleted.
Wipe(w) ==
    LET j == job[w]
    IN  /\ j.pc = "save" /\ j.going = {} /\ j.wipe
        /\ job' = [job EXCEPT ![w] = [j EXCEPT !.wipe = FALSE, !.going = Visible(j)]]
        /\ UNCHANGED <<listed, added, helloes, begun, copies, lock, calls, discarded,
                       wiped, crossed>>

\* A DELETE waits for the one that has deleted the row; if that one commits there is
\* nothing left to delete, and nobody is told.
DeleteRow(w, c) ==
    LET j == job[w]
    IN  /\ j.pc = "save" /\ c \in j.going
        /\ lock[c] \in {NoOne, w}
        /\ lock' = IF c \in listed THEN [lock EXCEPT ![c] = w] ELSE lock
        /\ job' = [job EXCEPT ![w] = [j EXCEPT !.going = @ \ {c},
                                               !.gone = IF c \in listed THEN @ \cup {c} ELSE @]]
        /\ UNCHANGED <<listed, added, helloes, begun, copies, calls, discarded, wiped, crossed>>

\* (mutant) the locks of a request outlive it
LocksKept(w) == lock
Released(w) == [c \in Capsules |-> IF lock[c] = w THEN NoOne ELSE lock[c]]

Commit(w) ==
    LET j == job[w]
        h == j.hello
        others == IF j.share.all THEN j.gone \ j.copied ELSE {}
    IN  /\ j.pc = "save" /\ j.going = {} /\ ~j.wipe /\ j.todo = {}
        /\ listed' = listed \ j.gone
        /\ copies' = [c \in Capsules |-> IF c \in j.copied THEN [copies[c] EXCEPT ![h] = @ + 1]
                                         ELSE copies[c]]
        /\ helloes' = helloes \cup {h}
        /\ lock' = Released(w)
        /\ job' = [job EXCEPT ![w] = Idle]
        /\ discarded' = discarded \cup (others \ j.share.names)
        /\ wiped' = wiped \cup (others \cap j.share.names)
        /\ crossed' = crossed \cup (j.copied \ j.gone)
        /\ UNCHANGED <<added, begun, calls>>

\* (mutant) without transaction.atomic, what was deleted stays so
Autocommitted(j) == listed \ j.gone
RolledBack(j) == listed

\* Something in the save raises, or the database ends a deadlock of two saves.
Fail(w) ==
    /\ job[w].pc = "save"
    /\ listed' = RolledBack(job[w])
    /\ lock' = Released(w)
    /\ job' = [job EXCEPT ![w] = Idle]
    /\ UNCHANGED <<added, helloes, begun, copies, calls, discarded, wiped, crossed>>

\* PastMeet.delete: on_delete=CASCADE takes the archived capsules along.
DeleteHello(h) ==
    /\ h \in helloes \ {First} /\ ~Held(h)
    /\ helloes' = helloes \ {h}
    /\ copies' = [c \in Capsules |-> [copies[c] EXCEPT ![h] = 0]]
    /\ discarded' = discarded \cup {c \in Capsules : copies[c][h] > 0}
    /\ UNCHANGED <<listed, added, begun, lock, job, calls, wiped, crossed>>

-----------------------------------------------------------------------------
Next ==
    \/ \E c \in Capsules : AddCapsule(c) \/ DeleteCapsule(c)
    \/ \E h \in Helloes : DeleteHello(h)
    \/ \E w \in Requests :
         \/ \E c \in Capsules : EditCapsule(w, c) \/ GetShared(w, c) \/ DeleteRow(w, c)
         \/ \E h \in Helloes, s \in Share : Hello(w, h, s) \/ EditHello(w, h, s)
         \/ SaveCapsule(w) \/ SaveHello(w) \/ Wipe(w) \/ Commit(w) \/ Fail(w)

Spec == Init /\ [][Next]_vars

-----------------------------------------------------------------------------
HTypeOK ==
    /\ listed \subseteq added /\ added \subseteq Capsules
    /\ helloes \subseteq begun /\ begun \subseteq Helloes
    /\ copies \in [Capsules -> [Helloes -> Nat]]
    /\ job \in [Requests -> Job]
    /\ lock \in [Capsules -> Requests \cup {NoOne}]
    /\ \A c \in Capsules : lock[c] # NoOne =>
          job[lock[c]].pc = "save" /\ c \in job[lock[c]].gone
    /\ discarded \subseteq Capsules /\ wiped \subseteq Capsules /\ crossed \subseteq Capsules

\* The helloes that have the capsule in their archive
Archives(c) == {h \in Helloes : copies[c][h] > 0}

\* "The user loses data silently" if a save fails half-way.  However saves overlap, fail, are
\* repeated by edits or deadlock, a capsule is listed, archived or was discarded on purpose,
\* but for one that its hello names as shared and deletes with the rest: that is the one way
\* to lose a capsule, see SharedAreArchived.  And it is in one place only, unless a request
\* wrote what it had read before the capsule was gone.
CapsulesAreAccountedFor ==
    \A c \in added :
        /\ c \in listed \/ Archives(c) # {} \/ c \in discarded \/ c \in wiped
        /\ c \notin crossed =>
              /\ c \in listed => Archives(c) = {}
              /\ \A g, h \in Archives(c) : g = h /\ copies[c][h] = 1

\* "Delete all unused capsules?", delete_all_unshared_capsules: what a hello shared is
\* archived, not deleted with the rest.
\* The code does not keep this: see the run hellocapsules_shared.
SharedAreArchived ==
    [][\A w \in Requests : Commit(w) =>
          job[w].gone \cap job[w].share.names \subseteq job[w].copied]_vars
=============================================================================
