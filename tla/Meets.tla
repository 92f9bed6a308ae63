------------------------------- MODULE Meets --------------------------------
(***************************************************************************)
(* The next meet of every friend of one user: the date it is due, the      *)
(* hello it is counted from, and the meets that were voided because their  *)
(* date went by.                                                           *)
(*                                                                         *)
(* A request loads the NextMeet rows it needs, changes its copies, looks   *)
(* up the previous hello and writes the copies whole.  No row is locked    *)
(* before it is written, so requests overlap between any of these steps.   *)
(* The other half of a hello, its capsules, is in HelloCapsules; what it   *)
(* does to a live session is in LiveSesh.                                  *)
(***************************************************************************)
EXTENDS Integers

CONSTANTS
    Friends,      \* the friends of the user
    Requests,     \* the workers that handle the user's requests
    NoHello,      \* NextMeet.previous is NULL
    NoDate,       \* there is no such hello
    NoRow,        \* a request has not loaded this friend's NextMeet
    NoFriend,     \* UserSettings.upcoming_friend is NULL
    SettingsUsed, \* bound: the effort and priority that are tried
    Ages,         \* bound: how many days before today a hello may be dated
    Skews,        \* bound: how far the local date of a client is from the server's
    Draws,        \* bound: the results of randint(1, 6) that are tried
    DueIn,        \* bound: the days of a timespan that are tried
    MaxDay,       \* bound: the last day
    MaxHelloes,   \* bound: helloes of a friend after the first
    MaxCalls      \* bound: requests

Efforts == 1..5
Priorities == 1..3
Settings == [effort : Efforts, priority : Priorities]
Ids == 0..MaxHelloes \* helloes of a friend in the order of created_on

ASSUME BoundsAssumption ==
    /\ SettingsUsed \subseteq Settings
    /\ Ages \subseteq Int /\ Skews \subseteq Int /\ Draws \subseteq 1..6 /\ DueIn \subseteq Int
    /\ MaxDay \in Nat /\ MaxHelloes \in Nat /\ MaxCalls \in Nat
\* What the program does not check: that no hello is dated far ahead, and that the
\* client's calendar is a day ahead of the server's at most.
ASSUME ClientAssumption == (\A a \in Ages : a >= -3) /\ (\A k \in Skews : k <= 1)
ASSUME NullAssumption ==
    NoHello \notin Ids /\ NoDate \notin Int /\ NoFriend \notin Friends

Rows == [date : Int,                      \* when the meet is due
         previous : Ids \cup {NoHello},   \* the hello days_since counts from
         void_count : Nat, miss_count : Nat]
ASSUME NoRowAssumption == NoRow \notin Rows

VARIABLES
    today,        \* datetime.date.today() of the server
    last_upcoming_update, \* UpdatesTracker: the day of the last refresh
    settings,     \* [Friends -> FriendSuggestionSettings]
    helloes,      \* [Friends -> [Ids -> PastMeet.date, NoDate if there is none]]
    born,         \* [Friends -> helloes recorded, the first included]
    next,         \* [Friends -> the NextMeet row]
    voided,       \* [Friends -> the number of VoidedMeet rows]
    upcoming_friend, \* UserSettings.upcoming_friend
    job,          \* [Requests -> where a request is, and its local variables]
    calls         \* requests so far

\* history: [Friends -> what had changed under the request that saved the row last]
VARIABLE raced

vars == <<today, last_upcoming_update, settings, helloes, born, next, voided,
          upcoming_friend, job, calls, raced>>

Changes == {"row", "hello"}
Job == [pc : {"idle", "save", "show"},
        op : {"hello", "delete", "settings", "upcoming", "combined", "remix"},
        friend : Friends \cup {NoFriend},    \* whose hello or settings are written
        hello : Ids,                         \* which hello is written or deleted
        date : Int \cup {NoDate},            \* and its date
        settings : Settings,                 \* the settings that are written
        day : Int,                           \* today, when the request came
        local : Int,                         \* what the view takes for today
        rows : [Friends -> Rows \cup {NoRow}], \* the copies of NextMeet
        saved : SUBSET Friends,              \* copies that are ready to be written
        written : SUBSET Friends,            \* and that are (remix commits each)
        missed : SUBSET Friends,             \* copies that a VoidedMeet was made for
        stale : [Friends -> SUBSET Changes]] \* history: changed since they were read

NothingLoaded == [f \in Friends |-> NoRow]
Unchanged == [f \in Friends |-> {}]
Idle == [pc |-> "idle", op |-> "hello", friend |-> NoFriend, hello |-> 0, date |-> NoDate,
         settings |-> [effort |-> 2, priority |-> 2], day |-> 0, local |-> 0,
         rows |-> NothingLoaded, saved |-> {}, written |-> {}, missed |-> {}, stale |-> Unchanged]

-----------------------------------------------------------------------------
(* The dates *)

SpanMost == <<200, 90, 41, 21, 8>>
SpanLeast == <<120, 60, 26, 6, 2>>

\* Days until the next meet: a third of the span of the effort, the priority says which.
timespan(s) ==
    LET tiers == (SpanMost[s.effort] - SpanLeast[s.effort]) \div 3
        most == tiers * s.priority + SpanLeast[s.effort]
    IN  (most - tiers)..most

create_new_date_clean(row, d) == [row EXCEPT !.date = today + d]

Soon == <<7, 18, 30>>
Catchup == <<4, 9, 15>>

\* Days until a missed meet is due again; y is random, days is None without a hello.
CatchupDays(s, days, y) ==
    (IF days > Soon[s.priority] THEN Catchup[s.priority] ELSE days + Soon[s.priority])
      - s.effort + y

days_since(hs, f, h) == IF h = NoHello THEN 7 ELSE today - hs[f][h]

\* (mutant) a meet that is due today counts as missed
ExpiredToday(row) == row.date <= today
Expired(row) == row.date < today

\* (mutant) the catch-up counts from the date that was missed
DueFromMissed(row, s, days, y) ==
    [row EXCEPT !.void_count = @ + 1, !.miss_count = @ + 1,
                !.date = row.date + CatchupDays(s, days, y)]
\* (mutant) a miss is taken back
MissTakenBack(row, s, days, y) ==
    [row EXCEPT !.void_count = @ - 1, !.miss_count = @ - 1,
                !.date = today + CatchupDays(s, days, y)]
\* (mutant) a miss is counted twice
MissedTwice(row, s, days, y) ==
    [row EXCEPT !.void_count = @ + 2, !.miss_count = @ + 2,
                !.date = today + CatchupDays(s, days, y)]

\* What create_new_date_if_needed makes of an expired row; nothing in the program
\* passes manual_reset.
Missed(row, s, days, y) ==
    [row EXCEPT !.void_count = @ + 1, !.miss_count = @ + 1,
                !.date = today + CatchupDays(s, days, y)]

-----------------------------------------------------------------------------
(* Helloes *)

Recorded(hs, f) == {h \in Ids : hs[f][h] # NoDate}

\* The rows that order_by('-date').first() may return: which of two of a day is not said.
Latest(hs, f) == {h \in Recorded(hs, f) : \A g \in Recorded(hs, f) : hs[f][g] <= hs[f][h]}
\* (mutant) the hello that was recorded last, whatever its date
RecordedLast(hs, f) ==
    {h \in Recorded(hs, f) : \A g \in Recorded(hs, f) : g <= h}
MostRecent(hs, f) == IF Recorded(hs, f) = {} THEN {NoHello} ELSE Latest(hs, f)
Earliest(f) == {h \in Recorded(helloes, f) : \A g \in Recorded(helloes, f) : h <= g}

\* The helloes as the transaction of a request sees them: with its own change.
HelloesOf(j) ==
    IF j.op \in {"hello", "delete"} THEN [helloes EXCEPT ![j.friend][j.hello] = j.date]
    ELSE helloes
SettingsOf(j) ==
    IF j.op = "settings" THEN [settings EXCEPT ![j.friend] = j.settings] ELSE settings

-----------------------------------------------------------------------------
(* Requests *)

Loaded(j) == {f \in Friends : j.rows[f] # NoRow}

Call(w, j) ==
    /\ job[w].pc = "idle"
    /\ calls < MaxCalls
    /\ calls' = calls + 1
    /\ job' = [job EXCEPT ![w] = [j EXCEPT !.day = today]]

UnchangedRows == UNCHANGED <<last_upcoming_update, settings, helloes, next, voided,
                             upcoming_friend, raced>>

Reading(op, f, h, d, s, row) ==
    [Idle EXCEPT !.pc = "save", !.op = op, !.friend = f, !.hello = h, !.date = d,
                 !.settings = s, !.rows = [NothingLoaded EXCEPT ![f] = row]]

\* PastMeet.save of a new hello, or of one that is edited
Hello(w, f, h, a) ==
    /\ \/ h = born[f] /\ h \in Ids /\ born' = [born EXCEPT ![f] = h + 1]
       \/ helloes[f][h] # NoDate /\ UNCHANGED born
    /\ \E d \in timespan(settings[f]) \cap DueIn :
         Call(w, Reading("hello", f, h, today - a, settings[f], create_new_date_clean(next[f], d)))
    /\ UnchangedRows /\ UNCHANGED today

\* PastMeet.delete: the earliest stays; only the most recent one touches the next meet
DeleteHello(w, f, h) ==
    /\ helloes[f][h] # NoDate
    /\ h \notin Earliest(f)
    /\ \E latest \in Latest(helloes, f) :
         Call(w, Reading("delete", f, h, NoDate, settings[f],
                         IF h = latest THEN next[f] ELSE NoRow))
    /\ UnchangedRows /\ UNCHANGED <<today, born>>

ChangeSettings(w, f, s) ==
    /\ \E d \in timespan(s) \cap DueIn :
         Call(w, Reading("settings", f, 0, NoDate, s, create_new_date_clean(next[f], d)))
    /\ UnchangedRows /\ UNCHANGED <<today, born>>

ExpiredRows == [f \in Friends |-> IF Expired(next[f]) THEN next[f] ELSE NoRow]
Refreshing(op, t) ==
    [Idle EXCEPT !.pc = "save", !.op = op, !.local = t, !.rows = ExpiredRows]

\* UpcomingMeetsLightView and UpcomingMeetsQuickView ask only if the day is new,
\* UpcomingMeetsView always
Upcoming(w) ==
    /\ Call(w, Refreshing("upcoming", today))
    /\ UnchangedRows /\ UNCHANGED <<today, born>>

\* CombinedFriendsUpcomingView goes by the local date of the client
NeedsRefresh(t) == last_upcoming_update # t
Combined(w, t) ==
    /\ Call(w, IF NeedsRefresh(t) THEN Refreshing("combined", t)
               ELSE [Idle EXCEPT !.pc = "show", !.op = "combined"])
    /\ UnchangedRows /\ UNCHANGED <<today, born>>

Remix(w) ==
    /\ Call(w, [Idle EXCEPT !.pc = "save", !.op = "remix",
                            !.rows = [f \in Friends |-> [next[f] EXCEPT !.date = today - 1]]])
    /\ UnchangedRows /\ UNCHANGED <<today, born>>

-----------------------------------------------------------------------------
(* NextMeet.save, up to its UPDATE *)

\* The copy with the most recent hello; if its date is over it gets another one.
Looked(j, f, h) == [j.rows[f] EXCEPT !.previous = h]
create_new_date_if_needed(j, f, h, y) ==
    LET row == Looked(j, f, h)
    IN  IF Expired(row)
        THEN Missed(row, SettingsOf(j)[f], days_since(HelloesOf(j), f, h), y)
        ELSE row

Saved(j, f, h, y) ==
    [j EXCEPT !.rows = [j.rows EXCEPT ![f] = create_new_date_if_needed(j, f, h, y)],
              !.saved = @ \cup {f},
              !.missed = IF Expired(Looked(j, f, h)) THEN @ \cup {f} ELSE @,
              !.stale = [j.stale EXCEPT ![f] = @ \ {"hello"}]]

Save(w, f) ==
    LET j == job[w]
    IN  /\ j.pc = "save" /\ f \in Loaded(j) \ j.saved
        /\ j.op = "remix" => j.saved = j.written \* each save of remix is a transaction
        /\ \E h \in MostRecent(HelloesOf(j), f), y \in Draws :
             job' = [job EXCEPT ![w] = Saved(j, f, h, y)]
        /\ UnchangedRows /\ UNCHANGED <<today, born, calls>>

\* NextMeet.previous is SET_NULL when its hello is deleted.
Orphaned(row, hs, f) ==
    IF row.previous # NoHello /\ hs[f][row.previous] = NoDate
    THEN [row EXCEPT !.previous = NoHello] ELSE row

\* What another request has read of the friend is no longer so.
Outdated(j, hs, ns) ==
    [j EXCEPT !.stale = [f \in Friends |->
        @[f] \cup (IF ns[f] # next[f] THEN {"row"} ELSE {})
             \cup (IF hs[f] # helloes[f] THEN {"hello"} ELSE {})]]

Commits(j) == j.saved \ j.written
ReadyToCommit(j) ==
    /\ j.pc = "save"
    /\ IF j.op = "remix" THEN Commits(j) # {} ELSE j.saved = Loaded(j)

\* A foreign key: the previous hello must exist when the transaction commits.
KeysHold(j) == \A f \in Commits(j) : Orphaned(j.rows[f], HelloesOf(j), f) = j.rows[f]

AfterCommit(j) ==
    CASE j.op = "remix" -> [j EXCEPT !.written = j.saved, !.missed = {},
                                     !.pc = IF j.saved = Loaded(j) THEN "show" ELSE "save"]
      [] j.op = "combined" -> [Idle EXCEPT !.pc = "show", !.op = "combined", !.day = j.day]
      [] OTHER -> Idle

Commit(w) ==
    LET j == job[w]
        hs == HelloesOf(j)
    IN  /\ ReadyToCommit(j) /\ KeysHold(j)
        /\ helloes' = hs
        /\ settings' = SettingsOf(j)
        /\ next' = [f \in Friends |-> IF f \in Commits(j) THEN j.rows[f]
                                      ELSE Orphaned(next[f], hs, f)]
        /\ voided' = [f \in Friends |-> IF f \in Commits(j) \cap j.missed
                                        THEN voided[f] + 1 ELSE voided[f]]
        /\ last_upcoming_update' = IF j.op \in {"upcoming", "combined"} THEN j.local
                                   ELSE last_upcoming_update
        /\ raced' = [f \in Friends |-> IF f \in Commits(j) THEN j.stale[f] ELSE raced[f]]
        /\ job' = [v \in Requests |-> IF v = w THEN AfterCommit(j)
                                      ELSE Outdated(job[v], hs, next')]
        /\ UNCHANGED <<today, born, upcoming_friend, calls>>

\* Otherwise the database refuses, and the request fails with nothing written.
Fail(w) ==
    /\ ReadyToCommit(job[w]) /\ ~KeysHold(job[w])
    /\ job' = [job EXCEPT ![w] = Idle]
    /\ UnchangedRows /\ UNCHANGED <<today, born, calls>>

\* The soonest friend goes to the settings: of the rows as they are now (the view),
\* or of the request's own copies (remix).
Show(w) ==
    LET due == IF job[w].op = "remix" THEN job[w].rows ELSE next
    IN  /\ job[w].pc = "show"
        /\ \E f \in Friends :
             /\ \A g \in Friends : due[f].date <= due[g].date
             /\ upcoming_friend' = f
        /\ job' = [job EXCEPT ![w] = Idle]
        /\ UNCHANGED <<today, last_upcoming_update, settings, helloes, born, next, voided,
                       calls, raced>>

-----------------------------------------------------------------------------
\* No request lives through two midnights.
NewDay ==
    /\ today < MaxDay
    /\ \A w \in Requests : job[w].pc # "idle" => job[w].day = today
    /\ today' = today + 1
    /\ UnchangedRows /\ UNCHANGED <<born, job, calls>>

NewRow(d) == [date |-> d, previous |-> 0, void_count |-> 0, miss_count |-> 0]

\* Friends that were entered today, with a first meet some days ago.
Init ==
    /\ today = 0
    /\ last_upcoming_update = -1
    /\ settings \in [Friends -> SettingsUsed]
    /\ \E a \in Ages : helloes = [f \in Friends |-> [h \in Ids |-> IF h = 0 THEN -a ELSE NoDate]]
    /\ born = [f \in Friends |-> 1]
    /\ \E d \in [Friends -> UNION {timespan(s) : s \in SettingsUsed}] :
         /\ \A f \in Friends : d[f] \in timespan(settings[f]) \cap DueIn
         /\ next = [f \in Friends |-> NewRow(d[f])]
    /\ voided = [f \in Friends |-> 0]
    /\ upcoming_friend = NoFriend
    /\ job = [w \in Requests |-> Idle]
    /\ calls = 0
    /\ raced = Unchanged

Next ==
    \/ NewDay
    \/ \E w \in Requests :
         \/ \E f \in Friends, h \in Ids, a \in Ages : Hello(w, f, h, a)
         \/ \E f \in Friends, h \in Ids : DeleteHello(w, f, h)
         \/ \E f \in Friends, s \in SettingsUsed : ChangeSettings(w, f, s)
         \/ Upcoming(w)
         \/ \E k \in Skews : Combined(w, today + k)
         \/ Remix(w)
         \/ \E f \in Friends : Save(w, f)
         \/ Commit(w)
         \/ Fail(w)
         \/ Show(w)

Spec == Init /\ [][Next]_vars

-----------------------------------------------------------------------------
MTypeOK ==
    /\ today \in Int /\ last_upcoming_update \in Int
    /\ settings \in [Friends -> Settings]
    /\ helloes \in [Friends -> [Ids -> Int \cup {NoDate}]]
    /\ born \in [Friends -> Nat]
    /\ next \in [Friends -> Rows]
    /\ voided \in [Friends -> Nat]
    /\ upcoming_friend \in Friends \cup {NoFriend}
    /\ job \in [Requests -> Job]
    /\ calls \in Nat
    /\ raced \in [Friends -> SUBSET Changes]

\* The counters of a next meet never claim more voided meets than there are rows of
\* VoidedMeet, and no void is other than a miss, whatever saves overlap: a lost save
\* loses a count, never a row.
VoidsHaveRows ==
    \A f \in Friends : /\ next[f].void_count <= voided[f]
                       /\ next[f].miss_count = next[f].void_count

\* A meet is voided only if its date, as the database has it, is over: the save of a
\* request that had read an older row, and a remix, are the ways around that.
VoidsOnlyOverdue ==
    [][\A f \in Friends : voided'[f] # voided[f] =>
         \/ next[f].date < today
         \/ "row" \in raced'[f]
         \/ \E w \in Requests : f \in Commits(job[w]) /\ job[w].op = "remix"]_vars

\* days_since counts from the most recent hello, after any creation, edit or deletion of
\* helloes, unless they changed while the row was being saved. (Of two helloes of one day
\* the one that is deleted may be the one the row names: then it names none.)
PreviousIsLatest ==
    \A f \in Friends : "hello" \notin raced[f] =>
        next[f].previous \in Latest(helloes, f) \cup {NoHello}

\* Who has looked at the upcoming meets of a day has none that is long overdue: his
\* calendar may be a day ahead of the server's, a save may have begun before midnight.
OverdueIsBounded ==
    \A f \in Friends : next[f].date >= last_upcoming_update - 2
=============================================================================
