---------------------------- MODULE Meets_proofs ----------------------------
(***************************************************************************)
(* What holds of the next meets for any friends, requests, settings and    *)
(* dates.                                                                  *)
(***************************************************************************)
EXTENDS Meets, TLAPS

-----------------------------------------------------------------------------
(* The operators *)

\* No settings let a friend be due again before two days are over.
LEMMA TimespanFromTwo ==
  ASSUME NEW s \in Settings
  PROVE  timespan(s) \subseteq Int /\ \A d \in timespan(s) : d >= 2
<1>1. s.effort \in 1..5 /\ s.priority \in 1..3
  BY DEF Settings, Efforts, Priorities
<1>2. CASE s.effort = 1
  BY <1>1, <1>2 DEF timespan, SpanMost, SpanLeast
<1>3. CASE s.effort = 2
  BY <1>1, <1>3 DEF timespan, SpanMost, SpanLeast
<1>4. CASE s.effort = 3
  BY <1>1, <1>4 DEF timespan, SpanMost, SpanLeast
<1>5. CASE s.effort = 4
  BY <1>1, <1>5 DEF timespan, SpanMost, SpanLeast
<1>6. CASE s.effort = 5
  BY <1>1, <1>6 DEF timespan, SpanMost, SpanLeast
<1>7. QED
  BY <1>1, <1>2, <1>3, <1>4, <1>5, <1>6

\* A missed meet is never due again in the past, if the last hello is not more than three
\* days ahead.
LEMMA CatchupNotNegative ==
  ASSUME NEW s \in Settings, NEW days \in Int, NEW y \in 1..6
  PROVE  /\ CatchupDays(s, days, y) \in Int
         /\ days >= -3 => CatchupDays(s, days, y) >= 0
<1>1. s.effort \in 1..5 /\ s.priority \in 1..3
  BY DEF Settings, Efforts, Priorities
<1>2. CASE s.priority = 1
  BY <1>1, <1>2 DEF CatchupDays, Soon, Catchup
<1>3. CASE s.priority = 2
  BY <1>1, <1>3 DEF CatchupDays, Soon, Catchup
<1>4. CASE s.priority = 3
  BY <1>1, <1>4 DEF CatchupDays, Soon, Catchup
<1>5. QED
  BY <1>1, <1>2, <1>3, <1>4

Dates == [Ids -> Int \cup {NoDate}]

LEMMA HelloesOfType ==
  ASSUME helloes \in [Friends -> Dates], NEW j \in Job
  PROVE  /\ HelloesOf(j) \in [Friends -> Dates]
         /\ \A f \in Friends : f # j.friend => HelloesOf(j)[f] = helloes[f]
  BY NullAssumption DEF HelloesOf, Dates, Job

LEMMA SettingsOfType ==
  ASSUME settings \in [Friends -> Settings], NEW j \in Job
  PROVE  SettingsOf(j) \in [Friends -> Settings]
  BY DEF SettingsOf, Job

LEMMA MostRecentType ==
  ASSUME NEW hs \in [Friends -> Dates], NEW f \in Friends, NEW h \in MostRecent(hs, f)
  PROVE  /\ h \in Ids \cup {NoHello}
         /\ h # NoHello => h \in Ids /\ hs[f][h] \in Int
  BY DEF MostRecent, Latest, Recorded, Dates

\* What a miss does to a row.
LEMMA MissedRow ==
  ASSUME NEW row \in Rows, NEW s \in Settings, NEW days \in Int, NEW y \in 1..6, today \in Int
  PROVE  /\ Missed(row, s, days, y) \in Rows
         /\ Missed(row, s, days, y).previous = row.previous
         /\ Missed(row, s, days, y).void_count = row.void_count + 1
         /\ Missed(row, s, days, y).miss_count = row.miss_count + 1
         /\ days >= -3 => Missed(row, s, days, y).date >= today
<1> DEFINE due == CatchupDays(s, days, y)
<1>1. due \in Int /\ (days >= -3 => due >= 0)
  BY CatchupNotNegative
<1>2. Missed(row, s, days, y)
        = [row EXCEPT !.void_count = @ + 1, !.miss_count = @ + 1, !.date = today + due]
  BY DEF Missed
<1> HIDE DEF due
<1>3. row = [date |-> row.date, previous |-> row.previous,
             void_count |-> row.void_count, miss_count |-> row.miss_count]
  BY DEF Rows
<1>4. /\ row.date \in Int /\ row.previous \in Ids \cup {NoHello}
      /\ row.void_count \in Nat /\ row.miss_count \in Nat
  BY DEF Rows
<1>5. Missed(row, s, days, y)
        = [date |-> today + due, previous |-> row.previous,
           void_count |-> row.void_count + 1, miss_count |-> row.miss_count + 1]
  BY <1>2, <1>3
<1>6. today + due \in Int /\ (days >= -3 => today + due >= today)
  BY <1>1
<1>7. row.void_count + 1 \in Nat /\ row.miss_count + 1 \in Nat
  BY <1>4
<1>8. QED
  BY <1>4, <1>5, <1>6, <1>7 DEF Rows

HelloesAhead(hs) == \A g \in Friends, i \in Ids : hs[g][i] \in Int => hs[g][i] <= today + 3

\* The row that a save is going to write: well typed, and with a date to come.
LEMMA RowToSave ==
  ASSUME NEW j \in Job, NEW f \in Friends, f \in Loaded(j), today \in Int,
         helloes \in [Friends -> Dates], settings \in [Friends -> Settings],
         NEW h \in MostRecent(HelloesOf(j), f), NEW y \in Draws
  PROVE  /\ Expired(Looked(j, f, h)) <=> j.rows[f].date < today
         /\ create_new_date_if_needed(j, f, h, y) \in Rows
         /\ create_new_date_if_needed(j, f, h, y).previous = h
         /\ j.rows[f].date < today =>
              /\ create_new_date_if_needed(j, f, h, y).void_count = j.rows[f].void_count + 1
              /\ create_new_date_if_needed(j, f, h, y).miss_count = j.rows[f].miss_count + 1
         /\ ~(j.rows[f].date < today) =>
              /\ create_new_date_if_needed(j, f, h, y).void_count = j.rows[f].void_count
              /\ create_new_date_if_needed(j, f, h, y).miss_count = j.rows[f].miss_count
         /\ HelloesAhead(HelloesOf(j)) =>
              create_new_date_if_needed(j, f, h, y).date >= today
<1> USE BoundsAssumption, NullAssumption, NoRowAssumption
<1>1. j.rows[f] \in Rows
  BY DEF Loaded, Job
<1>2. h \in Ids \cup {NoHello} /\ (h # NoHello => h \in Ids /\ HelloesOf(j)[f][h] \in Int)
  BY HelloesOfType, MostRecentType
<1> DEFINE look == Looked(j, f, h)
           row == create_new_date_if_needed(j, f, h, y)
           days == days_since(HelloesOf(j), f, h)
           s == SettingsOf(j)[f]
<1>3. /\ look \in Rows
      /\ look.date = j.rows[f].date
      /\ look.previous = h
      /\ look.void_count = j.rows[f].void_count
      /\ look.miss_count = j.rows[f].miss_count
  BY <1>1, <1>2 DEF Looked, Rows
<1>4. days \in Int
  BY <1>2 DEF days_since
<1>5. s \in Settings /\ y \in 1..6
  BY SettingsOfType
<1>6. HelloesAhead(HelloesOf(j)) => days >= -3
  BY <1>2 DEF days_since, HelloesAhead
<1>7. Expired(look) <=> look.date < today
  BY DEF Expired
<1>8. row = IF Expired(look) THEN Missed(look, s, days, y) ELSE look
  BY DEF create_new_date_if_needed
<1>9. /\ Missed(look, s, days, y) \in Rows
      /\ Missed(look, s, days, y).previous = look.previous
      /\ Missed(look, s, days, y).void_count = look.void_count + 1
      /\ Missed(look, s, days, y).miss_count = look.miss_count + 1
      /\ days >= -3 => Missed(look, s, days, y).date >= today
  BY <1>3, <1>4, <1>5, MissedRow
<1>10. look.date \in Int
  BY <1>3 DEF Rows
<1> HIDE DEF look, row, days, s
<1>11. CASE look.date < today
  <2>1. row = Missed(look, s, days, y)
    BY <1>7, <1>8, <1>11
  <2>2. row \in Rows /\ row.previous = h /\ (HelloesAhead(HelloesOf(j)) => row.date >= today)
    BY <2>1, <1>3, <1>6, <1>9
  <2>3. row.void_count = j.rows[f].void_count + 1 /\ row.miss_count = j.rows[f].miss_count + 1
    BY <2>1, <1>3, <1>9
  <2>4. QED
    BY <1>3, <1>7, <1>11, <2>2, <2>3 DEF look, row
<1>12. CASE ~(look.date < today)
  <2>1. row = look
    BY <1>7, <1>8, <1>12
  <2>2. QED
    BY <1>3, <1>7, <1>10, <1>12, <2>1 DEF look, row
<1>13. QED
  BY <1>11, <1>12

-----------------------------------------------------------------------------
(* Types *)

Columns ==
    /\ today \in Int /\ last_upcoming_update \in Int
    /\ settings \in [Friends -> Settings]
    /\ helloes \in [Friends -> Dates]
    /\ born \in [Friends -> Nat]
    /\ next \in [Friends -> Rows]
    /\ voided \in [Friends -> Nat]
    /\ upcoming_friend \in Friends \cup {NoFriend}
    /\ calls \in Nat
    /\ raced \in [Friends -> SUBSET Changes]
JobsOK == job \in [Requests -> Job]

LEMMA TypeParts == MTypeOK <=> Columns /\ JobsOK
  BY DEF MTypeOK, Columns, JobsOK, Dates

Showing == [Idle EXCEPT !.pc = "show", !.op = "combined"]
LEMMA IdleType == Idle \in Job /\ Showing \in Job
<1>1. NothingLoaded \in [Friends -> Rows \cup {NoRow}] /\ Unchanged \in [Friends -> SUBSET Changes]
  BY DEF NothingLoaded, Unchanged
<1>2. [effort |-> 2, priority |-> 2] \in Settings /\ 0 \in Ids
  BY BoundsAssumption DEF Settings, Efforts, Priorities, Ids
<1>3. Idle \in Job
  BY <1>1, <1>2, NullAssumption DEF Idle, Job
<1>4. QED
  BY <1>3 DEF Showing, Job

\* The new request of each kind.
LEMMA ReadingType ==
  ASSUME NEW op \in {"hello", "delete", "settings"}, NEW f \in Friends, NEW h \in Ids,
         NEW d \in Int \cup {NoDate}, NEW s \in Settings, NEW row \in Rows \cup {NoRow}
  PROVE  Reading(op, f, h, d, s, row) \in Job
<1>1. [NothingLoaded EXCEPT ![f] = row] \in [Friends -> Rows \cup {NoRow}]
  BY DEF NothingLoaded
<1>2. Idle \in Job
  BY IdleType
<1>3. QED
  BY <1>1, <1>2 DEF Reading, Job

LEMMA RefreshingType ==
  ASSUME Columns, NEW op \in {"upcoming", "combined"}, NEW t \in Int
  PROVE  Refreshing(op, t) \in Job
<1>1. ExpiredRows \in [Friends -> Rows \cup {NoRow}]
  BY DEF ExpiredRows, Columns
<1>2. Idle \in Job
  BY IdleType
<1>3. QED
  BY <1>1, <1>2 DEF Refreshing, Job

Remixing ==
    [Idle EXCEPT !.pc = "save", !.op = "remix",
                 !.rows = [f \in Friends |-> [next[f] EXCEPT !.date = today - 1]]]
LEMMA RemixingType == ASSUME Columns PROVE Remixing \in Job
<1>1. [f \in Friends |-> [next[f] EXCEPT !.date = today - 1]] \in [Friends -> Rows \cup {NoRow}]
  BY DEF Columns, Rows
<1>2. Idle \in Job
  BY IdleType
<1>3. QED
  BY <1>1, <1>2 DEF Remixing, Job

LEMMA CallFacts ==
  ASSUME Columns, JobsOK, NEW w \in Requests, NEW j \in Job, Call(w, j)
  PROVE  /\ JobsOK' /\ calls' \in Nat
         /\ job[w].pc = "idle"
         /\ [j EXCEPT !.day = today] \in Job
         /\ job' = [job EXCEPT ![w] = [j EXCEPT !.day = today]]
<1>1. [j EXCEPT !.day = today] \in Job
  BY DEF Job, Columns
<1>2. QED
  BY <1>1 DEF Call, Columns, JobsOK

LEMMA CleanType ==
  ASSUME NEW row \in Rows, NEW d \in Int, today \in Int
  PROVE  /\ create_new_date_clean(row, d) \in Rows
         /\ create_new_date_clean(row, d).date = today + d
  BY DEF create_new_date_clean, Rows

-----------------------------------------------------------------------------
(* What holds of every request: the inductive invariant. *)

\* What a request has saved, and how much of that is committed.
Shape(j) ==
    /\ j.written \subseteq j.saved /\ j.saved \subseteq Loaded(j)
    /\ j.missed \subseteq Commits(j)
    /\ j.op # "remix" => j.written = {}
    /\ j.op \in {"hello", "settings"} => j.pc = "idle" \/ Loaded(j) = {j.friend}
    /\ j.op = "delete" => j.date = NoDate

\* The counters of the copies: a miss is one ahead of its VoidedMeet until the commit.
Counted(j) ==
    \A f \in Loaded(j) \ j.written :
        /\ j.rows[f].miss_count = j.rows[f].void_count
        /\ j.rows[f].void_count <= voided[f] + (IF f \in j.missed THEN 1 ELSE 0)

\* Its dates: what is saved is due on the request's day or later, and what a refresh did
\* not load was due.
Timely(j) ==
    /\ j.pc # "idle" => j.day <= today /\ today <= j.day + 1
    /\ j.date \in Int => j.date <= today + 3
    /\ \A f \in Commits(j) : j.rows[f].date >= j.day
    /\ j.pc = "save" /\ j.op \in {"upcoming", "combined"} =>
         /\ j.local <= j.day + 1
         /\ \A f \in Friends \ Loaded(j) : next[f].date >= j.day - 1

\* Nothing changed under it: the copies are the rows, and a miss is overdue.
Fresh(j) ==
    \A f \in Loaded(j) : "row" \notin j.stale[f] =>
        /\ f \notin j.saved /\ j.op \in {"delete", "upcoming", "combined"} =>
             j.rows[f].date = next[f].date
        /\ f \notin j.saved /\ j.op \in {"hello", "settings"} => j.rows[f].date >= j.day + 2
        /\ f \in j.missed /\ j.op # "remix" => next[f].date < today

\* The hello that a copy names is the most recent one.
Named(j) ==
    \A f \in Commits(j) :
        "hello" \notin j.stale[f] => j.rows[f].previous \in MostRecent(HelloesOf(j), f)

Shapes == \A w \in Requests : Shape(job[w])
Counts == VoidsHaveRows /\ \A w \in Requests : Counted(job[w])
Days ==
    /\ HelloesAhead(helloes) /\ last_upcoming_update <= today + 1
    /\ OverdueIsBounded /\ \A w \in Requests : Timely(job[w])
Reads == \A w \in Requests : Fresh(job[w])
Names == PreviousIsLatest /\ \A w \in Requests : Named(job[w])
MInv == Columns /\ JobsOK /\ Shapes /\ Counts /\ Days /\ Reads /\ Names

Right(j) == Shape(j) /\ Counted(j) /\ Timely(j) /\ Fresh(j) /\ Named(j)

\* A request that has only read is right.
LEMMA JustRead ==
  ASSUME Columns, VoidsHaveRows, NEW j \in Job,
         j.saved = {}, j.written = {}, j.missed = {}, j.pc # "idle" => j.day = today,
         j.op \in {"hello", "settings"} => j.pc = "idle" \/ Loaded(j) = {j.friend},
         j.op = "delete" => j.date = NoDate,
         j.date \in Int => j.date <= today + 3,
         \A f \in Loaded(j) : /\ j.rows[f].miss_count = next[f].miss_count
                              /\ j.rows[f].void_count = next[f].void_count,
         \A f \in Loaded(j) : j.op \in {"delete", "upcoming", "combined"} =>
                                 j.rows[f].date = next[f].date,
         \A f \in Loaded(j) : j.op \in {"hello", "settings"} => j.rows[f].date >= j.day + 2,
         j.pc = "save" /\ j.op \in {"upcoming", "combined"} =>
            j.local <= today + 1 /\ \A f \in Friends \ Loaded(j) : next[f].date >= today
  PROVE  Right(j)
<1>1. Loaded(j) \subseteq Friends /\ Commits(j) = {}
  BY DEF Loaded, Commits
<1>2. Shape(j)
  BY <1>1 DEF Shape
<1>3. Counted(j)
  <2> SUFFICES ASSUME NEW f \in Loaded(j)
               PROVE  /\ j.rows[f].miss_count = j.rows[f].void_count
                      /\ j.rows[f].void_count <= voided[f] + 0
    BY DEF Counted
  <2>1. next[f].void_count \in Nat /\ voided[f] \in Nat
    BY <1>1 DEF Columns, Rows
  <2>2. next[f].void_count <= voided[f] /\ next[f].miss_count = next[f].void_count
    BY <1>1 DEF VoidsHaveRows
  <2>3. QED
    BY <2>1, <2>2
<1>4. today \in Int /\ \A f \in Friends : next[f].date \in Int
  BY DEF Columns, Rows
<1>5. Timely(j)
  BY <1>1, <1>4 DEF Timely
<1>6. Fresh(j)
  BY <1>1 DEF Fresh
<1>7. Named(j)
  BY <1>1 DEF Named
<1>8. QED
  BY <1>2, <1>3, <1>5, <1>6, <1>7 DEF Right

LEMMA IdleRight == ASSUME Columns, VoidsHaveRows PROVE Right(Idle)
<1>1. Loaded(Idle) = {}
  BY DEF Loaded, Idle, NothingLoaded
<1>2. /\ Idle.saved = {} /\ Idle.written = {} /\ Idle.missed = {} /\ Idle.pc = "idle"
      /\ Idle.date = NoDate
  BY DEF Idle
<1>3. QED
  BY <1>1, <1>2, IdleType, JustRead, NullAssumption

\* Steps of one request that change no row and no hello.
LEMMA OneJob ==
  ASSUME MInv, NEW w \in Requests, NEW j \in Job, Right(j),
         job' = [job EXCEPT ![w] = j],
         UNCHANGED <<today, last_upcoming_update, helloes, next, voided, raced>>
  PROVE  Shapes' /\ Counts' /\ Days' /\ Reads' /\ Names'
<1>1. \A v \in Requests : job'[v] = IF v = w THEN j ELSE job[v]
  BY DEF MInv, JobsOK
<1>2. Shapes'
  BY <1>1 DEF MInv, Shapes, Right, Shape
<1>3. Counts'
  BY <1>1 DEF MInv, Counts, Right, Counted, VoidsHaveRows
<1>4. Days'
  BY <1>1 DEF MInv, Days, Right, Timely, HelloesAhead, OverdueIsBounded
<1>5. Reads'
  BY <1>1 DEF MInv, Reads, Right, Fresh
<1>6. Names'
  BY <1>1 DEF MInv, Names, Right, Named, PreviousIsLatest, HelloesOf
<1>7. QED
  BY <1>2, <1>3, <1>4, <1>5, <1>6

\* A new request.
LEMMA CallStep ==
  ASSUME MInv, NEW w \in Requests, NEW j \in Job, Call(w, j), UnchangedRows, today' = today,
         born' \in [Friends -> Nat], Right([j EXCEPT !.day = today])
  PROVE  MInv'
<1>1. /\ JobsOK' /\ calls' \in Nat
      /\ [j EXCEPT !.day = today] \in Job
      /\ job' = [job EXCEPT ![w] = [j EXCEPT !.day = today]]
  BY CallFacts DEF MInv
<1>2. UNCHANGED <<today, last_upcoming_update, helloes, next, voided, raced>>
  BY DEF UnchangedRows
<1>3. Shapes' /\ Counts' /\ Days' /\ Reads' /\ Names'
  BY <1>1, <1>2, OneJob DEF MInv
<1>4. Columns'
  BY <1>1 DEF MInv, Columns, UnchangedRows
<1>5. QED
  BY <1>1, <1>3, <1>4 DEF MInv

\* What a request is that reads the row of one friend.
LEMMA ReadingRight ==
  ASSUME MInv, NEW op \in {"hello", "delete", "settings"}, NEW f \in Friends, NEW h \in Ids,
         NEW d \in Int \cup {NoDate}, NEW s \in Settings, NEW row \in Rows \cup {NoRow},
         d \in Int => d <= today + 3,
         op = "delete" => d = NoDate,
         op = "delete" => row \in {NoRow, next[f]},
         op \in {"hello", "settings"} =>
            row \in Rows /\ \E x \in Int : x >= 2 /\ row = create_new_date_clean(next[f], x)
  PROVE  Right([Reading(op, f, h, d, s, row) EXCEPT !.day = today])
<1> DEFINE j == [Reading(op, f, h, d, s, row) EXCEPT !.day = today]
<1>1. Columns /\ VoidsHaveRows /\ today \in Int /\ next[f] \in Rows
  BY DEF MInv, Counts, Columns
<1>2. Reading(op, f, h, d, s, row) \in Job
  BY ReadingType
<1>3. j \in Job
  BY <1>1, <1>2 DEF Job
<1>4. /\ j.pc = "save" /\ j.op = op /\ j.friend = f /\ j.date = d /\ j.day = today
      /\ j.saved = {} /\ j.written = {} /\ j.missed = {}
      /\ j.rows = [NothingLoaded EXCEPT ![f] = row]
  BY <1>2 DEF Reading, Idle
<1>5. Loaded(j) = IF row = NoRow THEN {} ELSE {f}
  BY <1>4 DEF Loaded, NothingLoaded
<1>6. j.rows[f] = row
  BY <1>4 DEF NothingLoaded
<1> HIDE DEF j
<1>7. op = "delete" => Right(j)
  BY <1>1, <1>3, <1>4, <1>5, <1>6, JustRead
<1>8. ASSUME op \in {"hello", "settings"}
      PROVE  Right(j)
  <2>1. PICK x \in Int : x >= 2 /\ row = create_new_date_clean(next[f], x)
    BY <1>8
  <2>2. /\ row.date = today + x
        /\ row.miss_count = next[f].miss_count
        /\ row.void_count = next[f].void_count
    BY <1>1, <2>1 DEF create_new_date_clean, Rows
  <2>3. row.date >= today + 2 /\ row # NoRow
    BY <1>1, <1>8, <2>1, <2>2, NoRowAssumption
  <2>4. QED
    BY <1>1, <1>3, <1>4, <1>5, <1>6, <1>8, <2>2, <2>3, JustRead
<1>9. QED
  BY <1>7, <1>8 DEF j

LEMMA HelloStep ==
  ASSUME MInv, NEW w \in Requests, NEW f \in Friends, NEW h \in Ids, NEW a \in Ages,
         Hello(w, f, h, a), today' = today
  PROVE  MInv'
<1>1. Columns /\ today \in Int /\ next[f] \in Rows /\ settings[f] \in Settings
  BY DEF MInv, Columns
<1>2. PICK d \in timespan(settings[f]) \cap DueIn :
        Call(w, Reading("hello", f, h, today - a, settings[f], create_new_date_clean(next[f], d)))
  BY DEF Hello
<1>3. d \in Int /\ d >= 2 /\ create_new_date_clean(next[f], d) \in Rows
  BY <1>1, <1>2, TimespanFromTwo, CleanType
<1>4. today - a \in Int /\ today - a <= today + 3
  BY <1>1, BoundsAssumption, ClientAssumption
<1>5. Right([Reading("hello", f, h, today - a, settings[f], create_new_date_clean(next[f], d))
               EXCEPT !.day = today])
  BY <1>1, <1>3, <1>4, ReadingRight
<1>6. Reading("hello", f, h, today - a, settings[f], create_new_date_clean(next[f], d)) \in Job
  BY <1>1, <1>3, <1>4, ReadingType
<1>7. born' \in [Friends -> Nat]
  BY <1>1 DEF Hello, Columns, Ids
<1>8. UnchangedRows
  BY DEF Hello
<1>9. QED
  BY <1>2, <1>5, <1>6, <1>7, <1>8, CallStep

LEMMA DeleteHelloStep ==
  ASSUME MInv, NEW w \in Requests, NEW f \in Friends, NEW h \in Ids,
         DeleteHello(w, f, h)
  PROVE  MInv'
<1>1. Columns /\ next[f] \in Rows /\ settings[f] \in Settings
  BY DEF MInv, Columns
<1>2. PICK latest \in Latest(helloes, f) :
        Call(w, Reading("delete", f, h, NoDate, settings[f],
                        IF h = latest THEN next[f] ELSE NoRow))
  BY DEF DeleteHello
<1> DEFINE row == IF h = latest THEN next[f] ELSE NoRow
<1>3. row \in Rows \cup {NoRow} /\ row \in {NoRow, next[f]}
  BY <1>1
<1>4. Call(w, Reading("delete", f, h, NoDate, settings[f], row))
  BY <1>2
<1> HIDE DEF row
<1>5. Right([Reading("delete", f, h, NoDate, settings[f], row) EXCEPT !.day = today])
  BY <1>1, <1>3, ReadingRight, NullAssumption
<1>6. Reading("delete", f, h, NoDate, settings[f], row) \in Job
  BY <1>1, <1>3, ReadingType
<1>7. born' \in [Friends -> Nat] /\ UnchangedRows /\ today' = today
  BY <1>1 DEF DeleteHello, Columns
<1>8. QED
  BY <1>4, <1>5, <1>6, <1>7, CallStep

LEMMA ChangeSettingsStep ==
  ASSUME MInv, NEW w \in Requests, NEW f \in Friends, NEW s \in SettingsUsed,
         ChangeSettings(w, f, s)
  PROVE  MInv'
<1>1. Columns /\ today \in Int /\ next[f] \in Rows /\ s \in Settings /\ 0 \in Ids
  BY BoundsAssumption DEF MInv, Columns, Ids
<1>2. PICK d \in timespan(s) \cap DueIn :
        Call(w, Reading("settings", f, 0, NoDate, s, create_new_date_clean(next[f], d)))
  BY DEF ChangeSettings
<1>3. d \in Int /\ d >= 2 /\ create_new_date_clean(next[f], d) \in Rows
  BY <1>1, <1>2, TimespanFromTwo, CleanType
<1>4. Right([Reading("settings", f, 0, NoDate, s, create_new_date_clean(next[f], d))
               EXCEPT !.day = today])
  BY <1>1, <1>3, ReadingRight, NullAssumption
<1>5. Reading("settings", f, 0, NoDate, s, create_new_date_clean(next[f], d)) \in Job
  BY <1>1, <1>3, ReadingType
<1>6. born' \in [Friends -> Nat] /\ UnchangedRows /\ today' = today
  BY <1>1 DEF ChangeSettings, Columns
<1>7. QED
  BY <1>2, <1>4, <1>5, <1>6, CallStep

\* A refresh reads the rows whose date is over: the others are due today or later.
LEMMA RefreshingRight ==
  ASSUME MInv, NEW op \in {"upcoming", "combined"}, NEW t \in Int, t <= today + 1
  PROVE  Right([Refreshing(op, t) EXCEPT !.day = today])
<1> DEFINE j == [Refreshing(op, t) EXCEPT !.day = today]
<1>1. Columns /\ VoidsHaveRows /\ today \in Int /\ next \in [Friends -> Rows]
  BY DEF MInv, Counts, Columns
<1>2. Refreshing(op, t) \in Job
  BY <1>1, RefreshingType
<1>3. j \in Job
  BY <1>1, <1>2 DEF Job
<1>4. /\ j.pc = "save" /\ j.op = op /\ j.date = NoDate /\ j.day = today /\ j.local = t
      /\ j.saved = {} /\ j.written = {} /\ j.missed = {}
      /\ j.rows = ExpiredRows
  BY <1>2 DEF Refreshing, Idle
<1> HIDE DEF j
<1>5. \A f \in Loaded(j) : j.rows[f] = next[f]
  BY <1>4 DEF Loaded, ExpiredRows
<1>6. \A f \in Friends \ Loaded(j) : next[f].date >= today
  <2> SUFFICES ASSUME NEW f \in Friends, f \notin Loaded(j)
               PROVE  next[f].date >= today
    OBVIOUS
  <2>1. next[f] \in Rows /\ next[f] # NoRow
    BY <1>1, NoRowAssumption
  <2>2. ~Expired(next[f])
    BY <1>4, <2>1 DEF Loaded, ExpiredRows
  <2>3. QED
    BY <1>1, <2>1, <2>2 DEF Expired, Rows
<1>7. Right(j)
  BY <1>1, <1>3, <1>4, <1>5, <1>6, JustRead, NullAssumption
<1>8. QED
  BY <1>7 DEF j

LEMMA UpcomingStep ==
  ASSUME MInv, NEW w \in Requests, Upcoming(w)
  PROVE  MInv'
<1>1. Columns /\ today \in Int
  BY DEF MInv, Columns
<1>2. Right([Refreshing("upcoming", today) EXCEPT !.day = today])
  BY <1>1, RefreshingRight
<1>3. Refreshing("upcoming", today) \in Job
  BY <1>1, RefreshingType
<1>4. born' \in [Friends -> Nat] /\ UnchangedRows /\ today' = today
  BY <1>1 DEF Upcoming, Columns
<1>5. Call(w, Refreshing("upcoming", today))
  BY DEF Upcoming
<1>6. QED
  BY <1>2, <1>3, <1>4, <1>5, CallStep

\* A request that only shows the soonest friend.
LEMMA ShowingRight ==
  ASSUME MInv, NEW j \in Job, j.pc = "show", j.op = "combined", Loaded(j) = {},
         j.saved = {}, j.written = {}, j.missed = {}, j.day = today, j.date = NoDate
  PROVE  Right(j)
  BY JustRead, NullAssumption DEF MInv, Counts

LEMMA CombinedStep ==
  ASSUME MInv, NEW w \in Requests, NEW k \in Skews, Combined(w, today + k)
  PROVE  MInv'
<1> DEFINE t == today + k
           j == IF NeedsRefresh(t) THEN Refreshing("combined", t)
                ELSE [Idle EXCEPT !.pc = "show", !.op = "combined"]
<1>1. Columns /\ today \in Int /\ t \in Int /\ t <= today + 1
  BY BoundsAssumption, ClientAssumption DEF MInv, Columns
<1>2. j \in Job /\ Right([j EXCEPT !.day = today])
  <2>1. CASE NeedsRefresh(t)
    BY <1>1, <2>1, RefreshingRight, RefreshingType
  <2>2. CASE ~NeedsRefresh(t)
    <3>1. Showing \in Job /\ j = Showing
      BY <2>2, IdleType DEF Showing
    <3>2. [Showing EXCEPT !.day = today] \in Job
      BY <1>1, <3>1 DEF Job
    <3>3. Loaded([Showing EXCEPT !.day = today]) = {}
      BY IdleType DEF Showing, Idle, Loaded, NothingLoaded
    <3>4. Right([Showing EXCEPT !.day = today])
      BY <1>1, <3>2, <3>3, ShowingRight DEF Showing, Idle
    <3>5. QED
      BY <3>1, <3>4
  <2>3. QED
    BY <2>1, <2>2
<1>3. Call(w, j) /\ UnchangedRows /\ today' = today
  BY DEF Combined
<1>4. born' \in [Friends -> Nat]
  BY <1>1 DEF Combined, Columns
<1> HIDE DEF j
<1>5. QED
  BY <1>2, <1>3, <1>4, CallStep

LEMMA RemixStep ==
  ASSUME MInv, NEW w \in Requests, Remix(w)
  PROVE  MInv'
<1> DEFINE j == [Remixing EXCEPT !.day = today]
<1>1. Columns /\ VoidsHaveRows /\ today \in Int /\ next \in [Friends -> Rows]
  BY DEF MInv, Counts, Columns
<1>2. Remixing \in Job
  BY <1>1, RemixingType
<1>3. j \in Job
  BY <1>1, <1>2 DEF Job
<1>4. /\ j.pc = "save" /\ j.op = "remix" /\ j.date = NoDate /\ j.day = today
      /\ j.saved = {} /\ j.written = {} /\ j.missed = {}
      /\ j.rows = [f \in Friends |-> [next[f] EXCEPT !.date = today - 1]]
  BY <1>2 DEF Remixing, Idle
<1> HIDE DEF j
<1>5. \A f \in Loaded(j) : /\ j.rows[f].miss_count = next[f].miss_count
                           /\ j.rows[f].void_count = next[f].void_count
  BY <1>1, <1>4 DEF Loaded, Rows
<1>6. Right(j)
  BY <1>1, <1>3, <1>4, <1>5, JustRead, NullAssumption
<1>7. Call(w, Remixing) /\ UnchangedRows /\ today' = today
  BY DEF Remix, Remixing
<1>8. born' \in [Friends -> Nat]
  BY <1>1 DEF Remix, Columns
<1>9. QED
  BY <1>2, <1>6, <1>7, <1>8, CallStep DEF j

\* The helloes that a request sees are not far ahead.
LEMMA SeenHelloesAhead ==
  ASSUME Columns, HelloesAhead(helloes), NEW j \in Job, Timely(j)
  PROVE  HelloesAhead(HelloesOf(j))
<1>1. CASE j.op \in {"hello", "delete"}
  <2> SUFFICES ASSUME NEW g \in Friends, NEW i \in Ids, HelloesOf(j)[g][i] \in Int
               PROVE  HelloesOf(j)[g][i] <= today + 3
    BY DEF HelloesAhead
  <2>1. HelloesOf(j) = [helloes EXCEPT ![j.friend][j.hello] = j.date]
    BY <1>1 DEF HelloesOf
  <2>2. HelloesOf(j)[g][i] = IF g = j.friend /\ i = j.hello THEN j.date ELSE helloes[g][i]
    BY <2>1 DEF Columns, Dates
  <2>3. QED
    BY <2>2 DEF HelloesAhead, Timely
<1>2. CASE j.op \notin {"hello", "delete"}
  BY <1>2 DEF HelloesOf
<1>3. QED
  BY <1>1, <1>2

LEMMA SavedFields ==
  ASSUME NEW j \in Job, NEW f \in Loaded(j) \ j.saved, Shape(j), today \in Int,
         helloes \in [Friends -> Dates], settings \in [Friends -> Settings],
         NEW h \in MostRecent(HelloesOf(j), f), NEW y \in Draws
  PROVE  LET n == Saved(j, f, h, y)
         IN  /\ n \in Job
             /\ n.rows = [j.rows EXCEPT ![f] = create_new_date_if_needed(j, f, h, y)]
             /\ n.saved = j.saved \cup {f} /\ n.written = j.written
             /\ n.missed = IF j.rows[f].date < today THEN j.missed \cup {f} ELSE j.missed
             /\ n.stale = [j.stale EXCEPT ![f] = @ \ {"hello"}]
             /\ n.pc = j.pc /\ n.op = j.op /\ n.friend = j.friend /\ n.hello = j.hello
             /\ n.date = j.date /\ n.day = j.day /\ n.local = j.local
             /\ Loaded(n) = Loaded(j) /\ Commits(n) = Commits(j) \cup {f}
             /\ HelloesOf(n) = HelloesOf(j)
<1> DEFINE n == Saved(j, f, h, y)
           row == create_new_date_if_needed(j, f, h, y)
<1>1. f \in Friends /\ f \in Loaded(j)
  BY DEF Loaded
<1>2. row \in Rows /\ (Expired(Looked(j, f, h)) <=> j.rows[f].date < today)
  BY <1>1, RowToSave
<1>3. n = [j EXCEPT !.rows = [j.rows EXCEPT ![f] = row],
                    !.saved = @ \cup {f},
                    !.missed = IF Expired(Looked(j, f, h)) THEN @ \cup {f} ELSE @,
                    !.stale = [j.stale EXCEPT ![f] = @ \ {"hello"}]]
  BY DEF Saved
<1> HIDE DEF n, row
<1>4. /\ n.rows = [j.rows EXCEPT ![f] = row]
      /\ n.saved = j.saved \cup {f} /\ n.written = j.written
      /\ n.missed = IF j.rows[f].date < today THEN j.missed \cup {f} ELSE j.missed
      /\ n.stale = [j.stale EXCEPT ![f] = @ \ {"hello"}]
      /\ n.pc = j.pc /\ n.op = j.op /\ n.friend = j.friend /\ n.hello = j.hello
      /\ n.date = j.date /\ n.day = j.day /\ n.local = j.local
  BY <1>2, <1>3 DEF Job
<1>5. n \in Job
  <2>1. [j.rows EXCEPT ![f] = row] \in [Friends -> Rows \cup {NoRow}]
    BY <1>2 DEF Job
  <2>2. [j.stale EXCEPT ![f] = @ \ {"hello"}] \in [Friends -> SUBSET Changes]
    BY <1>1 DEF Job
  <2>3. QED
    BY <1>1, <1>3, <2>1, <2>2 DEF Job
<1>6. Loaded(n) = Loaded(j)
  <2>1. row # NoRow
    BY <1>2, NoRowAssumption
  <2>2. \A g \in Friends : n.rows[g] = IF g = f THEN row ELSE j.rows[g]
    BY <1>4 DEF Job
  <2>3. QED
    BY <1>1, <2>1, <2>2 DEF Loaded
<1>7. Commits(n) = Commits(j) \cup {f}
  BY <1>4 DEF Commits, Shape
<1>8. HelloesOf(n) = HelloesOf(j)
  BY <1>4 DEF HelloesOf
<1>9. QED
  BY <1>4, <1>5, <1>6, <1>7, <1>8 DEF n, row

LEMMA SavedRight ==
  ASSUME MInv, NEW j \in Job, NEW f \in Loaded(j) \ j.saved, Right(j), j.pc = "save",
         NEW h \in MostRecent(HelloesOf(j), f), NEW y \in Draws
  PROVE  Saved(j, f, h, y) \in Job /\ Right(Saved(j, f, h, y))
<1> DEFINE n == Saved(j, f, h, y)
           row == create_new_date_if_needed(j, f, h, y)
<1>1. /\ today \in Int /\ helloes \in [Friends -> Dates] /\ settings \in [Friends -> Settings]
      /\ next \in [Friends -> Rows] /\ voided \in [Friends -> Nat]
  BY DEF MInv, Columns
<1>2. f \in Friends /\ f \in Loaded(j) /\ f \notin j.saved /\ j.rows[f] \in Rows
  BY DEF Loaded, Job
<1>3. Shape(j) /\ Counted(j) /\ Timely(j) /\ Fresh(j) /\ Named(j)
  BY DEF Right
<1>4. /\ row \in Rows /\ row.previous = h
      /\ j.rows[f].date < today =>
           row.void_count = j.rows[f].void_count + 1 /\ row.miss_count = j.rows[f].miss_count + 1
      /\ ~(j.rows[f].date < today) =>
           row.void_count = j.rows[f].void_count /\ row.miss_count = j.rows[f].miss_count
      /\ row.date >= today
  <2>1. HelloesAhead(HelloesOf(j))
    BY <1>3, SeenHelloesAhead DEF MInv, Days
  <2>2. QED
    BY <1>1, <1>2, <2>1, RowToSave
<1>5. /\ n \in Job
      /\ n.rows = [j.rows EXCEPT ![f] = row]
      /\ n.saved = j.saved \cup {f} /\ n.written = j.written
      /\ n.missed = IF j.rows[f].date < today THEN j.missed \cup {f} ELSE j.missed
      /\ n.stale = [j.stale EXCEPT ![f] = @ \ {"hello"}]
      /\ n.pc = j.pc /\ n.op = j.op /\ n.friend = j.friend /\ n.hello = j.hello
      /\ n.date = j.date /\ n.day = j.day /\ n.local = j.local
      /\ Loaded(n) = Loaded(j) /\ Commits(n) = Commits(j) \cup {f}
      /\ HelloesOf(n) = HelloesOf(j)
  BY <1>1, <1>3, SavedFields, SMTT(30)
<1> HIDE DEF n, row
<1>6. /\ \A g \in Friends : n.rows[g] = IF g = f THEN row ELSE j.rows[g]
      /\ \A g \in Friends : n.stale[g] = IF g = f THEN j.stale[f] \ {"hello"} ELSE j.stale[g]
  BY <1>5 DEF Job
<1>7. Loaded(j) \subseteq Friends /\ j.missed \subseteq Commits(j) /\ f \notin j.missed
      /\ Commits(j) \subseteq Loaded(j) /\ f \notin j.written
  BY <1>2, <1>3 DEF Loaded, Shape, Commits
<1>8. Shape(n)
  BY <1>2, <1>3, <1>5, <1>7 DEF Shape
<1>9. Counted(n)
  <2> SUFFICES ASSUME NEW g \in Loaded(n) \ n.written
               PROVE  /\ n.rows[g].miss_count = n.rows[g].void_count
                      /\ n.rows[g].void_count <= voided[g] + (IF g \in n.missed THEN 1 ELSE 0)
    BY DEF Counted
  <2>1. g \in Loaded(j) \ j.written /\ g \in Friends
    BY <1>5, <1>7
  <2>2. CASE g # f
    BY <1>3, <1>5, <1>6, <2>1, <2>2 DEF Counted
  <2>3. CASE g = f
    <3>1. j.rows[f].void_count \in Nat /\ j.rows[f].miss_count \in Nat /\ voided[f] \in Nat
      BY <1>1, <1>2 DEF Rows
    <3>2. /\ j.rows[f].miss_count = j.rows[f].void_count
          /\ j.rows[f].void_count <= voided[f]
      BY <1>3, <1>7, <2>1, <2>3, <3>1 DEF Counted
    <3>3. n.rows[f] = row /\ (f \in n.missed <=> j.rows[f].date < today)
      BY <1>2, <1>5, <1>6, <1>7
    <3>4. QED
      BY <1>4, <2>3, <3>1, <3>2, <3>3
  <2>4. QED
    BY <2>2, <2>3
<1>10. j.day \in Int /\ j.day <= today /\ today <= j.day + 1
  BY <1>3 DEF Timely, Job
<1>11. Timely(n)
  <2>1. row.date >= j.day
    BY <1>1, <1>4, <1>10 DEF Rows
  <2>2. \A g \in Commits(n) : n.rows[g].date >= n.day
    BY <1>2, <1>3, <1>5, <1>6, <1>7, <2>1 DEF Timely
  <2>3. QED
    BY <1>3, <1>5, <2>2 DEF Timely
<1>12. Fresh(n)
  <2> SUFFICES ASSUME NEW g \in Loaded(n), "row" \notin n.stale[g]
               PROVE  /\ g \notin n.saved /\ n.op \in {"delete", "upcoming", "combined"} =>
                           n.rows[g].date = next[g].date
                      /\ g \notin n.saved /\ n.op \in {"hello", "settings"} =>
                           n.rows[g].date >= n.day + 2
                      /\ g \in n.missed /\ n.op # "remix" => next[g].date < today
    BY DEF Fresh
  <2>1. g \in Loaded(j) /\ g \in Friends /\ "row" \notin j.stale[g]
    BY <1>5, <1>6, <1>7
  <2>2. CASE g # f
    BY <1>3, <1>5, <1>6, <2>1, <2>2 DEF Fresh
  <2>3. CASE g = f
    <3>1. f \in n.saved /\ (f \in n.missed => j.rows[f].date < today)
      BY <1>5, <1>7
    <3>2. /\ j.op \in {"delete", "upcoming", "combined"} => j.rows[f].date = next[f].date
          /\ j.op \in {"hello", "settings"} => j.rows[f].date >= j.day + 2
      BY <1>2, <1>3, <2>1, <2>3 DEF Fresh
    <3>3. j.op \in {"hello", "delete", "settings", "upcoming", "combined", "remix"}
      BY DEF Job
    <3>4. j.rows[f].date \in Int
      BY <1>2 DEF Rows
    <3>5. j.op \in {"hello", "settings"} => ~(j.rows[f].date < today)
      BY <1>1, <1>10, <3>2, <3>4
    <3>6. QED
      BY <1>5, <2>3, <3>1, <3>2, <3>3, <3>5
  <2>4. QED
    BY <2>2, <2>3
<1>13. Named(n)
  BY <1>3, <1>4, <1>5, <1>6, <1>7 DEF Named
<1>14. QED
  BY <1>5, <1>8, <1>9, <1>11, <1>12, <1>13 DEF Right, n

LEMMA SaveStep ==
  ASSUME MInv, NEW w \in Requests, NEW f \in Friends, Save(w, f)
  PROVE  MInv'
<1>1. job[w] \in Job /\ Right(job[w]) /\ f \in Loaded(job[w]) \ job[w].saved
      /\ job[w].pc = "save"
  BY DEF MInv, JobsOK, Shapes, Counts, Days, Reads, Names, Right, Save
<1>2. PICK h \in MostRecent(HelloesOf(job[w]), f), y \in Draws :
        job' = [job EXCEPT ![w] = Saved(job[w], f, h, y)]
  BY DEF Save
<1>3. Saved(job[w], f, h, y) \in Job /\ Right(Saved(job[w], f, h, y))
  BY <1>1, SavedRight
<1>4. /\ UNCHANGED <<today, last_upcoming_update, helloes, next, voided, raced>>
      /\ UNCHANGED <<settings, upcoming_friend, born, calls>>
  BY DEF Save, UnchangedRows
<1>5. Shapes' /\ Counts' /\ Days' /\ Reads' /\ Names'
  BY <1>2, <1>3, <1>4, OneJob DEF MInv
<1>6. Columns'
  BY <1>4 DEF MInv, Columns
<1>7. JobsOK'
  BY <1>2, <1>3 DEF MInv, JobsOK
<1>8. QED
  BY <1>5, <1>6, <1>7 DEF MInv

-----------------------------------------------------------------------------
(* Commits *)

LEMMA OrphanedFacts ==
  ASSUME NEW row \in Rows, NEW hs \in [Friends -> Dates], NEW f \in Friends
  PROVE  /\ Orphaned(row, hs, f) \in Rows
         /\ Orphaned(row, hs, f).date = row.date
         /\ Orphaned(row, hs, f).void_count = row.void_count
         /\ Orphaned(row, hs, f).miss_count = row.miss_count
         /\ \/ Orphaned(row, hs, f).previous = NoHello
            \/ /\ Orphaned(row, hs, f).previous = row.previous
               /\ hs[f][row.previous] # NoDate
<1>1. CASE row.previous # NoHello /\ hs[f][row.previous] = NoDate
  <2>1. Orphaned(row, hs, f) = [row EXCEPT !.previous = NoHello]
    BY <1>1 DEF Orphaned
  <2>2. QED
    BY <2>1 DEF Rows
<1>2. CASE ~(row.previous # NoHello /\ hs[f][row.previous] = NoDate)
  BY <1>2 DEF Orphaned
<1>3. QED
  BY <1>1, <1>2

\* What a commit writes: at most the loaded rows.
LEMMA CommitFacts ==
  ASSUME MInv, NEW w \in Requests, Commit(w)
  PROVE  /\ job[w] \in Job /\ Right(job[w]) /\ job[w].pc = "save"
         /\ Commits(job[w]) \subseteq Loaded(job[w]) /\ Loaded(job[w]) \subseteq Friends
         /\ job[w].op # "remix" => Commits(job[w]) = Loaded(job[w])
         /\ \A f \in Commits(job[w]) : job[w].rows[f] \in Rows
         /\ HelloesOf(job[w]) \in [Friends -> Dates] /\ helloes' = HelloesOf(job[w])
         /\ next' = [f \in Friends |-> IF f \in Commits(job[w]) THEN job[w].rows[f]
                                       ELSE Orphaned(next[f], HelloesOf(job[w]), f)]
         /\ next' \in [Friends -> Rows]
         /\ voided' \in [Friends -> Nat]
         /\ \A f \in Friends : /\ voided[f] \in Nat /\ voided[f] <= voided'[f]
                               /\ f \in job[w].missed => voided'[f] = voided[f] + 1
                               /\ f \notin job[w].missed => voided'[f] = voided[f]
         /\ today' = today /\ today \in Int
<1> DEFINE j == job[w]
           hs == HelloesOf(job[w])
<1>1. j \in Job /\ Right(j) /\ j.pc = "save"
  BY DEF MInv, JobsOK, Shapes, Counts, Days, Reads, Names, Right, Commit, ReadyToCommit
<1>2. Shape(j)
  BY <1>1 DEF Right
<1>3. Commits(j) \subseteq Loaded(j) /\ Loaded(j) \subseteq Friends
      /\ (j.op # "remix" => Commits(j) = Loaded(j))
  BY <1>2 DEF Shape, Commits, Loaded, Commit, ReadyToCommit
<1>4. \A f \in Commits(j) : j.rows[f] \in Rows
  BY <1>1, <1>3 DEF Loaded, Job
<1>5. hs \in [Friends -> Dates]
  BY <1>1, HelloesOfType DEF MInv, Columns
<1>6. /\ helloes' = hs /\ today' = today
      /\ next' = [f \in Friends |-> IF f \in Commits(j) THEN j.rows[f]
                                    ELSE Orphaned(next[f], hs, f)]
      /\ voided' = [f \in Friends |-> IF f \in Commits(j) \cap j.missed
                                      THEN voided[f] + 1 ELSE voided[f]]
  BY DEF Commit
<1> HIDE DEF j, hs
<1>7. today \in Int /\ next \in [Friends -> Rows] /\ voided \in [Friends -> Nat]
  BY DEF MInv, Columns
<1>8. \A f \in Friends : Orphaned(next[f], hs, f) \in Rows
  BY <1>5, <1>7, OrphanedFacts
<1>9. next' \in [Friends -> Rows]
  BY <1>4, <1>6, <1>8
<1>10. /\ voided' \in [Friends -> Nat]
       /\ \A f \in Friends : /\ voided[f] \in Nat /\ voided[f] <= voided'[f]
                             /\ f \in j.missed => voided'[f] = voided[f] + 1
                             /\ f \notin j.missed => voided'[f] = voided[f]
  BY <1>2, <1>6, <1>7 DEF Shape
<1>11. QED
  BY <1>1, <1>3, <1>4, <1>5, <1>6, <1>7, <1>9, <1>10 DEF j, hs

LEMMA CommitColumns ==
  ASSUME MInv, NEW w \in Requests, Commit(w)
  PROVE  Columns'
<1>1. job[w] \in Job /\ next' \in [Friends -> Rows] /\ voided' \in [Friends -> Nat]
      /\ helloes' \in [Friends -> Dates] /\ today' = today /\ today \in Int
  BY CommitFacts
<1>2. settings' \in [Friends -> Settings]
  BY <1>1, SettingsOfType DEF Commit, MInv, Columns
<1>3. last_upcoming_update' \in Int
  BY <1>1 DEF Commit, MInv, Columns, Job
<1>4. raced' \in [Friends -> SUBSET Changes]
  BY <1>1 DEF Commit, MInv, Columns, Job
<1>5. born' \in [Friends -> Nat] /\ upcoming_friend' \in Friends \cup {NoFriend}
      /\ calls' \in Nat
  BY DEF Commit, MInv, Columns
<1>6. QED
  BY <1>1, <1>2, <1>3, <1>4, <1>5 DEF Columns

LEMMA CommitVoids ==
  ASSUME MInv, NEW w \in Requests, Commit(w)
  PROVE  VoidsHaveRows'
<1> SUFFICES ASSUME NEW f \in Friends
             PROVE  /\ next'[f].void_count <= voided'[f]
                    /\ next'[f].miss_count = next'[f].void_count
  BY DEF VoidsHaveRows
<1> DEFINE j == job[w]
<1>1. /\ j \in Job /\ Shape(j) /\ Counted(j)
      /\ next[f] \in Rows /\ next'[f] \in Rows
      /\ voided[f] \in Nat /\ voided'[f] \in Nat /\ voided[f] <= voided'[f]
      /\ f \in j.missed => voided'[f] = voided[f] + 1
  BY CommitFacts DEF Right, MInv, Columns
<1>2. next'[f] = IF f \in Commits(j) THEN j.rows[f] ELSE Orphaned(next[f], HelloesOf(j), f)
  BY CommitFacts
<1> HIDE DEF j
<1>3. CASE f \in Commits(j)
  <2>1. f \in Loaded(j) \ j.written
    BY <1>1, <1>3 DEF Shape, Commits
  <2>2. /\ next'[f].miss_count = next'[f].void_count
        /\ next'[f].void_count <= voided[f] + (IF f \in j.missed THEN 1 ELSE 0)
    BY <1>1, <1>2, <1>3, <2>1 DEF Counted
  <2>3. next'[f].void_count \in Nat
    BY <1>1 DEF Rows
  <2>4. QED
    BY <1>1, <2>2, <2>3
<1>4. CASE f \notin Commits(j)
  <2>1. next[f].void_count <= voided[f] /\ next[f].miss_count = next[f].void_count
    BY DEF MInv, Counts, VoidsHaveRows
  <2>2. next[f].void_count \in Nat
    BY <1>1 DEF Rows
  <2>3. HelloesOf(j) \in [Friends -> Dates]
    BY CommitFacts DEF j
  <2>4. next'[f].void_count = next[f].void_count /\ next'[f].miss_count = next[f].miss_count
    BY <1>1, <1>2, <1>4, <2>3, OrphanedFacts
  <2>5. QED
    BY <1>1, <2>1, <2>2, <2>4
<1>5. QED
  BY <1>3, <1>4

\* A commit makes no row more overdue than the day before it.
LEMMA CommitDates ==
  ASSUME MInv, NEW w \in Requests, Commit(w), NEW f \in Friends
  PROVE  /\ next[f].date \in Int /\ next'[f].date \in Int
         /\ f \in Commits(job[w]) => next'[f].date >= job[w].day /\ next'[f].date >= today - 1
         /\ f \notin Commits(job[w]) => next'[f].date = next[f].date
<1> DEFINE j == job[w]
<1>1. /\ j \in Job /\ Timely(j) /\ j.pc = "save" /\ today \in Int
      /\ next[f] \in Rows /\ next'[f] \in Rows /\ HelloesOf(j) \in [Friends -> Dates]
      /\ next'[f] = IF f \in Commits(j) THEN j.rows[f] ELSE Orphaned(next[f], HelloesOf(j), f)
  BY CommitFacts DEF Right, MInv, Columns
<1> HIDE DEF j
<1>2. next[f].date \in Int /\ next'[f].date \in Int
  BY <1>1 DEF Rows
<1>3. j.day \in Int /\ today <= j.day + 1
  BY <1>1 DEF Timely, Job
<1>4. ASSUME f \in Commits(j)
      PROVE  next'[f].date >= j.day /\ next'[f].date >= today - 1
  <2>1. next'[f].date >= j.day
    BY <1>1, <1>4 DEF Timely
  <2>2. QED
    BY <1>1, <1>2, <1>3, <2>1
<1>5. ASSUME f \notin Commits(j)
      PROVE  next'[f].date = next[f].date
  BY <1>1, <1>5, OrphanedFacts
<1>6. QED
  BY <1>2, <1>4, <1>5 DEF j

LEMMA CommitOverdue ==
  ASSUME MInv, NEW w \in Requests, Commit(w)
  PROVE  HelloesAhead(helloes)' /\ last_upcoming_update' <= today' + 1 /\ OverdueIsBounded'
<1> DEFINE j == job[w]
<1>1. /\ j \in Job /\ Timely(j) /\ j.pc = "save" /\ today \in Int /\ today' = today
      /\ helloes' = HelloesOf(j) /\ (j.op # "remix" => Commits(j) = Loaded(j))
  BY CommitFacts DEF Right
<1>2. HelloesAhead(helloes)'
  <2>1. HelloesAhead(HelloesOf(j))
    BY <1>1, SeenHelloesAhead DEF MInv, Days
  <2>2. QED
    BY <1>1, <2>1 DEF HelloesAhead
<1>3. last_upcoming_update' = IF j.op \in {"upcoming", "combined"} THEN j.local
                              ELSE last_upcoming_update
  BY DEF Commit
<1>4. /\ last_upcoming_update \in Int /\ last_upcoming_update <= today + 1 /\ OverdueIsBounded
  BY DEF MInv, Days, Columns
<1>5. \A f \in Friends :
         /\ next[f].date \in Int /\ next'[f].date \in Int
         /\ f \in Commits(j) => next'[f].date >= j.day /\ next'[f].date >= today - 1
         /\ f \notin Commits(j) => next'[f].date = next[f].date
  BY CommitDates
<1> HIDE DEF j
<1>6. j.day \in Int /\ j.local \in Int /\ j.day <= today
  BY <1>1 DEF Timely, Job
<1>7. CASE j.op \in {"upcoming", "combined"}
  <2>1. /\ last_upcoming_update' = j.local /\ j.local <= j.day + 1
        /\ \A f \in Friends \ Commits(j) : next[f].date >= j.day - 1
    BY <1>1, <1>3, <1>7 DEF Timely
  <2>2. \A f \in Friends : next'[f].date >= j.local - 2
    BY <1>5, <1>6, <2>1
  <2>3. QED
    BY <1>1, <1>2, <1>6, <2>1, <2>2 DEF OverdueIsBounded
<1>8. CASE j.op \notin {"upcoming", "combined"}
  <2>1. \A f \in Friends : next'[f].date >= last_upcoming_update - 2
    BY <1>1, <1>4, <1>5 DEF OverdueIsBounded
  <2>2. QED
    BY <1>1, <1>2, <1>3, <1>4, <1>8, <2>1 DEF OverdueIsBounded
<1>9. QED
  BY <1>7, <1>8

LEMMA MostRecentOf ==
  ASSUME NEW hs, NEW gs, NEW f \in Friends, hs[f] = gs[f]
  PROVE  MostRecent(hs, f) = MostRecent(gs, f) /\ Latest(hs, f) = Latest(gs, f)
<1>1. Recorded(hs, f) = Recorded(gs, f)
  BY DEF Recorded
<1>2. Latest(hs, f) = Latest(gs, f)
  BY <1>1 DEF Latest
<1>3. QED
  BY <1>1, <1>2 DEF MostRecent

\* days_since counts from the most recent hello after the commit.
LEMMA CommitNames ==
  ASSUME MInv, NEW w \in Requests, Commit(w)
  PROVE  PreviousIsLatest'
<1> DEFINE j == job[w]
           hs == HelloesOf(job[w])
<1> SUFFICES ASSUME NEW f \in Friends, "hello" \notin raced'[f]
             PROVE  next'[f].previous \in Latest(helloes', f) \cup {NoHello}
  BY DEF PreviousIsLatest
<1>1. /\ j \in Job /\ Shape(j) /\ Named(j) /\ j.pc = "save"
      /\ helloes' = hs /\ hs \in [Friends -> Dates]
      /\ next[f] \in Rows /\ helloes \in [Friends -> Dates]
      /\ next'[f] = IF f \in Commits(j) THEN j.rows[f] ELSE Orphaned(next[f], hs, f)
      /\ j.op # "remix" => Commits(j) = Loaded(j)
  BY CommitFacts DEF Right, MInv, Columns
<1>2. raced'[f] = IF f \in Commits(j) THEN j.stale[f] ELSE raced[f]
  BY DEF Commit
<1>3. j.op \in {"hello", "delete"} => hs = [helloes EXCEPT ![j.friend][j.hello] = j.date]
  BY DEF HelloesOf
<1>4. j.op \notin {"hello", "delete"} => hs = helloes
  BY DEF HelloesOf
<1>5. f \in Commits(j) => j.rows[f].previous \in MostRecent(hs, f)
  BY <1>1, <1>2 DEF Named
<1>6. f \notin Commits(j) => next[f].previous \in Latest(helloes, f) \cup {NoHello}
  BY <1>2 DEF MInv, Names, PreviousIsLatest
<1> HIDE DEF j, hs
<1>7. CASE f \in Commits(j)
  BY <1>1, <1>5, <1>7 DEF MostRecent
<1>8. CASE f \notin Commits(j)
  <2> DEFINE p == next[f].previous
  <2>1. \/ next'[f].previous = NoHello
        \/ next'[f].previous = p /\ hs[f][p] # NoDate
    <3>1. next'[f] = Orphaned(next[f], hs, f)
      BY <1>1, <1>8
    <3>2. \/ Orphaned(next[f], hs, f).previous = NoHello
          \/ /\ Orphaned(next[f], hs, f).previous = next[f].previous
             /\ hs[f][next[f].previous] # NoDate
      BY <1>1, OrphanedFacts
    <3>3. QED
      BY <3>1, <3>2
  <2>2. CASE next'[f].previous = NoHello
    BY <2>2
  <2>3. CASE next'[f].previous = p /\ hs[f][p] # NoDate /\ p # NoHello
    <3>1. p \in Latest(helloes, f)
      BY <1>6, <1>8, <2>3
    <3>2. CASE hs[f] = helloes[f]
      BY <1>1, <2>3, <3>1, <3>2, MostRecentOf
    <3>3. CASE hs[f] # helloes[f]
      <4>1. f = j.friend /\ j.op \in {"hello", "delete"}
        BY <1>1, <1>3, <1>4, <3>3 DEF Dates
      <4>2. j.op # "hello"
        BY <1>1, <1>8, <4>1 DEF Shape
      <4>3. \A i \in Ids : hs[f][i] = IF i = j.hello THEN NoDate ELSE helloes[f][i]
        BY <1>1, <1>3, <4>1, <4>2 DEF Dates, Shape
      <4>4. p \in Ids /\ \A g \in Recorded(helloes, f) : helloes[f][g] <= helloes[f][p]
        BY <3>1 DEF Latest, Recorded
      <4>5. p \in Recorded(hs, f) /\ p # j.hello
        BY <2>3, <4>3, <4>4 DEF Recorded
      <4>6. \A g \in Recorded(hs, f) : g \in Recorded(helloes, f) /\ g # j.hello
        BY <4>3 DEF Recorded
      <4>7. \A g \in Recorded(hs, f) : hs[f][g] <= hs[f][p]
        BY <4>3, <4>4, <4>5, <4>6 DEF Recorded
      <4>8. QED
        BY <1>1, <2>3, <4>5, <4>7 DEF Latest
    <3>4. QED
      BY <3>2, <3>3
  <2>4. QED
    BY <2>1, <2>2, <2>3
<1>9. QED
  BY <1>7, <1>8

\* The other requests: their copies are as they were, and known to be stale.
LEMMA CommitOthers ==
  ASSUME MInv, NEW w \in Requests, Commit(w), NEW v \in Requests, v # w
  PROVE  job'[v] \in Job /\ Shape(job[v])' /\ Counted(job[v])' /\ Timely(job[v])'
         /\ Fresh(job[v])' /\ Named(job[v])'
<1> DEFINE i == job[v]
           o == job'[v]
           hs == HelloesOf(job[w])
<1>1. /\ i \in Job /\ Shape(i) /\ Counted(i) /\ Timely(i) /\ Fresh(i) /\ Named(i)
  BY DEF MInv, JobsOK, Shapes, Counts, Days, Reads, Names
<1>2. o = [i EXCEPT !.stale = [f \in Friends |->
              i.stale[f] \cup (IF next'[f] # next[f] THEN {"row"} ELSE {})
                         \cup (IF hs[f] # helloes[f] THEN {"hello"} ELSE {})]]
  BY DEF Commit, Outdated
<1>3. /\ today' = today /\ today \in Int /\ helloes' = hs
      /\ \A f \in Friends : voided[f] \in Nat /\ voided'[f] \in Nat /\ voided[f] <= voided'[f]
  BY CommitFacts
<1>4. /\ \A f \in Friends : /\ next[f].date \in Int /\ next'[f].date \in Int
                            /\ \/ next'[f].date = next[f].date
                               \/ next'[f].date >= today - 1
  BY CommitDates
<1>5. job'[v] = o
  OBVIOUS
<1> HIDE DEF i, o, hs
<1>6. /\ \A f \in Friends : /\ i.stale[f] \subseteq o.stale[f]
                            /\ "row" \notin o.stale[f] => next'[f] = next[f]
                            /\ "hello" \notin o.stale[f] => hs[f] = helloes[f]
      /\ o.stale \in [Friends -> SUBSET Changes]
  BY <1>1, <1>2 DEF Job, Changes
<1>7. /\ o.pc = i.pc /\ o.op = i.op /\ o.friend = i.friend /\ o.hello = i.hello
      /\ o.date = i.date /\ o.day = i.day /\ o.local = i.local /\ o.rows = i.rows
      /\ o.saved = i.saved /\ o.written = i.written /\ o.missed = i.missed
  BY <1>1, <1>2 DEF Job
<1>8. o \in Job
  BY <1>1, <1>2, <1>6 DEF Job
<1>9. Loaded(o) = Loaded(i) /\ Commits(o) = Commits(i) /\ Loaded(i) \subseteq Friends
  BY <1>7 DEF Loaded, Commits
<1>10. Shape(job[v])'
  BY <1>1, <1>5, <1>7, <1>9 DEF Shape
<1>11. Counted(job[v])'
  <2> SUFFICES ASSUME NEW f \in Loaded(o) \ o.written
               PROVE  /\ o.rows[f].miss_count = o.rows[f].void_count
                      /\ o.rows[f].void_count <= voided'[f] + (IF f \in o.missed THEN 1 ELSE 0)
    BY <1>5, <1>9 DEF Counted, Loaded
  <2>1. f \in Friends /\ f \in Loaded(i) \ i.written
    BY <1>7, <1>9
  <2>2. o.rows[f].void_count \in Nat
    BY <1>1, <1>7, <2>1 DEF Loaded, Job, Rows
  <2>3. o.rows[f].miss_count = o.rows[f].void_count
        /\ o.rows[f].void_count <= voided[f] + (IF f \in o.missed THEN 1 ELSE 0)
    BY <1>1, <1>7, <2>1 DEF Counted
  <2>4. QED
    BY <1>3, <2>1, <2>2, <2>3
<1>12. Timely(job[v])'
  <2>1. i.day \in Int /\ (i.pc # "idle" => i.day <= today)
    BY <1>1 DEF Timely, Job
  <2>2. o.pc = "save" /\ o.op \in {"upcoming", "combined"} =>
           \A f \in Friends \ Loaded(o) : next'[f].date >= o.day - 1
    BY <1>1, <1>3, <1>4, <1>7, <1>9, <2>1 DEF Timely
  <2>3. QED
    BY <1>1, <1>3, <1>5, <1>7, <1>9, <2>2 DEF Timely, Commits, Loaded
<1>13. Fresh(job[v])'
  <2> SUFFICES ASSUME NEW f \in Loaded(o), "row" \notin o.stale[f]
               PROVE  /\ f \notin o.saved /\ o.op \in {"delete", "upcoming", "combined"} =>
                           o.rows[f].date = next'[f].date
                      /\ f \notin o.saved /\ o.op \in {"hello", "settings"} =>
                           o.rows[f].date >= o.day + 2
                      /\ f \in o.missed /\ o.op # "remix" => next'[f].date < today'
    BY <1>5 DEF Fresh, Loaded
  <2>1. f \in Friends /\ f \in Loaded(i) /\ next'[f] = next[f] /\ "row" \notin i.stale[f]
    BY <1>6, <1>9
  <2>2. QED
    BY <1>1, <1>3, <1>7, <2>1 DEF Fresh
<1>14. Named(job[v])'
  <2> SUFFICES ASSUME NEW f \in Commits(o), "hello" \notin o.stale[f]
               PROVE  o.rows[f].previous \in MostRecent(HelloesOf(job[v])', f)
    BY <1>5 DEF Named, Commits
  <2>1. f \in Friends /\ f \in Commits(i) /\ "hello" \notin i.stale[f] /\ hs[f] = helloes[f]
    BY <1>1, <1>6, <1>9 DEF Shape, Commits
  <2>2. HelloesOf(job[v])' = IF i.op \in {"hello", "delete"}
                             THEN [hs EXCEPT ![i.friend][i.hello] = i.date] ELSE hs
    BY <1>3, <1>5, <1>7 DEF HelloesOf
  <2>3. HelloesOf(i) = IF i.op \in {"hello", "delete"}
                       THEN [helloes EXCEPT ![i.friend][i.hello] = i.date] ELSE helloes
    BY DEF HelloesOf
  <2>4. hs \in [Friends -> Dates] /\ helloes \in [Friends -> Dates]
    BY CommitFacts DEF hs, MInv, Columns
  <2>5. (HelloesOf(job[v])')[f] = HelloesOf(i)[f]
    BY <2>1, <2>2, <2>3, <2>4
  <2>6. MostRecent(HelloesOf(job[v])', f) = MostRecent(HelloesOf(i), f)
    BY <2>1, <2>5, MostRecentOf
  <2>7. QED
    BY <1>1, <1>7, <2>1, <2>6 DEF Named
<1>15. QED
  BY <1>5, <1>8, <1>10, <1>11, <1>12, <1>13, <1>14

\* The request itself: done, about to show, or with the rest of a remix to write.
LEMMA CommitOwn ==
  ASSUME MInv, NEW w \in Requests, Commit(w)
  PROVE  job'[w] \in Job /\ Shape(job[w])' /\ Counted(job[w])' /\ Timely(job[w])'
         /\ Fresh(job[w])' /\ Named(job[w])'
<1> DEFINE j == job[w]
           o == job'[w]
<1>1. /\ j \in Job /\ Shape(j) /\ Counted(j) /\ Timely(j) /\ Fresh(j) /\ Named(j)
      /\ j.pc = "save" /\ today' = today /\ today \in Int
      /\ Loaded(j) \subseteq Friends /\ Commits(j) \subseteq Loaded(j)
      /\ \A f \in Friends : voided[f] \in Nat /\ (f \notin j.missed => voided'[f] = voided[f])
  BY CommitFacts DEF Right
<1>2. o = AfterCommit(j)
  BY DEF Commit
<1>3. j.day \in Int /\ j.day <= today /\ today <= j.day + 1
  BY <1>1 DEF Timely, Job
<1>4. job'[w] = o
  OBVIOUS
<1> HIDE DEF j, o
<1>5. CASE j.op = "remix"
  <2>1. /\ o.saved = j.saved /\ o.written = j.saved /\ o.missed = {} /\ o.op = "remix"
        /\ o.rows = j.rows /\ o.stale = j.stale /\ o.date = j.date /\ o.day = j.day
        /\ o.pc \in {"save", "show"} /\ o \in Job
    BY <1>1, <1>2, <1>5 DEF AfterCommit, Job
  <2>2. Loaded(o) = Loaded(j) /\ Commits(o) = {}
    BY <2>1 DEF Loaded, Commits
  <2>3. Shape(job[w])'
    BY <1>1, <1>4, <2>1, <2>2 DEF Shape
  <2>4. Counted(job[w])'
    <3> SUFFICES ASSUME NEW f \in Loaded(o) \ o.written
                 PROVE  /\ o.rows[f].miss_count = o.rows[f].void_count
                        /\ o.rows[f].void_count
                             <= voided'[f] + (IF f \in o.missed THEN 1 ELSE 0)
      BY <1>4 DEF Counted, Loaded
    <3>1. f \in Loaded(j) \ j.written /\ f \notin j.missed /\ f \in Friends
      BY <1>1, <2>1, <2>2 DEF Shape, Commits
    <3>2. QED
      BY <1>1, <2>1, <3>1 DEF Counted
  <2>5. Timely(job[w])'
    BY <1>1, <1>3, <1>4, <2>1, <2>2 DEF Timely
  <2>6. Fresh(job[w])'
    BY <1>4, <2>1, <2>2 DEF Fresh
  <2>7. Named(job[w])'
    BY <1>4, <2>1, <2>2 DEF Named
  <2>8. QED
    BY <1>4, <2>1, <2>3, <2>4, <2>5, <2>6, <2>7
<1>6. CASE j.op # "remix"
  <2>1. \/ o = Idle
        \/ o = [Showing EXCEPT !.day = j.day]
    BY <1>2, <1>6, IdleType DEF AfterCommit, Showing, Idle
  <2>2. o \in Job
    BY <1>3, <2>1, IdleType DEF Job
  <2>3. /\ o.saved = {} /\ o.written = {} /\ o.missed = {} /\ o.date = NoDate
        /\ o.rows = NothingLoaded /\ (o.op = "hello" => o.pc = "idle")
        /\ o.pc \in {"idle", "show"} /\ o.op \in {"hello", "combined"}
        /\ (o.pc # "idle" => o.day = j.day)
    <3>1. CASE o = Idle
      BY <3>1 DEF Idle
    <3>2. CASE o = [Showing EXCEPT !.day = j.day]
      BY <3>2 DEF Idle, Showing
    <3>3. QED
      BY <2>1, <3>1, <3>2
  <2>4. Loaded(o) = {} /\ Commits(o) = {}
    BY <2>3 DEF Loaded, Commits, NothingLoaded
  <2>5. Shape(job[w])'
    BY <1>4, <2>3, <2>4 DEF Shape
  <2>6. Counted(job[w])'
    BY <1>4, <2>3, <2>4 DEF Counted
  <2>7. Timely(job[w])'
    BY <1>1, <1>3, <1>4, <2>3, <2>4, NullAssumption DEF Timely
  <2>8. Fresh(job[w])' /\ Named(job[w])'
    BY <1>4, <2>3, <2>4 DEF Fresh, Named
  <2>9. QED
    BY <1>4, <2>2, <2>5, <2>6, <2>7, <2>8
<1>7. QED
  BY <1>5, <1>6

LEMMA CommitStep ==
  ASSUME MInv, NEW w \in Requests, Commit(w)
  PROVE  MInv'
<1>1. \A v \in Requests : /\ job'[v] \in Job /\ Shape(job[v])' /\ Counted(job[v])'
                          /\ Timely(job[v])' /\ Fresh(job[v])' /\ Named(job[v])'
  BY CommitOwn, CommitOthers
<1>2. job' = [v \in Requests |-> job'[v]]
  BY DEF Commit
<1>3. JobsOK'
  BY <1>1, <1>2 DEF JobsOK
<1>4. Columns' /\ VoidsHaveRows' /\ PreviousIsLatest'
  BY CommitColumns, CommitVoids, CommitNames
<1>5. HelloesAhead(helloes)' /\ last_upcoming_update' <= today' + 1 /\ OverdueIsBounded'
  BY CommitOverdue
<1>6. Shapes' /\ Counts' /\ Days' /\ Reads' /\ Names'
  BY <1>1, <1>4, <1>5 DEF Shapes, Counts, Days, Reads, Names
<1>7. QED
  BY <1>3, <1>4, <1>6 DEF MInv

-----------------------------------------------------------------------------
(* The other steps *)

\* A request that ends with nothing written.
LEMMA EndStep ==
  ASSUME MInv, NEW w \in Requests, job' = [job EXCEPT ![w] = Idle],
         UNCHANGED <<today, last_upcoming_update, settings, helloes, born, next, voided,
                     calls, raced>>,
         upcoming_friend' \in Friends \cup {NoFriend}
  PROVE  MInv'
<1>1. Idle \in Job /\ Right(Idle)
  BY IdleType, IdleRight DEF MInv, Counts
<1>2. Shapes' /\ Counts' /\ Days' /\ Reads' /\ Names'
  BY <1>1, OneJob
<1>3. JobsOK' /\ Columns'
  BY <1>1 DEF MInv, JobsOK, Columns
<1>4. QED
  BY <1>2, <1>3 DEF MInv

LEMMA NewDayStep ==
  ASSUME MInv, NewDay
  PROVE  MInv'
<1>1. /\ today' = today + 1 /\ today \in Int
      /\ UNCHANGED <<last_upcoming_update, settings, helloes, next, voided, upcoming_friend,
                     raced, born, job, calls>>
      /\ \A w \in Requests : job[w].pc # "idle" => job[w].day = today
  BY DEF NewDay, UnchangedRows, MInv, Columns
<1>2. Columns' /\ JobsOK'
  BY <1>1 DEF MInv, Columns, JobsOK
<1>3. Shapes'
  BY <1>1 DEF MInv, Shapes, Shape
<1>4. Counts'
  BY <1>1 DEF MInv, Counts, Counted, VoidsHaveRows
<1>5. HelloesAhead(helloes)'
  <2>1. \A g \in Friends, i \in Ids :
           helloes[g][i] \in Int => helloes[g][i] <= today + 3 + 1
    BY <1>1 DEF MInv, Days, HelloesAhead
  <2>2. QED
    BY <1>1, <2>1 DEF HelloesAhead
<1>6. last_upcoming_update' <= today' + 1 /\ OverdueIsBounded'
  BY <1>1 DEF MInv, Days, OverdueIsBounded, Columns
<1>7. \A w \in Requests : Timely(job[w])'
  <2> SUFFICES ASSUME NEW w \in Requests PROVE Timely(job[w])'
    OBVIOUS
  <2>1. Timely(job[w]) /\ job[w] \in Job
    BY DEF MInv, Days, JobsOK
  <2>2. job[w].day \in Int
    BY <2>1 DEF Job
  <2>3. job[w].date \in Int => job[w].date <= today + 1 + 3
    BY <1>1, <2>1 DEF Timely
  <2>4. job[w].pc # "idle" => job[w].day <= today + 1 /\ today + 1 <= job[w].day + 1
    BY <1>1, <2>2
  <2>5. QED
    BY <1>1, <2>1, <2>3, <2>4 DEF Timely
<1>8. Reads'
  <2> SUFFICES ASSUME NEW w \in Requests PROVE Fresh(job[w])'
    BY DEF Reads
  <2>1. Fresh(job[w]) /\ Loaded(job[w]) \subseteq Friends
    BY DEF MInv, Reads, Loaded
  <2>2. \A f \in Friends : next[f].date \in Int
    BY DEF MInv, Columns, Rows
  <2>3. QED
    BY <1>1, <2>1, <2>2 DEF Fresh
<1>9. Names'
  BY <1>1 DEF MInv, Names, Named, PreviousIsLatest, HelloesOf
<1>10. QED
  BY <1>2, <1>3, <1>4, <1>5, <1>6, <1>7, <1>8, <1>9 DEF MInv, Days

LEMMA FailStep == ASSUME MInv, NEW w \in Requests, Fail(w) PROVE MInv'
  BY EndStep DEF Fail, UnchangedRows, MInv, Columns

LEMMA ShowStep == ASSUME MInv, NEW w \in Requests, Show(w) PROVE MInv'
  BY EndStep DEF Show

-----------------------------------------------------------------------------
LEMMA MInit ==
  ASSUME Init
  PROVE  MInv
<1> USE BoundsAssumption, ClientAssumption, NullAssumption
<1>1. PICK a \in Ages : helloes = [f \in Friends |-> [h \in Ids |-> IF h = 0 THEN -a ELSE NoDate]]
  BY DEF Init
<1>2. PICK d \in [Friends -> UNION {timespan(s) : s \in SettingsUsed}] :
        /\ \A f \in Friends : d[f] \in timespan(settings[f]) \cap DueIn
        /\ next = [f \in Friends |-> NewRow(d[f])]
  BY DEF Init
<1>3. a \in Int /\ -a <= 3 /\ 0 \in Ids
  BY DEF Ids
<1>4. settings \in [Friends -> Settings]
  BY DEF Init
<1>5. \A f \in Friends : d[f] \in Int /\ d[f] >= 2
  BY <1>2, <1>4, TimespanFromTwo
<1>6. \A f \in Friends : /\ next[f] \in Rows /\ next[f].date >= 2 /\ next[f].previous = 0
                         /\ next[f].void_count = 0 /\ next[f].miss_count = 0
  BY <1>2, <1>3, <1>5 DEF NewRow, Rows
<1>7. helloes \in [Friends -> Dates]
  BY <1>1, <1>3 DEF Dates
<1>8. /\ today = 0 /\ last_upcoming_update = -1 /\ born = [f \in Friends |-> 1]
      /\ voided = [f \in Friends |-> 0] /\ upcoming_friend = NoFriend
      /\ job = [w \in Requests |-> Idle] /\ calls = 0 /\ raced = Unchanged
  BY DEF Init
<1>9. Columns
  <2>1. next \in [Friends -> Rows]
    BY <1>2, <1>6
  <2>2. raced \in [Friends -> SUBSET Changes]
    BY <1>8 DEF Unchanged
  <2>3. QED
    BY <1>4, <1>7, <1>8, <2>1, <2>2 DEF Columns
<1>10. JobsOK
  BY <1>8, IdleType DEF JobsOK
<1>11. VoidsHaveRows
  <2>1. \A f \in Friends : voided[f] = 0
    BY <1>8
  <2>2. \A f \in Friends : next[f].void_count = 0 /\ next[f].miss_count = 0
    BY <1>6
  <2>3. \A f \in Friends : /\ next[f].void_count <= voided[f]
                           /\ next[f].miss_count = next[f].void_count
    <3> SUFFICES ASSUME NEW f \in Friends PROVE next[f].void_count <= voided[f]
      BY <2>2
    <3>1. next[f].void_count = 0 /\ voided[f] = 0
      BY <2>1, <2>2
    <3>2. QED
      BY <3>1
  <2>4. QED
    BY <2>3 DEF VoidsHaveRows
<1>12. \A w \in Requests : Right(job[w])
  BY <1>8, <1>9, <1>11, IdleRight
<1>13. HelloesAhead(helloes)
  BY <1>1, <1>3, <1>8 DEF HelloesAhead
<1>14. OverdueIsBounded
  <2>1. \A f \in Friends : next[f].date \in Int /\ next[f].date >= 2
    BY <1>6 DEF Rows
  <2>2. last_upcoming_update - 2 = -3
    BY <1>8
  <2>3. \A f \in Friends : next[f].date >= -3
    <3> SUFFICES ASSUME NEW f \in Friends PROVE next[f].date >= -3
      OBVIOUS
    <3>1. next[f].date \in Int /\ next[f].date >= 2
      BY <2>1
    <3>2. QED
      BY <3>1
  <2>4. QED
    BY <2>2, <2>3 DEF OverdueIsBounded
<1>15. PreviousIsLatest
  BY <1>1, <1>3, <1>6 DEF PreviousIsLatest, Latest, Recorded
<1>16. QED
  BY <1>8, <1>9, <1>10, <1>11, <1>12, <1>13, <1>14, <1>15
     DEF MInv, Shapes, Counts, Days, Reads, Names, Right

LEMMA MStep ==
  ASSUME MInv, [Next]_vars
  PROVE  MInv'
<1>1. CASE UNCHANGED vars
  BY <1>1 DEF vars, MInv, Columns, JobsOK, Shapes, Counts, Days, Reads, Names, Shape, Counted,
     Timely, Fresh, Named, VoidsHaveRows, OverdueIsBounded, PreviousIsLatest, HelloesAhead,
     HelloesOf
<1>2. CASE NewDay
  BY <1>2, NewDayStep
<1>3. ASSUME NEW w \in Requests, NEW f \in Friends, NEW h \in Ids, NEW a \in Ages,
             Hello(w, f, h, a)
      PROVE  MInv'
  BY <1>3, HelloStep DEF Hello
<1>4. ASSUME NEW w \in Requests, NEW f \in Friends, NEW h \in Ids, DeleteHello(w, f, h)
      PROVE  MInv'
  BY <1>4, DeleteHelloStep
<1>5. ASSUME NEW w \in Requests, NEW f \in Friends, NEW s \in SettingsUsed,
             ChangeSettings(w, f, s)
      PROVE  MInv'
  BY <1>5, ChangeSettingsStep
<1>6. ASSUME NEW w \in Requests, Upcoming(w) PROVE MInv'
  BY <1>6, UpcomingStep
<1>7. ASSUME NEW w \in Requests, NEW k \in Skews, Combined(w, today + k) PROVE MInv'
  BY <1>7, CombinedStep
<1>8. ASSUME NEW w \in Requests, Remix(w) PROVE MInv'
  BY <1>8, RemixStep
<1>9. ASSUME NEW w \in Requests, NEW f \in Friends, Save(w, f) PROVE MInv'
  BY <1>9, SaveStep
<1>10. ASSUME NEW w \in Requests, Commit(w) PROVE MInv'
  BY <1>10, CommitStep
<1>11. ASSUME NEW w \in Requests, Fail(w) PROVE MInv'
  BY <1>11, FailStep
<1>12. ASSUME NEW w \in Requests, Show(w) PROVE MInv'
  BY <1>12, ShowStep
<1>13. QED
  BY <1>1, <1>2, <1>3, <1>4, <1>5, <1>6, <1>7, <1>8, <1>9, <1>10, <1>11, <1>12 DEF Next

\* Every state of a behaviour satisfies the inductive invariant.
LEMMA MInvariant == Spec => []MInv
<1>1. Init => MInv
  BY MInit
<1>2. MInv /\ [Next]_vars => MInv'
  BY MStep
<1>3. QED
  BY <1>1, <1>2, PTL DEF Spec

\* Every column and every copy of a request has its type: no count of voided meets goes
\* below zero, every date a NextMeet is given is a date (friends/models.py, NextMeet).
THEOREM MeetsTyped == Spec => []MTypeOK
<1>1. MInv => MTypeOK
  BY TypeParts DEF MInv
<1>2. QED
  BY <1>1, MInvariant, PTL

\* Whatever requests overlap, the counters of a next meet never claim more than the rows of
\* VoidedMeet, and every void is a miss (NextMeet.create_new_date_if_needed).
THEOREM VoidsBacked == Spec => []VoidsHaveRows
<1>1. MInv => VoidsHaveRows
  BY DEF MInv, Counts
<1>2. QED
  BY <1>1, MInvariant, PTL

\* After a refresh no next meet is long overdue, though the refresh compares days of two
\* calendars and overlaps other saves (CombinedFriendsUpcomingView, perform_update).
THEOREM RefreshBoundsOverdue == Spec => []OverdueIsBounded
<1>1. MInv => OverdueIsBounded
  BY DEF MInv, Days
<1>2. QED
  BY <1>1, MInvariant, PTL

\* The next meet counts from the most recent hello, unless helloes changed during its last
\* save (NextMeet.save, PastMeet.save, PastMeet.delete).
THEOREM NextNamesLatest == Spec => []PreviousIsLatest
<1>1. MInv => PreviousIsLatest
  BY DEF MInv, Names
<1>2. QED
  BY <1>1, MInvariant, PTL

\* A meet is voided only when its date is over, except by a save from a stale copy and by a
\* remix (NextMeet.create_new_date_if_needed, remix_all_next_meets).
THEOREM VoidedAreOverdue == Spec => VoidsOnlyOverdue
<1> DEFINE Over(f) == \/ next[f].date < today
                      \/ "row" \in raced'[f]
                      \/ \E w \in Requests : f \in Commits(job[w]) /\ job[w].op = "remix"
<1>1. ASSUME MInv, [Next]_vars, NEW f \in Friends, voided'[f] # voided[f]
      PROVE  Over(f)
  <2>1. PICK w \in Requests : Commit(w)
    BY <1>1 DEF Next, vars, NewDay, Hello, DeleteHello, ChangeSettings, Upcoming, Combined,
       Remix, Save, Fail, Show, UnchangedRows
  <2>2. /\ Shape(job[w]) /\ Fresh(job[w]) /\ Commits(job[w]) \subseteq Loaded(job[w])
        /\ f \notin job[w].missed => voided'[f] = voided[f]
    BY <1>1, <2>1, CommitFacts DEF Right
  <2>3. f \in job[w].missed /\ f \in Commits(job[w]) /\ f \in Loaded(job[w])
    BY <1>1, <2>2 DEF Shape
  <2>4. raced'[f] = job[w].stale[f]
    BY <2>1, <2>3 DEF Commit
  <2>5. QED
    BY <2>2, <2>3, <2>4 DEF Fresh
<1>2. MInv /\ [Next]_vars => [\A f \in Friends : voided'[f] # voided[f] => Over(f)]_vars
  BY <1>1
<1>3. QED
  BY <1>2, MInvariant, PTL DEF Spec, VoidsOnlyOverdue

=============================================================================
