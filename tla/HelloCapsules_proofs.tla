------------------------ MODULE HelloCapsules_proofs ------------------------
(* Only the wipe of a hello loses capsules, and none is in two places, whatever the number
   of capsules, helloes and requests. *)
EXTENDS HelloCapsules, TLAPS

\* What a request has found of the rows stays so until it ends: those it deletes are its
\* own, and it deletes none it has not archived unless the hello says so.
JobHolds(w) ==
    LET j == job[w]
    IN  /\ j.hello = NoHello \/ j.hello \in begun
        /\ j.pc = "save" => j.hello \in begun
        /\ j.capsule \subseteq added /\ j.copied \subseteq added
        /\ j.going \subseteq added
        /\ j.pc # "save" => j.gone = {}
        /\ \A c \in j.gone : c \in listed /\ lock[c] = w
        /\ j.wipe => j.share.all
        /\ j.share.all \/ j.going \cup j.gone \subseteq j.copied

CapsuleInv ==
    /\ HTypeOK
    /\ \A w \in Requests : JobHolds(w)
    /\ \A c \in Capsules : Archives(c) # {} => c \in added
    /\ CapsulesAreAccountedFor

LEMMA CapsuleInit == Init => CapsuleInv
<1> SUFFICES ASSUME Init PROVE CapsuleInv
  OBVIOUS
<1>1. HTypeOK
  BY HelloesAssumption DEF Init, HTypeOK, Idle, Job, Share
<1>2. \A w \in Requests : JobHolds(w)
  BY DEF Init, JobHolds, Idle
<1>3. QED
  BY <1>1, <1>2 DEF Init, CapsuleInv, Archives, CapsulesAreAccountedFor

-----------------------------------------------------------------------------
(* One step of a request *)

\* The types of what a request keeps
LEMMA JobType ==
  ASSUME HTypeOK, NEW w \in Requests
  PROVE  /\ job[w] \in Job /\ job[w].hello \in Helloes \cup {NoHello}
         /\ job[w].share \in Share /\ job[w].share.names \subseteq Capsules
         /\ job[w].share.all \in BOOLEAN
         /\ job[w].capsule \subseteq Capsules /\ job[w].todo \subseteq Capsules
         /\ job[w].going \subseteq Capsules /\ job[w].wipe \in BOOLEAN
         /\ job[w].copied \subseteq Capsules /\ job[w].gone \subseteq Capsules
<1>1. job[w] \in Job
  BY DEF HTypeOK
<1>2. QED
  BY <1>1 DEF Job, Share

LEMMA SavingType ==
  ASSUME NEW h \in Helloes, NEW s \in Share
  PROVE  /\ Saving(h, s) \in Job
         /\ Saving(h, s).pc = "save" /\ Saving(h, s).hello = h /\ Saving(h, s).share = s
         /\ Saving(h, s).capsule = {} /\ Saving(h, s).going = {}
         /\ Saving(h, s).copied = {} /\ Saving(h, s).gone = {}
         /\ Saving(h, s).wipe => s.all
<1>1. s.names \subseteq Capsules /\ s.all \in BOOLEAN
  BY DEF Share
<1>2. QED
  BY <1>1 DEF Saving, Idle, Job

LEMMA IdleType ==
  /\ Idle \in Job /\ Idle.pc = "idle" /\ Idle.hello = NoHello /\ Idle.capsule = {}
  /\ Idle.going = {} /\ Idle.copied = {} /\ Idle.gone = {} /\ Idle.wipe = FALSE
  BY DEF Idle, Job, Share

\* What the steps of a save change of the request
LEMMA SharedStep ==
  ASSUME HTypeOK, NEW w \in Requests, NEW c \in Capsules, GetShared(w, c)
  PROVE  \E j \in Job :
           /\ job' = [job EXCEPT ![w] = j]
           /\ j.pc = "save" /\ job[w].pc = "save" /\ j.hello = job[w].hello
           /\ j.share = job[w].share /\ j.capsule = job[w].capsule /\ j.gone = job[w].gone
           /\ \/ c \in listed /\ j.copied = job[w].copied \cup {c} /\ j.going = {c}
                 /\ j.wipe = j.share.all
              \/ j.copied = job[w].copied /\ j.going = job[w].going /\ j.wipe = job[w].wipe
<1> DEFINE j == job[w]
<1>1. CASE c \in Visible(j)
  <2> DEFINE i == [j EXCEPT !.todo = @ \ {c}, !.copied = @ \cup {c}, !.going = {c},
                            !.wipe = j.share.all]
  <2>1. i \in Job
    BY JobType DEF Job
  <2>2. /\ i.pc = j.pc /\ i.hello = j.hello /\ i.share = j.share /\ i.capsule = j.capsule
        /\ i.gone = j.gone /\ i.copied = j.copied \cup {c} /\ i.going = {c}
        /\ i.wipe = j.share.all
    BY JobType DEF Job
  <2>3. job' = [job EXCEPT ![w] = i] /\ j.pc = "save"
    BY <1>1 DEF GetShared
  <2>4. c \in listed
    BY <1>1 DEF Visible
  <2> HIDE DEF i, j
  <2>5. QED
    BY <2>1, <2>2, <2>3, <2>4 DEF j
<1>2. CASE c \notin Visible(j)
  <2> DEFINE i == [j EXCEPT !.todo = @ \ {c}]
  <2>1. i \in Job
    BY JobType DEF Job
  <2>2. /\ i.pc = j.pc /\ i.hello = j.hello /\ i.share = j.share /\ i.capsule = j.capsule
        /\ i.gone = j.gone /\ i.copied = j.copied /\ i.going = j.going /\ i.wipe = j.wipe
    BY JobType DEF Job
  <2>3. job' = [job EXCEPT ![w] = i] /\ j.pc = "save"
    BY <1>2 DEF GetShared
  <2> HIDE DEF i, j
  <2>4. QED
    BY <2>1, <2>2, <2>3 DEF j
<1>3. QED
  BY <1>1, <1>2

LEMMA WipeStep ==
  ASSUME HTypeOK, NEW w \in Requests, Wipe(w)
  PROVE  \E j \in Job :
           /\ job' = [job EXCEPT ![w] = j]
           /\ j.pc = "save" /\ job[w].pc = "save" /\ j.hello = job[w].hello
           /\ j.share = job[w].share /\ j.capsule = job[w].capsule /\ j.gone = job[w].gone
           /\ j.copied = job[w].copied /\ j.going \subseteq listed /\ ~j.wipe
           /\ job[w].wipe
<1> DEFINE j == job[w]
           i == [j EXCEPT !.wipe = FALSE, !.going = Visible(j)]
<1>1. Visible(j) \subseteq listed /\ listed \subseteq Capsules
  BY DEF Visible, HTypeOK
<1>2. i \in Job
  BY <1>1, JobType DEF Job
<1>3. /\ i.pc = j.pc /\ i.hello = j.hello /\ i.share = j.share /\ i.capsule = j.capsule
      /\ i.gone = j.gone /\ i.copied = j.copied /\ i.going = Visible(j) /\ ~i.wipe
  BY JobType DEF Job
<1>4. job' = [job EXCEPT ![w] = i] /\ j.pc = "save" /\ j.wipe
  BY DEF Wipe
<1> HIDE DEF i, j
<1>5. QED
  BY <1>1, <1>2, <1>3, <1>4 DEF j

LEMMA DeleteStep ==
  ASSUME HTypeOK, NEW w \in Requests, NEW c \in Capsules, DeleteRow(w, c)
  PROVE  \E j \in Job :
           /\ job' = [job EXCEPT ![w] = j]
           /\ j.pc = "save" /\ job[w].pc = "save" /\ j.hello = job[w].hello
           /\ j.share = job[w].share /\ j.capsule = job[w].capsule
           /\ j.copied = job[w].copied /\ j.wipe = job[w].wipe
           /\ c \in job[w].going /\ j.going = job[w].going \ {c}
           /\ j.gone = IF c \in listed THEN job[w].gone \cup {c} ELSE job[w].gone
<1> DEFINE j == job[w]
           i == [j EXCEPT !.going = @ \ {c},
                          !.gone = IF c \in listed THEN @ \cup {c} ELSE @]
<1>1. i \in Job
  BY JobType DEF Job
<1>2. /\ i.pc = j.pc /\ i.hello = j.hello /\ i.share = j.share /\ i.capsule = j.capsule
      /\ i.copied = j.copied /\ i.wipe = j.wipe /\ i.going = j.going \ {c}
      /\ i.gone = IF c \in listed THEN j.gone \cup {c} ELSE j.gone
  BY JobType DEF Job
<1>3. job' = [job EXCEPT ![w] = i] /\ j.pc = "save" /\ c \in j.going
  BY DEF DeleteRow
<1> HIDE DEF i, j
<1>4. QED
  BY <1>1, <1>2, <1>3 DEF j

\* A request that ends lets its rows go, and no others.
LEMMA ReleasedRows ==
  ASSUME NEW w \in Requests, NEW c \in Capsules
  PROVE  /\ lock[c] # w => Released(w)[c] = lock[c]
         /\ Released(w)[c] # NoOne => Released(w)[c] = lock[c] /\ lock[c] # w
  BY RequestsAssumption DEF Released

\* The rows that are locked: those that a request which saves a hello has deleted
LocksAreHeld ==
  /\ lock \in [Capsules -> Requests \cup {NoOne}]
  /\ \A c \in Capsules : lock[c] # NoOne =>
        job[lock[c]].pc = "save" /\ c \in job[lock[c]].gone

LEMMA LocksNext ==
  ASSUME CapsuleInv, [Next]_vars
  PROVE  LocksAreHeld'
<1> USE RequestsAssumption
<1>0. LocksAreHeld /\ job \in [Requests -> Job] /\ \A w \in Requests : JobHolds(w)
  BY DEF CapsuleInv, HTypeOK, LocksAreHeld
<1>1. CASE UNCHANGED vars
  BY <1>0, <1>1 DEF vars, LocksAreHeld
<1>2. CASE \/ \E c \in Capsules : AddCapsule(c) \/ DeleteCapsule(c)
           \/ \E h \in Helloes : DeleteHello(h)
  BY <1>0, <1>2 DEF AddCapsule, DeleteCapsule, DeleteHello, LocksAreHeld
<1>3. ASSUME NEW w \in Requests,
             \/ \E c \in Capsules : EditCapsule(w, c)
             \/ \E h \in Helloes, s \in Share : Hello(w, h, s) \/ EditHello(w, h, s)
             \/ SaveCapsule(w) \/ SaveHello(w)
      PROVE  LocksAreHeld'
  <2>1. /\ lock' = lock /\ job[w].pc # "save"
        /\ \E j : job' = [job EXCEPT ![w] = j]
    BY <1>3, IdleType DEF EditCapsule, Hello, EditHello, SaveCapsule, SaveHello, Call
  <2>2. QED
    BY <1>0, <2>1 DEF LocksAreHeld
<1>4. ASSUME NEW w \in Requests, Wipe(w) \/ \E c \in Capsules : GetShared(w, c)
      PROVE  LocksAreHeld'
  <2>1. /\ lock' = lock
        /\ \E j : job' = [job EXCEPT ![w] = j] /\ j.pc = "save" /\ j.gone = job[w].gone
    BY <1>4, WipeStep, SharedStep, ZenonT(30) DEF Wipe, GetShared, CapsuleInv
  <2>2. QED
    BY <1>0, <2>1 DEF LocksAreHeld
<1>5. ASSUME NEW w \in Requests, NEW c \in Capsules, DeleteRow(w, c)
      PROVE  LocksAreHeld'
  <2>1. /\ lock' = IF c \in listed THEN [lock EXCEPT ![c] = w] ELSE lock
        /\ \E j : /\ job' = [job EXCEPT ![w] = j] /\ j.pc = "save"
                 /\ j.gone = IF c \in listed THEN job[w].gone \cup {c} ELSE job[w].gone
    BY <1>5, DeleteStep, ZenonT(30) DEF DeleteRow, CapsuleInv
  <2>2. QED
    BY <1>0, <2>1 DEF LocksAreHeld
<1>6. ASSUME NEW w \in Requests, Commit(w) \/ Fail(w)
      PROVE  LocksAreHeld'
  <2>1. lock' = Released(w) /\ job' = [job EXCEPT ![w] = Idle]
    BY <1>6 DEF Commit, Fail
  <2>2. QED
    <3>1. lock' \in [Capsules -> Requests \cup {NoOne}]
      BY <1>0, <2>1 DEF Released, LocksAreHeld
    <3>2. QED
      BY <1>0, <2>1, <3>1, ReleasedRows DEF LocksAreHeld
<1>7. QED
  BY <1>1, <1>2, <1>3, <1>4, <1>5, <1>6 DEF Next

\* The types, but for the locks
LEMMA TypeNext ==
  ASSUME CapsuleInv, [Next]_vars
  PROVE  HTypeOK'
<1> USE RequestsAssumption, HelloesAssumption
<1>0. HTypeOK /\ \A w \in Requests : JobHolds(w)
  BY DEF CapsuleInv
<1>1. LocksAreHeld'
  BY LocksNext
<1>2. CASE UNCHANGED vars
  BY <1>0, <1>2 DEF vars, HTypeOK
<1>3. ASSUME NEW c \in Capsules, AddCapsule(c) \/ DeleteCapsule(c)
      PROVE  HTypeOK'
  BY <1>0, <1>1, <1>3 DEF AddCapsule, DeleteCapsule, HTypeOK, LocksAreHeld
<1>4. ASSUME NEW h \in Helloes, DeleteHello(h)
      PROVE  HTypeOK'
  BY <1>0, <1>1, <1>4 DEF DeleteHello, HTypeOK, LocksAreHeld
<1>5. ASSUME NEW w \in Requests, NEW c \in Capsules, EditCapsule(w, c)
      PROVE  HTypeOK'
  <2>1. [Idle EXCEPT !.pc = "read", !.capsule = {c}] \in Job
    BY DEF Idle, Job, Share
  <2>2. QED
    BY <1>0, <1>1, <1>5, <2>1 DEF EditCapsule, Call, HTypeOK, LocksAreHeld
<1>6. ASSUME NEW w \in Requests, NEW h \in Helloes, NEW s \in Share, Hello(w, h, s)
      PROVE  HTypeOK'
  BY <1>0, <1>1, <1>6, SavingType DEF Hello, Call, HTypeOK, LocksAreHeld
<1>7. ASSUME NEW w \in Requests, NEW h \in Helloes, NEW s \in Share, EditHello(w, h, s)
      PROVE  HTypeOK'
  <2>1. [Idle EXCEPT !.pc = "read", !.hello = h, !.share = s] \in Job
    BY DEF Idle, Job, Share
  <2>2. QED
    BY <1>0, <1>1, <1>7, <2>1 DEF EditHello, Call, HTypeOK, LocksAreHeld
<1>8. ASSUME NEW w \in Requests, SaveCapsule(w)
      PROVE  HTypeOK'
  BY <1>0, <1>1, <1>8, IdleType DEF SaveCapsule, HTypeOK, LocksAreHeld, JobHolds
<1>9. ASSUME NEW w \in Requests, SaveHello(w)
      PROVE  HTypeOK'
  BY <1>0, <1>1, <1>9, JobType, SavingType DEF SaveHello, HTypeOK, LocksAreHeld
<1>10. ASSUME NEW w \in Requests,
              Wipe(w) \/ \E c \in Capsules : GetShared(w, c) \/ DeleteRow(w, c)
       PROVE  HTypeOK'
  <2>1. \E j \in Job : job' = [job EXCEPT ![w] = j]
    <3>1. CASE Wipe(w)
      BY <1>0, <3>1, WipeStep
    <3>2. ASSUME NEW c \in Capsules, GetShared(w, c)
          PROVE  \E j \in Job : job' = [job EXCEPT ![w] = j]
      BY <1>0, <3>2, SharedStep
    <3>3. ASSUME NEW c \in Capsules, DeleteRow(w, c)
          PROVE  \E j \in Job : job' = [job EXCEPT ![w] = j]
      BY <1>0, <3>3, DeleteStep
    <3>4. QED
      BY <1>10, <3>1, <3>2, <3>3
  <2>2. UNCHANGED <<listed, added, helloes, begun, copies, discarded, wiped, crossed>>
    BY <1>10 DEF Wipe, GetShared, DeleteRow
  <2>3. QED
    BY <1>0, <1>1, <2>1, <2>2 DEF HTypeOK, LocksAreHeld
<1>11. ASSUME NEW w \in Requests, Commit(w)
       PROVE  HTypeOK'
  <2>1. job[w].hello \in begun /\ begun \subseteq Helloes
    BY <1>0, <1>11 DEF Commit, JobHolds, HTypeOK
  <2>2. copies' \in [Capsules -> [Helloes -> Nat]]
    BY <1>0, <1>11, <2>1 DEF Commit, HTypeOK
  <2>3. discarded' \subseteq Capsules /\ wiped' \subseteq Capsules /\ crossed' \subseteq Capsules
    BY <1>0, <1>11, JobType DEF Commit, HTypeOK
  <2>4. QED
    BY <1>0, <1>1, <1>11, <2>1, <2>2, <2>3, IdleType DEF Commit, HTypeOK, LocksAreHeld
<1>12. ASSUME NEW w \in Requests, Fail(w)
       PROVE  HTypeOK'
  BY <1>0, <1>1, <1>12, IdleType DEF Fail, RolledBack, HTypeOK, LocksAreHeld
<1>13. QED
  BY <1>2, <1>3, <1>4, <1>5, <1>6, <1>7, <1>8, <1>9, <1>10, <1>11, <1>12 DEF Next

\* What a request has found of the rows goes on to hold when another one has moved.
LEMMA OthersHold ==
  ASSUME CapsuleInv, NEW w \in Requests, NEW v \in Requests, v # w, job'[v] = job[v],
         added \subseteq added', begun \subseteq begun',
         \A c \in Capsules : lock[c] = v => lock'[c] = v /\ (c \in listed => c \in listed')
  PROVE  JobHolds(v)'
<1>1. JobHolds(v) /\ job[v].gone \subseteq Capsules
  BY JobType DEF CapsuleInv
<1>2. QED
  BY <1>1 DEF JobHolds

LEMMA HoldsNext ==
  ASSUME CapsuleInv, [Next]_vars, NEW v \in Requests
  PROVE  JobHolds(v)'
<1> USE RequestsAssumption, HelloesAssumption
<1>0. /\ HTypeOK /\ JobHolds(v)
      /\ job \in [Requests -> Job] /\ job[v].gone \subseteq Capsules
  BY JobType DEF CapsuleInv, HTypeOK
<1>2. CASE UNCHANGED vars
  BY <1>0, <1>2 DEF vars, JobHolds
<1>3. ASSUME NEW c \in Capsules, AddCapsule(c) \/ DeleteCapsule(c)
      PROVE  JobHolds(v)'
  BY <1>0, <1>3 DEF AddCapsule, DeleteCapsule, JobHolds
<1>4. ASSUME NEW h \in Helloes, DeleteHello(h)
      PROVE  JobHolds(v)'
  BY <1>0, <1>4 DEF DeleteHello, JobHolds
<1>5. ASSUME NEW w \in Requests, NEW c \in Capsules, EditCapsule(w, c)
      PROVE  JobHolds(v)'
  <2>1. CASE v = w
    BY <1>0, <1>5, <2>1 DEF EditCapsule, Call, JobHolds, Idle, HTypeOK
  <2>2. CASE v # w
    BY <1>0, <1>5, <2>2, OthersHold DEF EditCapsule, Call
  <2>3. QED
    BY <2>1, <2>2
<1>6. ASSUME NEW w \in Requests, NEW h \in Helloes, NEW s \in Share,
             Hello(w, h, s) \/ EditHello(w, h, s)
      PROVE  JobHolds(v)'
  <2>1. CASE v = w /\ Hello(w, h, s)
    BY <1>0, <2>1, SavingType DEF Hello, Call, JobHolds
  <2>2. CASE v = w /\ EditHello(w, h, s)
    BY <1>0, <2>2 DEF EditHello, Call, JobHolds, Idle, HTypeOK
  <2>3. CASE v # w
    BY <1>0, <1>6, <2>3, OthersHold DEF Hello, EditHello, Call
  <2>4. QED
    BY <1>6, <2>1, <2>2, <2>3
<1>7. ASSUME NEW w \in Requests, SaveCapsule(w)
      PROVE  JobHolds(v)'
  <2>1. CASE v = w
    BY <1>0, <1>7, <2>1, IdleType DEF SaveCapsule, JobHolds
  <2>2. CASE v # w
    BY <1>0, <1>7, <2>2, OthersHold DEF SaveCapsule
  <2>3. QED
    BY <2>1, <2>2
<1>8. ASSUME NEW w \in Requests, SaveHello(w)
      PROVE  JobHolds(v)'
  <2>1. CASE v = w
    BY <1>0, <1>8, <2>1, JobType, SavingType DEF SaveHello, JobHolds
  <2>2. CASE v # w
    BY <1>0, <1>8, <2>2, OthersHold DEF SaveHello
  <2>3. QED
    BY <2>1, <2>2
<1>9. ASSUME NEW w \in Requests, NEW c \in Capsules, GetShared(w, c)
      PROVE  JobHolds(v)'
  <2>0. UNCHANGED <<listed, added, begun, lock>>
    BY <1>9 DEF GetShared
  <2>1. PICK j \in Job :
           /\ job' = [job EXCEPT ![w] = j]
           /\ j.pc = "save" /\ job[w].pc = "save" /\ j.hello = job[w].hello
           /\ j.share = job[w].share /\ j.capsule = job[w].capsule /\ j.gone = job[w].gone
           /\ \/ c \in listed /\ j.copied = job[w].copied \cup {c} /\ j.going = {c}
                 /\ j.wipe = j.share.all
              \/ j.copied = job[w].copied /\ j.going = job[w].going /\ j.wipe = job[w].wipe
    BY <1>0, <1>9, SharedStep
  <2>2. CASE v = w
    BY <1>0, <2>0, <2>1, <2>2 DEF JobHolds, HTypeOK
  <2>3. CASE v # w
    BY <1>0, <2>0, <2>1, <2>3, OthersHold
  <2>4. QED
    BY <2>2, <2>3
<1>10. ASSUME NEW w \in Requests, Wipe(w)
       PROVE  JobHolds(v)'
  <2>0. UNCHANGED <<listed, added, begun, lock>>
    BY <1>10 DEF Wipe
  <2>1. PICK j \in Job :
           /\ job' = [job EXCEPT ![w] = j]
           /\ j.pc = "save" /\ job[w].pc = "save" /\ j.hello = job[w].hello
           /\ j.share = job[w].share /\ j.capsule = job[w].capsule /\ j.gone = job[w].gone
           /\ j.copied = job[w].copied /\ j.going \subseteq listed /\ ~j.wipe
           /\ job[w].wipe
    BY <1>0, <1>10, WipeStep
  <2>2. CASE v = w
    BY <1>0, <2>0, <2>1, <2>2 DEF JobHolds, HTypeOK
  <2>3. CASE v # w
    BY <1>0, <2>0, <2>1, <2>3, OthersHold
  <2>4. QED
    BY <2>2, <2>3
<1>11. ASSUME NEW w \in Requests, NEW c \in Capsules, DeleteRow(w, c)
       PROVE  JobHolds(v)'
  <2>0. /\ UNCHANGED <<listed, added, begun>> /\ lock[c] \in {NoOne, w}
        /\ lock' = IF c \in listed THEN [lock EXCEPT ![c] = w] ELSE lock
    BY <1>11 DEF DeleteRow
  <2>1. PICK j \in Job :
           /\ job' = [job EXCEPT ![w] = j]
           /\ j.pc = "save" /\ job[w].pc = "save" /\ j.hello = job[w].hello
           /\ j.share = job[w].share /\ j.capsule = job[w].capsule
           /\ j.copied = job[w].copied /\ j.wipe = job[w].wipe
           /\ c \in job[w].going /\ j.going = job[w].going \ {c}
           /\ j.gone = IF c \in listed THEN job[w].gone \cup {c} ELSE job[w].gone
    BY <1>0, <1>11, DeleteStep
  <2>2. CASE v = w
    BY <1>0, <2>0, <2>1, <2>2 DEF JobHolds, HTypeOK
  <2>3. CASE v # w
    BY <1>0, <2>0, <2>1, <2>3, OthersHold
  <2>4. QED
    BY <2>2, <2>3
<1>12. ASSUME NEW w \in Requests, Commit(w)
       PROVE  JobHolds(v)'
  <2>0. /\ job' = [job EXCEPT ![w] = Idle] /\ lock' = Released(w) /\ listed' = listed \ job[w].gone
        /\ UNCHANGED <<added, begun>>
    BY <1>12 DEF Commit
  <2>1. JobHolds(w)
    BY DEF CapsuleInv
  <2>2. CASE v = w
    BY <1>0, <2>0, <2>2, IdleType DEF JobHolds
  <2>3. CASE v # w
    <3>1. \A c \in Capsules : lock[c] = v => lock'[c] = v /\ (c \in listed => c \in listed')
      BY <2>0, <2>1, <2>3, ReleasedRows DEF JobHolds
    <3>2. QED
      BY <1>0, <2>0, <2>3, <3>1, OthersHold
  <2>4. QED
    BY <2>2, <2>3
<1>13. ASSUME NEW w \in Requests, Fail(w)
       PROVE  JobHolds(v)'
  <2>0. /\ job' = [job EXCEPT ![w] = Idle] /\ lock' = Released(w) /\ listed' = listed
        /\ UNCHANGED <<added, begun>>
    BY <1>13 DEF Fail, RolledBack
  <2>1. CASE v = w
    BY <1>0, <2>0, <2>1, IdleType DEF JobHolds
  <2>2. CASE v # w
    BY <1>0, <2>0, <2>2, ReleasedRows, OthersHold
  <2>3. QED
    BY <2>1, <2>2
<1>14. QED
  BY <1>2, <1>3, <1>4, <1>5, <1>6, <1>7, <1>8, <1>9, <1>10, <1>11, <1>12, <1>13 DEF Next

-----------------------------------------------------------------------------
(* Where the capsules are *)

\* What holds of a capsule: it has been added if it is in an archive, is somewhere if it has
\* been added, and in one place only unless a request crossed its deletion.
Accounted(c) ==
  /\ Archives(c) # {} => c \in added
  /\ c \in added => /\ c \in listed \/ Archives(c) # {} \/ c \in discarded \/ c \in wiped
                    /\ c \notin crossed =>
                         /\ c \in listed => Archives(c) = {}
                         /\ \A g, h \in Archives(c) : g = h /\ copies[c][h] = 1

LEMMA AllAccounted ==
  ASSUME added \subseteq Capsules
  PROVE  (\A c \in Capsules : Accounted(c)) <=>
         CapsulesAreAccountedFor /\ \A c \in Capsules : Archives(c) # {} => c \in added
  BY DEF Accounted, CapsulesAreAccountedFor

\* The archives as they were say where a capsule is as long as no step moves it.
LEMMA AccountedSame ==
  ASSUME NEW c \in Capsules, Accounted(c), copies' = copies, added' = added,
         discarded \subseteq discarded', wiped \subseteq wiped', crossed \subseteq crossed',
         c \in listed' <=> c \in listed
  PROVE  Accounted(c)'
  BY DEF Accounted, Archives

\* The commit archives what the transaction has copied.  What it has deleted and not copied
\* it was to delete, or wiped.
LEMMA CommitAccounts ==
  ASSUME CapsuleInv, NEW w \in Requests, Commit(w), NEW c \in Capsules
  PROVE  Accounted(c)'
<1> DEFINE j == job[w]
           h == j.hello
<1>0. HTypeOK /\ JobHolds(w) /\ Accounted(c)
  BY AllAccounted DEF CapsuleInv, HTypeOK
<1>1. h \in Helloes /\ copies \in [Capsules -> [Helloes -> Nat]]
  BY <1>0 DEF Commit, JobHolds, HTypeOK
<1>2. /\ listed' = listed \ j.gone /\ added' = added
      /\ copies'[c] = IF c \in j.copied THEN [copies[c] EXCEPT ![h] = @ + 1] ELSE copies[c]
      /\ discarded' \cup wiped' =
            discarded \cup wiped \cup (IF j.share.all THEN j.gone \ j.copied ELSE {})
      /\ crossed' = crossed \cup (j.copied \ j.gone)
  BY DEF Commit
<1>3. /\ j.gone \subseteq listed /\ j.copied \subseteq added
      /\ j.share.all \/ j.gone \subseteq j.copied
  BY <1>0, JobType DEF JobHolds
<1> HIDE DEF h, j
<1>4. CASE c \in j.copied
  <2>1. Archives(c)' = Archives(c) \cup {h}
    BY <1>1, <1>2, <1>4 DEF Archives
  <2>2. CASE c \in j.gone /\ c \notin crossed
    <3>1. Archives(c) = {}
      BY <1>0, <1>3, <1>4, <2>2 DEF Accounted
    <3>2. copies[c][h] = 0
      BY <1>1, <3>1 DEF Archives
    <3>3. copies'[c][h] = 1
      BY <1>1, <1>2, <1>4, <3>2
    <3>4. QED
      BY <1>2, <1>3, <1>4, <2>1, <2>2, <3>1, <3>3 DEF Accounted
  <2>3. CASE c \notin j.gone \/ c \in crossed
    BY <1>2, <1>3, <1>4, <2>1, <2>3 DEF Accounted
  <2>4. QED
    BY <2>2, <2>3
<1>5. CASE c \notin j.copied
  <2>1. Archives(c)' = Archives(c) /\ copies'[c] = copies[c]
    BY <1>2, <1>5 DEF Archives
  <2>2. QED
    BY <1>0, <1>2, <1>3, <1>5, <2>1 DEF Accounted
<1>6. QED
  BY <1>4, <1>5

LEMMA AccountedNext ==
  ASSUME CapsuleInv, [Next]_vars, NEW c \in Capsules
  PROVE  Accounted(c)'
<1>0. HTypeOK /\ Accounted(c)
  BY AllAccounted DEF CapsuleInv, HTypeOK
<1>1. CASE UNCHANGED vars
  BY <1>0, <1>1, AccountedSame DEF vars
<1>2. ASSUME NEW d \in Capsules, AddCapsule(d) \/ DeleteCapsule(d)
      PROVE  Accounted(c)'
  BY <1>0, <1>2 DEF AddCapsule, DeleteCapsule, Accounted, Archives
<1>3. ASSUME NEW g \in Helloes, DeleteHello(g)
      PROVE  Accounted(c)'
  <2>1. copies'[c] = [copies[c] EXCEPT ![g] = 0] /\ copies[c] \in [Helloes -> Nat]
    BY <1>0, <1>3 DEF DeleteHello, HTypeOK
  <2>2. Archives(c)' = Archives(c) \ {g}
        /\ \A h \in Archives(c) \ {g} : copies'[c][h] = copies[c][h]
    BY <2>1 DEF Archives
  <2>3. /\ UNCHANGED <<listed, added, wiped, crossed>>
        /\ discarded' = discarded \cup {d \in Capsules : copies[d][g] > 0}
    BY <1>3 DEF DeleteHello
  <2>4. g \in Archives(c) => c \in discarded'
    BY <2>3 DEF Archives
  <2>5. QED
    BY <1>0, <2>2, <2>3, <2>4 DEF Accounted
<1>4. ASSUME NEW w \in Requests, SaveCapsule(w)
      PROVE  Accounted(c)'
  <2>1. JobHolds(w)
    BY DEF CapsuleInv
  <2>2. PICK d \in job[w].capsule :
           /\ listed' = listed \cup {d}
           /\ crossed' = IF d \in listed THEN crossed ELSE crossed \cup {d}
    BY <1>4 DEF SaveCapsule
  <2>3. UNCHANGED <<added, copies, discarded, wiped>>
    BY <1>4 DEF SaveCapsule
  <2>4. QED
    BY <1>0, <2>1, <2>2, <2>3 DEF JobHolds, Accounted, Archives
<1>5. ASSUME NEW w \in Requests,
             \/ \E d \in Capsules : EditCapsule(w, d) \/ GetShared(w, d) \/ DeleteRow(w, d)
             \/ \E h \in Helloes, s \in Share : Hello(w, h, s) \/ EditHello(w, h, s)
             \/ SaveHello(w) \/ Wipe(w) \/ Fail(w)
      PROVE  Accounted(c)'
  <2>1. UNCHANGED <<listed, added, copies, discarded, wiped, crossed>>
    BY <1>5 DEF EditCapsule, GetShared, DeleteRow, Hello, EditHello, SaveHello, Wipe, Fail,
       RolledBack
  <2>2. QED
    BY <1>0, <2>1, AccountedSame
<1>6. ASSUME NEW w \in Requests, Commit(w)
      PROVE  Accounted(c)'
  BY <1>6, CommitAccounts
<1>7. QED
  BY <1>1, <1>2, <1>3, <1>4, <1>5, <1>6 DEF Next

-----------------------------------------------------------------------------
LEMMA CapsuleNext == CapsuleInv /\ [Next]_vars => CapsuleInv'
<1> SUFFICES ASSUME CapsuleInv, [Next]_vars PROVE CapsuleInv'
  OBVIOUS
<1>1. HTypeOK'
  BY TypeNext
<1>2. \A w \in Requests : JobHolds(w)'
  BY HoldsNext
<1>3. \A c \in Capsules : Accounted(c)'
  BY AccountedNext
<1>4. (added \subseteq Capsules)'
  BY <1>1 DEF HTypeOK
<1>5. CapsulesAreAccountedFor' /\ \A c \in Capsules : (Archives(c) # {} => c \in added)'
  BY <1>3, <1>4 DEF Accounted, CapsulesAreAccountedFor
<1>6. QED
  BY <1>1, <1>2, <1>5 DEF CapsuleInv

LEMMA CapsuleInvariant == Spec => []CapsuleInv
  BY CapsuleInit, CapsuleNext, PTL DEF Spec

\* Every variable holds a value of its kind, and a row is locked by the request that has
\* deleted it, as long as its transaction lasts (friends/models.py:1217, 1391-1397).
THEOREM CapsulesTyped == Spec => []HTypeOK
  BY CapsuleInvariant, PTL DEF CapsuleInv

\* However saves of helloes overlap, fail, are repeated by edits or end in a deadlock, a
\* capsule is listed, archived, was discarded on purpose, or was named as shared by a hello
\* that has deleted it with the rest (friends/models.py:1391-1397), which is the only way to
\* lose one; and it is in one place only unless a request wrote what it had read before the
\* capsule was gone (friends/models.py:1217-1420).
THEOREM OnlyTheWipeLoses == Spec => []CapsulesAreAccountedFor
  BY CapsuleInvariant, PTL DEF CapsuleInv
=============================================================================
