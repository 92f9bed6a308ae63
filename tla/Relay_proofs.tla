---------------------------- MODULE Relay_proofs ----------------------------
(***************************************************************************)
(* What holds of the relay.  First SocketQueue, for any number of kinds,   *)
(* writers and pushers, and any capacity of the queue; then LevelSync, for *)
(* any levels, changes and tasks.                                          *)
(***************************************************************************)
EXTENDS SocketQueue, LevelSync, SequenceTheorems, TLAPS


(***************************************************************************)
(* Types                                                                   *)
(***************************************************************************)

LEMMA TypeInit == Init => QTypeOK
<1> SUFFICES ASSUME Init PROVE QTypeOK
  OBVIOUS
<1>1. SlotsType
  BY DEF Init, SlotsType
<1>2. EventsType
  BY BoundsAssumption DEF Init, EventsType
<1>3. SendingType
  BY KindsAssumption DEF Init, SendingType, Steps
<1>4. QED
  BY <1>1, <1>2, <1>3 DEF QTypeOK

LEMMA NumberFacts ==
  ASSUME QTypeOK, NEW k \in Kinds
  PROVE  Number(k) \in Nat /\ Number(k) \in {puts[k], puts[k] + 1}
  BY BoundsAssumption DEF Number, QTypeOK, SlotsType

LEMMA CountType ==
  ASSUME NEW n \in Nat
  PROVE  Count(n) \in Nat
  BY DEF Count

\* A frame says of each kind no more than has been put.
LEMMA MadeFacts ==
  ASSUME QTypeOK, NEW close \in BOOLEAN
  PROVE  /\ Made(close) \in Frame
         /\ \A k \in Kinds : Made(close).after[k] \in Nat /\ Made(close).after[k] <= puts[k]
<1>1. \A k \in Kinds : puts[k] \in Nat
  BY DEF QTypeOK, SlotsType
<1>2. QED
  BY <1>1 DEF Made, Frame

LEMMA TryKeepsType ==
  ASSUME QTypeOK, NEW close \in BOOLEAN, TrySend(close)
  PROVE  queue' \in Seq(Frame) /\ Len(queue') <= Capacity /\ accepted' \in Nat
<1> DEFINE frame == Made(close)
<1>1. frame \in Frame
  BY MadeFacts
<1>2. queue \in Seq(Frame) /\ Len(queue) \in Nat /\ Len(queue) <= Capacity /\ accepted \in Nat
  BY DEF QTypeOK, EventsType
<1>3. Append(queue, frame) \in Seq(Frame) /\ Len(Append(queue, frame)) = Len(queue) + 1
  BY <1>1, <1>2
<1> HIDE DEF frame
<1>4. CASE Len(queue) < Capacity /\ at # "done"
  <2>1. queue' = Append(queue, frame) /\ accepted' = Count(accepted)
    BY <1>4 DEF TrySend, frame
  <2>2. Len(queue') = Len(queue) + 1 /\ queue' \in Seq(Frame)
    BY <1>3, <2>1
  <2>3. QED
    BY <1>2, <1>4, <2>1, <2>2, BoundsAssumption, CountType
<1>5. CASE ~(Len(queue) < Capacity /\ at # "done")
  BY <1>2, <1>5 DEF TrySend
<1>6. QED
  BY <1>4, <1>5

LEMMA HeadTailType ==
  ASSUME QTypeOK, queue # <<>>
  PROVE  Head(queue) \in Frame /\ Tail(queue) \in Seq(Frame) /\ Len(Tail(queue)) <= Capacity
<1>1. Len(queue) \in Nat /\ queue \in Seq(Frame) /\ Len(queue) <= Capacity
  BY DEF QTypeOK, EventsType
<1>2. Head(queue) \in Frame /\ Tail(queue) \in Seq(Frame)
  BY <1>1, HeadTailProperties
<1>3. Len(Tail(queue)) = Len(queue) - 1
  BY <1>1, HeadTailProperties
<1>4. QED
  BY <1>1, <1>2, <1>3, BoundsAssumption

LEMMA SlotsTypeStep ==
  ASSUME QTypeOK, [Next]_vars
  PROVE  SlotsType'
<1> SUFFICES ASSUME SlotsType PROVE SlotsType'
  BY DEF QTypeOK
<1> USE DEF SlotsType, slots
<1>1. ASSUME NEW w \in Writers, NEW k \in Kinds, Put(w, k)
      PROVE  SlotsType'
  BY <1>1, NumberFacts DEF Put
<1>2. ASSUME NEW w \in Writers, Notify(w)
      PROVE  SlotsType'
  BY <1>2 DEF Notify
<1>3. CASE Notified
  BY <1>3 DEF Notified
<1>4. CASE Take
  BY <1>4 DEF Take
<1>5. CASE UNCHANGED slots
  BY <1>5
<1>6. CASE Tell \/ (\E p \in Pushers : Lookup(p) \/ PushAction(p) \/ PushClose(p)) \/ Unregister
  BY <1>5, <1>6 DEF Tell, Lookup, PushAction, PushClose, Unregister
<1>7. CASE TakeFrame \/ NoSenders \/ RecvPending \/ Woken \/ SendPosition \/ SendFrame
           \/ AllSent \/ SendFails
  BY <1>5, <1>7 DEF TakeFrame, NoSenders, RecvPending, Woken, SendPosition, SendFrame,
                    AllSent, SendFails
<1>8. QED
  BY <1>1, <1>2, <1>3, <1>4, <1>5, <1>6, <1>7 DEF Next, SendTask, vars

LEMMA EventsTypeStep ==
  ASSUME QTypeOK, [Next]_vars
  PROVE  EventsType'
<1>0. EventsType
  BY DEF QTypeOK
<1> USE DEF EventsType, events
<1>1. CASE Tell
  <2>1. TrySend(FALSE)
    BY <1>1 DEF Tell
  <2>2. queue' \in Seq(Frame) /\ Len(queue') <= Capacity /\ accepted' \in Nat
    BY <2>1, TryKeepsType
  <2>3. pusher' = pusher /\ registered' = registered
    BY <1>1 DEF Tell
  <2>4. QED
    BY <1>0, <2>2, <2>3
<1>2. ASSUME NEW p \in Pushers, PushAction(p)
      PROVE  EventsType'
  <2>1. TrySend(FALSE)
    BY <1>2 DEF PushAction
  <2>2. queue' \in Seq(Frame) /\ Len(queue') <= Capacity /\ accepted' \in Nat
    BY <2>1, TryKeepsType
  <2>3. /\ \E step \in {"close", "idle"} : pusher' = [pusher EXCEPT ![p] = step]
        /\ registered' = registered
    BY <1>2 DEF PushAction
  <2>4. pusher' \in [Pushers -> {"idle", "action", "close"}]
    BY <1>0, <2>3
  <2>5. QED
    BY <1>0, <2>2, <2>3, <2>4
<1>3. ASSUME NEW p \in Pushers, PushClose(p)
      PROVE  EventsType'
  <2>1. TrySend(TRUE)
    BY <1>3 DEF PushClose
  <2>2. queue' \in Seq(Frame) /\ Len(queue') <= Capacity /\ accepted' \in Nat
    BY <2>1, TryKeepsType
  <2>3. pusher' = [pusher EXCEPT ![p] = "idle"] /\ registered' = registered
    BY <1>3 DEF PushClose
  <2>4. QED
    BY <1>0, <2>2, <2>3
<1>4. CASE Unregister
  BY <1>0, <1>4 DEF Unregister
<1>5. CASE TakeFrame
  BY <1>0, <1>5, HeadTailType DEF TakeFrame
<1>6. CASE UNCHANGED events
  BY <1>0, <1>6
<1>7. CASE \E w \in Writers : (\E k \in Kinds : Put(w, k)) \/ Notify(w)
  BY <1>6, <1>7 DEF Put, Notify
<1>8. CASE NoSenders \/ RecvPending \/ Notified \/ Woken \/ Take \/ SendPosition \/ SendFrame
           \/ AllSent \/ SendFails
  BY <1>6, <1>8 DEF NoSenders, RecvPending, Notified, Woken, Take, SendPosition, SendFrame,
                    AllSent, SendFails
<1>9. ASSUME NEW p \in Pushers, Lookup(p)
      PROVE  EventsType'
  <2>1. \E step \in {"action", "close"} : pusher' = [pusher EXCEPT ![p] = step]
    BY <1>9 DEF Lookup
  <2>2. queue' = queue /\ registered' = registered /\ accepted' = accepted
    BY <1>9 DEF Lookup
  <2>3. pusher' \in [Pushers -> {"idle", "action", "close"}]
    BY <1>0, <2>1
  <2>4. QED
    BY <1>0, <2>2, <2>3
<1>10. QED
  BY <1>1, <1>2, <1>3, <1>4, <1>5, <1>6, <1>7, <1>8, <1>9 DEF Next, SendTask, vars

LEMMA SendingTypeStep ==
  ASSUME QTypeOK, [Next]_vars
  PROVE  SendingType'
<1>0. SendingType /\ slot \in [Kinds -> Nat]
  BY DEF QTypeOK, SlotsType
<1> USE KindsAssumption DEF SendingType, sending, Steps, Kinds
<1>1. CASE TakeFrame
  BY <1>0, <1>1, HeadTailType DEF TakeFrame
<1>2. CASE NoSenders \/ RecvPending \/ Notified \/ Woken
  BY <1>0, <1>2 DEF NoSenders, RecvPending, Notified, Woken
<1>3. CASE Take
  BY <1>0, <1>3 DEF Take
<1>4. CASE SendPosition
  BY <1>0, <1>4 DEF SendPosition
<1>5. CASE SendFrame \/ AllSent \/ SendFails
  BY <1>0, <1>5, CountType DEF SendFrame, AllSent, SendFails
<1>6. CASE UNCHANGED sending
  BY <1>0, <1>6
<1>7. CASE \E w \in Writers : (\E k \in Kinds : Put(w, k)) \/ Notify(w)
  BY <1>6, <1>7 DEF Put, Notify
<1>8. CASE Tell \/ (\E p \in Pushers : Lookup(p) \/ PushAction(p) \/ PushClose(p)) \/ Unregister
  BY <1>6, <1>8 DEF Tell, Lookup, PushAction, PushClose, Unregister
<1>9. QED
  BY <1>1, <1>2, <1>3, <1>4, <1>5, <1>6, <1>7, <1>8 DEF Next, SendTask, vars

\* Every reachable state is well typed: in particular no event is queued beyond the
\* capacity, and the drain looks only at kinds there are.
THEOREM QTypeCorrect == Spec => []QTypeOK
<1>1. QTypeOK /\ [Next]_vars => QTypeOK'
  BY SlotsTypeStep, EventsTypeStep, SendingTypeStep DEF QTypeOK
<1>2. QED
  BY <1>1, TypeInit, PTL DEF Spec

(***************************************************************************)
(* No wake-up is lost                                                      *)
(***************************************************************************)

\* No position is left waiting with nobody to wake the send task for it: the permit, a
\* writer or the running drain vouches for every slot that is filled.
THEOREM NothingIsForgotten == Spec => []NothingForgotten
<1>1. Init => NothingForgotten
  BY DEF Init, NothingForgotten
<1>2. ASSUME QTypeOK, NothingForgotten, [Next]_vars
      PROVE  NothingForgotten'
  <2> SUFFICES ASSUME NEW k \in Kinds, slot'[k] # 0
               PROVE  \/ permit'
                      \/ \E w \in Writers : writer'[w] = "notify"
                      \/ at' = "drain" /\ next' <= k
                      \/ at' = "done"
    BY DEF NothingForgotten
  <2> USE DEF slots, events, sending
  <2>1. ASSUME NEW w \in Writers, NEW j \in Kinds, Put(w, j)
        PROVE  writer'[w] = "notify"
    BY <1>2, <2>1 DEF Put, QTypeOK, SlotsType
  <2>2. ASSUME NEW w \in Writers, Notify(w)
        PROVE  permit'
    BY <2>2 DEF Notify
  <2>3. ASSUME slot' = slot, writer' = writer, permit' = permit,
               (at' = at /\ next' = next) \/ at \notin {"drain", "done"} \/ at' = "done"
        PROVE  \/ permit'
               \/ \E w \in Writers : writer'[w] = "notify"
               \/ at' = "drain" /\ next' <= k
               \/ at' = "done"
    BY <1>2, <2>3 DEF NothingForgotten
  <2>4. CASE Tell \/ (\E p \in Pushers : Lookup(p) \/ PushAction(p) \/ PushClose(p)) \/ Unregister
             \/ UNCHANGED vars
    BY <2>3, <2>4 DEF Tell, Lookup, PushAction, PushClose, Unregister, vars
  <2>5. CASE TakeFrame \/ NoSenders \/ RecvPending \/ Woken
             \/ SendPosition \/ SendFrame \/ AllSent \/ SendFails
    BY <2>3, <2>5 DEF TakeFrame, NoSenders, RecvPending, Woken, SendPosition,
                      SendFrame, AllSent, SendFails
  <2>6. CASE Notified
    BY <2>6, KindsAssumption DEF Notified, Kinds
  <2>7. CASE Take
    <3>1. k # next /\ slot'[k] = slot[k]
      BY <1>2, <2>7, KindsAssumption DEF Take, QTypeOK, SlotsType, SendingType, Kinds
    <3>2. permit' = permit /\ writer' = writer
      BY <2>7 DEF Take
    <3>3. CASE next <= k
      BY <1>2, <2>7, <3>1, <3>3, KindsAssumption DEF Take, QTypeOK, SendingType, Kinds
    <3>4. CASE ~(next <= k)
      BY <1>2, <2>7, <3>1, <3>2, <3>4 DEF Take, NothingForgotten
    <3>5. QED
      BY <3>3, <3>4
  <2>8. QED
    BY <1>2, <2>1, <2>2, <2>4, <2>5, <2>6, <2>7 DEF Next, SendTask
<1>3. QED
  BY <1>1, <1>2, QTypeCorrect, PTL DEF Spec
(***************************************************************************)
(* Positions are sent in order, and before the events queued after them    *)
(***************************************************************************)

\* The newest position of a kind waits, has been drained, or has been sent, and a position
\* further behind on that way is not older.
Newest(k) ==
    /\ puts[k] \in {slot[k], got[k], shown[k]}
    /\ slot[k] # 0 => slot[k] = puts[k]
    /\ got[k] # 0 => shown[k] <= got[k]
    /\ shown[k] <= puts[k] /\ got[k] <= puts[k]

\* Nothing is left of an earlier drain where the send task drains, or has sent.
Drained(k) ==
    /\ at \in {"select", "poll"} => got[k] = 0
    /\ at = "drain" /\ next <= k => got[k] = 0
    /\ at = "send" /\ k < next => got[k] = 0

\* The task holds an event only on its way from the queue to the socket, and has drained or
\* sent all that was put before the event.
HeldAfter(k) ==
    held # NoFrame =>
        /\ at \in {"drain", "send", "done"}
        /\ held.after[k] <= puts[k]
        /\ (at = "drain" /\ k < next) \/ at = "send" =>
             held.after[k] <= got[k] \/ held.after[k] <= shown[k]

QueuedAfter(k) == \A i \in DOMAIN queue : queue[i].after[k] <= puts[k]

InOrder == \A k \in Kinds : Newest(k) /\ Drained(k) /\ HeldAfter(k) /\ QueuedAfter(k)

\* What of one kind the type invariant says
LEMMA KindTypes ==
  ASSUME QTypeOK, NEW k \in Kinds
  PROVE  /\ slot[k] \in Nat /\ got[k] \in Nat /\ puts[k] \in Nat /\ shown[k] \in Nat
         /\ k \in Nat /\ next \in Nat /\ next <= K + 1 /\ 1 <= k /\ k <= K
         /\ held # NoFrame => held.after[k] \in Nat
<1>1. held # NoFrame => held.after[k] \in Nat
  BY DEF QTypeOK, SendingType, Frame
<1>2. QED
  BY <1>1, KindsAssumption DEF QTypeOK, SlotsType, SendingType, Kinds

\* The steps that touch no position
Aside ==
    \/ \E w \in Writers : Notify(w)
    \/ Tell \/ (\E p \in Pushers : Lookup(p) \/ PushAction(p) \/ PushClose(p)) \/ Unregister
    \/ TakeFrame \/ NoSenders \/ RecvPending \/ Notified \/ Woken
    \/ SendFrame \/ AllSent \/ SendFails
    \/ UNCHANGED vars

LEMMA StepCases ==
  ASSUME [Next]_vars
  PROVE  \/ \E w \in Writers, k \in Kinds : Put(w, k)
         \/ Take \/ SendPosition \/ Aside
BY DEF Next, SendTask, Aside

LEMMA AsideLeavesPositions ==
  ASSUME Aside
  PROVE  slot' = slot /\ got' = got /\ puts' = puts /\ shown' = shown
BY DEF Aside, Notify, Tell, Lookup, PushAction, PushClose, Unregister, TakeFrame, NoSenders,
       RecvPending, Notified, Woken, SendFrame, AllSent, SendFails, vars, slots, events, sending

\* What each step makes of the positions of one kind
LEMMA PutFacts ==
  ASSUME QTypeOK, NEW w \in Writers, NEW j \in Kinds, Put(w, j), NEW k \in Kinds
  PROVE  /\ got' = got /\ shown' = shown /\ at' = at /\ next' = next /\ held' = held
         /\ queue' = queue
         /\ k = j => puts'[k] = Number(k) /\ slot'[k] = Number(k)
         /\ k # j => puts'[k] = puts[k] /\ slot'[k] = slot[k]
BY DEF Put, QTypeOK, SlotsType, events, sending

LEMMA TakeFacts ==
  ASSUME QTypeOK, Take, NEW k \in Kinds
  PROVE  /\ puts' = puts /\ shown' = shown /\ held' = held /\ queue' = queue
         /\ at = "drain" /\ next <= K
         /\ next < K => at' = "drain" /\ next' = next + 1
         /\ next = K => at' = "send" /\ next' = 1
         /\ k = next => got'[k] = slot[k] /\ slot'[k] = 0
         /\ k # next => got'[k] = got[k] /\ slot'[k] = slot[k]
<1>1. puts' = puts /\ shown' = shown /\ held' = held /\ queue' = queue
  BY DEF Take, events
<1>2. next \in Kinds /\ next <= K /\ at = "drain"
  BY KindsAssumption DEF Take, QTypeOK, SendingType, Kinds
<1>3. /\ k = next => got'[k] = slot[k] /\ slot'[k] = 0
      /\ k # next => got'[k] = got[k] /\ slot'[k] = slot[k]
  BY <1>2 DEF Take, QTypeOK, SlotsType, SendingType
<1>4. /\ next < K => at' = "drain" /\ next' = next + 1
      /\ next = K => at' = "send" /\ next' = 1
  BY <1>2, KindsAssumption DEF Take, Kinds
<1>5. QED
  BY <1>1, <1>2, <1>3, <1>4

LEMMA SendPositionFacts ==
  ASSUME QTypeOK, SendPosition, NEW k \in Kinds
  PROVE  /\ puts' = puts /\ slot' = slot /\ held' = held /\ queue' = queue
         /\ at = "send" /\ at' = "send" /\ next' = next + 1
         /\ k = next => got'[k] = 0
         /\ k = next /\ got[k] # 0 => shown'[k] = got[k]
         /\ k # next \/ got[k] = 0 => shown'[k] = shown[k]
         /\ k # next => got'[k] = got[k]
<1>1. puts' = puts /\ slot' = slot /\ held' = held /\ queue' = queue
      /\ at = "send" /\ at' = "send" /\ next' = next + 1
  BY DEF SendPosition, slots, events
<1>2. next \in Kinds
  BY KindsAssumption DEF SendPosition, QTypeOK, SendingType, Kinds
<1>3. (k = next => got'[k] = 0) /\ (k # next => got'[k] = got[k])
  BY <1>2 DEF SendPosition, QTypeOK, SendingType
<1>4. /\ k = next /\ got[k] # 0 => shown'[k] = got[k]
      /\ k # next \/ got[k] = 0 => shown'[k] = shown[k]
  BY <1>2 DEF SendPosition, QTypeOK, SendingType
<1>5. QED
  BY <1>1, <1>3, <1>4

LEMMA NewestStep ==
  ASSUME QTypeOK, InOrder, [Next]_vars, NEW k \in Kinds
  PROVE  Newest(k)'
<1>1. Newest(k) /\ Drained(k)
  BY DEF InOrder
<1>2. ASSUME NEW w \in Writers, NEW j \in Kinds, Put(w, j)
      PROVE  Newest(k)'
  BY <1>1, <1>2, PutFacts, NumberFacts, KindTypes DEF Newest
<1>3. CASE Take
  BY <1>1, <1>3, TakeFacts, KindTypes DEF Newest, Drained
<1>4. CASE SendPosition
  BY <1>1, <1>4, SendPositionFacts, KindTypes DEF Newest
<1>5. CASE Aside
  BY <1>1, <1>5, AsideLeavesPositions DEF Newest
<1>6. QED
  BY <1>2, <1>3, <1>4, <1>5, StepCases

LEMMA DrainedStep ==
  ASSUME QTypeOK, InOrder, [Next]_vars, NEW k \in Kinds
  PROVE  Drained(k)'
<1>1. Drained(k)
  BY DEF InOrder
<1>2. ASSUME NEW w \in Writers, NEW j \in Kinds, Put(w, j)
      PROVE  Drained(k)'
  BY <1>1, <1>2, PutFacts, NumberFacts DEF Drained
<1>3. CASE Take
  BY <1>1, <1>3, TakeFacts, KindTypes, KindsAssumption DEF Drained
<1>4. CASE SendPosition
  BY <1>1, <1>4, SendPositionFacts, KindTypes DEF Drained
<1>5. CASE Aside
  <2>1. got' = got
    BY <1>5, AsideLeavesPositions
  <2>2. CASE at' = at /\ next' = next
    BY <1>1, <2>1, <2>2 DEF Drained
  <2>3. CASE at' = "done"
    BY <2>3 DEF Drained
  <2>4. CASE TakeFrame \/ RecvPending \/ Notified \/ Woken
    BY <1>1, <2>1, <2>4 DEF Drained, TakeFrame, RecvPending, Notified, Woken
  <2>5. CASE SendFrame \/ AllSent
    BY <1>1, <2>1, <2>5, KindTypes, KindsAssumption DEF Drained, SendFrame, AllSent
  <2>6. CASE NoSenders \/ SendFails
    BY <2>3, <2>6 DEF NoSenders, SendFails
  <2>7. CASE \/ \E w \in Writers : Notify(w)
             \/ Tell \/ (\E p \in Pushers : Lookup(p) \/ PushAction(p) \/ PushClose(p))
             \/ Unregister
             \/ UNCHANGED vars
    BY <2>2, <2>7 DEF Notify, Tell, Lookup, PushAction, PushClose, Unregister, vars, sending
  <2>8. QED
    BY <1>5, <2>4, <2>5, <2>6, <2>7 DEF Aside
<1>6. QED
  BY <1>2, <1>3, <1>4, <1>5, StepCases

LEMMA PutsGrow ==
  ASSUME QTypeOK, [Next]_vars, NEW k \in Kinds
  PROVE  puts'[k] \in Nat /\ puts'[k] >= puts[k]
<1>1. puts[k] \in Nat
  BY KindTypes
<1>2. ASSUME NEW w \in Writers, NEW j \in Kinds, Put(w, j)
      PROVE  puts'[k] \in Nat /\ puts'[k] >= puts[k]
  BY <1>1, <1>2, PutFacts, NumberFacts
<1>3. CASE Take \/ SendPosition \/ Aside
  BY <1>1, <1>3, TakeFacts, SendPositionFacts, AsideLeavesPositions
<1>4. QED
  BY <1>2, <1>3, StepCases

\* What a step makes of the queue
LEMMA QueueSteps ==
  ASSUME [Next]_vars
  PROVE  \/ queue' = queue
         \/ TakeFrame
         \/ \E c \in BOOLEAN : queue' = Append(queue, Made(c))
<1>1. ASSUME NEW c \in BOOLEAN, TrySend(c)
      PROVE  queue' = queue \/ queue' = Append(queue, Made(c))
  BY <1>1 DEF TrySend
<1>2. CASE Tell
  <2>1. TrySend(FALSE)
    BY <1>2 DEF Tell
  <2>2. QED
    BY <1>1, <2>1
<1>3. ASSUME NEW p \in Pushers, PushAction(p)
      PROVE  \/ queue' = queue
             \/ \E c \in BOOLEAN : queue' = Append(queue, Made(c))
  <2>1. TrySend(FALSE)
    BY <1>3 DEF PushAction
  <2>2. QED
    BY <1>1, <2>1
<1>4. ASSUME NEW p \in Pushers, PushClose(p)
      PROVE  \/ queue' = queue
             \/ \E c \in BOOLEAN : queue' = Append(queue, Made(c))
  <2>1. TrySend(TRUE)
    BY <1>4 DEF PushClose
  <2>2. QED
    BY <1>1, <2>1
<1>5. CASE \E w \in Writers : (\E k \in Kinds : Put(w, k)) \/ Notify(w)
  BY <1>5 DEF Put, Notify, events
<1>6. CASE (\E p \in Pushers : Lookup(p)) \/ Unregister \/ UNCHANGED vars
  BY <1>6 DEF Lookup, Unregister, vars, events
<1>7. CASE NoSenders \/ RecvPending \/ Notified \/ Woken \/ Take \/ SendPosition \/ SendFrame
           \/ AllSent \/ SendFails
  BY <1>7 DEF NoSenders, RecvPending, Notified, Woken, Take, SendPosition, SendFrame, AllSent,
              SendFails, events
<1>8. QED
  BY <1>2, <1>3, <1>4, <1>5, <1>6, <1>7 DEF Next, SendTask

LEMMA QueuedAfterStep ==
  ASSUME QTypeOK, InOrder, [Next]_vars, NEW k \in Kinds
  PROVE  QueuedAfter(k)'
<1> SUFFICES ASSUME NEW i \in DOMAIN queue'
             PROVE  queue'[i].after[k] <= puts'[k]
  BY DEF QueuedAfter
<1>1. /\ puts[k] \in Nat /\ puts'[k] \in Nat /\ puts'[k] >= puts[k]
      /\ queue \in Seq(Frame) /\ Len(queue) \in Nat
  BY KindTypes, PutsGrow DEF QTypeOK, EventsType
<1>2. \A j \in DOMAIN queue : queue[j].after[k] <= puts[k] /\ queue[j].after[k] \in Nat
  <2>1. \A j \in DOMAIN queue : queue[j] \in Frame
    BY <1>1
  <2>2. QED
    BY <2>1 DEF InOrder, QueuedAfter, Frame
<1>3. CASE queue' = queue
  BY <1>1, <1>2, <1>3
<1>4. CASE TakeFrame
  <2>1. queue' = Tail(queue) /\ queue # <<>>
    BY <1>4 DEF TakeFrame
  <2>2. i + 1 \in DOMAIN queue /\ queue'[i] = queue[i + 1]
    BY <1>1, <2>1, HeadTailProperties
  <2>3. QED
    BY <1>1, <1>2, <2>2
<1>5. ASSUME NEW c \in BOOLEAN, queue' = Append(queue, Made(c))
      PROVE  queue'[i].after[k] <= puts'[k]
  <2>1. CASE i \in DOMAIN queue
    <3>1. queue'[i] = queue[i]
      BY <1>1, <1>5, <2>1
    <3>2. QED
      BY <1>1, <1>2, <2>1, <3>1
  <2>2. CASE i \notin DOMAIN queue
    <3>1. queue'[i] = Made(c)
      BY <1>1, <1>5, <2>2
    <3>2. QED
      BY <1>1, <3>1, MadeFacts
  <2>3. QED
    BY <2>1, <2>2
<1>6. QED
  BY <1>3, <1>4, <1>5, QueueSteps

LEMMA HeldAfterStep ==
  ASSUME QTypeOK, InOrder, [Next]_vars, NEW k \in Kinds
  PROVE  HeldAfter(k)'
<1>1. HeldAfter(k) /\ Newest(k) /\ Drained(k)
  BY DEF InOrder
<1>2. ASSUME NEW w \in Writers, NEW j \in Kinds, Put(w, j)
      PROVE  HeldAfter(k)'
  BY <1>1, <1>2, PutFacts, NumberFacts, PutsGrow, KindTypes DEF HeldAfter
<1>3. CASE Take
  BY <1>1, <1>3, TakeFacts, KindTypes, KindsAssumption DEF HeldAfter, Newest, Drained
<1>4. CASE SendPosition
  BY <1>1, <1>4, SendPositionFacts, KindTypes DEF HeldAfter, Newest
<1>5. CASE TakeFrame
  <2>1. held' = Head(queue) /\ at' = "drain" /\ next' = 1 /\ queue # <<>>
    BY <1>5 DEF TakeFrame
  <2>2. Head(queue).after[k] <= puts[k]
    <3>1. queue \in Seq(Frame)
      BY DEF QTypeOK, EventsType
    <3>2. 1 \in DOMAIN queue /\ Head(queue) = queue[1]
      BY <2>1, <3>1
    <3>3. QED
      BY <3>2 DEF InOrder, QueuedAfter
  <2>3. puts' = puts
    BY <1>5 DEF TakeFrame, slots
  <2>4. ~(1 <= k /\ k < 1)
    BY KindTypes
  <2>5. QED
    BY <2>1, <2>2, <2>3, <2>4, KindTypes DEF HeldAfter
<1>6. CASE SendFrame
  BY <1>6 DEF SendFrame, HeldAfter
<1>7. CASE AllSent
  BY <1>7 DEF AllSent, HeldAfter
<1>8. CASE SendFails
  BY <1>1, <1>8 DEF SendFails, HeldAfter, slots
<1>9. CASE NoSenders \/ RecvPending \/ Notified \/ Woken
  BY <1>1, <1>9 DEF NoSenders, RecvPending, Notified, Woken, HeldAfter
<1>10. CASE \/ \E w \in Writers : Notify(w)
            \/ Tell \/ (\E p \in Pushers : Lookup(p) \/ PushAction(p) \/ PushClose(p)) \/ Unregister
            \/ UNCHANGED vars
  BY <1>1, <1>10 DEF Notify, Tell, Lookup, PushAction, PushClose, Unregister, vars, sending,
                     slots, HeldAfter
<1>11. QED
  BY <1>2, <1>3, <1>4, <1>5, <1>6, <1>7, <1>8, <1>9, <1>10, StepCases DEF Aside

LEMMA InOrderInit == Init => InOrder
  BY DEF Init, InOrder, Newest, Drained, HeldAfter, QueuedAfter, Kinds

LEMMA InOrderAlways == Spec => []InOrder
<1>1. QTypeOK /\ InOrder /\ [Next]_vars => InOrder'
  BY NewestStep, DrainedStep, HeldAfterStep, QueuedAfterStep DEF InOrder
<1>2. QED
  BY <1>1, InOrderInit, QTypeCorrect, PTL DEF Spec

\* An event never overtakes the positions that were put before it was queued.
THEOREM PositionsFlushedFirst == Spec => []FlushedFirst
<1>1. ASSUME QTypeOK, InOrder
      PROVE  FlushedFirst
  <2> SUFFICES ASSUME at = "send", next = K + 1, held # NoFrame, NEW k \in Kinds
               PROVE  shown[k] >= held.after[k]
    BY DEF FlushedFirst
  <2>1. HeldAfter(k) /\ Newest(k) /\ Drained(k)
    BY <1>1 DEF InOrder
  <2>2. got[k] = 0
    BY <1>1, <2>1, KindTypes, KindsAssumption DEF Drained
  <2>3. QED
    BY <1>1, <2>1, <2>2, KindTypes DEF HeldAfter
<1>2. QED
  BY <1>1, InOrderAlways, QTypeCorrect, PTL

\* Safety of the refinement: whatever the writers and the send task do to slots, permit and
\* drained positions, the receiver sees a channel in which the latest position wins.
THEOREM ChannelRefined == Spec => Channel!Safety
<1>1. Init => Channel!Init
  BY DEF Init, Channel!Init
<1>2. ASSUME QTypeOK, InOrder, [Next]_vars
      PROVE  [Channel!Next]_Channel!vars
  <2> USE DEF Channel!Next, Channel!vars
  <2>1. ASSUME NEW w \in Writers, NEW j \in Kinds, Put(w, j)
        PROVE  Channel!Put(j) \/ UNCHANGED Channel!vars
    <3>1. /\ puts' = [puts EXCEPT ![j] = Number(j)]
          /\ shown' = shown /\ at' = at
      BY <2>1 DEF Put, sending
    <3>2. CASE Number(j) = puts[j] + 1
      BY <3>1, <3>2 DEF Channel!Put
    <3>3. CASE Number(j) = puts[j]
      BY <1>2, <3>1, <3>3 DEF QTypeOK, SlotsType
    <3>4. QED
      BY <1>2, <3>2, <3>3, NumberFacts
  <2>2. CASE Take
    BY <1>2, <2>2, TakeFacts DEF Take
  <2>3. CASE SendPosition
    <3>1. next \in Kinds /\ puts' = puts /\ at = "send" /\ at' = "send"
      BY <1>2, <2>3, KindsAssumption DEF SendPosition, QTypeOK, SendingType, Kinds, slots
    <3>2. CASE got[next] = 0
      BY <2>3, <3>1, <3>2 DEF SendPosition
    <3>3. CASE got[next] # 0 /\ shown[next] = got[next]
      BY <1>2, <2>3, <3>1, <3>3 DEF SendPosition, QTypeOK, SendingType
    <3>4. CASE got[next] # 0 /\ shown[next] # got[next]
      <4>1. got[next] \in shown[next] + 1 .. puts[next]
        BY <1>2, <3>1, <3>4, KindTypes DEF InOrder, Newest
      <4>2. shown' = [shown EXCEPT ![next] = got[next]]
        BY <2>3, <3>4 DEF SendPosition
      <4>3. Channel!Show(next)
        BY <3>1, <4>1, <4>2 DEF Channel!Show
      <4>4. QED
        BY <3>1, <4>3
    <3>5. QED
      BY <3>2, <3>3, <3>4
  <2>4. CASE Aside
    <3>1. puts' = puts /\ shown' = shown
      BY <2>4, AsideLeavesPositions
    <3>2. at = "done" => at' = "done"
      BY <2>4 DEF Aside, Notify, Tell, Lookup, PushAction, PushClose, Unregister, TakeFrame,
                  NoSenders, RecvPending, Notified, Woken, SendFrame, AllSent, SendFails, vars, sending
    <3>3. CASE at' = "done"
      BY <3>1, <3>3 DEF Channel!End
    <3>4. CASE at' # "done"
      BY <3>1, <3>2, <3>4
    <3>5. QED
      BY <3>3, <3>4
  <2>5. QED
    BY <1>2, <2>1, <2>2, <2>3, <2>4, StepCases
<1>3. QED
  BY <1>1, <1>2, QTypeCorrect, InOrderAlways, PTL DEF Spec, Channel!Safety

(***************************************************************************)
(* LevelSync: what keeps ChangeAloneHeals                                  *)
(***************************************************************************)

\* No client, and no player who is in the other's room, has another level than l.
ClientsAt(l) == \A p \in Players : Here(p) => client[p].level \in {NoLevel, l}
ToldAt(l) == \A p \in Players : InRoom(p) => told[p] \in {NoLevel, l}

\* What a change that is made alone has reached by the step it is at.
Gathers(c) ==
  /\ ClientsAt(c.level)
  /\ c.step # "tell" => ToldAt(c.level)
  /\ c.step = "drop" => \A p \in Players : row[p] = c.level

Alone ==
  trust = "alone" =>
    /\ ~Reading
    /\ \E k \in Changes : /\ UnderWay(change[k]) /\ Gathers(change[k])
                          /\ \A j \in Changes : UnderWay(change[j]) => j = k

\* When the change is through, all have its level, and so do the tasks that have read one.
Carries(x) ==
  /\ x.step \in {"write", "apply"} => x.got = row[host]
  /\ x.step = "send" => {x.own, x.other} \subseteq {Off, NoLevel, row[host]}

Agreed ==
  /\ ~Changing
  /\ \A p \in Players : row[p] = row[host] /\ redis[p] \in {None, row[host]}
  /\ ClientsAt(row[host]) /\ ToldAt(row[host])
  /\ \A t \in Tasks : UnderWay(task[t]) => Carries(task[t])

Healed == trust = "yes" => Agreed

\* What a task is going to write to Redis is a level.
Writing == \A t \in Tasks : At(task[t], "write") => task[t].got \in Levels

LevelInv == LTypeOK /\ Writing /\ Alone /\ Healed

-----------------------------------------------------------------------------
(* The operators *)

LEMMA TwoPlayers ==
  /\ Other(host) = guest /\ Other(guest) = host
  /\ \A p \in Players :
        Other(p) \in Players /\ Players = {p, Other(p)} /\ Other(p) # p
<1>1. Other(host) = guest
  BY PlayersAssumption DEF Other, Players
<1>2. Other(guest) = host
  BY PlayersAssumption DEF Other, Players
<1>3. QED
  BY <1>1, <1>2, PlayersAssumption DEF Players

\* What is under way is a record of its kind, and such a record is under way.
LEMMA TaskUnderWay ==
  ASSUME LTypeOK, NEW t \in Tasks
  PROVE  /\ UnderWay(task[t]) <=> task[t] \in Task
         /\ UnderWay(task[t]) =>
              /\ task[t].player \in Players /\ task[t].mine \in BOOLEAN
              /\ task[t].kind \in {"connect", "join", "ask"}
              /\ task[t].got \in Levels \cup {NoLevel}
              /\ task[t].own \in Said /\ task[t].other \in Said
<1>1. task[t] \in Task \cup {Ready, Done}
  BY DEF LTypeOK
<1>2. UnderWay(task[t]) <=> task[t] \in Task
  BY <1>1, MarkersAssumption DEF UnderWay
<1>3. QED
  BY <1>2 DEF Task

LEMMA ChangeUnderWay ==
  ASSUME LTypeOK, NEW k \in Changes
  PROVE  /\ UnderWay(change[k]) <=> change[k] \in Change
         /\ UnderWay(change[k]) =>
              /\ change[k].player \in Players /\ change[k].level \in Levels
              /\ change[k].step \in {"tell", "look", "post", "drop"}
              /\ change[k].mine \in BOOLEAN
<1>1. change[k] \in Change \cup {Ready, Done}
  BY DEF LTypeOK
<1>2. UnderWay(change[k]) <=> change[k] \in Change
  BY <1>1, MarkersAssumption DEF UnderWay
<1>3. QED
  BY <1>2 DEF Change

LEMMA TheMarkers == ~UnderWay(Ready) /\ ~UnderWay(Done) /\ \A s : ~At(Ready, s) /\ ~At(Done, s)
  BY DEF UnderWay, At

LEMMA NewTaskType ==
  ASSUME NEW kind \in {"connect", "join", "ask"}, NEW p \in Players, NEW step \in {"pull", "look"}
  PROVE  /\ NewTask(kind, p, step) \in Task /\ UnderWay(NewTask(kind, p, step))
         /\ NewTask(kind, p, step).mine /\ NewTask(kind, p, step).player = p
         /\ NewTask(kind, p, step).step = step
<1>1. NewTask(kind, p, step) \in Task
  BY DEF NewTask, Task, Said
<1>2. QED
  BY <1>1, MarkersAssumption DEF NewTask, UnderWay

LEMMA ClientHere ==
  ASSUME LTypeOK, NEW p \in Players
  PROVE  /\ Here(p) <=> client[p] \in Client
         /\ Here(p) => /\ client[p].level \in Levels \cup {NoLevel}
                       /\ client[p].on \in BOOLEAN /\ client[p].bound \in BOOLEAN
<1>1. client[p] \in Client \cup {Off}
  BY DEF LTypeOK
<1>2. Here(p) <=> client[p] \in Client
  BY <1>1, MarkersAssumption DEF Here
<1>3. QED
  BY <1>2 DEF Client

\* What the task of a player who has left goes on with
LEMMA OrphanedTask ==
  ASSUME NEW x \in Task
  PROVE  \/ Orphaned(x) = Done /\ x.step \notin {"django", "write", "send"}
         \/ /\ Orphaned(x) \in Task /\ x.step \in {"django", "write", "send"}
            /\ Orphaned(x).step = x.step /\ ~Orphaned(x).mine /\ Orphaned(x).other = Off
            /\ Orphaned(x).got = x.got /\ Orphaned(x).own = x.own
            /\ Orphaned(x).player = x.player
<1>1. CASE x.step \in {"django", "write", "send"}
  BY <1>1 DEF Orphaned, Task, Said
<1>2. CASE x.step \notin {"django", "write", "send"}
  BY <1>2 DEF Orphaned
<1>3. QED
  BY <1>1, <1>2

-----------------------------------------------------------------------------
LEMMA LevelInit == LInit => LevelInv
<1> SUFFICES ASSUME LInit PROVE LevelInv
  OBVIOUS
<1>1. LTypeOK
  BY LevelsAssumption, MarkersAssumption, TheMarkers DEF LInit, LTypeOK, Client, Asking
<1>2. ~Changing /\ \A t \in Tasks : ~UnderWay(task[t])
  BY DEF LInit, Changing, UnderWay
<1>3. Agreed
  BY <1>2, PlayersAssumption DEF LInit, Agreed, ClientsAt, ToldAt, Here, Players
<1>4. QED
  BY <1>1, <1>2, <1>3 DEF LInit, LevelInv, Alone, Healed, Writing, At

-----------------------------------------------------------------------------
(* The steps of a task *)

\* The task t becomes j, which is of the same player.
Becomes(t, j) ==
  /\ task' = [task EXCEPT ![t] = j]
  /\ j.kind = task[t].kind /\ j.player = task[t].player /\ j.mine = task[t].mine

LEMMA PullStep ==
  ASSUME LTypeOK, NEW t \in Tasks, Pull(t)
  PROVE  \E j \in Task :
           /\ Becomes(t, j)
           /\ \/ redis[j.player] = None /\ j.step = "django"
              \/ /\ redis[j.player] # None /\ j.step = "apply"
                 /\ j.got = redis[j.player]
<1> DEFINE x == task[t]
<1>0. x \in Task /\ x.player \in Players /\ redis[x.player] \in Levels \cup {None}
  BY TaskUnderWay DEF Pull, At, LTypeOK
<1>1. CASE redis[x.player] = None
  <2> DEFINE j == [x EXCEPT !.step = "django"]
  <2>1. j \in Task /\ j.kind = x.kind /\ j.player = x.player /\ j.mine = x.mine
        /\ j.step = "django"
    BY <1>0 DEF Task
  <2>2. task' = [task EXCEPT ![t] = j]
    BY <1>1 DEF Pull
  <2> HIDE DEF j, x
  <2>3. QED
    BY <1>1, <2>1, <2>2 DEF Becomes, x
<1>2. CASE redis[x.player] # None
  <2> DEFINE j == [x EXCEPT !.step = "apply", !.got = redis[x.player]]
  <2>1. j \in Task /\ j.kind = x.kind /\ j.player = x.player /\ j.mine = x.mine
        /\ j.step = "apply" /\ j.got = redis[x.player]
    BY <1>0, <1>2 DEF Task
  <2>2. task' = [task EXCEPT ![t] = j]
    BY <1>2 DEF Pull
  <2> HIDE DEF j, x
  <2>3. QED
    BY <1>2, <2>1, <2>2 DEF Becomes, x
<1>3. QED
  BY <1>1, <1>2

LEMMA ReadRowStep ==
  ASSUME LTypeOK, NEW t \in Tasks, ReadRow(t)
  PROVE  \E j \in Task : Becomes(t, j) /\ j.step = "write" /\ j.got = row[j.player]
<1> DEFINE x == task[t]
           j == [x EXCEPT !.step = "write", !.got = row[x.player]]
<1>0. x \in Task /\ x.player \in Players /\ row[x.player] \in Levels
  BY TaskUnderWay DEF ReadRow, At, LTypeOK
<1>1. j \in Task /\ j.kind = x.kind /\ j.player = x.player /\ j.mine = x.mine
      /\ j.step = "write" /\ j.got = row[x.player]
  BY <1>0 DEF Task
<1>2. task' = [task EXCEPT ![t] = j]
  BY DEF ReadRow, LTypeOK
<1> HIDE DEF j, x
<1>3. QED
  BY <1>1, <1>2 DEF Becomes, x

\* Filling Redis and a Django that does not answer: an orphan ends there.
LEMMA GoesOn ==
  ASSUME LTypeOK, NEW t \in Tasks, NEW step \in {"apply", "look"}, UnderWay(task[t]),
         task' = [task EXCEPT ![t] = IF task[t].mine THEN [task[t] EXCEPT !.step = step] ELSE Done]
  PROVE  \/ task' = [task EXCEPT ![t] = Done]
         \/ \E j \in Task :
               Becomes(t, j) /\ j.step = step /\ j.mine /\ j.got = task[t].got
<1> DEFINE x == task[t]
           j == [x EXCEPT !.step = step]
<1>0. x \in Task
  BY TaskUnderWay
<1>1. j \in Task /\ j.kind = x.kind /\ j.player = x.player /\ j.mine = x.mine
      /\ j.step = step /\ j.got = x.got
  BY <1>0 DEF Task
<1>2. x.mine => task' = [task EXCEPT ![t] = j]
  OBVIOUS
<1>3. ~x.mine => task' = [task EXCEPT ![t] = Done]
  OBVIOUS
<1> HIDE DEF j, x
<1>4. QED
  BY <1>1, <1>2, <1>3 DEF Becomes, x

LEMMA ApplyStep ==
  ASSUME LTypeOK, NEW t \in Tasks, Apply(t)
  PROVE  \E j \in Task : Becomes(t, j) /\ j.step = "look"
<1> DEFINE x == task[t]
           j == [x EXCEPT !.step = "look", !.got = NoLevel]
<1>0. x \in Task
  BY TaskUnderWay DEF Apply, At
<1>1. j \in Task /\ j.kind = x.kind /\ j.player = x.player /\ j.mine = x.mine
      /\ j.step = "look"
  BY <1>0 DEF Task
<1>2. task' = [task EXCEPT ![t] = j]
  BY DEF Apply, LTypeOK
<1> HIDE DEF j, x
<1>3. QED
  BY <1>1, <1>2 DEF Becomes, x

\* What is told of a level is the level of a client that is there.
LEMMA LevelsTold ==
  ASSUME LTypeOK, NEW t \in Tasks, task[t] \in Task
  PROVE  /\ OwnLevel(task[t]) \in Said /\ OtherLevel(task[t]) \in Said
         /\ OwnLevel(task[t]) # Off =>
              \E p \in Players : Here(p) /\ OwnLevel(task[t]) = client[p].level
         /\ OtherLevel(task[t]) # Off =>
              \E p \in Players : Here(p) /\ OtherLevel(task[t]) = client[p].level
<1> DEFINE p == task[t].player
<1>1. p \in Players /\ Other(p) \in Players
  BY TwoPlayers DEF Task
<1>2. \A q \in Players : Here(q) => client[q].level \in Said
  BY ClientHere DEF Said
<1>3. OwnLevel(task[t]) # Off => Here(p) /\ OwnLevel(task[t]) = client[p].level
  BY DEF OwnLevel, InRoom, Allowed
<1>4. OtherLevel(task[t]) # Off =>
         Here(Other(p)) /\ OtherLevel(task[t]) = client[Other(p)].level
  BY DEF OtherLevel, Allowed
<1> HIDE DEF p
<1>5. QED
  BY <1>1, <1>2, <1>3, <1>4 DEF Said

LEMMA LookStep ==
  ASSUME LTypeOK, NEW t \in Tasks, Look(t)
  PROVE  \E j \in Task :
           /\ Becomes(t, j) /\ j.step = "send"
           /\ j.own = OwnLevel(task[t]) /\ j.other = OtherLevel(task[t])
<1> DEFINE x == task[t]
           j == [x EXCEPT !.step = "send", !.own = OwnLevel(x), !.other = OtherLevel(x)]
<1>0. x \in Task
  BY TaskUnderWay DEF Look, At
<1>1. OwnLevel(x) \in Said /\ OtherLevel(x) \in Said
  BY <1>0, LevelsTold
<1>2. j \in Task /\ j.kind = x.kind /\ j.player = x.player /\ j.mine = x.mine
      /\ j.step = "send" /\ j.own = OwnLevel(x) /\ j.other = OtherLevel(x)
  BY <1>0, <1>1 DEF Task
<1>3. task' = [task EXCEPT ![t] = j]
  BY DEF Look
<1> HIDE DEF j, x
<1>4. QED
  BY <1>2, <1>3 DEF Becomes, x

\* A step of a task, whatever it does to the task
TaskStep(t) ==
  Pull(t) \/ ReadRow(t) \/ Fill(t) \/ NoAnswer(t) \/ Apply(t) \/ Look(t) \/ Send(t)

LEMMA TaskBecomes ==
  ASSUME LTypeOK, NEW t \in Tasks, TaskStep(t)
  PROVE  /\ UnderWay(task[t])
         /\ \/ task' = [task EXCEPT ![t] = Done]
            \/ \E j \in Task :
                  /\ Becomes(t, j)
                  /\ j.mine \/ j.step \in {"write", "send", "django"}
                  /\ j.step = "write" => j.got \in Levels
<1>1. CASE Pull(t)
  <2>1. UnderWay(task[t]) /\ task[t].mine
    BY <1>1 DEF Pull, At, LTypeOK
  <2>2. QED
    BY <1>1, <2>1, PullStep DEF Becomes
<1>2. CASE ReadRow(t)
  <2>1. UnderWay(task[t])
    BY <1>2 DEF ReadRow, At
  <2>2. \A p \in Players : row[p] \in Levels
    BY DEF LTypeOK
  <2>3. PICK j \in Task : Becomes(t, j) /\ j.step = "write" /\ j.got = row[j.player]
    BY <1>2, ReadRowStep
  <2>4. j.got \in Levels
    BY <2>1, <2>2, <2>3, TaskUnderWay DEF Becomes
  <2>5. QED
    BY <2>1, <2>3, <2>4
<1>3. CASE Fill(t)
  <2>1. UnderWay(task[t])
    BY <1>3 DEF Fill, At
  <2>2. task' = [task EXCEPT ![t] = IF task[t].mine THEN [task[t] EXCEPT !.step = "apply"]
                                    ELSE Done]
    BY <1>3 DEF Fill
  <2>3. QED
    BY <2>1, <2>2, GoesOn
<1>4. CASE NoAnswer(t)
  <2>1. UnderWay(task[t])
    BY <1>4 DEF NoAnswer, At
  <2>2. task' = [task EXCEPT ![t] = IF task[t].mine THEN [task[t] EXCEPT !.step = "look"]
                                    ELSE Done]
    BY <1>4 DEF NoAnswer
  <2>3. QED
    BY <2>1, <2>2, GoesOn
<1>5. CASE Apply(t)
  <2>1. UnderWay(task[t]) /\ task[t].mine
    BY <1>5 DEF Apply, At, LTypeOK
  <2>2. QED
    BY <1>5, <2>1, ApplyStep DEF Becomes
<1>6. CASE Look(t)
  <2>1. UnderWay(task[t])
    BY <1>6 DEF Look, At
  <2>2. QED
    BY <1>6, <2>1, LookStep
<1>7. CASE Send(t)
  BY <1>7 DEF Send, At
<1>8. QED
  BY <1>1, <1>2, <1>3, <1>4, <1>5, <1>6, <1>7 DEF TaskStep

-----------------------------------------------------------------------------
(* The types *)

Values ==
  /\ client \in [Players -> Client \cup {Off}]
  /\ row \in [Players -> Levels]
  /\ redis \in [Players -> Levels \cup {None}]
  /\ change \in [Changes -> Change \cup {Ready, Done}]
  /\ task \in [Tasks -> Task \cup {Ready, Done}]
  /\ told \in [Players -> Levels \cup {NoLevel}]
  /\ trust \in {"yes", "alone", "no"}
AskersHere == \A k \in Changes, p \in Players : Asking(k, p) /\ change[k].mine => Here(p)
TasksHere ==
  \A t \in Tasks :
     UnderWay(task[t]) => (task[t].mine \/ task[t].step \in {"django", "write", "send"})
                          /\ (task[t].mine => Here(task[t].player))

LEMMA LTypeParts == LTypeOK <=> Values /\ AskersHere /\ TasksHere
  BY DEF LTypeOK, Values, AskersHere, TasksHere

\* The steps of a change only take the change on.
LEMMA ChangeSteps ==
  ASSUME LTypeOK, NEW k \in Changes, UnderWay(change[k]), NEW step \in {"look", "post", "drop"}
  PROVE  /\ [change[k] EXCEPT !.step = step] \in Change
         /\ [change[k] EXCEPT !.step = step].step = step
         /\ [change[k] EXCEPT !.step = step].level = change[k].level
         /\ [change[k] EXCEPT !.step = step].player = change[k].player
         /\ [change[k] EXCEPT !.step = step].mine = change[k].mine
  BY ChangeUnderWay DEF Change

LEMMA ValuesNext ==
  ASSUME LTypeOK, Writing, [LNext]_levelVars
  PROVE  Values'
<1>0. Values
  BY LTypeParts
<1>1. CASE UNCHANGED levelVars
  BY <1>0, <1>1 DEF Values, levelVars
<1>2. ASSUME NEW p \in Players, Disconnect(p)
      PROVE  Values'
  <2>1. change' \in [Changes -> Change \cup {Ready, Done}]
    <3>1. \A k \in Changes : Asking(k, p) => [change[k] EXCEPT !.mine = FALSE] \in Change
      BY ChangeUnderWay DEF Asking, At, Change
    <3>2. QED
      BY <1>0, <1>2, <3>1 DEF Disconnect, Values
  <2>2. task' \in [Tasks -> Task \cup {Ready, Done}]
    BY <1>0, <1>2, TaskUnderWay, OrphanedTask DEF Disconnect, Values
  <2>3. QED
    BY <1>0, <1>2, <2>1, <2>2 DEF Disconnect, Values
<1>3. ASSUME NEW p \in Players, SetScreen(p)
      PROVE  Values'
  <2>1. [client[p] EXCEPT !.on = ~client[p].on] \in Client
    BY <1>3, ClientHere DEF SetScreen, Client
  <2>2. client' = [client EXCEPT ![p] = [client[p] EXCEPT !.on = ~client[p].on]]
    BY <1>0, <1>3 DEF SetScreen, Values
  <2>3. QED
    BY <1>0, <1>3, <2>1, <2>2 DEF SetScreen, Values
<1>4. ASSUME NEW p \in Players, KeyExpires(p)
      PROVE  Values'
  BY <1>0, <1>4 DEF KeyExpires, Values
<1>5. ASSUME NEW p \in Players, NEW t \in Tasks,
             Connect(p, t) \/ JoinLiveSesh(p, t) \/ RequestPeerPresence(p, t)
      PROVE  Values'
  <2>1. /\ task' \in [Tasks -> Task \cup {Ready, Done}]
        /\ UNCHANGED <<row, redis, change, told, trust>>
    BY <1>0, <1>5, NewTaskType DEF Connect, JoinLiveSesh, RequestPeerPresence, Values
  <2>2. client' = client \/ client' = [client EXCEPT ![p] = NewClient]
    BY <1>5 DEF Connect, JoinLiveSesh, RequestPeerPresence
  <2>3. NewClient \in Client
    BY DEF NewClient, Client
  <2>4. QED
    BY <1>0, <2>1, <2>2, <2>3 DEF Values
<1>6. ASSUME NEW p \in Players, NEW k \in Changes, NEW l \in Levels,
             RequestLevelChange(k, p, l)
      PROVE  Values'
  <2>1. [player |-> p, level |-> l, step |-> "tell", mine |-> TRUE] \in Change
    BY DEF Change
  <2>2. \A q \in Players : Here(q) => [client[q] EXCEPT !.level = l] \in Client
    BY ClientHere DEF Client
  <2>3. QED
    BY <1>0, <1>6, <2>1, <2>2 DEF RequestLevelChange, Values
<1>7. ASSUME NEW k \in Changes,
             BroadcastLevel(k) \/ Persist(k) \/ ApplyLevelChange(k) \/ DropKeys(k)
                \/ FailPersist(k)
      PROVE  Values'
  <2>1. UnderWay(change[k]) /\ change[k] \in Change /\ change[k].level \in Levels
    BY <1>7, ChangeUnderWay DEF BroadcastLevel, Persist, ApplyLevelChange, DropKeys,
       FailPersist, At
  <2>2. \A step \in {"look", "post", "drop"} : [change[k] EXCEPT !.step = step] \in Change
    BY <2>1, ChangeSteps
  <2>3. change' \in [Changes -> Change \cup {Ready, Done}]
    <3>1. \/ change' = [change EXCEPT ![k] = Done]
          \/ \E step \in {"look", "post", "drop"} :
                change' = [change EXCEPT ![k] = [change[k] EXCEPT !.step = step]]
      BY <1>0, <1>7 DEF BroadcastLevel, Persist, ApplyLevelChange, DropKeys, FailPersist, Values
    <3>2. QED
      BY <1>0, <2>2, <3>1 DEF Values
  <2>4. QED
    BY <1>0, <1>7, <2>1, <2>3 DEF BroadcastLevel, Persist, ApplyLevelChange, DropKeys,
       FailPersist, Values
<1>8. ASSUME NEW t \in Tasks, TaskStep(t)
      PROVE  Values'
  <2>1. UnderWay(task[t]) /\ task[t] \in Task /\ task[t].player \in Players
    BY <1>8, TaskBecomes, TaskUnderWay
  <2>2. task' \in [Tasks -> Task \cup {Ready, Done}]
    <3>1. \E j \in Task \cup {Done} : task' = [task EXCEPT ![t] = j]
      <4>1. CASE task' = [task EXCEPT ![t] = Done]
        BY <4>1
      <4>2. ASSUME NEW j \in Task, Becomes(t, j)
            PROVE  \E i \in Task \cup {Done} : task' = [task EXCEPT ![t] = i]
        BY <4>2 DEF Becomes
      <4>3. QED
        BY <1>8, <4>1, <4>2, TaskBecomes
    <3>2. QED
      BY <1>0, <3>1 DEF Values
  <2>3. client' \in [Players -> Client \cup {Off}]
    <3>1. CASE Apply(t)
      <4>1. Here(task[t].player) /\ task[t].got \in Levels \cup {NoLevel}
        BY <2>1, <3>1, TaskUnderWay DEF Apply, At, LTypeOK
      <4>2. [client[task[t].player] EXCEPT !.level = task[t].got, !.bound = TRUE] \in Client
        BY <2>1, <4>1, ClientHere DEF Client
      <4>3. client' = [client EXCEPT ![task[t].player] =
                         [client[task[t].player] EXCEPT !.level = task[t].got, !.bound = TRUE]]
        BY <1>0, <2>1, <3>1 DEF Apply, Values
      <4>4. QED
        BY <1>0, <2>1, <4>2, <4>3 DEF Values
    <3>2. CASE ~Apply(t)
      BY <1>0, <1>8, <3>2 DEF TaskStep, Pull, ReadRow, Fill, NoAnswer, Look, Send, Values
    <3>3. QED
      BY <3>1, <3>2
  <2>4. told' \in [Players -> Levels \cup {NoLevel}]
    <3>1. CASE Send(t)
      <4>1. task[t].own \in Said /\ task[t].other \in Said
        BY <2>1, TaskUnderWay
      <4>2. \A r \in Players : told'[r] \in {told[r]} \cup ({task[t].own, task[t].other} \ {Off})
        BY <2>1, <3>1, TwoPlayers DEF Send
      <4>3. told' = [r \in Players |-> told'[r]]
        BY <3>1 DEF Send
      <4>4. QED
        BY <1>0, <4>1, <4>2, <4>3 DEF Said, Values
    <3>2. CASE Apply(t)
      BY <1>0, <2>1, <3>2 DEF Apply, Values
    <3>3. CASE ~Send(t) /\ ~Apply(t)
      BY <1>0, <1>8, <3>3 DEF TaskStep, Pull, ReadRow, Fill, NoAnswer, Look, Values
    <3>4. QED
      BY <3>1, <3>2, <3>3
  <2>5. redis' \in [Players -> Levels \cup {None}]
    BY <1>0, <1>8, <2>1 DEF TaskStep, Pull, ReadRow, Fill, NoAnswer, Apply, Look, Send, Values,
       Writing
  <2>6. UNCHANGED <<row, change>> /\ trust' \in {"yes", "alone", "no"}
    BY <1>0, <1>8 DEF TaskStep, Pull, ReadRow, Fill, NoAnswer, Apply, Look, Send, Values, Read
  <2>7. QED
    BY <1>0, <2>2, <2>3, <2>4, <2>5, <2>6 DEF Values
<1>9. QED
  BY <1>1, <1>2, <1>3, <1>4, <1>5, <1>6, <1>7, <1>8 DEF LNext, TaskStep

\* No task ends a connection, and what it gives a client is a level and the context.
LEMMA ClientsStay ==
  ASSUME LTypeOK, NEW t \in Tasks, TaskStep(t), NEW q \in Players, Here(q)
  PROVE  Here(q)'
<1>1. CASE Apply(t)
  <2>1. [client[q] EXCEPT !.level = task[t].got, !.bound = TRUE] # Off
    <3>1. task[t].got \in Levels \cup {NoLevel}
      BY <1>1, TaskUnderWay DEF Apply, At
    <3>2. [client[q] EXCEPT !.level = task[t].got, !.bound = TRUE] \in Client
      BY <3>1, ClientHere DEF Client
    <3>3. QED
      BY <3>2, MarkersAssumption
  <2>2. client'[q] = client[q]
        \/ client'[q] = [client[q] EXCEPT !.level = task[t].got, !.bound = TRUE]
    BY <1>1 DEF Apply, LTypeOK
  <2>3. QED
    BY <2>1, <2>2 DEF Here
<1>2. CASE ~Apply(t)
  BY <1>2 DEF TaskStep, Pull, ReadRow, Fill, NoAnswer, Look, Send, Here
<1>3. QED
  BY <1>1, <1>2

\* Who asked for a change, and whose task it is, are there or are known to have left.
LEMMA AskersHereNext ==
  ASSUME LTypeOK, [LNext]_levelVars
  PROVE  AskersHere'
<1>0. Values /\ AskersHere
  BY LTypeParts
<1>1. CASE UNCHANGED levelVars
  BY <1>0, <1>1 DEF AskersHere, Asking, At, UnderWay, Here, levelVars
<1>2. ASSUME NEW p \in Players, Disconnect(p)
      PROVE  AskersHere'
  <2> SUFFICES ASSUME NEW k \in Changes, NEW q \in Players, Asking(k, q)', change'[k].mine
               PROVE  Here(q)'
    BY DEF AskersHere
  <2>1. CASE Asking(k, p)
    <3>1. change'[k] = [change[k] EXCEPT !.mine = FALSE] /\ change[k] \in Change
      BY <1>2, <2>1, ChangeUnderWay DEF Disconnect, Asking, At
    <3>2. ~change'[k].mine
      BY <3>1 DEF Change
    <3>3. QED
      BY <3>2
  <2>2. CASE ~Asking(k, p)
    <3>1. change'[k] = change[k]
      BY <1>2, <2>2 DEF Disconnect
    <3>2. Asking(k, q) /\ q # p
      BY <2>2, <3>1 DEF Asking, At, UnderWay
    <3>3. QED
      BY <1>0, <1>2, <3>1, <3>2 DEF Disconnect, AskersHere, Here, Values
  <2>3. QED
    BY <2>1, <2>2
<1>3. ASSUME NEW p \in Players, \/ SetScreen(p) \/ KeyExpires(p)
                               \/ \E t \in Tasks : \/ JoinLiveSesh(p, t)
                                                  \/ RequestPeerPresence(p, t)
                                                  \/ Connect(p, t)
      PROVE  AskersHere'
  <2>1. change' = change
    BY <1>3 DEF SetScreen, KeyExpires, JoinLiveSesh, RequestPeerPresence, Connect
  <2>2. [client[p] EXCEPT !.on = ~client[p].on] # Off \/ ~Here(p)
    BY ClientHere, MarkersAssumption DEF Client
  <2>3. \A q \in Players : Here(q) => Here(q)'
    BY <1>0, <1>3, <2>2 DEF SetScreen, KeyExpires, JoinLiveSesh, RequestPeerPresence, Connect,
       Here, Values
  <2>4. QED
    BY <1>0, <2>1, <2>3 DEF AskersHere, Asking, At, UnderWay
<1>4. ASSUME NEW p \in Players, NEW k \in Changes, NEW l \in Levels,
             RequestLevelChange(k, p, l)
      PROVE  AskersHere'
  <2>1. Here(p) /\ change' = [change EXCEPT ![k] = [player |-> p, level |-> l, step |-> "tell",
                                                   mine |-> TRUE]]
    BY <1>4 DEF RequestLevelChange, Allowed
  <2>2. \A q \in Players : Here(q) => [client[q] EXCEPT !.level = l] # Off
    BY ClientHere, MarkersAssumption DEF Client
  <2>3. \A q \in Players : Here(q) => Here(q)'
    BY <1>4, <2>2 DEF RequestLevelChange, Here
  <2>4. QED
    BY <1>0, <2>1, <2>3 DEF AskersHere, Asking, At, UnderWay, Values
<1>5. ASSUME NEW k \in Changes,
             BroadcastLevel(k) \/ Persist(k) \/ ApplyLevelChange(k) \/ DropKeys(k)
                \/ FailPersist(k)
      PROVE  AskersHere'
  <2>1. client' = client
    BY <1>5 DEF BroadcastLevel, Persist, ApplyLevelChange, DropKeys, FailPersist
  <2>2. CASE change' = [change EXCEPT ![k] = Done]
    BY <1>0, <2>1, <2>2 DEF AskersHere, Asking, At, UnderWay, Here, Values
  <2>3. CASE change' # [change EXCEPT ![k] = Done]
    <3>1. /\ UnderWay(change[k])
          /\ \/ /\ change' = [change EXCEPT ![k] = [change[k] EXCEPT !.step = "look"]]
                /\ At(change[k], "tell")
             \/ change' = [change EXCEPT ![k] = [change[k] EXCEPT !.step = "post"]]
             \/ change' = [change EXCEPT ![k] = [change[k] EXCEPT !.step = "drop"]]
      BY <1>0, <1>5, <2>3 DEF BroadcastLevel, Persist, ApplyLevelChange, DropKeys, FailPersist, At,
         Values
    <3>2. \A q \in Players : Asking(k, q)' => Asking(k, q) /\ change'[k].mine = change[k].mine
      <4>1. CASE change' = [change EXCEPT ![k] = [change[k] EXCEPT !.step = "look"]]
                 /\ At(change[k], "tell")
        BY <1>0, <3>1, <4>1, ChangeSteps DEF Asking, At, Values
      <4>2. CASE \/ change' = [change EXCEPT ![k] = [change[k] EXCEPT !.step = "post"]]
                 \/ change' = [change EXCEPT ![k] = [change[k] EXCEPT !.step = "drop"]]
        BY <1>0, <3>1, <4>2, ChangeSteps DEF Asking, At, Values
      <4>3. QED
        BY <3>1, <4>1, <4>2
    <3>3. \A j \in Changes : j # k => change'[j] = change[j]
      BY <1>0, <3>1 DEF Values
    <3>4. QED
      BY <1>0, <2>1, <3>2, <3>3 DEF AskersHere, Asking, At, UnderWay, Here
  <2>4. QED
    BY <2>2, <2>3
<1>6. ASSUME NEW t \in Tasks, TaskStep(t)
      PROVE  AskersHere'
  <2>1. change' = change
    BY <1>6 DEF TaskStep, Pull, ReadRow, Fill, NoAnswer, Apply, Look, Send
  <2>2. \A q \in Players : Here(q) => Here(q)'
    BY <1>6, ClientsStay
  <2>3. QED
    BY <1>0, <2>1, <2>2 DEF AskersHere, Asking, At, UnderWay
<1>7. QED
  BY <1>1, <1>2, <1>3, <1>4, <1>5, <1>6 DEF LNext, TaskStep

LEMMA TasksHereNext ==
  ASSUME LTypeOK, Writing, [LNext]_levelVars
  PROVE  TasksHere' /\ Writing'
<1>0. Values /\ TasksHere /\ Writing
  BY LTypeParts
<1>1. CASE UNCHANGED levelVars
  BY <1>0, <1>1 DEF TasksHere, Writing, At, UnderWay, Here, levelVars
<1>2. ASSUME NEW p \in Players, Disconnect(p)
      PROVE  TasksHere' /\ Writing'
  <2> SUFFICES ASSUME NEW t \in Tasks, UnderWay(task[t])'
               PROVE  /\ task'[t].mine \/ task'[t].step \in {"django", "write", "send"}
                      /\ task'[t].mine => Here(task[t].player)'
                      /\ task'[t].step = "write" => task'[t].got \in Levels
    BY DEF TasksHere, Writing, At
  <2>1. CASE UnderWay(task[t]) /\ task[t].player = p
    <3>1. task'[t] = Orphaned(task[t]) /\ task[t] \in Task
      BY <1>2, <2>1, TaskUnderWay DEF Disconnect
    <3>2. /\ task'[t].step = task[t].step /\ task[t].step \in {"django", "write", "send"}
          /\ ~task'[t].mine /\ task'[t].got = task[t].got
      BY <3>1, OrphanedTask DEF UnderWay
    <3>3. QED
      BY <1>0, <2>1, <3>2 DEF Writing, At
  <2>2. CASE ~(UnderWay(task[t]) /\ task[t].player = p)
    <3>1. task'[t] = task[t]
      BY <1>2, <2>2 DEF Disconnect
    <3>2. UnderWay(task[t]) /\ task[t].player # p
      BY <2>2, <3>1 DEF UnderWay
    <3>3. task[t].player \in Players
      BY <3>2, TaskUnderWay
    <3>4. Here(task[t].player) => Here(task[t].player)'
      BY <1>0, <1>2, <3>2, <3>3 DEF Disconnect, Here, Values
    <3>5. QED
      BY <1>0, <3>1, <3>2, <3>4 DEF TasksHere, Writing, At, Here
  <2>3. QED
    BY <2>1, <2>2
<1>3. ASSUME \A q \in Players : Here(q) => Here(q)', task' = task
      PROVE  TasksHere' /\ Writing'
  BY <1>0, <1>3, TaskUnderWay DEF TasksHere, Writing, At, UnderWay
<1>4. ASSUME NEW p \in Players, SetScreen(p) \/ KeyExpires(p)
      PROVE  TasksHere' /\ Writing'
  <2>1. [client[p] EXCEPT !.on = ~client[p].on] # Off \/ ~Here(p)
    BY ClientHere, MarkersAssumption DEF Client
  <2>2. \A q \in Players : Here(q) => Here(q)'
    BY <1>0, <1>4, <2>1 DEF SetScreen, KeyExpires, Here, Values
  <2>3. task' = task
    BY <1>4 DEF SetScreen, KeyExpires
  <2>4. QED
    BY <1>3, <2>2, <2>3
<1>5. ASSUME NEW p \in Players, NEW k \in Changes, NEW l \in Levels,
             RequestLevelChange(k, p, l)
      PROVE  TasksHere' /\ Writing'
  <2>1. \A q \in Players : Here(q) => [client[q] EXCEPT !.level = l] # Off
    BY ClientHere, MarkersAssumption DEF Client
  <2>2. \A q \in Players : Here(q) => Here(q)'
    BY <1>5, <2>1 DEF RequestLevelChange, Here
  <2>3. task' = task
    BY <1>5 DEF RequestLevelChange
  <2>4. QED
    BY <1>3, <2>2, <2>3
<1>6. ASSUME NEW k \in Changes,
             BroadcastLevel(k) \/ Persist(k) \/ ApplyLevelChange(k) \/ DropKeys(k)
                \/ FailPersist(k)
      PROVE  TasksHere' /\ Writing'
  <2>1. client' = client /\ task' = task
    BY <1>6 DEF BroadcastLevel, Persist, ApplyLevelChange, DropKeys, FailPersist
  <2>2. QED
    BY <1>3, <2>1 DEF Here
<1>7. ASSUME NEW p \in Players, NEW t \in Tasks,
             Connect(p, t) \/ JoinLiveSesh(p, t) \/ RequestPeerPresence(p, t)
      PROVE  TasksHere' /\ Writing'
  <2>1. \E j \in Task : /\ task' = [task EXCEPT ![t] = j]
                        /\ j.mine /\ j.player = p /\ j.step \in {"pull", "look"}
    BY <1>7, NewTaskType DEF Connect, JoinLiveSesh, RequestPeerPresence
  <2>2. NewClient # Off
    <3>1. NewClient \in Client
      BY DEF NewClient, Client
    <3>2. QED
      BY <3>1, MarkersAssumption
  <2>3. Here(p)' /\ \A q \in Players : Here(q) => Here(q)'
    BY <1>0, <1>7, <2>2 DEF Connect, JoinLiveSesh, RequestPeerPresence, Here, Values
  <2>4. QED
    BY <1>0, <2>1, <2>3, TaskUnderWay DEF TasksHere, Writing, At, UnderWay, Values
<1>8. ASSUME NEW t \in Tasks, TaskStep(t)
      PROVE  TasksHere' /\ Writing'
  <2>1. \A q \in Players : Here(q) => Here(q)'
    BY <1>8, ClientsStay
  <2>2. CASE task' = [task EXCEPT ![t] = Done]
    BY <1>0, <2>1, <2>2, TheMarkers, TaskUnderWay DEF TasksHere, Writing, At, UnderWay, Values
  <2>3. ASSUME NEW j \in Task, Becomes(t, j), j.mine \/ j.step \in {"write", "send", "django"},
               j.step = "write" => j.got \in Levels
        PROVE  TasksHere' /\ Writing'
    <3>1. task' = [task EXCEPT ![t] = j] /\ (j.mine => Here(j.player)')
      BY <1>0, <1>8, <2>1, <2>3, TaskBecomes, TaskUnderWay DEF Becomes, TasksHere
    <3>2. QED
      BY <1>0, <2>1, <2>3, <3>1, TaskUnderWay DEF TasksHere, Writing, At, UnderWay, Values
  <2>4. QED
    BY <1>8, <2>2, <2>3, TaskBecomes
<1>9. QED
  BY <1>1, <1>2, <1>4, <1>5, <1>6, <1>7, <1>8 DEF LNext, TaskStep

LEMMA LevelTypeNext ==
  ASSUME LTypeOK, Writing, [LNext]_levelVars
  PROVE  LTypeOK' /\ Writing'
<1>1. (Values /\ AskersHere /\ TasksHere)' /\ Writing'
  BY ValuesNext, AskersHereNext, TasksHereNext
<1>2. QED
  BY <1>1 DEF LTypeOK, Values, AskersHere, TasksHere

-----------------------------------------------------------------------------
(* Who comes, goes or asks *)

PlayerStep(p) ==
  \/ Disconnect(p) \/ SetScreen(p) \/ KeyExpires(p)
  \/ \E t \in Tasks : Connect(p, t) \/ JoinLiveSesh(p, t) \/ RequestPeerPresence(p, t)

\* A player who comes brings no level, and one who shows or hides the session forgets it.
LEMMA PlayerKeeps ==
  ASSUME LTypeOK, NEW p \in Players, PlayerStep(p), NEW l
  PROVE  /\ ClientsAt(l) => ClientsAt(l)'
         /\ ToldAt(l) => ToldAt(l)'
<1>0. Values
  BY LTypeParts
<1>1. CASE Disconnect(p)
  BY <1>0, <1>1 DEF Disconnect, ClientsAt, ToldAt, InRoom, Allowed, Here, Values
<1>2. CASE SetScreen(p)
  <2>1. client[p] \in Client
    BY <1>2, ClientHere DEF SetScreen
  <2>2. /\ client'[p].level = client[p].level /\ told'[p] = NoLevel
        /\ \A q \in Players : q # p => client'[q] = client[q] /\ told'[q] = told[q]
    BY <1>0, <1>2, <2>1 DEF SetScreen, Client, Values
  <2>3. QED
    BY <1>2, <2>2 DEF SetScreen, ClientsAt, ToldAt, InRoom, Allowed, Here
<1>3. CASE KeyExpires(p) \/ \E t \in Tasks : JoinLiveSesh(p, t) \/ RequestPeerPresence(p, t)
  BY <1>3 DEF KeyExpires, JoinLiveSesh, RequestPeerPresence, ClientsAt, ToldAt, InRoom, Allowed,
     Here
<1>4. CASE \E t \in Tasks : Connect(p, t)
  BY <1>0, <1>4 DEF Connect, NewClient, ClientsAt, ToldAt, InRoom, Allowed, Here, Values
<1>5. QED
  BY <1>1, <1>2, <1>3, <1>4 DEF PlayerStep

\* No row, no key, no change is told anything by that.
LEMMA PlayerLeavesLevels ==
  ASSUME LTypeOK, NEW p \in Players, PlayerStep(p)
  PROVE  /\ row' = row /\ trust' = trust
         /\ \A q \in Players : redis'[q] \in {None, redis[q]}
         /\ \A k \in Changes :
              /\ UnderWay(change[k])' <=> UnderWay(change[k])
              /\ UnderWay(change[k]) => change'[k].level = change[k].level
                                        /\ change'[k].step = change[k].step
<1>0. Values
  BY LTypeParts
<1>1. CASE Disconnect(p)
  <2>1. \A k \in Changes : Asking(k, p) =>
           /\ [change[k] EXCEPT !.mine = FALSE] \in Change
           /\ [change[k] EXCEPT !.mine = FALSE].level = change[k].level
           /\ [change[k] EXCEPT !.mine = FALSE].step = change[k].step
           /\ UnderWay(change[k])
    BY ChangeUnderWay DEF Asking, At, Change
  <2>2. \A k \in Changes :
           /\ UnderWay(change[k])' <=> UnderWay(change[k])
           /\ UnderWay(change[k]) => change'[k].level = change[k].level
                                     /\ change'[k].step = change[k].step
    BY <1>1, <2>1, MarkersAssumption DEF Disconnect, UnderWay
  <2>3. QED
    BY <1>0, <1>1, <2>2 DEF Disconnect
<1>2. CASE ~Disconnect(p)
  BY <1>0, <1>2 DEF PlayerStep, SetScreen, KeyExpires, JoinLiveSesh, RequestPeerPresence, Connect,
     UnderWay, Values
<1>3. QED
  BY <1>1, <1>2

\* Nor does a task come to know a level by it.
LEMMA PlayerLeavesTasks ==
  ASSUME LTypeOK, NEW p \in Players, PlayerStep(p), NEW t \in Tasks, UnderWay(task[t])'
  PROVE  \/ task'[t].step \in {"pull", "look"}
         \/ /\ UnderWay(task[t]) /\ task'[t].step = task[t].step /\ task'[t].got = task[t].got
            /\ task'[t].own = task[t].own /\ task'[t].other \in {Off, task[t].other}
<1>0. Values
  BY LTypeParts
<1>1. CASE Disconnect(p)
  <2>1. CASE UnderWay(task[t]) /\ task[t].player = p
    <3>1. task'[t] = Orphaned(task[t]) /\ task[t] \in Task
      BY <1>1, <2>1, TaskUnderWay DEF Disconnect
    <3>2. task'[t] # Done
      BY DEF UnderWay
    <3>3. QED
      BY <2>1, <3>1, <3>2, OrphanedTask
  <2>2. CASE ~(UnderWay(task[t]) /\ task[t].player = p)
    BY <1>1, <2>2 DEF Disconnect, UnderWay
  <2>3. QED
    BY <2>1, <2>2
<1>2. CASE SetScreen(p) \/ KeyExpires(p)
  BY <1>2 DEF SetScreen, KeyExpires, UnderWay
<1>3. ASSUME NEW u \in Tasks, Connect(p, u) \/ JoinLiveSesh(p, u) \/ RequestPeerPresence(p, u)
      PROVE  task'[t] = task[t] \/ task'[t].step \in {"pull", "look"}
  BY <1>0, <1>3, NewTaskType DEF Connect, JoinLiveSesh, RequestPeerPresence, Values
<1>4. QED
  BY <1>1, <1>2, <1>3 DEF PlayerStep, UnderWay

LEMMA PlayerLevels ==
  ASSUME LevelInv, NEW p \in Players, PlayerStep(p)
  PROVE  Alone' /\ Healed'
<1>0. LTypeOK /\ Alone /\ Healed
  BY DEF LevelInv
<1>1. /\ row' = row /\ trust' = trust
      /\ \A q \in Players : redis'[q] \in {None, redis[q]}
      /\ \A k \in Changes :
           /\ UnderWay(change[k])' <=> UnderWay(change[k])
           /\ UnderWay(change[k]) => change'[k].level = change[k].level
                                     /\ change'[k].step = change[k].step
  BY <1>0, PlayerLeavesLevels
<1>2. \A t \in Tasks : UnderWay(task[t])' =>
         \/ task'[t].step \in {"pull", "look"}
         \/ /\ UnderWay(task[t]) /\ task'[t].step = task[t].step /\ task'[t].got = task[t].got
            /\ task'[t].own = task[t].own /\ task'[t].other \in {Off, task[t].other}
  BY <1>0, PlayerLeavesTasks
<1>3. \A l : (ClientsAt(l) => ClientsAt(l)') /\ (ToldAt(l) => ToldAt(l)')
  BY <1>0, PlayerKeeps
<1>4. Alone'
  <2> SUFFICES ASSUME trust' = "alone"
               PROVE  /\ ~Reading'
                      /\ \E k \in Changes :
                           /\ UnderWay(change[k])' /\ Gathers(change[k])'
                           /\ \A j \in Changes : UnderWay(change[j])' => j = k
    BY DEF Alone
  <2>1. ~Reading /\ \E k \in Changes : /\ UnderWay(change[k]) /\ Gathers(change[k])
                                        /\ \A j \in Changes : UnderWay(change[j]) => j = k
    BY <1>0, <1>1 DEF Alone
  <2>2. ~Reading'
    BY <1>2, <2>1 DEF Reading
  <2>3. PICK k \in Changes : /\ UnderWay(change[k]) /\ Gathers(change[k])
                             /\ \A j \in Changes : UnderWay(change[j]) => j = k
    BY <2>1
  <2>4. PICK l : l = change[k].level
    OBVIOUS
  <2>5. /\ ClientsAt(l) /\ (change[k].step # "tell" => ToldAt(l))
        /\ change[k].step = "drop" => \A q \in Players : row[q] = l
    BY <2>3, <2>4 DEF Gathers
  <2>6. change'[k].level = l /\ change'[k].step = change[k].step
    BY <1>1, <2>3, <2>4
  <2>7. ClientsAt(l)' /\ (change[k].step # "tell" => ToldAt(l)')
    BY <1>3, <2>5
  <2>8. Gathers(change[k])'
    BY <1>1, <2>5, <2>6, <2>7 DEF Gathers, ClientsAt, ToldAt
  <2>9. QED
    BY <1>1, <2>2, <2>3, <2>8
<1>5. Healed'
  <2> SUFFICES ASSUME trust' = "yes"
               PROVE  Agreed'
    BY DEF Healed
  <2>1. Agreed
    BY <1>0, <1>1 DEF Healed
  <2>2. ~Changing'
    BY <1>1, <2>1 DEF Agreed, Changing
  <2>3. PICK l : l = row[host]
    OBVIOUS
  <2>4. ClientsAt(l)' /\ ToldAt(l)'
    BY <1>3, <2>1, <2>3 DEF Agreed
  <2>5. ClientsAt(row[host])' /\ ToldAt(row[host])'
    BY <1>1, <2>3, <2>4 DEF ClientsAt, ToldAt
  <2>6. \A t \in Tasks : UnderWay(task[t])' => Carries(task[t])'
    BY <1>1, <1>2, <2>1 DEF Agreed, Carries
  <2>7. QED
    BY <1>1, <2>1, <2>2, <2>5, <2>6 DEF Agreed
<1>6. QED
  BY <1>4, <1>5

-----------------------------------------------------------------------------
(* The steps of a change *)

\* A change is made alone only if nothing else is under way or has been read.
LEMMA RequestLevels ==
  ASSUME LevelInv, NEW k \in Changes, NEW p \in Players, NEW l \in Levels,
         RequestLevelChange(k, p, l)
  PROVE  Alone' /\ Healed'
<1>0. LTypeOK
  BY DEF LevelInv
<1>1. Healed'
  BY DEF RequestLevelChange, Healed
<1>2. ASSUME trust' = "alone"
      PROVE  /\ ~Reading'
             /\ UnderWay(change[k])' /\ Gathers(change[k])'
             /\ \A j \in Changes : UnderWay(change[j])' => j = k
  <2>1. ~Changing /\ ~Reading /\ client[p].bound
    BY <1>2 DEF RequestLevelChange
  <2>2. ~Reading'
    BY <2>1 DEF RequestLevelChange, Reading, UnderWay
  <2> DEFINE c == [player |-> p, level |-> l, step |-> "tell", mine |-> TRUE]
  <2>3. change' = [change EXCEPT ![k] = c] /\ c \in Change /\ c.level = l /\ c.step = "tell"
    BY DEF RequestLevelChange, Change
  <2> HIDE DEF c
  <2>4. change'[k] = c /\ \A j \in Changes : j # k => change'[j] = change[j]
    BY <1>0, <2>3 DEF LTypeOK
  <2>5. UnderWay(change[k])' /\ \A j \in Changes : UnderWay(change[j])' => j = k
    BY <2>1, <2>3, <2>4, MarkersAssumption DEF UnderWay, Changing
  <2>6. \A q \in Players : client'[q] = IF Here(q) THEN [client[q] EXCEPT !.level = l] ELSE client[q]
    BY <2>1 DEF RequestLevelChange, Rewritten
  <2>7. \A q \in Players : Here(q)' => client'[q].level = l
    BY <1>0, <2>6, ClientHere DEF Here, Client
  <2>8. Gathers(change[k])'
    BY <2>3, <2>4, <2>7 DEF Gathers, ClientsAt
  <2>9. QED
    BY <2>2, <2>5, <2>8
<1>3. Alone'
  BY <1>2 DEF Alone
<1>4. QED
  BY <1>1, <1>3

ChangeStep(k) ==
  BroadcastLevel(k) \/ Persist(k) \/ ApplyLevelChange(k) \/ DropKeys(k) \/ FailPersist(k)

\* The only change under way is the one made alone: it takes its level to the players, to
\* the rows, and, once the keys are gone, to all.
LEMMA ChangeLevels ==
  ASSUME LevelInv, NEW k \in Changes, ChangeStep(k)
  PROVE  Alone' /\ Healed'
<1>0. LTypeOK /\ Values /\ Alone /\ Healed
  BY LTypeParts DEF LevelInv
<1>1. UnderWay(change[k]) /\ change[k] \in Change
  BY <1>0, ChangeUnderWay DEF ChangeStep, BroadcastLevel, Persist, ApplyLevelChange, DropKeys,
     FailPersist, At
<1>2. trust # "yes"
  BY <1>0, <1>1 DEF Healed, Agreed, Changing
<1>3. CASE trust = "no"
  BY <1>2, <1>3 DEF ChangeStep, BroadcastLevel, Persist, ApplyLevelChange, DropKeys, FailPersist,
     Alone, Healed
<1>4. CASE trust = "alone"
  <2>1. ~Reading /\ Gathers(change[k]) /\ \A j \in Changes : UnderWay(change[j]) => j = k
    BY <1>0, <1>1, <1>4 DEF Alone
  <2>2. PICK l : l = change[k].level
    OBVIOUS
  <2>3. /\ ClientsAt(l) /\ (change[k].step # "tell" => ToldAt(l))
        /\ change[k].step = "drop" => \A q \in Players : row[q] = l
    BY <2>1, <2>2 DEF Gathers
  <2>4. client' = client /\ task' = task /\ \A j \in Changes : j # k => change'[j] = change[j]
    BY <1>0 DEF ChangeStep, BroadcastLevel, Persist, ApplyLevelChange, DropKeys, FailPersist,
       Values
  <2>5. ~Reading' /\ ClientsAt(l)' /\ \A j \in Changes : UnderWay(change[j])' => j = k
    BY <2>1, <2>3, <2>4 DEF Reading, UnderWay, ClientsAt, Here
  <2>6. ASSUME NEW step \in {"look", "post", "drop"},
               change' = [change EXCEPT ![k] = [change[k] EXCEPT !.step = step]],
               ToldAt(l)', step = "drop" => \A q \in Players : row'[q] = l,
               trust' = "alone"
        PROVE  Alone' /\ Healed'
    <3>1. change'[k] \in Change /\ change'[k].level = l /\ change'[k].step = step
      BY <1>0, <1>1, <2>2, <2>6, ChangeSteps DEF Values
    <3>2. UnderWay(change[k])'
      BY <3>1, MarkersAssumption DEF UnderWay
    <3>3. Gathers(change[k])'
      BY <2>5, <2>6, <3>1 DEF Gathers, ClientsAt, ToldAt
    <3>4. QED
      BY <2>5, <2>6, <3>2, <3>3 DEF Alone, Healed
  <2>7. CASE BroadcastLevel(k)
    <3>1. \A q \in Players : InRoom(q)' => told'[q] = l
      BY <2>2, <2>7 DEF BroadcastLevel, Room, InRoom, Allowed, Here
    <3>2. ToldAt(l)'
      BY <3>1 DEF ToldAt
    <3>3. change' = [change EXCEPT ![k] = [change[k] EXCEPT !.step = "look"]] /\ trust' = "alone"
      BY <1>4, <2>7 DEF BroadcastLevel
    <3>4. QED
      BY <2>6, <3>2, <3>3
  <2>8. CASE Persist(k)
    <3>1. CASE change[k].mine
      <4>1. change' = [change EXCEPT ![k] = [change[k] EXCEPT !.step = "post"]] /\ trust' = "alone"
        BY <1>4, <2>8, <3>1 DEF Persist
      <4>2. ToldAt(l)'
        BY <2>3, <2>8 DEF Persist, At, ToldAt, InRoom, Allowed, Here
      <4>3. QED
        BY <2>6, <4>1, <4>2
    <3>2. CASE ~change[k].mine
      BY <2>8, <3>2 DEF Persist, Alone, Healed
    <3>3. QED
      BY <3>1, <3>2
  <2>9. CASE ApplyLevelChange(k)
    <3>1. change' = [change EXCEPT ![k] = [change[k] EXCEPT !.step = "drop"]] /\ trust' = "alone"
      BY <1>4, <2>9 DEF ApplyLevelChange
    <3>2. ToldAt(l)' /\ \A q \in Players : row'[q] = l
      BY <2>2, <2>3, <2>9 DEF ApplyLevelChange, At, ToldAt, InRoom, Allowed, Here
    <3>3. QED
      BY <2>6, <3>1, <3>2
  <2>10. CASE DropKeys(k)
    <3>1. /\ change' = [change EXCEPT ![k] = Done] /\ trust' = "yes"
          /\ \A q \in Players : redis'[q] = None
          /\ row' = row /\ told' = told
      BY <1>4, <2>10 DEF DropKeys
    <3>2. \A q \in Players : row[q] = l
      BY <2>3, <2>10 DEF DropKeys, At
    <3>3. row'[host] = l
      BY <3>1, <3>2 DEF Players
    <3>4. ~Changing'
      BY <1>0, <2>5, <3>1, TheMarkers DEF Changing, UnderWay, Values
    <3>5. ToldAt(l)'
      BY <2>3, <2>4, <2>10, <3>1 DEF DropKeys, At, ToldAt, InRoom, Allowed, Here
    <3>6. ClientsAt(row[host])' /\ ToldAt(row[host])'
      BY <2>5, <3>3, <3>5 DEF ClientsAt, ToldAt
    <3>7. \A t \in Tasks : UnderWay(task[t])' => Carries(task[t])'
      BY <2>5 DEF Reading, Carries
    <3>8. Agreed'
      BY <3>1, <3>2, <3>3, <3>4, <3>6, <3>7 DEF Agreed
    <3>9. QED
      BY <3>1, <3>8 DEF Alone, Healed
  <2>11. CASE FailPersist(k)
    BY <2>11 DEF FailPersist, Alone, Healed
  <2>12. QED
    BY <2>7, <2>8, <2>9, <2>10, <2>11 DEF ChangeStep
<1>5. QED
  BY <1>0, <1>2, <1>3, <1>4 DEF Values

-----------------------------------------------------------------------------
(* What the tasks do with levels *)

\* A task that reads a level during a change ends the trust in it; one that has not read
\* any leaves the levels alone.
LEMMA TaskLevelsAlone ==
  ASSUME LevelInv, NEW t \in Tasks, TaskStep(t), trust = "alone"
  PROVE  Alone' /\ Healed'
<1>0. LTypeOK /\ Alone
  BY DEF LevelInv
<1>1. PICK k \in Changes : /\ UnderWay(change[k]) /\ Gathers(change[k])
                           /\ \A j \in Changes : UnderWay(change[j]) => j = k
  BY <1>0 DEF Alone
<1>2. ~Reading /\ Changing
  BY <1>0, <1>1 DEF Alone, Changing
<1>3. Read = "no"
  BY <1>2 DEF Read
<1>4. CASE trust' = "no"
  BY <1>4 DEF Alone, Healed
<1>5. CASE trust' # "no"
  <2>1. Pull(t) \/ NoAnswer(t)
    BY <1>2, <1>3, <1>5 DEF TaskStep, ReadRow, Fill, Apply, Look, Send, At, Reading
  <2>2. /\ UNCHANGED <<client, row, change, told>>
        /\ trust' = "alone"
    BY <1>3, <1>5, <2>1 DEF Pull, NoAnswer
  <2>3. ASSUME NEW u \in Tasks, UnderWay(task[u])'
        PROVE  task'[u].step \notin {"write", "apply", "send"}
    <3>1. CASE u # t
      <4>1. task'[u] = task[u]
        BY <1>0, <2>1, <3>1 DEF Pull, NoAnswer, LTypeOK
      <4>2. QED
        BY <1>2, <2>3, <4>1 DEF Reading, UnderWay
    <3>2. CASE u = t /\ Pull(t)
      <4>1. redis[task[t].player] = None
        BY <1>3, <1>5, <3>2 DEF Pull
      <4>2. PICK j \in Task : /\ Becomes(t, j)
                             /\ \/ redis[j.player] = None /\ j.step = "django"
                                \/ /\ redis[j.player] # None /\ j.step = "apply"
                                   /\ j.got = redis[j.player]
        BY <1>0, <3>2, PullStep
      <4>3. j.step = "django" /\ task'[t] = j
        BY <1>0, <4>1, <4>2 DEF Becomes, LTypeOK
      <4>4. QED
        BY <3>2, <4>3
    <3>3. CASE u = t /\ NoAnswer(t)
      <4>1. UnderWay(task[t]) /\ task' = [task EXCEPT ![t] =
               IF task[t].mine THEN [task[t] EXCEPT !.step = "look"] ELSE Done]
        BY <3>3 DEF NoAnswer, At
      <4>2. CASE task' = [task EXCEPT ![t] = Done]
        BY <1>0, <2>3, <3>3, <4>2, TheMarkers DEF LTypeOK, UnderWay
      <4>3. ASSUME NEW j \in Task, Becomes(t, j), j.step = "look"
            PROVE  task'[u].step \notin {"write", "apply", "send"}
        BY <1>0, <3>3, <4>3 DEF Becomes, LTypeOK
      <4>4. QED
        BY <1>0, <4>1, <4>2, <4>3, GoesOn
    <3>4. QED
      BY <2>1, <3>1, <3>2, <3>3
  <2>4. ~Reading'
    BY <2>3 DEF Reading
  <2>5. UnderWay(change[k])' /\ \A j \in Changes : UnderWay(change[j])' => j = k
    BY <1>1, <2>2 DEF UnderWay
  <2>6. Gathers(change[k])'
    BY <1>1, <2>2 DEF Gathers, ClientsAt, ToldAt, InRoom, Allowed, Here
  <2>7. QED
    BY <2>2, <2>4, <2>5, <2>6 DEF Alone, Healed
<1>6. QED
  BY <1>4, <1>5

\* What a task does once all agree: what it reads, it finds as all have it, and what it
\* writes or tells is that.
LEMMA TaskCarries ==
  ASSUME LevelInv, NEW t \in Tasks, TaskStep(t), Agreed
  PROVE  task' = [task EXCEPT ![t] = Done] \/ \E j \in Task : Becomes(t, j) /\ Carries(j)
<1> DEFINE l == row[host]
<1>0. LTypeOK /\ UnderWay(task[t]) /\ task[t] \in Task /\ task[t].player \in Players
  BY TaskBecomes, TaskUnderWay DEF LevelInv
<1>1. /\ \A p \in Players : row[p] = l /\ redis[p] \in {None, l}
      /\ Carries(task[t]) /\ \A p \in Players : Here(p) => client[p].level \in {NoLevel, l}
  BY <1>0 DEF Agreed, ClientsAt
<1>2. CASE Pull(t)
  <2>1. PICK j \in Task : /\ Becomes(t, j)
                         /\ \/ redis[j.player] = None /\ j.step = "django"
                            \/ /\ redis[j.player] # None /\ j.step = "apply"
                               /\ j.got = redis[j.player]
    BY <1>0, <1>2, PullStep
  <2>2. Carries(j)
    BY <1>0, <1>1, <2>1 DEF Becomes, Carries
  <2>3. QED
    BY <2>1, <2>2
<1>3. CASE ReadRow(t)
  <2>1. PICK j \in Task : Becomes(t, j) /\ j.step = "write" /\ j.got = row[j.player]
    BY <1>0, <1>3, ReadRowStep
  <2>2. Carries(j)
    BY <1>0, <1>1, <2>1 DEF Becomes, Carries
  <2>3. QED
    BY <2>1, <2>2
<1>4. CASE Fill(t)
  <2>1. /\ task[t].got = l
        /\ task' = [task EXCEPT ![t] =
                      IF task[t].mine THEN [task[t] EXCEPT !.step = "apply"] ELSE Done]
    BY <1>1, <1>4 DEF Fill, At, Carries
  <2>2. ASSUME NEW j \in Task, Becomes(t, j), j.step = "apply", j.got = task[t].got
        PROVE  \E i \in Task : Becomes(t, i) /\ Carries(i)
    BY <2>1, <2>2 DEF Carries
  <2>3. QED
    BY <1>0, <2>1, <2>2, GoesOn
<1>5. CASE NoAnswer(t)
  <2>1. task' = [task EXCEPT ![t] =
                   IF task[t].mine THEN [task[t] EXCEPT !.step = "look"] ELSE Done]
    BY <1>5 DEF NoAnswer
  <2>2. ASSUME NEW j \in Task, Becomes(t, j), j.step = "look"
        PROVE  \E i \in Task : Becomes(t, i) /\ Carries(i)
    BY <2>2 DEF Carries
  <2>3. QED
    BY <1>0, <2>1, <2>2, GoesOn
<1>6. CASE Apply(t)
  <2>1. PICK j \in Task : Becomes(t, j) /\ j.step = "look"
    BY <1>0, <1>6, ApplyStep
  <2>2. QED
    BY <2>1 DEF Carries
<1>7. CASE Look(t)
  <2>1. PICK j \in Task : /\ Becomes(t, j) /\ j.step = "send"
                         /\ j.own = OwnLevel(task[t]) /\ j.other = OtherLevel(task[t])
    BY <1>0, <1>7, LookStep
  <2>2. OwnLevel(task[t]) \in {Off, NoLevel, l} /\ OtherLevel(task[t]) \in {Off, NoLevel, l}
    BY <1>0, <1>1, LevelsTold
  <2>3. QED
    BY <2>1, <2>2 DEF Carries
<1>8. CASE Send(t)
  BY <1>8 DEF Send
<1>9. QED
  BY <1>2, <1>3, <1>4, <1>5, <1>6, <1>7, <1>8 DEF TaskStep

LEMMA TaskAgrees ==
  ASSUME LevelInv, NEW t \in Tasks, TaskStep(t), trust = "yes"
  PROVE  trust' = "yes" /\ Agreed'
<1>0. LTypeOK /\ Values /\ Agreed
  BY LTypeParts DEF LevelInv, Healed
<1>1. UnderWay(task[t]) /\ task[t].player \in Players /\ Carries(task[t])
  BY <1>0, TaskBecomes, TaskUnderWay DEF Agreed
<1>2. UNCHANGED <<row, change>> /\ trust' = "yes"
  BY <1>0 DEF TaskStep, Pull, ReadRow, Fill, NoAnswer, Apply, Look, Send, Read, Agreed
<1>3. PICK l : l = row[host]
  OBVIOUS
<1>4. \A p \in Players : redis'[p] \in {None, l}
  BY <1>0, <1>1, <1>3 DEF TaskStep, Pull, ReadRow, Fill, NoAnswer, Apply, Look, Send, At, Carries,
     Agreed, Values
<1>5. \A u \in Tasks : UnderWay(task[u])' => Carries(task[u])'
  <2> SUFFICES ASSUME NEW u \in Tasks, UnderWay(task[u])'
               PROVE  Carries(task[u])'
    OBVIOUS
  <2>1. CASE u # t
    <3>1. task'[u] = task[u]
      <4>1. CASE task' = [task EXCEPT ![t] = Done]
        BY <1>0, <2>1, <4>1 DEF Values
      <4>2. ASSUME NEW j \in Task, Becomes(t, j)
            PROVE  task'[u] = task[u]
        BY <1>0, <2>1, <4>2 DEF Becomes, Values
      <4>3. QED
        BY <1>0, <4>1, <4>2, TaskBecomes
    <3>2. QED
      BY <1>0, <1>2, <3>1 DEF Agreed, UnderWay, Carries
  <2>2. CASE u = t
    <3>1. CASE task' = [task EXCEPT ![t] = Done]
      BY <1>0, <2>2, <3>1, TheMarkers DEF UnderWay, Values
    <3>2. ASSUME NEW j \in Task, Becomes(t, j), Carries(j)
          PROVE  Carries(task[u])'
      BY <1>0, <1>2, <2>2, <3>2 DEF Becomes, Carries, Values
    <3>3. QED
      BY <1>0, <3>1, <3>2, TaskCarries
  <2>3. QED
    BY <2>1, <2>2
<1>6. ClientsAt(l)' /\ ToldAt(l)'
  <2>0. ClientsAt(l) /\ ToldAt(l)
    BY <1>0, <1>3 DEF Agreed
  <2>1. CASE Apply(t)
    <3> DEFINE p == task[t].player
    <3>1. task[t].got = l /\ Here(p)
      BY <1>0, <1>1, <1>3, <2>1 DEF Apply, At, Carries, LTypeOK
    <3>2. client[p] \in Client
      BY <1>0, <1>1, <3>1, ClientHere
    <3>3. /\ client'[p].level = l /\ client'[p].bound /\ client'[p].on = client[p].on
          /\ client'[p] # Off
          /\ told'[p] = IF client[p].bound THEN told[p] ELSE NoLevel
          /\ \A q \in Players : q # p => client'[q] = client[q] /\ told'[q] = told[q]
      <4>1. [client[p] EXCEPT !.level = l, !.bound = TRUE] \in [level : {l}, on : BOOLEAN, bound : {TRUE}]
            /\ [client[p] EXCEPT !.level = l, !.bound = TRUE].on = client[p].on
        BY <3>2 DEF Client
      <4>2. client' = [client EXCEPT ![p] = [client[p] EXCEPT !.level = l, !.bound = TRUE]]
        BY <1>0, <1>1, <2>1, <3>1 DEF Apply, Values
      <4>3. told' = IF client[p].bound THEN told ELSE [told EXCEPT ![p] = NoLevel]
        BY <2>1 DEF Apply
      <4>4. client'[p] # Off
        BY <1>0, <1>1, <2>1, <3>1, ClientsStay DEF Here
      <4> HIDE DEF p
      <4>5. QED
        BY <1>0, <1>1, <4>1, <4>2, <4>3, <4>4 DEF Values, p
    <3> HIDE DEF p
    <3>4. QED
      BY <2>0, <3>1, <3>3 DEF ClientsAt, ToldAt, InRoom, Allowed, Here
  <2>2. CASE Send(t)
    <3>1. {task[t].own, task[t].other} \subseteq {Off, NoLevel, l}
      BY <1>1, <1>3, <2>2 DEF Send, At, Carries
    <3>2. \A r \in Players : told'[r] \in {told[r]} \cup ({task[t].own, task[t].other} \ {Off})
      BY <1>1, <2>2, TwoPlayers DEF Send
    <3>3. client' = client
      BY <2>2 DEF Send
    <3>4. QED
      BY <2>0, <3>1, <3>2, <3>3 DEF ClientsAt, ToldAt, InRoom, Allowed, Here
  <2>3. CASE ~Apply(t) /\ ~Send(t)
    <3>1. client' = client /\ told' = told
      BY <2>3 DEF TaskStep, Pull, ReadRow, Fill, NoAnswer, Look
    <3>2. QED
      BY <2>0, <3>1 DEF ClientsAt, ToldAt, InRoom, Allowed, Here
  <2>4. QED
    BY <2>1, <2>2, <2>3
<1>7. ClientsAt(row[host])' /\ ToldAt(row[host])'
  BY <1>2, <1>3, <1>6 DEF ClientsAt, ToldAt
<1>8. ~Changing'
  BY <1>0, <1>2 DEF Agreed, Changing, UnderWay
<1>9. QED
  BY <1>0, <1>2, <1>3, <1>4, <1>5, <1>7, <1>8 DEF Agreed

-----------------------------------------------------------------------------
LEMMA LevelNext == LevelInv /\ [LNext]_levelVars => LevelInv'
<1> SUFFICES ASSUME LevelInv, [LNext]_levelVars PROVE LevelInv'
  OBVIOUS
<1>1. LTypeOK' /\ Writing'
  BY LevelTypeNext DEF LevelInv
<1>2. Alone' /\ Healed'
  <2>1. CASE UNCHANGED levelVars
    BY <2>1 DEF levelVars, LevelInv, Alone, Healed, Agreed, Gathers, ClientsAt, ToldAt, InRoom,
       Allowed, Here, Changing, Reading, UnderWay, Carries
  <2>2. ASSUME NEW p \in Players, PlayerStep(p)
        PROVE  Alone' /\ Healed'
    BY <2>2, PlayerLevels
  <2>3. ASSUME NEW k \in Changes, NEW p \in Players, NEW l \in Levels, RequestLevelChange(k, p, l)
        PROVE  Alone' /\ Healed'
    BY <2>3, RequestLevels
  <2>4. ASSUME NEW k \in Changes, ChangeStep(k)
        PROVE  Alone' /\ Healed'
    BY <2>4, ChangeLevels
  <2>5. ASSUME NEW t \in Tasks, TaskStep(t)
        PROVE  Alone' /\ Healed'
    <3>1. CASE trust = "alone"
      BY <2>5, <3>1, TaskLevelsAlone
    <3>2. CASE trust = "yes"
      BY <2>5, <3>2, TaskAgrees DEF Alone, Healed
    <3>3. CASE trust = "no"
      BY <2>5, <3>3 DEF TaskStep, Pull, ReadRow, Fill, NoAnswer, Apply, Look, Send, Read, Alone,
         Healed
    <3>4. QED
      BY <3>1, <3>2, <3>3 DEF LevelInv, LTypeOK
  <2>6. QED
    BY <2>1, <2>2, <2>3, <2>4, <2>5 DEF LNext, PlayerStep, ChangeStep, TaskStep
<1>3. QED
  BY <1>1, <1>2 DEF LevelInv

LEMMA LevelInvariant == LSpec => []LevelInv
  BY LevelInit, LevelNext, PTL DEF LSpec

\* When all agree, the rows, the keys, the clients and what the players were told do.
LEMMA HealedHeals == LevelInv => ChangeAloneHeals
<1> SUFFICES ASSUME LevelInv, trust = "yes", NEW p \in Players
             PROVE  /\ row[p] = row[Other(p)]
                    /\ redis[p] \in {None, row[p]}
                    /\ Here(p) => client[p].level \in {NoLevel, row[p]}
                    /\ InRoom(p) => told[p] \in {NoLevel, row[p]}
  BY DEF ChangeAloneHeals
<1>1. Agreed
  BY DEF LevelInv, Healed
<1>2. QED
  BY <1>1, TwoPlayers DEF Agreed, ClientsAt, ToldAt

\* Every variable holds a value of its kind, a change or task that counts on its player's
\* client has one, and one that does not is at a step that needs none
\* (main.rs:1266-1383, 2193-2439).
THEOREM LevelsTyped == LSpec => []LTypeOK
  BY LevelInvariant, PTL DEF LevelInv

\* However far rows, keys, clients and front ends have come apart, one change that no other
\* crosses and no task reads through brings them together, and what connects after it keeps
\* to it (main.rs:1266-1383; users/views.py:1199-1307).
THEOREM OneChangeHeals == LSpec => []ChangeAloneHeals
  BY LevelInvariant, HealedHeals, PTL
=============================================================================
