------------------------ MODULE ReconcileWorkerProofs ------------------------
(***************************************************************************)
(* The reconcile worker delivers every key no later than it was asked for,  *)
(* and implements the queue that the controllers rely on, for channels of   *)
(* any capacity, delays of any length and any number of keys.               *)
(***************************************************************************)
EXTENDS ReconcileWorker, TLAPS

-----------------------------------------------------------------------------
(* Delays                                                                  *)

LEMMA DelaysBounded ==
  \E m \in Nat : /\ Delays = 0 .. m /\ NotAsked = 1 + m
                 /\ {RetryDelay, ClusterSyncDelay, SmallDelay, MaxBackoff} \subseteq 0 .. m
<1> DEFINE S == {RetryDelay, ClusterSyncDelay, SmallDelay, MaxBackoff}
<1>1. \E x \in S : \A y \in S : x >= y
  BY WorkerAssumption
<1>2. Max(S) \in S /\ \A y \in S : Max(S) >= y
  BY <1>1 DEF Max
<1>3. Max(S) \in Nat /\ S \subseteq 0 .. Max(S)
  BY <1>2, WorkerAssumption
<1>4. Max(0 .. Max(S)) = Max(S)
  <2> DEFINE m == Max(S)
  <2> HIDE DEF S
  <2>1. m \in 0 .. m /\ \A y \in 0 .. m : m >= y
    BY <1>3
  <2> HIDE DEF m
  <2>2. Max(0 .. m) \in 0 .. m /\ \A y \in 0 .. m : Max(0 .. m) >= y
    BY <2>1 DEF Max
  <2>3. m \in Nat
    BY <1>3 DEF m
  <2>4. Max(0 .. m) = m
    BY <2>1, <2>2, <2>3
  <2> QED
    BY <2>4 DEF m
<1> QED
  BY <1>3, <1>4 DEF Delays, NotAsked

LEMMA DelayFacts ==
  /\ Delays \subseteq Nat /\ NotAsked \in Nat /\ NotAsked \notin Delays
  /\ 0 \in Delays /\ {RetryDelay, ClusterSyncDelay, SmallDelay} \subseteq Delays
  /\ 0 .. MaxBackoff \subseteq Delays
  /\ \A d \in Delays : Sooner(d) \in Delays /\ d <= NotAsked
BY DelaysBounded, WorkerAssumption DEF Sooner

LEMMA EarliestFacts ==
  ASSUME NEW a \in Delays \cup {NotAsked}, NEW d \in Delays
  PROVE  /\ Earliest(a, d) \in Delays
         /\ Earliest(a, d) = d \/ (Earliest(a, d) = a /\ a # NotAsked)
         /\ Earliest(a, d) <= a /\ Earliest(a, d) <= d
BY DelaysBounded DEF Earliest

LEMMA SoonerKeepsOrder ==
  ASSUME NEW a \in Delays, NEW d \in Delays, a <= d
  PROVE  Sooner(a) <= Sooner(d)
BY DelayFacts DEF Sooner

-----------------------------------------------------------------------------
(* Channels and the queue                                                  *)

LEMMA Appended ==
  ASSUME NEW S, NEW s \in Seq(S), NEW e \in S
  PROVE  /\ Append(s, e) \in Seq(S) /\ Len(Append(s, e)) = Len(s) + 1
         /\ \A i \in 1 .. Len(s) : Append(s, e)[i] = s[i]
         /\ Append(s, e)[Len(s) + 1] = e
OBVIOUS

LEMMA Taken ==
  ASSUME NEW S, NEW s \in Seq(S), s # <<>>
  PROVE  /\ Head(s) \in S /\ Tail(s) \in Seq(S) /\ Len(s) >= 1 /\ Len(Tail(s)) = Len(s) - 1
         /\ Head(s) = s[1] /\ \A i \in 1 .. Len(s) - 1 : Tail(s)[i] = s[i + 1]
OBVIOUS

LEMMA RangeOf ==
  ASSUME NEW S, NEW s \in Seq(S)
  PROVE  Range(s) = {s[i] : i \in 1 .. Len(s)}
BY DEF Range

LEMMA RangeAppended ==
  ASSUME NEW S, NEW s \in Seq(S), NEW e \in S
  PROVE  Range(Append(s, e)) = Range(s) \cup {e}
<1>0. Append(s, e) \in Seq(S) /\ Len(Append(s, e)) = Len(s) + 1
  BY Appended
<1>1. Range(Append(s, e)) = {Append(s, e)[i] : i \in 1 .. Len(s) + 1}
  BY ONLY <1>0, RangeOf
<1>2. 1 .. Len(s) + 1 = (1 .. Len(s)) \cup {Len(s) + 1}
  OBVIOUS
<1> QED
  BY <1>1, <1>2, Appended, RangeOf

LEMMA RangeTaken ==
  ASSUME NEW S, NEW s \in Seq(S), s # <<>>
  PROVE  Range(s) = Range(Tail(s)) \cup {Head(s)}
<1>0. Tail(s) \in Seq(S) /\ Len(Tail(s)) = Len(s) - 1
  BY Taken
<1>1. Range(s) = {s[i] : i \in 1 .. Len(s)} /\ Range(Tail(s)) = {Tail(s)[i] : i \in 1 .. Len(s) - 1}
  BY <1>0, RangeOf
<1>2. \A i \in 1 .. Len(s) : i = 1 \/ (i - 1 \in 1 .. Len(s) - 1 /\ s[i] = Tail(s)[i - 1])
  BY Taken
<1>3. \A i \in 1 .. Len(s) - 1 : i + 1 \in 1 .. Len(s) /\ Tail(s)[i] = s[i + 1]
  BY Taken
<1>4. Head(s) = s[1] /\ 1 \in 1 .. Len(s)
  BY Taken
<1>5. \A x \in Range(s) : x \in Range(Tail(s)) \cup {Head(s)}
  BY <1>1, <1>2, <1>4
<1>6. \A x \in Range(Tail(s)) \cup {Head(s)} : x \in Range(s)
  BY <1>1, <1>3, <1>4
<1> QED
  BY <1>5, <1>6

\* What the update channel holds.
Coming(k, d) == \E i \in 1 .. Len(update) : update[i].key = k /\ update[i].due <= d
UpdateKeys == {update[i].key : i \in 1 .. Len(update)}

LEMMA DeliverAtStep ==
  ASSUME TypeOK, NEW k \in Keys, NEW d \in Delays, DeliverAt(k, d)
  PROVE  /\ update' \in Seq(Item) /\ Len(update') <= UpdateCapacity
         /\ \A j \in Keys, e \in Delays : Coming(j, e) => Coming(j, e)'
         /\ \A e \in Delays : d <= e => Coming(k, e)'
         /\ UpdateKeys' = UpdateKeys \cup {k}
<1> DEFINE x == [key |-> k, due |-> d]
<1>1. x \in Item /\ update \in Seq(Item) /\ update' = Append(update, x) /\ Len(update) < UpdateCapacity
  BY DEF TypeOK, DeliverAt, Item
<1>2. /\ update' \in Seq(Item) /\ Len(update') = Len(update) + 1
      /\ \A i \in 1 .. Len(update) : update'[i] = update[i]
      /\ update'[Len(update) + 1] = x
  BY ONLY <1>1, Appended
<1>3. Len(update) \in Nat
  BY <1>1
<1>4. 1 .. Len(update) + 1 = (1 .. Len(update)) \cup {Len(update) + 1}
  BY <1>3
<1>5. x.key = k /\ x.due = d
  OBVIOUS
<1>6. Len(update') <= UpdateCapacity
  BY <1>1, <1>2, <1>3, WorkerAssumption
<1> HIDE DEF x
<1>7. \A i \in 1 .. Len(update) : i \in 1 .. Len(update')
  BY <1>2, <1>4
<1>8. Len(update') \in 1 .. Len(update') /\ update'[Len(update')] = x
  BY <1>2, <1>3
<1>9. UpdateKeys' = UpdateKeys \cup {k}
  <2>1. UpdateKeys' = {update'[i].key : i \in (1 .. Len(update)) \cup {Len(update) + 1}}
    BY <1>2, <1>4 DEF UpdateKeys
  <2> QED
    BY <1>2, <1>5, <2>1 DEF UpdateKeys
<1> QED
  BY <1>2, <1>5, <1>6, <1>7, <1>8, <1>9 DEF Coming

LEMMA TakeStep ==
  ASSUME TypeOK, update # <<>>, update' = Tail(update)
  PROVE  /\ Head(update) \in Item
         /\ update' \in Seq(Item) /\ Len(update') <= UpdateCapacity
         /\ \A j \in Keys, e \in Delays :
              Coming(j, e) => Coming(j, e)' \/ (Head(update).key = j /\ Head(update).due <= e)
         /\ UpdateKeys = UpdateKeys' \cup {Head(update).key}
<1>1. update \in Seq(Item) /\ Len(update) <= UpdateCapacity /\ UpdateCapacity \in Nat
  BY WorkerAssumption DEF TypeOK
<1>2. /\ Head(update) \in Item /\ update' \in Seq(Item)
      /\ Len(update) >= 1 /\ Len(update') = Len(update) - 1
      /\ Head(update) = update[1] /\ \A i \in 1 .. Len(update) - 1 : update'[i] = update[i + 1]
  BY <1>1, Taken
<1>3. Len(update) \in Nat
  BY <1>1
<1>4. \A i \in 1 .. Len(update) :
        i = 1 \/ (i - 1 \in 1 .. Len(update') /\ update[i] = update'[i - 1])
  BY <1>2, <1>3
<1>5. \A i \in 1 .. Len(update') : i + 1 \in 1 .. Len(update) /\ update'[i] = update[i + 1]
  BY <1>2, <1>3
<1>6. \A j \in Keys, e \in Delays :
        Coming(j, e) => Coming(j, e)' \/ (Head(update).key = j /\ Head(update).due <= e)
  BY <1>2, <1>4 DEF Coming
<1>7. UpdateKeys \subseteq UpdateKeys' \cup {Head(update).key}
  <2> SUFFICES ASSUME NEW i \in 1 .. Len(update)
               PROVE  update[i].key \in UpdateKeys' \cup {Head(update).key}
    BY DEF UpdateKeys
  <2> QED
    BY <1>2, <1>4 DEF UpdateKeys
<1>8. 1 \in 1 .. Len(update)
  BY <1>2, <1>3
<1>9. UpdateKeys' \cup {Head(update).key} \subseteq UpdateKeys
  BY <1>2, <1>5, <1>8 DEF UpdateKeys
<1>10. Len(update') <= UpdateCapacity
  BY <1>1, <1>2, <1>3
<1> QED
  BY <1>2, <1>6, <1>7, <1>9, <1>10

LEMMA ScheduledFacts ==
  ASSUME TypeOK, NEW x \in Item
  PROVE  /\ DOMAIN Scheduled(heap, x) = DOMAIN heap \cup {x.key}
         /\ \A k \in DOMAIN Scheduled(heap, x) : Scheduled(heap, x)[k] \in Delays
         /\ \A k \in DOMAIN heap : Scheduled(heap, x)[k] <= heap[k]
         /\ Scheduled(heap, x)[x.key] <= x.due
<1>1. x.key \in Keys /\ x.due \in Delays
  BY DEF Item
<1>2. \A k \in DOMAIN heap : heap[k] \in Delays
  BY DEF TypeOK
<1>3. \A d \in Delays : d <= d
  BY DelayFacts
<1> QED
  BY <1>1, <1>2, <1>3, EarliestFacts DEF Scheduled

-----------------------------------------------------------------------------
(* Types                                                                   *)

Busy == [phase : {"reconcile", "send"}, key : Keys, due : Delays]

LEMMA BusyFacts ==
  ASSUME TypeOK
  PROVE  /\ work.phase \in {"reconcile", "send"} => work \in Busy /\ work.key \in Keys /\ work.due \in Delays
         /\ work.phase \notin {"reconcile", "send"} => work \in {Idle, Quit}
         /\ work.due \in Delays /\ Idle.phase = "idle" /\ Quit.phase = "quit"
BY DelayFacts DEF TypeOK, Busy, Idle, Quit

LEMMA AskTypes ==
  ASSUME TypeOK, NEW k \in Keys, NEW d \in Delays, Ask(k, d)
  PROVE  asked' \in [Keys -> Delays \cup {NotAsked}]
<1>1. asked[k] \in Delays \cup {NotAsked}
  BY DEF TypeOK
<1>2. Earliest(asked[k], d) \in Delays
  BY <1>1, EarliestFacts
<1> QED
  BY <1>2 DEF TypeOK, Ask

LEMMA BackoffTypes ==
  ASSUME NEW b \in 0 .. MaxBackoff, NEW n \in BackoffNext(b)
  PROVE  n \in 0 .. MaxBackoff /\ n \in Delays
<1>1. n \in 0 .. MaxBackoff
  BY WorkerAssumption DEF BackoffNext, Earliest
<1> QED
  BY <1>1, DelayFacts

LEMMA DeliverTypes ==
  ASSUME TypeOK, NEW k \in Keys, NEW d \in Delays, deliver(k, d),
         initial' \subseteq Keys,
         UNCHANGED <<gated, started, heap, target, queue, loop, handler, work, stopped>>
  PROVE  TypeOK'
<1>1. update' \in Seq(Item) /\ Len(update') <= UpdateCapacity
  BY DeliverAtStep DEF deliver
<1>2. asked' \in [Keys -> Delays \cup {NotAsked}]
  BY AskTypes DEF deliver
<1>3. backoff' \in [Keys -> 0 .. MaxBackoff]
  BY WorkerAssumption DEF TypeOK, deliver
<1> QED
  BY <1>1, <1>2, <1>3 DEF TypeOK

LEMMA RepeatTypes ==
  ASSUME TypeOK, NEW d \in Delays, Repeat(d), backoff' \in [Keys -> 0 .. MaxBackoff]
  PROVE  TypeOK'
<1>1. work \in Busy /\ work.key \in Keys /\ Ask(work.key, d)
  BY BusyFacts DEF Repeat
<1>2. asked' \in [Keys -> Delays \cup {NotAsked}]
  BY <1>1, AskTypes
<1>3. work' \in Busy
  BY <1>1 DEF Repeat, Busy
<1> QED
  BY <1>2, <1>3 DEF TypeOK, Repeat, Busy

LEMMA TypesInit == Init => TypeOK
<1>1. 0 \in 0 .. MaxBackoff /\ 0 <= UpdateCapacity /\ 0 <= TargetCapacity
  BY WorkerAssumption
<1>2. ASSUME NEW S PROVE <<>> \in Seq(S) /\ Len(<<>>) = 0 /\ DOMAIN <<>> = {}
  OBVIOUS
<1> QED
  BY <1>1, <1>2 DEF Init, TypeOK

LEMMA TypesStep ==
  ASSUME TypeOK, [Next]_vars
  PROVE  TypeOK'
<1>0. /\ \A d \in {0, RetryDelay, SmallDelay, ClusterSyncDelay} : d \in Delays
      /\ IsFiniteSet(Keys)
  BY DelayFacts, WorkerAssumption
<1>1. ASSUME NEW k \in Keys, InformerAdds(k) \/ Enqueue(k) \/ EnqueueForRetry(k) \/ EnqueueWithDelay(k)
      PROVE  TypeOK'
  <2>1. CASE InformerAdds(k)
    BY <1>0, <2>1, DeliverTypes DEF InformerAdds, TypeOK
  <2>2. ASSUME NEW d \in Delays, Event(k, d) PROVE TypeOK'
    BY <2>2, DeliverTypes DEF Event, TypeOK
  <2> QED
    BY <1>0, <1>1, <2>1, <2>2 DEF Enqueue, EnqueueForRetry, EnqueueWithDelay
<1>2. CASE Run
  BY <1>2 DEF Run, TypeOK
<1>3. ASSUME NEW k \in Keys, Pop(k)
      PROVE  TypeOK'
  <2>1. target' \in Seq(Keys) /\ Len(target') = Len(target) + 1 /\ Len(target) < TargetCapacity
    BY <1>3, Appended DEF Pop, TypeOK
  <2>2. Len(target') <= TargetCapacity
    BY <2>1, WorkerAssumption DEF TypeOK
  <2> QED
    BY <1>3, <2>1, <2>2 DEF Pop, TypeOK
<1>4. CASE DeliverEnds
  BY <1>4 DEF DeliverEnds, TypeOK
<1>5. CASE TakeUpdate
  <2>1. Head(update) \in Item /\ update' \in Seq(Item) /\ Len(update') <= UpdateCapacity
    BY <1>5, TakeStep DEF TakeUpdate
  <2>2. DOMAIN heap' \subseteq Keys /\ \A k \in DOMAIN heap' : heap'[k] \in Delays
    BY <1>5, <2>1, ScheduledFacts DEF TakeUpdate, Item, TypeOK
  <2> QED
    BY <1>5, <2>1, <2>2 DEF TakeUpdate, TypeOK
<1>6. CASE WakeUp
  BY <1>6 DEF WakeUp, TypeOK
<1>7. CASE Handle
  <2>1. Head(target) \in Keys /\ target' \in Seq(Keys) /\ Len(target') = Len(target) - 1
    BY <1>7, Taken DEF Handle, TypeOK
  <2>2. Len(target') <= TargetCapacity
    BY <2>1, WorkerAssumption DEF TypeOK
  <2>3. queue' \in Seq(Keys)
    BY <1>7, <2>1, Appended DEF Handle, TypeOK
  <2> QED
    BY <1>7, <2>1, <2>2, <2>3 DEF Handle, TypeOK
<1>8. CASE Get
  <2>1. Head(queue) \in Keys /\ queue' \in Seq(Keys)
    BY <1>8, Taken DEF Get, TypeOK
  <2>2. work' \in Busy
    BY <1>0, <1>8, <2>1 DEF Get, Busy
  <2> QED
    BY <1>8, <2>1, <2>2 DEF Get, TypeOK, Busy
<1>9. CASE ReconcileOK
  BY <1>9 DEF ReconcileOK, TypeOK
<1>10. CASE ReconcileError
  <2>1. PICK b \in BackoffNext(backoff[work.key]) :
          Repeat(b) /\ backoff' = [backoff EXCEPT ![work.key] = b]
    BY <1>10 DEF ReconcileError
  <2>2. work.key \in Keys
    BY <2>1, BusyFacts DEF Repeat
  <2>3. b \in 0 .. MaxBackoff /\ b \in Delays
    BY <2>2, BackoffTypes DEF TypeOK
  <2>4. backoff' \in [Keys -> 0 .. MaxBackoff]
    BY <2>1, <2>3 DEF TypeOK
  <2> QED
    BY <2>1, <2>3, <2>4, RepeatTypes
<1>11. ASSUME NEW d \in Delays, ReconcileLater(d)
       PROVE  TypeOK'
  <2>0. 0 \in 0 .. MaxBackoff
    BY WorkerAssumption
  <2>1. backoff' \in [Keys -> 0 .. MaxBackoff]
    BY <1>11, <2>0 DEF ReconcileLater, TypeOK
  <2> QED
    BY <1>11, <2>1, RepeatTypes DEF ReconcileLater
<1>12. CASE Send
  <2>1. work.key \in Keys /\ work.due \in Delays /\ DeliverAt(work.key, work.due)
    BY <1>12, BusyFacts DEF Send
  <2>2. update' \in Seq(Item) /\ Len(update') <= UpdateCapacity
    BY <2>1, DeliverAtStep
  <2> QED
    BY <1>12, <2>2 DEF Send, TypeOK
<1>13. CASE Tick
  <2>1. update' \in Seq(Item) /\ Len(update') = Len(update)
    <3>1. update \in Seq(Item)
      BY DEF TypeOK
    <3>2. \A i \in 1 .. Len(update) : update[i] \in Item
      BY <3>1
    <3>3. \A i \in 1 .. Len(update) : [update[i] EXCEPT !.due = Sooner(@)] \in Item
      BY <3>2, DelayFacts DEF Item
    <3> QED
      BY <1>13, <3>1, <3>3 DEF Tick
  <2>2. DOMAIN heap' = DOMAIN heap /\ \A k \in DOMAIN heap' : heap'[k] \in Delays
    BY <1>13, DelayFacts DEF Tick, TypeOK
  <2>3. work' \in {Idle, Quit} \cup Busy
    <3>1. work' = [work EXCEPT !.due = Sooner(@)] /\ Sooner(0) = 0
      BY <1>13 DEF Tick, Sooner
    <3>2. CASE work \in {Idle, Quit}
      BY <3>1, <3>2 DEF Idle, Quit
    <3>3. CASE work \in Busy
      BY <3>1, <3>3, DelayFacts DEF Busy
    <3> QED
      BY <3>2, <3>3 DEF TypeOK, Busy
  <2>4. asked' \in [Keys -> Delays \cup {NotAsked}]
    BY <1>13, DelayFacts DEF Tick, TypeOK
  <2>5. UNCHANGED <<initial, gated, started, target, queue, loop, handler, backoff, stopped>>
    BY <1>13 DEF Tick
  <2> QED
    BY <2>1, <2>2, <2>3, <2>4, <2>5 DEF TypeOK, Busy
<1>14. CASE Stop
  BY <1>14 DEF Stop, TypeOK
<1>15. CASE HandlerEnds \/ LoopEnds \/ WorkerEnds
  BY <1>15 DEF HandlerEnds, LoopEnds, WorkerEnds, TypeOK
<1>16. CASE UNCHANGED vars
  BY <1>16 DEF vars, TypeOK
<1> QED
  BY <1>0, <1>1, <1>2, <1>3, <1>4, <1>5, <1>6, <1>7, <1>8, <1>9, <1>10, <1>11, <1>12, <1>13, <1>14,
     <1>15, <1>16 DEF Next, Recheck, NotSynced

-----------------------------------------------------------------------------
(* Nothing is late                                                         *)

LEMMA UnderwayIs ==
  \A k, d : Underway(k, d) <=> \/ Coming(k, d)
                               \/ k \in DOMAIN heap /\ heap[k] <= d
                               \/ k \in Range(target) \cup Range(queue)
                               \/ work.phase = "send" /\ work.key = k /\ work.due <= d
BY DEF Underway, Coming

LEMMA UnderwayIsNext ==
  \A k, d : Underway(k, d)' <=> \/ Coming(k, d)'
                                \/ k \in DOMAIN heap' /\ heap'[k] <= d
                                \/ k \in Range(target') \cup Range(queue')
                                \/ work'.phase = "send" /\ work'.key = k /\ work'.due <= d
BY DEF Underway, Coming

\* A step that asks for nothing new keeps what is under way there.
LEMMA KeptInTime ==
  ASSUME NothingLate, TypeOK', UNCHANGED <<asked, stopped>>,
         \A k \in Keys, d \in Delays : Underway(k, d) => Underway(k, d)'
  PROVE  NothingLate'
<1>1. \A k \in Keys : asked[k] # NotAsked => asked[k] \in Delays
  BY DEF NothingLate, TypeOK
<1>2. ASSUME NEW k \in Keys, asked[k] # NotAsked, ~stopped
      PROVE  Underway(k, asked[k])'
  <2> DEFINE d == asked[k]
  <2>1. d \in Delays /\ Underway(k, d)
    BY <1>1, <1>2 DEF NothingLate
  <2>2. d' = d
    OBVIOUS
  <2> HIDE DEF d
  <2>3. Underway(k, d)'
    BY <2>1, <2>2, UnderwayIsNext
  <2> QED
    BY <2>3 DEF d
<1> QED
  BY <1>2 DEF NothingLate

\* A step that asks for a delivery puts it under way.
LEMMA AskedInTime ==
  ASSUME NothingLate, TypeOK', NEW k \in Keys, NEW d \in Delays, Ask(k, d), UNCHANGED stopped,
         \A j \in Keys, e \in Delays : Underway(j, e) => Underway(j, e)',
         Underway(k, d)'
  PROVE  NothingLate'
<1> SUFFICES ASSUME ~stopped, NEW j \in Keys, asked'[j] # NotAsked
             PROVE  Underway(j, asked[j])'
  BY DEF NothingLate
<1>1. asked \in [Keys -> Delays \cup {NotAsked}] /\ asked' = [asked EXCEPT ![k] = Earliest(asked[k], d)]
  BY DEF NothingLate, TypeOK, Ask
<1>2. ASSUME NEW e \in Delays, asked'[j] = e, Underway(j, e)'
      PROVE  Underway(j, asked[j])'
  BY <1>2, UnderwayIsNext
<1>3. asked[j] # NotAsked => asked[j] \in Delays /\ Underway(j, asked[j])
  BY <1>1 DEF NothingLate
<1>4. ASSUME NEW e \in Delays, e = asked[j], Underway(j, asked[j])
      PROVE  Underway(j, e)'
  BY <1>4
<1>5. CASE j # k
  BY <1>1, <1>2, <1>3, <1>4, <1>5
<1>6. CASE j = k
  <2>1. asked[k] \in Delays \cup {NotAsked} /\ asked'[k] = Earliest(asked[k], d)
    BY <1>1
  <2>2. asked'[k] = d \/ (asked'[k] = asked[k] /\ asked[k] # NotAsked)
    BY <2>1, EarliestFacts
  <2> QED
    BY <1>2, <1>3, <1>4, <1>6, <2>2
<1> QED
  BY <1>5, <1>6

LEMMA DeliverInTime ==
  ASSUME NothingLate, TypeOK', NEW k \in Keys, NEW d \in Delays, deliver(k, d),
         UNCHANGED <<heap, target, queue, work, stopped>>
  PROVE  NothingLate'
<1>1. /\ \A j \in Keys, e \in Delays : Coming(j, e) => Coming(j, e)'
      /\ \A e \in Delays : d <= e => Coming(k, e)'
  BY DeliverAtStep DEF NothingLate, deliver
<1>2. d <= d
  BY DelayFacts
<1>3. Underway(k, d)' /\ \A j \in Keys, e \in Delays : Underway(j, e) => Underway(j, e)'
  BY <1>1, <1>2, UnderwayIs, UnderwayIsNext
<1> QED
  BY <1>3, AskedInTime DEF deliver

LEMMA RepeatInTime ==
  ASSUME NothingLate, TypeOK', NEW d \in Delays, Repeat(d)
  PROVE  NothingLate'
<1>1. work.key \in Keys /\ work.phase = "reconcile" /\ work \in Busy
  BY BusyFacts DEF NothingLate, Repeat
<1>2. work'.phase = "send" /\ work'.key = work.key /\ work'.due = d
  BY <1>1 DEF Repeat, Busy
<1>3. Ask(work.key, d) /\ UNCHANGED <<update, heap, target, queue, stopped>>
  BY DEF Repeat
<1>4. d <= d
  BY DelayFacts
<1>5. \A j \in Keys, e \in Delays : Underway(j, e) => Underway(j, e)'
  BY <1>1, <1>3, UnderwayIs, UnderwayIsNext DEF Coming
<1>6. PICK k \in Keys : k = work.key
  BY <1>1
<1>7. Underway(k, d)'
  BY <1>2, <1>4, <1>6, UnderwayIsNext
<1> QED
  BY <1>3, <1>5, <1>6, <1>7, AskedInTime

LEMMA TickInTime ==
  ASSUME NothingLate, Tick
  PROVE  \A k \in Keys : ~stopped' /\ asked'[k] # NotAsked => Underway(k, asked[k])'
<1>1. TypeOK
  BY DEF NothingLate
<1>2. SUFFICES ASSUME NEW k \in Keys, ~stopped', asked'[k] # NotAsked
               PROVE  Underway(k, asked[k])'
  OBVIOUS
<1>3. PICK d \in Delays : asked[k] = d /\ asked[k] # NotAsked /\ asked'[k] = Sooner(d)
  BY <1>1, <1>2 DEF Tick, TypeOK
<1>4. PICK e \in Delays : e = Sooner(d) /\ asked'[k] = e
  BY <1>3, DelayFacts
<1>5. Underway(k, d)
  BY <1>2, <1>3 DEF NothingLate, Tick
<1>6. ASSUME Coming(k, d) PROVE Coming(k, e)'
  <2>1. PICK i \in 1 .. Len(update) : update[i].key = k /\ update[i].due <= d
    BY <1>6 DEF Coming
  <2>2. update \in Seq(Item) /\ Len(update) \in Nat
    BY <1>1 DEF TypeOK
  <2>3. update[i] \in Item
    BY <2>2
  <2>4. update[i].due \in Delays
    BY <2>3 DEF Item
  <2>5. update' = [j \in 1 .. Len(update) |-> [update[j] EXCEPT !.due = Sooner(@)]]
    BY DEF Tick
  <2>6. update'[i] = [update[i] EXCEPT !.due = Sooner(@)] /\ Len(update') = Len(update)
    BY <2>2, <2>5
  <2>7. update'[i].key = k /\ update'[i].due = Sooner(update[i].due)
    BY <2>1, <2>3, <2>6 DEF Item
  <2>8. Sooner(update[i].due) <= e
    BY <1>4, <2>1, <2>4, SoonerKeepsOrder
  <2> QED
    BY <2>6, <2>7, <2>8 DEF Coming
<1>7. ASSUME k \in DOMAIN heap, heap[k] <= d PROVE k \in DOMAIN heap' /\ heap'[k] <= e
  BY <1>1, <1>4, <1>7, SoonerKeepsOrder DEF Tick, TypeOK
<1>8. ASSUME work.phase = "send", work.key = k, work.due <= d
      PROVE  work'.phase = "send" /\ work'.key = k /\ work'.due <= e
  <2>1. work \in Busy /\ work.due \in Delays
    BY <1>1, <1>8, BusyFacts
  <2>2. work'.phase = "send" /\ work'.key = k /\ work'.due = Sooner(work.due)
    BY <1>8, <2>1 DEF Tick, Busy
  <2> QED
    BY <1>4, <1>8, <2>1, <2>2, SoonerKeepsOrder
<1>9. UNCHANGED <<target, queue>>
  BY DEF Tick
<1>10. Underway(k, e)'
  BY <1>5, <1>6, <1>7, <1>8, <1>9, UnderwayIs, UnderwayIsNext
<1> QED
  BY <1>4, <1>10, UnderwayIsNext

LEMMA NothingLateStep ==
  ASSUME NothingLate, [Next]_vars
  PROVE  NothingLate'
<1>0. TypeOK /\ TypeOK'
  BY TypesStep DEF NothingLate
<1>a. /\ \A d \in {0, RetryDelay, SmallDelay, ClusterSyncDelay} : d \in Delays
      /\ \A x, y, z \in Delays : x <= y /\ y <= z => x <= z
  BY DelayFacts
<1>1. ASSUME NEW k \in Keys, InformerAdds(k) \/ Enqueue(k) \/ EnqueueForRetry(k) \/ EnqueueWithDelay(k)
      PROVE  NothingLate'
  <2>1. PICK d \in Delays : deliver(k, d) /\ UNCHANGED <<heap, target, queue, work, stopped>>
    BY <1>1, <1>a DEF InformerAdds, Enqueue, EnqueueForRetry, EnqueueWithDelay, Event
  <2> QED
    BY <1>0, <2>1, DeliverInTime
<1>2. CASE \/ Run \/ DeliverEnds \/ WakeUp \/ HandlerEnds \/ LoopEnds \/ ReconcileOK \/ WorkerEnds
           \/ UNCHANGED vars
  <2>1. /\ UNCHANGED <<update, heap, target, queue, asked, stopped>>
        /\ work' = work \/ work.phase # "send"
    BY <1>2 DEF Run, DeliverEnds, WakeUp, HandlerEnds, LoopEnds, ReconcileOK, WorkerEnds, vars, Idle
  <2>2. \A k \in Keys, d \in Delays : Underway(k, d) => Underway(k, d)'
    BY <2>1, UnderwayIs, UnderwayIsNext DEF Coming
  <2> QED
    BY <1>0, <2>1, <2>2, KeptInTime
<1>3. ASSUME NEW k \in Keys, Pop(k)
      PROVE  NothingLate'
  <2>1. Range(target') = Range(target) \cup {k}
    BY <1>0, <1>3, RangeAppended DEF Pop, TypeOK
  <2>2. /\ UNCHANGED <<update, queue, work, asked, stopped>>
        /\ DOMAIN heap' = DOMAIN heap \ {k} /\ \A j \in DOMAIN heap' : heap'[j] = heap[j]
    BY <1>3 DEF Pop
  <2>3. \A j \in Keys, d \in Delays : Underway(j, d) => Underway(j, d)'
    BY <2>1, <2>2, UnderwayIs, UnderwayIsNext DEF Coming
  <2> QED
    BY <1>0, <2>2, <2>3, KeptInTime
<1>4. CASE TakeUpdate
  <2> DEFINE x == Head(update)
  <2>1. /\ x \in Item
        /\ \A j \in Keys, e \in Delays : Coming(j, e) => Coming(j, e)' \/ (x.key = j /\ x.due <= e)
    BY <1>0, <1>4, TakeStep DEF TakeUpdate
  <2>2. UNCHANGED <<target, queue, work, asked, stopped>> /\ heap' = Scheduled(heap, x)
    BY <1>4 DEF TakeUpdate
  <2> HIDE DEF x
  <2>3. /\ DOMAIN heap' = DOMAIN heap \cup {x.key}
        /\ \A k \in DOMAIN heap : heap'[k] <= heap[k]
        /\ heap'[x.key] <= x.due
    BY <1>0, <2>1, <2>2, ScheduledFacts
  <2>4. x.due \in Delays /\ \A k \in DOMAIN heap : heap[k] \in Delays
    BY <1>0, <2>1 DEF TypeOK, Item
  <2>5. \A k \in DOMAIN heap' : heap'[k] \in Delays
    BY <1>0 DEF TypeOK
  <2>6. \A k \in Keys, d \in Delays : Underway(k, d) => Underway(k, d)'
    <3> SUFFICES ASSUME NEW k \in Keys, NEW d \in Delays, Underway(k, d) PROVE Underway(k, d)'
      OBVIOUS
    <3>1. CASE Coming(k, d)
      BY <1>a, <2>1, <2>3, <2>4, <2>5, <3>1, UnderwayIsNext
    <3>2. CASE k \in DOMAIN heap /\ heap[k] <= d
      BY <1>a, <2>3, <2>4, <2>5, <3>2, UnderwayIsNext
    <3>3. CASE ~Coming(k, d) /\ ~(k \in DOMAIN heap /\ heap[k] <= d)
      BY <2>2, <3>3, UnderwayIs, UnderwayIsNext
    <3> QED
      BY <3>1, <3>2, <3>3
  <2> QED
    BY <1>0, <2>2, <2>6, KeptInTime
<1>5. CASE Handle
  <2>1. CASE stopped
    BY <1>0, <1>5, <2>1 DEF NothingLate, Handle
  <2>2. CASE ~stopped
    <3>1. target \in Seq(Keys) /\ target # <<>> /\ queue \in Seq(Keys) /\ Head(target) \in Keys
      BY <1>0, <1>5, Taken DEF Handle, TypeOK
    <3>2. Range(target) = Range(target') \cup {Head(target)}
          /\ Range(queue') = Range(queue) \cup {Head(target)}
      BY <1>5, <2>2, <3>1, RangeTaken, RangeAppended DEF Handle
    <3>3. UNCHANGED <<update, heap, work, asked, stopped>>
      BY <1>5 DEF Handle
    <3>4. \A k \in Keys, d \in Delays : Underway(k, d) => Underway(k, d)'
      BY <3>2, <3>3, UnderwayIs, UnderwayIsNext DEF Coming
    <3> QED
      BY <1>0, <3>3, <3>4, KeptInTime
  <2> QED
    BY <2>1, <2>2
<1>6. CASE Get
  <2>1. queue \in Seq(Keys) /\ queue # <<>> /\ Head(queue) \in Keys
    BY <1>0, <1>6, Taken DEF Get, TypeOK
  <2>2. Range(queue) = Range(queue') \cup {Head(queue)}
    BY <1>6, <2>1, RangeTaken DEF Get
  <2>3. /\ UNCHANGED <<update, heap, target, stopped>> /\ work = Idle
        /\ asked' = [asked EXCEPT ![Head(queue)] = NotAsked]
    BY <1>6 DEF Get
  <2>4. \A k \in Keys \ {Head(queue)}, d \in Delays : Underway(k, d) => Underway(k, d)'
    BY <2>2, <2>3, UnderwayIs, UnderwayIsNext DEF Coming, Idle
  <2>5. ASSUME NEW k \in Keys, ~stopped', asked'[k] # NotAsked
        PROVE  Underway(k, asked[k])'
    <3>1. k # Head(queue) /\ asked'[k] = asked[k]
      BY <1>0, <2>1, <2>3, <2>5 DEF TypeOK
    <3>2. PICK d \in Delays : asked[k] = d
      BY <1>0, <2>5, <3>1 DEF TypeOK
    <3>3. Underway(k, d)
      BY <2>3, <2>5, <3>1, <3>2 DEF NothingLate
    <3>4. Underway(k, d)'
      BY <2>4, <3>1, <3>3
    <3> QED
      BY <3>1, <3>2, <3>4, UnderwayIsNext
  <2> QED
    BY <1>0, <2>5 DEF NothingLate
<1>7. CASE ReconcileError
  <2>1. PICK b \in BackoffNext(backoff[work.key]) : Repeat(b)
    BY <1>7 DEF ReconcileError
  <2>2. work.key \in Keys
    BY <1>0, <2>1, BusyFacts DEF Repeat
  <2>3. b \in Delays
    BY <1>0, <2>2, BackoffTypes DEF TypeOK
  <2> QED
    BY <1>0, <2>1, <2>3, RepeatInTime
<1>8. CASE Recheck \/ NotSynced
  BY <1>0, <1>8, <1>a, RepeatInTime DEF Recheck, NotSynced, ReconcileLater
<1>9. CASE Send
  <2>1. work.key \in Keys /\ work.due \in Delays /\ DeliverAt(work.key, work.due)
    BY <1>0, <1>9, BusyFacts DEF Send
  <2>2. /\ \A j \in Keys, e \in Delays : Coming(j, e) => Coming(j, e)'
        /\ \A j \in Keys, e \in Delays : j = work.key /\ work.due <= e => Coming(j, e)'
    <3>1. PICK k \in Keys, d \in Delays : k = work.key /\ d = work.due
      BY <2>1
    <3> QED
      BY <1>0, <2>1, <3>1, DeliverAtStep
  <2>3. UNCHANGED <<heap, target, queue, asked, stopped>>
    BY <1>9 DEF Send
  <2>4. \A k \in Keys, d \in Delays : Underway(k, d) => Underway(k, d)'
    BY <2>2, <2>3, UnderwayIs, UnderwayIsNext
  <2> QED
    BY <1>0, <2>3, <2>4, KeptInTime
<1>10. CASE Tick
  BY <1>0, <1>10, TickInTime DEF NothingLate
<1>11. CASE Stop
  BY <1>0, <1>11 DEF Stop, NothingLate
<1> QED
  BY <1>1, <1>2, <1>3, <1>4, <1>5, <1>6, <1>7, <1>8, <1>9, <1>10, <1>11 DEF Next

\* A delivery that was asked for is under way and no later than the earliest ask since
\* the key's last reconciliation (worker.go, delaying_deliverer.go), and no channel holds
\* more than its capacity: for all keys, delays and capacities.
THEOREM DeliveredInTime == Spec => []NothingLate
<1>1. Init => NothingLate
  BY TypesInit DEF Init, NothingLate
<1>2. NothingLate /\ [Next]_vars => NothingLate'
  BY NothingLateStep
<1> QED
  BY <1>1, <1>2, PTL DEF Spec

-----------------------------------------------------------------------------
(* The refinement of KeyQueue                                              *)

\* What Promise puts for the variables of KeyQueue.
Pending == UpdateKeys \cup DOMAIN heap \cup Range(target) \cup Range(queue)
             \cup (IF work.phase = "send" THEN {work.key} ELSE {})
Reconciling == IF work.phase = "reconcile" THEN work.key ELSE NoKey

LEMMA PromiseAsk ==
  ASSUME NEW k \in Keys, Pending' = Pending \cup {k}, Reconciling' = Reconciling, stopped' = stopped
  PROVE  Promise!Next
BY DEF Pending, UpdateKeys, Reconciling, Promise!Next, Promise!Ask

LEMMA PromiseBegin ==
  ASSUME NEW k \in Keys, Reconciling = NoKey, k \in Pending, Reconciling' = k,
         Pending' \in {Pending, Pending \ {k}}, stopped' = stopped
  PROVE  Promise!Next
BY DEF Pending, UpdateKeys, Reconciling, Promise!Next, Promise!Begin

LEMMA PromiseEnd ==
  ASSUME Reconciling # NoKey, Reconciling' = NoKey,
         Pending' \in {Pending, Pending \cup {Reconciling}}, stopped' = stopped
  PROVE  Promise!Next
BY DEF Pending, UpdateKeys, Reconciling, Promise!Next, Promise!End

LEMMA PromiseClose ==
  ASSUME ~stopped, stopped' = TRUE, Pending' = Pending, Reconciling' = Reconciling
  PROVE  Promise!Next
BY DEF Pending, UpdateKeys, Reconciling, Promise!Next, Promise!Close

LEMMA PromiseDiscard ==
  ASSUME stopped, stopped' = stopped, Pending' \subseteq Pending, Reconciling' = Reconciling
  PROVE  Promise!Next
BY DEF Pending, UpdateKeys, Reconciling, Promise!Next, Promise!Discard

LEMMA PromiseStutter ==
  ASSUME stopped' = stopped, Pending' = Pending, Reconciling' = Reconciling
  PROVE  UNCHANGED Promise!queueVars
BY DEF Pending, UpdateKeys, Reconciling, Promise!queueVars

LEMMA PromiseInit == Init => Promise!Init
<1>1. <<>> \in Seq(Keys) /\ Len(<<>>) = 0 /\ DOMAIN <<>> = {}
  OBVIOUS
<1> QED
  BY <1>1 DEF Init, Promise!Init, Idle, Range

LEMMA RepeatEnds ==
  ASSUME TypeOK, NEW d, Repeat(d)
  PROVE  Promise!Next
<1>1. work \in Busy /\ work.key \in Keys /\ work.phase = "reconcile"
  BY BusyFacts DEF Repeat
<1>2. work'.phase = "send" /\ work'.key = work.key /\ UNCHANGED <<update, heap, target, queue, stopped>>
  BY <1>1 DEF Repeat, Busy
<1>3. Reconciling = work.key /\ Reconciling # NoKey /\ Reconciling' = NoKey
  BY <1>1, <1>2, WorkerAssumption DEF Reconciling
<1>4. Pending' = Pending \cup {work.key}
  BY <1>1, <1>2 DEF Pending, UpdateKeys
<1> QED
  BY <1>2, <1>3, <1>4, PromiseEnd

LEMMA PromiseStep ==
  ASSUME TypeOK, [Next]_vars
  PROVE  [Promise!Next]_(Promise!queueVars)
<1>a. \A d \in {0, RetryDelay, SmallDelay, ClusterSyncDelay} : d \in Delays
  BY DelayFacts
<1>1. ASSUME NEW k \in Keys, InformerAdds(k) \/ Enqueue(k) \/ EnqueueForRetry(k) \/ EnqueueWithDelay(k)
      PROVE  Promise!Next
  <2>1. PICK d \in Delays : DeliverAt(k, d) /\ UNCHANGED <<heap, target, queue, work, stopped>>
    BY <1>1, <1>a DEF InformerAdds, Enqueue, EnqueueForRetry, EnqueueWithDelay, Event, deliver
  <2>2. UpdateKeys' = UpdateKeys \cup {k}
    BY <2>1, DeliverAtStep
  <2>3. Pending' = Pending \cup {k} /\ Reconciling' = Reconciling
    BY <2>1, <2>2 DEF Pending, Reconciling
  <2> QED
    BY <2>1, <2>3, PromiseAsk
<1>2. CASE Run \/ DeliverEnds \/ WakeUp \/ HandlerEnds \/ LoopEnds \/ UNCHANGED vars
  <2>1. UNCHANGED <<update, heap, target, queue, work, stopped>>
    BY <1>2 DEF Run, DeliverEnds, WakeUp, HandlerEnds, LoopEnds, vars
  <2> QED
    BY <2>1, PromiseStutter DEF Pending, Reconciling, UpdateKeys
<1>3. ASSUME NEW k \in Keys, Pop(k)
      PROVE  UNCHANGED Promise!queueVars
  <2>1. Range(target') = Range(target) \cup {k}
    BY <1>3, RangeAppended DEF Pop, TypeOK
  <2>2. /\ UNCHANGED <<update, queue, work, stopped>>
        /\ k \in DOMAIN heap /\ DOMAIN heap' = DOMAIN heap \ {k}
    BY <1>3 DEF Pop, Due
  <2>3. Pending' = Pending /\ Reconciling' = Reconciling
    BY <2>1, <2>2 DEF Pending, Reconciling, UpdateKeys
  <2> QED
    BY <2>2, <2>3, PromiseStutter
<1>4. CASE TakeUpdate
  <2>1. Head(update) \in Item /\ UpdateKeys = UpdateKeys' \cup {Head(update).key}
    BY <1>4, TakeStep DEF TakeUpdate
  <2>2. UNCHANGED <<target, queue, work, stopped>> /\ DOMAIN heap' = DOMAIN heap \cup {Head(update).key}
    BY <1>4, <2>1, ScheduledFacts DEF TakeUpdate
  <2>3. Pending' = Pending /\ Reconciling' = Reconciling
    BY <2>1, <2>2 DEF Pending, Reconciling
  <2> QED
    BY <2>2, <2>3, PromiseStutter
<1>5. CASE Handle
  <2>1. target \in Seq(Keys) /\ target # <<>> /\ queue \in Seq(Keys) /\ Head(target) \in Keys
    BY <1>5, Taken DEF Handle, TypeOK
  <2>2. Range(target) = Range(target') \cup {Head(target)}
    BY <1>5, <2>1, RangeTaken DEF Handle
  <2>3. UNCHANGED <<update, heap, work, stopped>>
    BY <1>5 DEF Handle
  <2>4. CASE stopped
    <3>1. Pending' \subseteq Pending /\ Reconciling' = Reconciling
      BY <1>5, <2>2, <2>3, <2>4 DEF Handle, Pending, Reconciling, UpdateKeys
    <3> QED
      BY <2>3, <2>4, <3>1, PromiseDiscard
  <2>5. CASE ~stopped
    <3>1. Range(queue') = Range(queue) \cup {Head(target)}
      BY <1>5, <2>1, <2>5, RangeAppended DEF Handle
    <3>2. Pending' = Pending /\ Reconciling' = Reconciling
      BY <2>2, <2>3, <3>1 DEF Pending, Reconciling, UpdateKeys
    <3> QED
      BY <2>3, <3>2, PromiseStutter
  <2> QED
    BY <2>4, <2>5
<1>6. CASE Get
  <2>1. queue \in Seq(Keys) /\ queue # <<>> /\ Head(queue) \in Keys
    BY <1>6, Taken DEF Get, TypeOK
  <2>2. Range(queue) = Range(queue') \cup {Head(queue)}
    BY <1>6, <2>1, RangeTaken DEF Get
  <2>3. /\ UNCHANGED <<update, heap, target, stopped>> /\ work.phase = "idle"
        /\ work'.phase = "reconcile" /\ work'.key = Head(queue)
    BY <1>6 DEF Get, Idle
  <2>4. Pending' \in {Pending, Pending \ {Head(queue)}} /\ Head(queue) \in Pending
    BY <2>2, <2>3 DEF Pending, UpdateKeys
  <2>5. Reconciling = NoKey /\ Reconciling' = Head(queue)
    BY <2>3 DEF Reconciling
  <2> QED
    BY <2>1, <2>3, <2>4, <2>5, PromiseBegin
<1>7. CASE ReconcileOK
  <2>1. work.key \in Keys /\ work.phase = "reconcile" /\ work'.phase = "idle"
        /\ UNCHANGED <<update, heap, target, queue, stopped>>
    BY <1>7, BusyFacts DEF ReconcileOK, Idle
  <2>2. Reconciling # NoKey /\ Reconciling' = NoKey /\ Pending' = Pending
    BY <2>1, WorkerAssumption DEF Reconciling, Pending, UpdateKeys
  <2> QED
    BY <2>1, <2>2, PromiseEnd
<1>8. CASE ReconcileError \/ Recheck \/ NotSynced
  BY <1>8, RepeatEnds DEF ReconcileError, Recheck, NotSynced, ReconcileLater
<1>9. CASE Send
  <2>1. work.key \in Keys /\ work.due \in Delays /\ DeliverAt(work.key, work.due) /\ work.phase = "send"
    BY <1>9, BusyFacts DEF Send
  <2>2. UpdateKeys' = UpdateKeys \cup {work.key}
    BY <2>1, DeliverAtStep
  <2>3. UNCHANGED <<heap, target, queue, stopped>> /\ work'.phase = "idle"
    BY <1>9 DEF Send, Idle
  <2>4. Pending' = Pending /\ Reconciling' = Reconciling
    BY <2>1, <2>2, <2>3 DEF Pending, Reconciling
  <2> QED
    BY <2>3, <2>4, PromiseStutter
<1>10. CASE Tick
  <2>1. update \in Seq(Item) /\ Len(update) \in Nat
    BY DEF TypeOK
  <2>2. update' = [i \in 1 .. Len(update) |-> [update[i] EXCEPT !.due = Sooner(@)]]
    BY <1>10 DEF Tick
  <2>3. Len(update') = Len(update) /\ \A i \in 1 .. Len(update) : update'[i].key = update[i].key
    <3>1. \A i \in 1 .. Len(update) : update[i] \in Item
      BY <2>1
    <3>2. \A x \in Item : [x EXCEPT !.due = Sooner(@)].key = x.key
      BY DEF Item
    <3>3. Len(update') = Len(update)
      BY <2>1, <2>2
    <3>4. \A i \in 1 .. Len(update) : update'[i] = [update[i] EXCEPT !.due = Sooner(@)]
      BY <2>2
    <3> QED
      BY <3>1, <3>2, <3>3, <3>4
  <2>4. UpdateKeys' = UpdateKeys
    BY <2>3 DEF UpdateKeys
  <2>5. work'.phase = work.phase /\ work'.key = work.key
    BY <1>10 DEF Tick, TypeOK, Idle, Quit
  <2>6. DOMAIN heap' = DOMAIN heap /\ UNCHANGED <<target, queue, stopped>>
    BY <1>10 DEF Tick
  <2>7. Pending' = Pending /\ Reconciling' = Reconciling
    BY <2>4, <2>5, <2>6 DEF Pending, Reconciling
  <2> QED
    BY <2>6, <2>7, PromiseStutter
<1>11. CASE Stop
  <2>1. Pending' = Pending /\ Reconciling' = Reconciling
    BY <1>11 DEF Stop, Pending, Reconciling, UpdateKeys
  <2> QED
    BY <1>11, <2>1, PromiseClose DEF Stop
<1>12. CASE WorkerEnds
  <2>1. /\ UNCHANGED <<update, heap, target, queue, stopped>>
        /\ work.phase = "idle" /\ work'.phase = "quit"
    BY <1>12 DEF WorkerEnds, Idle, Quit
  <2>2. Pending' = Pending /\ Reconciling' = Reconciling
    BY <2>1 DEF Pending, Reconciling, UpdateKeys
  <2> QED
    BY <2>1, <2>2, PromiseStutter
<1> QED
  BY <1>1, <1>2, <1>3, <1>4, <1>5, <1>6, <1>7, <1>8, <1>9, <1>10, <1>11, <1>12 DEF Next

\* The worker with its channels, heap and timers implements the queue of keys that the
\* controllers are modelled with: one reconciliation at a time, of a key that was asked
\* for, and no key is lost before the worker stops.
THEOREM WorkerImplementsQueue == Spec => KeepsPromise
<1>1. Init => TypeOK
  BY TypesInit
<1>2. TypeOK /\ [Next]_vars => TypeOK'
  BY TypesStep
<1>3. Init => Promise!Init
  BY PromiseInit
<1>4. TypeOK /\ [Next]_vars => [Promise!Next]_(Promise!queueVars)
  BY PromiseStep
<1> QED
  BY <1>1, <1>2, <1>3, <1>4, PTL DEF Spec, KeepsPromise, Promise!Spec
==============================================================================
