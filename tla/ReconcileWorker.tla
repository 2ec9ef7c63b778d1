--------------------------- MODULE ReconcileWorker ---------------------------
(***************************************************************************)
(* The reconcile worker every controller owns (pkg/controller/util/         *)
(* worker.go) with its DelayingDeliverer.  A delivery travels through a     *)
(* bounded update channel, a heap with one entry per key, a bounded target  *)
(* channel and an unbounded work queue, moved on by three goroutines: the   *)
(* deliverer's loop, its handler and the worker.  The worker itself sends   *)
(* to the update channel when a reconciliation asks to be repeated.         *)
(*                                                                         *)
(* Delivery times are kept as the time that is left, Tick lets it pass.     *)
(* The queue holds pointers to items, so equal keys are not merged there.   *)
(***************************************************************************)
EXTENDS Naturals, Sequences, FiniteSets, SequencesExt, FiniteSetsExt

CONSTANTS
  Keys, NoKey,
  UpdateCapacity,    \* delayingDelivererUpdateChanCapacity
  TargetCapacity,    \* the capacity NewDelayingDeliverer gives the target channel
  RetryDelay, ClusterSyncDelay, SmallDelay, InitialBackoff, MaxBackoff,
  MaxInFlight        \* bound: deliveries under way when an event comes

Delays == 0 .. Max({RetryDelay, ClusterSyncDelay, SmallDelay, MaxBackoff})
NotAsked == 1 + Max(Delays)

ASSUME WorkerAssumption ==
  /\ NoKey \notin Keys /\ IsFiniteSet(Keys)
  /\ {UpdateCapacity, TargetCapacity, InitialBackoff} \subseteq Nat \ {0}
  /\ {RetryDelay, ClusterSyncDelay, SmallDelay, MaxBackoff, MaxInFlight} \subseteq Nat
  /\ InitialBackoff <= MaxBackoff

VARIABLES
  initial,   \* the objects of the informer's first list it has still to hand over
  gated,     \* whether Run waits for that list before it starts the worker
  started,   \* worker.Run was called
  update,    \* updateChannel
  heap,      \* delivererHeap: the time left for each key that is scheduled
  target,    \* targetChannel
  queue,     \* the work queue
  loop,      \* where DelayingDeliverer.run is
  handler,   \* the goroutine of StartWithHandler is running
  work,      \* what the worker does, and to which key
  backoff,   \* the backoff manager: 0 for a key without an entry
  stopped,   \* the queue is shut down and the deliverer told to stop
  asked      \* history: the earliest delivery asked for since the key's last reconciliation

vars == <<initial, gated, started, update, heap, target, queue, loop, handler,
          work, backoff, stopped, asked>>

Item == [key : Keys, due : Delays]
Idle == [phase |-> "idle", key |-> NoKey, due |-> 0]
Quit == [phase |-> "quit", key |-> NoKey, due |-> 0]

TypeOK ==
  /\ initial \subseteq Keys
  /\ gated \in BOOLEAN /\ started \in BOOLEAN /\ handler \in BOOLEAN /\ stopped \in BOOLEAN
  /\ update \in Seq(Item) /\ Len(update) <= UpdateCapacity
  /\ target \in Seq(Keys) /\ Len(target) <= TargetCapacity
  /\ queue \in Seq(Keys)
  /\ DOMAIN heap \subseteq Keys /\ \A k \in DOMAIN heap : heap[k] \in Delays
  /\ loop \in {"deliver", "select", "ended"}
  /\ work \in {Idle, Quit} \cup [phase : {"reconcile", "send"}, key : Keys, due : Delays]
  /\ backoff \in [Keys -> 0 .. MaxBackoff]
  /\ asked \in [Keys -> Delays \cup {NotAsked}]

\* NewReconcileWorker and the informer that the controller starts first, with whatever
\* objects there are.
Init ==
  /\ initial \in SUBSET Keys
  /\ gated \in BOOLEAN
  /\ started = FALSE
  /\ update = <<>> /\ heap = <<>> /\ target = <<>> /\ queue = <<>>
  /\ loop = "deliver" /\ handler = TRUE
  /\ work = Idle
  /\ backoff = [k \in Keys |-> 0]
  /\ stopped = FALSE
  /\ asked = [k \in Keys |-> NotAsked]
-----------------------------------------------------------------------------
(* Asking for a reconciliation                                             *)

Earliest(a, b) == IF a < b THEN a ELSE b

\* The sender blocks while the update channel is full.
DeliverAt(k, d) ==
  /\ Len(update) < UpdateCapacity
  /\ update' = Append(update, [key |-> k, due |-> d])

Ask(k, d) == asked' = IF stopped THEN asked ELSE [asked EXCEPT ![k] = Earliest(@, d)]

\* An entry that has expired counts as none.
BackoffNext(b) ==
  {InitialBackoff} \cup (IF b = 0 THEN {} ELSE {Earliest(2 * b, MaxBackoff)})

\* deliver for an event: there was no failure, so the backoff is reset.
deliver(k, d) ==
  /\ backoff' = [backoff EXCEPT ![k] = 0]
  /\ DeliverAt(k, d)
  /\ Ask(k, d)

\* The informer hands over the objects of its first list, one after the other.
InformerAdds(k) ==
  /\ k \in initial
  /\ initial' = initial \ {k}
  /\ deliver(k, 0)
  /\ UNCHANGED <<gated, started, heap, target, queue, loop, handler, work, stopped>>

InFlight == Len(update) + Cardinality(DOMAIN heap) + Len(target) + Len(queue)
              + (IF work = Idle THEN 0 ELSE 1)

\* An event of an informer of the host or of a member cluster, or a change of the
\* clusters.  A controller that waits has one informer: its list comes first.
Event(k, d) ==
  /\ ~stopped
  /\ gated => initial = {}
  /\ InFlight < MaxInFlight
  /\ deliver(k, d)
  /\ UNCHANGED <<initial, gated, started, heap, target, queue, loop, handler, work, stopped>>
Enqueue(k) == Event(k, 0)
EnqueueForRetry(k) == Event(k, RetryDelay)
EnqueueWithDelay(k) == Event(k, SmallDelay)

\* Run of a controller: most start the worker at once, the FederatedTypeConfig
\* controller and the scheduling manager wait for their informer's first list.
Run ==
  /\ ~started
  /\ ~stopped
  /\ gated => initial = {}
  /\ started' = TRUE
  /\ UNCHANGED <<initial, gated, update, heap, target, queue, loop, handler,
                 work, backoff, stopped, asked>>
-----------------------------------------------------------------------------
(* DelayingDeliverer                                                       *)

Due == {k \in DOMAIN heap : heap[k] = 0}

\* deliver(timestamp): one due item goes to the target channel, if there is room.
Pop(k) ==
  /\ started /\ loop = "deliver"
  /\ k \in Due
  /\ Len(target) < TargetCapacity
  /\ heap' = [j \in DOMAIN heap \ {k} |-> heap[j]]
  /\ target' = Append(target, k)
  /\ UNCHANGED <<initial, gated, started, update, queue, loop, handler, work,
                 backoff, stopped, asked>>

DeliverEnds ==
  /\ started /\ loop = "deliver"
  /\ Due = {}
  /\ loop' = "select"
  /\ UNCHANGED <<initial, gated, started, update, heap, target, queue, handler,
                 work, backoff, stopped, asked>>

\* mutant: a later delivery replaces the one that is scheduled
ScheduledLatest(h, i) == [k \in DOMAIN h \cup {i.key} |-> IF k = i.key THEN i.due ELSE h[k]]
\* The heap with an item of the update channel: the earlier delivery of its key stays.
Scheduled(h, i) ==
  [k \in DOMAIN h \cup {i.key} |->
     IF k # i.key THEN h[k] ELSE IF k \in DOMAIN h THEN Earliest(h[k], i.due) ELSE i.due]

\* mutant: a delivery of the key that is being reconciled is ignored
TakeUpdateIgnoring ==
  /\ started /\ loop = "select"
  /\ update # <<>>
  /\ heap' = IF Head(update).key = work.key THEN heap ELSE Scheduled(heap, Head(update))
  /\ update' = Tail(update)
  /\ loop' = "deliver"
  /\ UNCHANGED <<initial, gated, started, target, queue, handler, work, backoff,
                 stopped, asked>>
TakeUpdate ==
  /\ started /\ loop = "select"
  /\ update # <<>>
  /\ heap' = Scheduled(heap, Head(update))
  /\ update' = Tail(update)
  /\ loop' = "deliver"
  /\ UNCHANGED <<initial, gated, started, target, queue, handler, work, backoff,
                 stopped, asked>>

\* The timer was set to the delivery time of the first item.
WakeUp ==
  /\ started /\ loop = "select"
  /\ Due # {}
  /\ loop' = "deliver"
  /\ UNCHANGED <<initial, gated, started, update, heap, target, queue, handler,
                 work, backoff, stopped, asked>>

\* The handler of Run adds the item to the queue, which ignores it when it is shut down.
Handle ==
  /\ started /\ handler
  /\ target # <<>>
  /\ target' = Tail(target)
  /\ queue' = IF stopped THEN queue ELSE Append(queue, Head(target))
  /\ UNCHANGED <<initial, gated, started, update, heap, loop, handler, work,
                 backoff, stopped, asked>>
-----------------------------------------------------------------------------
(* worker                                                                  *)

Get ==
  /\ started /\ work = Idle
  /\ queue # <<>>
  /\ queue' = Tail(queue)
  /\ work' = [phase |-> "reconcile", key |-> Head(queue), due |-> 0]
  /\ asked' = [asked EXCEPT ![Head(queue)] = NotAsked]
  /\ UNCHANGED <<initial, gated, started, update, heap, target, loop, handler,
                 backoff, stopped>>

ReconcileOK ==
  /\ work.phase = "reconcile"
  /\ work' = Idle
  /\ UNCHANGED <<initial, gated, started, update, heap, target, queue, loop,
                 handler, backoff, stopped, asked>>

Repeat(d) ==
  /\ work.phase = "reconcile"
  /\ work' = [work EXCEPT !.phase = "send", !.due = d]
  /\ Ask(work.key, d)
  /\ UNCHANGED <<initial, gated, started, update, heap, target, queue, loop,
                 handler, stopped>>

\* StatusError: EnqueueForError.
ReconcileError ==
  /\ work.phase = "reconcile"
  /\ \E b \in BackoffNext(backoff[work.key]) :
       /\ Repeat(b)
       /\ backoff' = [backoff EXCEPT ![work.key] = b]

\* StatusNeedsRecheck and StatusNotSynced: EnqueueForRetry, EnqueueForClusterSync.
ReconcileLater(d) ==
  /\ Repeat(d)
  /\ backoff' = [backoff EXCEPT ![work.key] = 0]
Recheck == ReconcileLater(RetryDelay)
NotSynced == ReconcileLater(ClusterSyncDelay)

\* mutant: a retry is given up when the update channel is full
SendOrDrop ==
  /\ work.phase = "send"
  /\ update' = IF Len(update) < UpdateCapacity
               THEN Append(update, [key |-> work.key, due |-> work.due]) ELSE update
  /\ work' = Idle
  /\ UNCHANGED <<initial, gated, started, heap, target, queue, loop, handler,
                 backoff, stopped, asked>>
\* The worker's own send, which blocks as any other.
Send ==
  /\ work.phase = "send"
  /\ DeliverAt(work.key, work.due)
  /\ work' = Idle
  /\ UNCHANGED <<initial, gated, started, heap, target, queue, loop, handler,
                 backoff, stopped, asked>>
-----------------------------------------------------------------------------
(* Time and the end                                                        *)

Sooner(d) == IF d = 0 THEN 0 ELSE d - 1

Tick ==
  /\ \/ \E i \in 1 .. Len(update) : update[i].due > 0
     \/ \E k \in DOMAIN heap : heap[k] > 0
     \/ work.due > 0
  /\ update' = [i \in 1 .. Len(update) |-> [update[i] EXCEPT !.due = Sooner(@)]]
  /\ heap' = [k \in DOMAIN heap |-> Sooner(heap[k])]
  /\ work' = [work EXCEPT !.due = Sooner(@)]
  /\ asked' = [k \in Keys |-> IF asked[k] = NotAsked THEN NotAsked ELSE Sooner(asked[k])]
  /\ UNCHANGED <<initial, gated, started, target, queue, loop, handler, backoff, stopped>>

\* The stop channel is closed: queue.ShutDown and deliverer.Stop.
Stop ==
  /\ started /\ ~stopped
  /\ stopped' = TRUE
  /\ asked' = [k \in Keys |-> NotAsked]
  /\ UNCHANGED <<initial, gated, started, update, heap, target, queue, loop,
                 handler, work, backoff>>

HandlerEnds ==
  /\ stopped /\ handler
  /\ handler' = FALSE
  /\ UNCHANGED <<initial, gated, started, update, heap, target, queue, loop,
                 work, backoff, stopped, asked>>

\* Only the select statement looks at the stop channel.
LoopEnds ==
  /\ stopped /\ loop = "select"
  /\ loop' = "ended"
  /\ UNCHANGED <<initial, gated, started, update, heap, target, queue, handler,
                 work, backoff, stopped, asked>>

\* Get reports the end once the queue is shut down and empty.
WorkerEnds ==
  /\ stopped /\ work = Idle
  /\ queue = <<>>
  /\ work' = Quit
  /\ UNCHANGED <<initial, gated, started, update, heap, target, queue, loop,
                 handler, backoff, stopped, asked>>
-----------------------------------------------------------------------------
Reconciled == ReconcileOK \/ ReconcileError \/ Recheck \/ NotSynced

Next ==
  \/ \E k \in Keys : InformerAdds(k) \/ Enqueue(k) \/ EnqueueForRetry(k) \/ EnqueueWithDelay(k)
  \/ Run
  \/ \E k \in Keys : Pop(k)
  \/ DeliverEnds
  \/ TakeUpdate
  \/ WakeUp
  \/ Handle
  \/ Get
  \/ ReconcileOK
  \/ ReconcileError
  \/ Recheck
  \/ NotSynced
  \/ Send
  \/ Tick
  \/ Stop
  \/ HandlerEnds
  \/ LoopEnds
  \/ WorkerEnds

Spec == Init /\ [][Next]_vars

\* The goroutines run, time passes, a reconciliation returns, a select that finds its
\* channel ready again and again takes it, and the senders that wait for a full channel
\* are served in their order.  Nothing makes an event happen, a reconciliation succeed
\* or the controller stop.
Fairness ==
  /\ SF_vars(\E k \in Keys : InformerAdds(k))
  /\ WF_vars(Run)
  /\ WF_vars((\E k \in Keys : Pop(k)) \/ DeliverEnds \/ WakeUp)
  /\ SF_vars(TakeUpdate)
  /\ WF_vars(Handle)
  /\ WF_vars(Get)
  /\ WF_vars(Reconciled)
  /\ SF_vars(Send)
  /\ WF_vars(Tick)
  /\ WF_vars(HandlerEnds) /\ WF_vars(LoopEnds) /\ WF_vars(WorkerEnds)

FairSpec == Spec /\ Fairness
-----------------------------------------------------------------------------
(* Properties                                                              *)

Underway(k, d) ==
  \/ \E i \in 1 .. Len(update) : update[i].key = k /\ update[i].due <= d
  \/ k \in DOMAIN heap /\ heap[k] <= d
  \/ k \in Range(target) \cup Range(queue)
  \/ work.phase = "send" /\ work.key = k /\ work.due <= d

\* A delivery that is asked for is under way and no later than the earliest ask
\* since the key's last reconciliation began: the heap may ignore a later
\* delivery of a scheduled key (delaying_deliverer.go:127) but an event is never
\* held back by the retry or the backoff of the same key.  No channel holds more
\* than it has room for (TypeOK).
NothingLate ==
  /\ TypeOK
  /\ ~stopped => \A k \in Keys : asked[k] # NotAsked => Underway(k, asked[k])

\* What is left of the first list finds room in the update channel.
FirstListFits == Cardinality(initial) + Len(update) <= UpdateCapacity

\* Every object of the first list is handed over and every reconciliation that is asked
\* for begins, unless the controller stops, with senders, deliverer and handler blocking
\* on full channels.  This takes a first list that fits the channel in a controller that
\* waits for it (federatedtypeconfig/controller.go:117, schedulingmanager/controller.go:126):
\* nothing empties the channel before Run, so with more objects than its 1000 places
\* (delaying_deliverer.go:27) the informer's handler blocks, WaitForCacheSync waits for the
\* handler and the worker is never started.  The others take a list of any length.
EventuallyReconciled ==
  \A k \in Keys :
    (k \in initial \/ asked[k] # NotAsked) /\ (gated => FirstListFits)
      ~> (k \notin initial /\ asked[k] = NotAsked) \/ stopped

\* The promise to the controller, with every delivery under way a pending key.
Promise == INSTANCE KeyQueue WITH
  pending <- {update[i].key : i \in 1 .. Len(update)} \cup DOMAIN heap \cup Range(target)
               \cup Range(queue) \cup (IF work.phase = "send" THEN {work.key} ELSE {}),
  running <- IF work.phase = "reconcile" THEN work.key ELSE NoKey,
  open <- ~stopped

\* The worker implements the abstract queue: one reconciliation at a time, of
\* keys that were asked for, none of which is lost before the worker stops.
KeepsPromise == Promise!Spec
=============================================================================
