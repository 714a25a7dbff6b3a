------------------------------ MODULE EventBus ------------------------------
(***************************************************************************)
(* The publish/subscribe bus of core/event_bus.py, one action per step that *)
(* another thread can observe.  Four kinds of thread run at once:           *)
(*                                                                         *)
(*   - publishers, which test _running WITHOUT the queue lock, then take    *)
(*     the lock and either enqueue or raise EventBusFullError;              *)
(*   - the one dispatch thread, which pops an entry under the queue lock,   *)
(*     snapshots the matching subscribers under the subscribers lock, and   *)
(*     then looks up and uses each executor with no lock at all;            *)
(*   - two pool workers per subscriber, which run the callbacks;            *)
(*   - the control thread, which calls start(), stop(), subscribe() and     *)
(*     unsubscribe().                                                       *)
(*                                                                         *)
(* An event is an identity with a priority; its age is not modelled, so an  *)
(* entry may turn out expired whenever it is popped.  A subscriber is one   *)
(* registration: a name is never registered twice.                          *)
(***************************************************************************)
EXTENDS Naturals, Sequences, FiniteSets

CONSTANTS
  Events,          \* the events that may be published, each at most once
  NoEvent,         \* the dispatch thread or a publisher holds no event
  Priority,        \* Priority[e]: EventPriority, 0 (CRITICAL) to 3 (LOW)
  Publishers,      \* the threads that call publish() or publish_many()
  Batches,         \* the lists of events given to publish_many()
  Subscribers,     \* the registrations
  NoSubscriber,    \* the dispatch thread holds no executor
  Wants,           \* Wants[s]: the events Subscriber.matches() accepts
  MaxQueueSize,    \* _max_queue_size
  Workers,         \* _SUBSCRIBER_WORKERS
  DlqMaxSize,      \* _DLQ_MAX_SIZE
  MaxStarts,       \* bound: how often start() may be called
  MayUnsubscribe,  \* whether unsubscribe() is called
  MayTimeOut       \* whether stop()'s join may run into its timeout

ASSUME BusAssumption ==
  /\ NoEvent \notin Events
  /\ NoSubscriber \notin Subscribers
  /\ Priority \in [Events -> 0..3]
  /\ Wants \in [Subscribers -> SUBSET Events]
  /\ MaxQueueSize \in Nat \ {0}
  /\ Workers \in Nat \ {0}
  /\ DlqMaxSize \in Nat \ {0}
  /\ MaxStarts \in Nat
  /\ MayUnsubscribe \in BOOLEAN
  /\ MayTimeOut \in BOOLEAN

\* A batch lists distinct events: every BusEvent gets its own uuid.
ASSUME BatchAssumption ==
  \A b \in Batches :
    /\ b \in Seq(Events)
    /\ \A i, j \in 1..Len(b) : b[i] = b[j] => i = j

VARIABLES
  life,            \* where the control thread is between start() and stop()
  starts,          \* how often start() was called (bounded by MaxStarts)
  fresh,           \* events nobody has tried to publish yet
  publishing,      \* publishing[p]: the event p holds past the _running test
  queue,           \* _queue, the heap, as the set of events on it
  seqOf,           \* seqOf[e]: the sequence number of e's entry, once it has one
  sequence,        \* _sequence
  totalPublished, totalProcessed, totalExpired, totalDropped,
  dpc,             \* where the dispatch thread is
  hand,            \* the event the dispatch thread has popped
  targets,         \* what is left of its snapshot of matching subscribers
  target,          \* the subscriber whose executor it has looked up
  registered,      \* _subscribers
  pools,           \* the keys of _subscriber_executors
  shut,            \* executors that have been shut down
  backlog,         \* backlog[s]: submitted to s's executor, not yet started
  active,          \* active[s]: callbacks of s in progress
  dlq,             \* _dlq
  (* what the properties remember *)
  finished,        \* finished[s]: events whose callback of s has ended
  owed,            \* <<s, e>>: s was in the snapshot when e was dispatched
  lost,            \* events in hand when the dispatch thread died
  pending          \* events accepted and not yet dispatched when stop() began

publishVars  == <<fresh, publishing, queue, seqOf, sequence, totalPublished, totalDropped>>
dispatchVars == <<dpc, hand, targets, target, totalProcessed, totalExpired, owed, lost>>
subVars      == <<registered, pools, shut>>
workVars     == <<backlog, active, dlq, finished>>
lifeVars     == <<life, starts, pending>>
vars == <<publishVars, dispatchVars, subVars, workVars, lifeVars>>

running == life = "running"

Alive == dpc \notin {"none", "exited", "dead"}

Init ==
  /\ life = "new" /\ starts = 0 /\ pending = {}
  /\ fresh = Events
  /\ publishing = [p \in Publishers |-> NoEvent]
  /\ queue = {} /\ seqOf = [e \in Events |-> 0] /\ sequence = 0
  /\ totalPublished = 0 /\ totalProcessed = 0 /\ totalExpired = 0 /\ totalDropped = 0
  /\ dpc = "none" /\ hand = NoEvent /\ targets = {} /\ target = NoSubscriber
  /\ owed = {} /\ lost = {}
  /\ registered = {} /\ pools = {} /\ shut = {}
  /\ backlog = [s \in Subscribers |-> <<>>]
  /\ active = [s \in Subscribers |-> {}]
  /\ finished = [s \in Subscribers |-> {}]
  /\ dlq = <<>>

-----------------------------------------------------------------------------
(* Publishers *)

\* publish() on a bus that is not running returns False.
PublishRefused(e) ==
  /\ ~running
  /\ e \in fresh
  /\ fresh' = fresh \ {e}
  /\ UNCHANGED <<publishing, queue, seqOf, sequence, totalPublished, totalDropped,
                 dispatchVars, subVars, workVars, lifeVars>>

\* publish() passes the unlocked _running test and goes on to the rate limiter
\* and the queue lock; anything may happen before it gets the lock.
PublishBegin(p, e) ==
  /\ running
  /\ publishing[p] = NoEvent
  /\ e \in fresh
  /\ fresh' = fresh \ {e}
  /\ publishing' = [publishing EXCEPT ![p] = e]
  /\ UNCHANGED <<queue, seqOf, sequence, totalPublished, totalDropped,
                 dispatchVars, subVars, workVars, lifeVars>>

\* Under the queue lock: no room, EventBusFullError.
PublishFull(p) ==
  /\ publishing[p] # NoEvent
  /\ Cardinality(queue) >= MaxQueueSize
  /\ totalDropped' = totalDropped + 1
  /\ publishing' = [publishing EXCEPT ![p] = NoEvent]
  /\ UNCHANGED <<fresh, queue, seqOf, sequence, totalPublished,
                 dispatchVars, subVars, workVars, lifeVars>>

\* Under the queue lock: push the entry; publish() returns True.
PublishEnqueue(p) ==
  /\ publishing[p] # NoEvent
  /\ Cardinality(queue) < MaxQueueSize
  /\ queue' = queue \cup {publishing[p]}
  /\ seqOf' = [seqOf EXCEPT ![publishing[p]] = sequence]
  /\ sequence' = sequence + 1
  /\ totalPublished' = totalPublished + 1
  /\ publishing' = [publishing EXCEPT ![p] = NoEvent]
  /\ UNCHANGED <<fresh, totalDropped, dispatchVars, subVars, workVars, lifeVars>>

\* How much of a batch fits.
Accepted(b) ==
  LET room == MaxQueueSize - Cardinality(queue)
  IN  IF Len(b) <= room THEN Len(b) ELSE room

\* The first n events of a batch.
First(b, n) == {b[i] : i \in 1..n}

\* Mutant: the whole batch is counted as published, also the part dropped.
PublishManyCountsAll(b) ==
  LET n == Accepted(b) IN
  /\ First(b, Len(b)) \subseteq fresh
  /\ fresh' = fresh \ First(b, Len(b))
  /\ queue' = queue \cup First(b, n)
  /\ seqOf' = [e \in Events |->
                 IF e \in First(b, n)
                 THEN sequence + (CHOOSE i \in 1..n : b[i] = e) - 1
                 ELSE seqOf[e]]
  /\ sequence' = sequence + n
  /\ totalPublished' = totalPublished + Len(b)
  /\ totalDropped' = totalDropped + (Len(b) - n)
  /\ UNCHANGED <<publishing, dispatchVars, subVars, workVars, lifeVars>>

\* publish_many() holds the queue lock for the whole batch, tests neither
\* _running nor the rate, and drops the tail that does not fit.
PublishMany(b) ==
  LET n == Accepted(b) IN
  /\ First(b, Len(b)) \subseteq fresh
  /\ fresh' = fresh \ First(b, Len(b))
  /\ queue' = queue \cup First(b, n)
  /\ seqOf' = [e \in Events |->
                 IF e \in First(b, n)
                 THEN sequence + (CHOOSE i \in 1..n : b[i] = e) - 1
                 ELSE seqOf[e]]
  /\ sequence' = sequence + n
  /\ totalPublished' = totalPublished + n
  /\ totalDropped' = totalDropped + (Len(b) - n)
  /\ UNCHANGED <<publishing, dispatchVars, subVars, workVars, lifeVars>>

-----------------------------------------------------------------------------
(* The dispatch thread *)

\* Mutant: entries of one priority are not told apart.
PrecedesIgnoresSequence(e, f) == Priority[e] <= Priority[f]

\* _QueueEntry's order: priority first, then sequence number.
Precedes(e, f) ==
  \/ Priority[e] < Priority[f]
  \/ Priority[e] = Priority[f] /\ seqOf[e] < seqOf[f]

\* heappop: the least entry of the heap.
IsFirst(e) == e \in queue /\ \A f \in queue \ {e} : Precedes(e, f)

\* Mutant: the entry is read but stays on the heap.
DequeuePeeks(e) ==
  /\ dpc = "loop"
  /\ IsFirst(e)
  /\ hand' = e
  /\ dpc' = "popped"
  /\ UNCHANGED <<queue, fresh, publishing, seqOf, sequence, totalPublished, totalDropped,
                 targets, target, totalProcessed, totalExpired, owed, lost,
                 subVars, workVars, lifeVars>>

Dequeue(e) ==
  /\ dpc = "loop"
  /\ IsFirst(e)
  /\ queue' = queue \ {e}
  /\ hand' = e
  /\ dpc' = "popped"
  /\ UNCHANGED <<fresh, publishing, seqOf, sequence, totalPublished, totalDropped,
                 targets, target, totalProcessed, totalExpired, owed, lost,
                 subVars, workVars, lifeVars>>

\* event.is_expired: counted and forgotten.
Expire ==
  /\ dpc = "popped"
  /\ dpc' = "loop"
  /\ hand' = NoEvent
  /\ totalExpired' = totalExpired + 1
  /\ UNCHANGED <<publishVars, targets, target, totalProcessed, owed, lost,
                 subVars, workVars, lifeVars>>

\* Under the subscribers lock: who gets this event.
Snapshot ==
  /\ dpc = "popped"
  /\ targets' = {s \in registered : hand \in Wants[s]}
  /\ owed' = owed \cup {<<s, hand>> : s \in targets'}
  /\ dpc' = "targets"
  /\ UNCHANGED <<publishVars, hand, target, totalProcessed, totalExpired, lost,
                 subVars, workVars, lifeVars>>

\* No lock: no executor under that name any more, skip the subscriber.
SkipTarget(s) ==
  /\ dpc = "targets"
  /\ s \in targets \ pools
  /\ targets' = targets \ {s}
  /\ UNCHANGED <<publishVars, dpc, hand, target, totalProcessed, totalExpired, owed, lost,
                 subVars, workVars, lifeVars>>

\* No lock: take the executor, and use it in a later step.
TakeExecutor(s) ==
  /\ dpc = "targets"
  /\ s \in targets \cap pools
  /\ targets' = targets \ {s}
  /\ target' = s
  /\ dpc' = "submit"
  /\ UNCHANGED <<publishVars, hand, totalProcessed, totalExpired, owed, lost,
                 subVars, workVars, lifeVars>>

Submit ==
  /\ dpc = "submit"
  /\ target \notin shut
  /\ backlog' = [backlog EXCEPT ![target] = Append(@, hand)]
  /\ target' = NoSubscriber
  /\ dpc' = "targets"
  /\ UNCHANGED <<publishVars, hand, targets, totalProcessed, totalExpired, owed, lost,
                 subVars, active, dlq, finished, lifeVars>>

\* submit() on an executor shut down in the meantime raises RuntimeError, which
\* nothing in _dispatch_loop catches: the thread ends with the event in hand.
SubmitRaises ==
  /\ dpc = "submit"
  /\ target \in shut
  /\ dpc' = "dead"
  /\ hand' = NoEvent
  /\ targets' = {}
  /\ target' = NoSubscriber
  /\ lost' = lost \cup {hand}
  /\ UNCHANGED <<publishVars, totalProcessed, totalExpired, owed,
                 subVars, workVars, lifeVars>>

\* Mutant: dispatch ends after the first matching subscriber.
FinishDispatchEarly ==
  /\ dpc = "targets"
  /\ targets' = {}
  /\ totalProcessed' = totalProcessed + 1
  /\ hand' = NoEvent
  /\ dpc' = "loop"
  /\ UNCHANGED <<publishVars, target, totalExpired, owed, lost,
                 subVars, workVars, lifeVars>>

FinishDispatch ==
  /\ dpc = "targets"
  /\ targets = {}
  /\ totalProcessed' = totalProcessed + 1
  /\ hand' = NoEvent
  /\ dpc' = "loop"
  /\ UNCHANGED <<publishVars, targets, target, totalExpired, owed, lost,
                 subVars, workVars, lifeVars>>

\* Mutant: the loop ends as soon as the bus is not running.
ExitLoopUndrained ==
  /\ dpc = "loop"
  /\ ~running
  /\ dpc' = "exited"
  /\ UNCHANGED <<publishVars, hand, targets, target, totalProcessed, totalExpired, owed, lost,
                 subVars, workVars, lifeVars>>

\* The loop condition fails: not running and nothing queued at this moment.
ExitLoop ==
  /\ dpc = "loop"
  /\ ~running
  /\ queue = {}
  /\ dpc' = "exited"
  /\ UNCHANGED <<publishVars, hand, targets, target, totalProcessed, totalExpired, owed, lost,
                 subVars, workVars, lifeVars>>

-----------------------------------------------------------------------------
(* Pool workers *)

StartCallback(s) ==
  /\ backlog[s] # <<>>
  /\ Cardinality(active[s]) < Workers
  /\ backlog' = [backlog EXCEPT ![s] = Tail(@)]
  /\ active' = [active EXCEPT ![s] = @ \cup {Head(backlog[s])}]
  /\ UNCHANGED <<publishVars, dispatchVars, subVars, dlq, finished, lifeVars>>

EndCallback(s, e) ==
  /\ e \in active[s]
  /\ active' = [active EXCEPT ![s] = @ \ {e}]
  /\ finished' = [finished EXCEPT ![s] = @ \cup {e}]

CallbackReturns(s, e) ==
  /\ EndCallback(s, e)
  /\ UNCHANGED <<publishVars, dispatchVars, subVars, backlog, dlq, lifeVars>>

\* deque(maxlen = DlqMaxSize): the oldest dead letter makes room.
AddToDlq(letter) ==
  LET full == Append(dlq, letter)
  IN  IF Len(full) > DlqMaxSize THEN Tail(full) ELSE full

CallbackRaises(s, e) ==
  /\ EndCallback(s, e)
  /\ dlq' = AddToDlq(<<e, s>>)
  /\ UNCHANGED <<publishVars, dispatchVars, subVars, backlog, lifeVars>>

\* clear_dead_letters()
ClearDeadLetters ==
  /\ dlq # <<>>
  /\ dlq' = <<>>
  /\ UNCHANGED <<publishVars, dispatchVars, subVars, backlog, active, finished, lifeVars>>

-----------------------------------------------------------------------------
(* The control thread *)

\* Not while stop() iterates over the executors.
Subscribe(s) ==
  /\ life # "pools"
  /\ s \notin registered \cup shut
  /\ registered' = registered \cup {s}
  /\ pools' = pools \cup {s}
  /\ UNCHANGED <<publishVars, dispatchVars, shut, workVars, lifeVars>>

\* shutdown(wait=False, cancel_futures=True): what has not started never will.
Unsubscribe(s) ==
  /\ MayUnsubscribe
  /\ life # "pools"
  /\ s \in registered
  /\ registered' = registered \ {s}
  /\ pools' = pools \ {s}
  /\ shut' = shut \cup (pools \cap {s})
  /\ backlog' = [backlog EXCEPT ![s] = IF s \in pools THEN <<>> ELSE @]
  /\ UNCHANGED <<publishVars, dispatchVars, active, dlq, finished, lifeVars>>

\* A bus whose old dispatch thread outlived stop() is not started again.
Start ==
  /\ life \in {"new", "stopped"}
  /\ ~Alive
  /\ starts < MaxStarts
  /\ starts' = starts + 1
  /\ life' = "running"
  /\ dpc' = "loop"
  /\ UNCHANGED <<publishVars, hand, targets, target, totalProcessed, totalExpired, owed, lost,
                 subVars, workVars, pending>>

StopBegin ==
  /\ running
  /\ life' = "joining"
  /\ pending' = queue \cup ({hand} \ {NoEvent})
  /\ UNCHANGED <<publishVars, dispatchVars, subVars, workVars, starts>>

StopJoin ==
  /\ life = "joining"
  /\ ~Alive \/ MayTimeOut
  /\ life' = "pools"
  /\ UNCHANGED <<publishVars, dispatchVars, subVars, workVars, starts, pending>>

Idle(s) == backlog[s] = <<>> /\ active[s] = {}

\* Mutant: cancel_futures=True.
StopPoolCancels(s) ==
  /\ life = "pools"
  /\ s \in pools \ shut
  /\ \A r \in pools \cap shut : Idle(r)
  /\ shut' = shut \cup {s}
  /\ backlog' = [backlog EXCEPT ![s] = <<>>]
  /\ UNCHANGED <<publishVars, dispatchVars, registered, pools, active, dlq, finished, lifeVars>>

\* shutdown(wait=True) on one executor after the other.
StopPool(s) ==
  /\ life = "pools"
  /\ s \in pools \ shut
  /\ \A r \in pools \cap shut : Idle(r)
  /\ shut' = shut \cup {s}
  /\ UNCHANGED <<publishVars, dispatchVars, registered, pools, workVars, lifeVars>>

\* The executors are forgotten; the subscribers are not.
StopReturn ==
  /\ life = "pools"
  /\ \A s \in pools : s \in shut /\ Idle(s)
  /\ life' = "stopped"
  /\ pools' = {}
  /\ UNCHANGED <<publishVars, dispatchVars, registered, shut, workVars, starts, pending>>

-----------------------------------------------------------------------------
Publish ==
  \/ \E e \in Events : PublishRefused(e)
  \/ \E p \in Publishers, e \in Events : PublishBegin(p, e)
  \/ \E p \in Publishers : PublishFull(p)
  \/ \E p \in Publishers : PublishEnqueue(p)
  \/ \E b \in Batches : PublishMany(b)

Dispatch ==
  \/ \E e \in Events : Dequeue(e)
  \/ Expire
  \/ Snapshot
  \/ \E s \in Subscribers : SkipTarget(s)
  \/ \E s \in Subscribers : TakeExecutor(s)
  \/ Submit
  \/ SubmitRaises
  \/ FinishDispatch
  \/ ExitLoop

Work(s) ==
  \/ StartCallback(s)
  \/ \E e \in Events : CallbackReturns(s, e)
  \/ \E e \in Events : CallbackRaises(s, e)

Control ==
  \/ \E s \in Subscribers : Subscribe(s)
  \/ \E s \in Subscribers : Unsubscribe(s)
  \/ Start
  \/ StopBegin
  \/ StopJoin
  \/ \E s \in Subscribers : StopPool(s)
  \/ StopReturn
  \/ ClearDeadLetters

Next == Publish \/ Dispatch \/ (\E s \in Subscribers : Work(s)) \/ Control

Spec == Init /\ [][Next]_vars

\* The dispatch thread and the workers are threads that keep being scheduled,
\* and a callback ends.  Nobody is obliged to publish, subscribe or stop.
Fairness ==
  /\ WF_vars(Dispatch)
  /\ \A s \in Subscribers : WF_vars(StartCallback(s))
  /\ \A s \in Subscribers, e \in Events : WF_vars(CallbackReturns(s, e) \/ CallbackRaises(s, e))

FairSpec == Spec /\ Fairness

-----------------------------------------------------------------------------
(* Properties *)

\* Every variable keeps its type (the queue and the subscriber registry of
\* EventBus.__init__, and the positions of the threads).
TypeOK ==
  /\ life \in {"new", "running", "joining", "pools", "stopped"}
  /\ starts \in 0..MaxStarts
  /\ fresh \subseteq Events
  /\ publishing \in [Publishers -> Events \cup {NoEvent}]
  /\ queue \subseteq Events
  /\ seqOf \in [Events -> Nat]
  /\ sequence \in Nat
  /\ totalPublished \in Nat /\ totalProcessed \in Nat
  /\ totalExpired \in Nat /\ totalDropped \in Nat
  /\ dpc \in {"none", "loop", "popped", "targets", "submit", "exited", "dead"}
  /\ hand \in Events \cup {NoEvent}
  /\ targets \subseteq Subscribers
  /\ target \in Subscribers \cup {NoSubscriber}
  /\ registered \subseteq Subscribers
  /\ pools \subseteq Subscribers
  /\ shut \subseteq Subscribers
  /\ backlog \in [Subscribers -> Seq(Events)]
  /\ active \in [Subscribers -> SUBSET Events]
  /\ finished \in [Subscribers -> SUBSET Events]
  /\ dlq \in Seq(Events \X Subscribers) /\ Len(dlq) <= DlqMaxSize
  /\ owed \subseteq Subscribers \X Events
  /\ lost \subseteq Events
  /\ pending \subseteq Events

\* Whether the dispatch thread has an event in its hand, as a number.
InHand == IF hand = NoEvent THEN 0 ELSE 1

\* The bus' counters account for every event it accepted: each one has been
\* processed or expired, or is queued, in the dispatch thread's hand, or was
\* there when the thread died.  Batches that only partly fit, expiry, a dying
\* dispatch thread and a stop in between must all keep the books straight.
Accounting ==
  totalPublished =
    totalProcessed + totalExpired + Cardinality(queue) + InHand + Cardinality(lost)

\* Back-pressure works: whatever publishers race each other, with single events
\* or batches, the queue never outgrows its configured size.
QueueBounded == Cardinality(queue) <= MaxQueueSize

\* Within one priority the bus is FIFO: when an event has left the queue, every
\* event of its priority that was accepted before it has left too.
PriorityFIFO ==
  \A e \in queue, f \in Events :
    Priority[e] = Priority[f] /\ seqOf[e] < seqOf[f] => f \in queue

\* What leaves the queue is at least as urgent as everything that stays.
HighestPriorityFirst ==
  [][\A e \in queue \ queue', f \in queue : Priority[e] <= Priority[f]]_vars

\* No subscriber gets an event twice: over what its pool has in its backlog, is
\* running and has finished, an event occurs at most once, even with stops,
\* timeouts and cancelled backlogs in between.
AtMostOnce ==
  \A s \in Subscribers :
    /\ \A i, j \in 1..Len(backlog[s]) : backlog[s][i] = backlog[s][j] => i = j
    /\ \A i \in 1..Len(backlog[s]) : backlog[s][i] \notin active[s] \cup finished[s]
    /\ active[s] \cap finished[s] = {}

\* The dispatch thread still has to submit e to s.
StillToSubmit(s, e) == hand = e /\ (s \in targets \/ target = s)

\* "Function or coroutine called with each matching BusEvent": every subscriber
\* in the snapshot taken for an event gets the event into its pool, whoever
\* else subscribes, fails or is slow, unless it was unsubscribed.
NothingSkipped ==
  \A s \in Subscribers, e \in Events : <<s, e>> \in owed =>
    \/ s \notin registered
    \/ StillToSubmit(s, e)
    \/ \E i \in 1..Len(backlog[s]) : backlog[s][i] = e
    \/ e \in active[s] \cup finished[s]

\* stop() is graceful: once it goes on from the join nothing that was accepted
\* before it began is waiting any more, and when it returns no callback of any
\* subscriber is queued or running.
GracefulStop ==
  /\ life \in {"pools", "stopped"} => pending \cap (queue \cup {hand}) = {}
  /\ life = "stopped" => \A s \in Subscribers : Idle(s)

\* What the bus shows of its state to publishers and subscribers.
Unoffered == fresh \cup {e \in Events : \E p \in Publishers : publishing[p] = e}
Earlier == {p \in queue \X queue : seqOf[p[1]] < seqOf[p[2]]}
Promise == INSTANCE Delivery WITH
  Capacity <- MaxQueueSize,
  open <- running, new <- Unoffered, waiting <- queue, before <- Earlier, current <- hand,
  inbox <- backlog, begun <- [s \in Subscribers |-> active[s] \cup finished[s]]

\* The bus keeps the promise of Delivery, over stops that time out, unsubscription, a
\* dying dispatch thread and restarts: what publish() and publish_many() accept is taken
\* in the order of _QueueEntry, they turn an event away only when the queue is full or
\* the bus stopped, and each executor begins with what it was submitted, once and in order.
KeepsPromise == Promise!Spec

\* Nothing is left to do for e.
Settled(e) ==
  /\ e \notin queue
  /\ hand # e
  /\ \A s \in Subscribers : <<s, e>> \in owed => e \in finished[s]

\* An event queued while the bus runs is eventually settled (expired, or run by
\* every subscriber it matches), also when stop() begins right after.
QueuedEventsSettle ==
  \A e \in Events : (running /\ e \in queue) ~> Settled(e)

-----------------------------------------------------------------------------
(* What makes Accounting, QueueBounded and PriorityFIFO inductive.          *)

\* The dispatch thread has an event in hand exactly in the states that use it.
HandMatchesPc == hand # NoEvent <=> dpc \in {"popped", "targets", "submit"}

\* An event is in at most one place on its way through the bus.
OnePlace ==
  /\ fresh \cap queue = {} /\ fresh \cap lost = {} /\ queue \cap lost = {}
  /\ hand \notin fresh \cup queue \cup lost
  /\ \A p \in Publishers :
       /\ publishing[p] \notin fresh \cup queue \cup lost
       /\ publishing[p] # NoEvent => publishing[p] # hand
       /\ \A q \in Publishers \ {p} :
            publishing[p] # NoEvent => publishing[p] # publishing[q]

\* No entry has a sequence number that is still to be given out, and no two
\* entries on the heap have the same one.
SequenceSound ==
  /\ \A e \in Events : seqOf[e] <= sequence
  /\ \A e \in queue : seqOf[e] < sequence
  /\ \A e, f \in queue : seqOf[e] = seqOf[f] => e = f

IInv ==
  /\ TypeOK
  /\ IsFiniteSet(queue) /\ IsFiniteSet(lost)
  /\ HandMatchesPc
  /\ OnePlace
  /\ Accounting
  /\ QueueBounded
  /\ SequenceSound
  /\ PriorityFIFO

-----------------------------------------------------------------------------
(* What makes AtMostOnce inductive.                                         *)

\* s has been given e, whatever has become of it since.
Given(s, e) ==
  \/ \E i \in 1..Len(backlog[s]) : backlog[s][i] = e
  \/ e \in active[s] \cup finished[s]

\* e has not reached Snapshot yet.
Undispatched(e) ==
  \/ e \in fresh \cup queue
  \/ \E p \in Publishers : publishing[p] = e
  \/ dpc = "popped" /\ hand = e

\* What is left of a snapshot exists only while an event is being dispatched.
TargetsMatchPc ==
  /\ target # NoSubscriber <=> dpc = "submit"
  /\ targets # {} => dpc \in {"targets", "submit"}
  /\ target \notin targets

\* Nobody has been given what is not dispatched yet or still to be submitted.
NoneGivenEarly ==
  \A s \in Subscribers, e \in Events :
    Given(s, e) => ~Undispatched(e) /\ ~StillToSubmit(s, e)

OnceInv == TargetsMatchPc /\ NoneGivenEarly /\ AtMostOnce

\* And what the promise needs besides: a snapshot is of those who want the event.
TargetsWant ==
  /\ \A s \in targets : hand \in Wants[s]
  /\ target # NoSubscriber => hand \in Wants[target]

-----------------------------------------------------------------------------
(* What makes GracefulStop and NothingSkipped inductive on a bus whose      *)
(* subscribers stay and whose stop() waits for the dispatch thread.         *)

\* Where the dispatch thread can be while the control thread is somewhere;
\* without SubmitRaises it never dies.
LifeMatchesPc ==
  /\ life = "new" => dpc = "none"
  /\ life = "running" => Alive
  /\ life = "joining" => Alive \/ dpc = "exited"
  /\ life \in {"pools", "stopped"} => dpc = "exited"

\* The dispatch thread never holds an executor that has been shut down.
PoolsOpen ==
  /\ life # "pools" => pools \cap shut = {}
  /\ target # NoSubscriber => target \in pools

\* What was accepted before stop() began is not accepted once more, and none of
\* it is queued when the dispatch thread has gone.
PendingDrained ==
  /\ pending \cap fresh = {}
  /\ \A p \in Publishers : publishing[p] \notin pending
  /\ dpc = "exited" => pending \cap queue = {}

\* Only a subscriber with an executor has callbacks queued or running.
OthersIdle == \A s \in Subscribers \ pools : Idle(s)

StopInv == LifeMatchesPc /\ PoolsOpen /\ PendingDrained /\ OthersIdle /\ GracefulStop

\* Until the only stop() everybody registered has an executor, and only who is
\* registered is in a snapshot.
PoolsComplete ==
  /\ life # "new" => starts >= 1
  /\ life \notin {"pools", "stopped"} => registered \subseteq pools
  /\ targets \subseteq registered
  /\ owed \subseteq registered \X Events

SkipInv == PoolsComplete /\ NothingSkipped

-----------------------------------------------------------------------------
(* What the sources promise and the code does not keep: see README.md.      *)

\* "Graceful shutdown: drains the queue before stopping."
DrainedWhenStopped == life = "stopped" => queue = {}

\* "All public methods are thread-safe": while the bus says it is running
\* its dispatch thread is there to dispatch.
RunningMeansDispatching == running => dpc # "dead"
=============================================================================
