---------------------------- MODULE KafkaProducer ----------------------------
(***************************************************************************)
(* The way of an event to Kafka                                            *)
(* (services/kafka_producer_service/service.rs, main.rs).  A handler puts  *)
(* it into the producer's queue, or, while there is no producer, into the  *)
(* pending queue that the init task empties into the producer's queue.  A  *)
(* worker sends batches; what it cannot send goes to two KeyDB lists, from *)
(* which a replay task feeds the queue again.  Both queues drop their      *)
(* oldest event when they are full, and the lists are trimmed.             *)
(*                                                                         *)
(* Handlers, init task, worker and replay task run on several threads and  *)
(* share the queues.  A process may stop at any point and start again; the *)
(* lists and the topic stay.  KeyDB is always configured (main.rs), events *)
(* always serialize, and the TTL of the lists (7 days) does not run out:   *)
(* the replay task visits them every 30 s.                                 *)
(***************************************************************************)
EXTENDS Integers, Sequences, FiniteSets, SequencesExt

CONSTANTS
    Checkin, Checkout,  \* the events, each handed over once
    Capacity,           \* KAFKA_QUEUE_CAPACITY, of the queue and of the pending queue
    BatchSize,          \* KAFKA_SEND_BATCH_SIZE
    MaxAttempts,        \* KAFKA_RETRIES
    MaxListLen,         \* KEYDB_PENDING_MAX_LIST_LEN
    ReplayBatch,        \* KEYDB_REPLAY_LPOP_BATCH
    ReplayMax,          \* KEYDB_REPLAY_MAX_PER_CYCLE
    MaxSendFailures, MaxKeydbFailures, MaxCrashes   \* bounds

Event == Checkin \cup Checkout

ASSUME KafkaAssumption ==
    /\ Checkin \cap Checkout = {}
    /\ {"init", "replay"} \cap Event = {}
    /\ {Capacity, BatchSize, MaxAttempts, MaxListLen, ReplayBatch, ReplayMax} \subseteq Nat \ {0}
    /\ {MaxSendFailures, MaxKeydbFailures, MaxCrashes} \subseteq Nat

VARIABLES
    handler,    \* by event: where its handler stands
    pending,    \* PENDING_KAFKA_QUEUE
    init,       \* where kafka_init_background stands
    moving,     \* what it drained and has yet to push
    queue,      \* DropOldestQueue.buf
    permits,    \* DropOldestQueue.sem, available permits
    owed,       \* pushers that filled the buffer and have yet to add the permit
    at,         \* where worker_loop stands
    batch, attempt,     \* its locals: the batch by kind, the attempts to send it
    list,       \* KeyDB: kafka_pending:checkin and kafka_pending:checkout
    replay,     \* which list keydb_replay_loop is at
    hands, replayed,    \* its locals
    topic,      \* events that Kafka has
    dropped,    \* history: events that a full queue or list dropped
    sendFailures, keydbFailures, crashes

queueVars == <<queue, permits, owed>>
initVars == <<init, moving>>
workerVars == <<at, batch, attempt>>
replayVars == <<replay, hands, replayed>>
faults == <<sendFailures, keydbFailures, crashes>>
vars == <<handler, pending, initVars, queueVars, workerVars, list, replayVars, topic,
          dropped, faults>>

Kinds == {"checkin", "checkout"}

Of(kind) == IF kind = "checkin" THEN Checkin ELSE Checkout

KindOf(e) == IF e \in Checkin THEN "checkin" ELSE "checkout"

Empty == [k \in Kinds |-> <<>>]

-----------------------------------------------------------------------------
(* The two bounded queues *)

\* Mutant of PushDropOldest: the test for a full queue is off by one.
PushPastCapacity(q, e) == Append(IF Len(q) > Capacity THEN Tail(q) ELSE q, e)

\* Drop the oldest when there is no room, and append.
PushDropOldest(q, e) == Append(IF Len(q) >= Capacity THEN Tail(q) ELSE q, e)

DroppedBy(q) == IF Len(q) >= Capacity THEN {Head(q)} ELSE {}

\* DropOldestQueue::push up to the end of the lock.  The permit follows as a step
\* of its own, before the same pusher goes on.
Push(pusher, e) ==
    /\ pusher \notin owed
    /\ owed' = owed \cup {pusher}
    /\ queue' = PushDropOldest(queue, e)
    /\ dropped' = dropped \cup DroppedBy(queue)
    /\ UNCHANGED permits

\* sem.add_permits(1)
AddPermit(pusher) ==
    /\ pusher \in owed
    /\ owed' = owed \ {pusher}
    /\ permits' = permits + 1
    /\ UNCHANGED <<handler, pending, initVars, queue, workerVars, list, replayVars, topic,
                   dropped, faults>>

-----------------------------------------------------------------------------
(* The handlers: send_checkin_to_kafka and send_checkout_to_kafka *)

\* get_kafka_producer, and what it answered decides where the event goes.
Look(e) ==
    /\ handler[e] = "idle"
    /\ handler' = [handler EXCEPT ![e] = IF init = "starting" THEN "pending" ELSE "queue"]
    /\ UNCHANGED <<pending, initVars, queueVars, workerVars, list, replayVars, topic,
                   dropped, faults>>

\* push_pending_checkin, push_pending_checkout
ToPending(e) ==
    /\ handler[e] = "pending"
    /\ handler' = [handler EXCEPT ![e] = "done"]
    /\ pending' = PushDropOldest(pending, e)
    /\ dropped' = dropped \cup DroppedBy(pending)
    /\ UNCHANGED <<initVars, queueVars, workerVars, list, replayVars, topic, faults>>

\* send_checkin_from_commit_background, send_checkout_from_commit_background
ToQueue(e) ==
    /\ handler[e] = "queue"
    /\ handler' = [handler EXCEPT ![e] = "done"]
    /\ Push(e, e)
    /\ UNCHANGED <<pending, initVars, workerVars, list, replayVars, topic, faults>>

-----------------------------------------------------------------------------
(* kafka_init_background *)

\* new_async succeeds, after any number of failures, which change nothing, and
\* KAFKA_PRODUCER is set.
SetProducer ==
    /\ init = "starting"
    /\ init' = "set"
    /\ UNCHANGED <<handler, pending, moving, queueVars, workerVars, list, replayVars,
                   topic, dropped, faults>>

\* Mutant of DrainPending: the events are copied, not taken out.
DrainCopies ==
    /\ init = "set"
    /\ init' = "moving"
    /\ moving' = pending
    /\ UNCHANGED <<handler, pending, queueVars, workerVars, list, replayVars, topic,
                   dropped, faults>>

\* drain_pending_into_producer: pending.drain ...
DrainPending ==
    /\ init = "set"
    /\ init' = "moving"
    /\ moving' = pending
    /\ pending' = <<>>
    /\ UNCHANGED <<handler, queueVars, workerVars, list, replayVars, topic, dropped, faults>>

\* ... and push_messages, one after the other.
MovePending ==
    /\ init = "moving"
    /\ moving # <<>>
    /\ Push("init", Head(moving))
    /\ moving' = Tail(moving)
    /\ UNCHANGED <<handler, pending, init, workerVars, list, replayVars, topic, faults>>

-----------------------------------------------------------------------------
(* worker_loop *)

Running == init # "starting"

\* pop: a permit is acquired ...
Acquire ==
    /\ Running
    /\ at = "pop"
    /\ permits > 0
    /\ permits' = permits - 1
    /\ at' = "take"
    /\ UNCHANGED <<handler, pending, initVars, queue, owed, batch, attempt, list,
                   replayVars, topic, dropped, faults>>

\* ... the first event taken, and the permit given back, as dropping it does.
Take ==
    /\ at = "take"
    /\ permits' = permits + 1
    /\ \/ /\ queue # <<>>
          /\ batch' = [batch EXCEPT ![KindOf(Head(queue))] = Append(@, Head(queue))]
          /\ queue' = Tail(queue)
          /\ at' = "fill"
       \/ /\ queue = <<>>
          /\ at' = "pop"
          /\ UNCHANGED <<batch, queue>>
    /\ UNCHANGED <<handler, pending, initVars, owed, attempt, list, replayVars, topic,
                   dropped, faults>>

BatchLen == Len(batch["checkin"]) + Len(batch["checkout"])

\* try_pop, as long as the batch has room and there are events.
Fill ==
    /\ at = "fill"
    /\ \/ /\ BatchLen < BatchSize /\ permits > 0 /\ queue # <<>>
          /\ batch' = [batch EXCEPT ![KindOf(Head(queue))] = Append(@, Head(queue))]
          /\ queue' = Tail(queue)
          /\ UNCHANGED at
       \/ /\ BatchLen >= BatchSize \/ permits = 0 \/ queue = <<>>
          /\ at' = "send"
          /\ UNCHANGED <<batch, queue>>
    /\ UNCHANGED <<handler, pending, initVars, permits, owed, attempt, list, replayVars,
                   topic, dropped, faults>>

\* Check-ins go first, then checkouts.
SendKind == IF batch["checkin"] # <<>> THEN "checkin" ELSE "checkout"

Sending == batch[SendKind]

\* The worker is done with what it was sending: on with the rest of the batch.
Settle ==
    /\ batch' = [batch EXCEPT ![SendKind] = <<>>]
    /\ attempt' = 0
    /\ at' = IF batch' = Empty THEN "pop" ELSE "send"

\* send_raw_batch succeeds: every partition has its records.
SendOk ==
    /\ at = "send"
    /\ topic' = topic \cup ToSet(Sending)
    /\ Settle
    /\ UNCHANGED <<handler, pending, initVars, queueVars, list, replayVars, dropped, faults>>

\* It fails or times out.  Some partitions may have their records.
AttemptFails ==
    /\ at = "send"
    /\ sendFailures < MaxSendFailures
    /\ sendFailures' = sendFailures + 1
    /\ \E some \in SUBSET ToSet(Sending) : topic' = topic \cup some
    /\ UNCHANGED <<handler, pending, initVars, queueVars, list, replayVars, dropped,
                   keydbFailures, crashes>>

\* send_raw_batch_with_retry sends the whole batch again ...
SendAgain ==
    /\ AttemptFails
    /\ attempt + 1 < MaxAttempts
    /\ attempt' = attempt + 1
    /\ UNCHANGED <<at, batch>>

\* Mutant of GiveUpSending: a batch that timed out is not kept.
GiveUpForgets ==
    /\ AttemptFails
    /\ Settle

\* ... until the last attempt, or until BATCH_SEND_TOTAL_TIMEOUT_SECS have passed.
GiveUpSending ==
    /\ AttemptFails
    /\ at' = "persist"
    /\ UNCHANGED <<batch, attempt>>

\* persist_*_payloads_to_keydb, rpush_many_trim_ttl: RPUSH, then LTRIM.
Persist ==
    LET long == list[SendKind] \o Sending
        keep == IF Len(long) > MaxListLen
                THEN SubSeq(long, Len(long) - MaxListLen + 1, Len(long)) ELSE long
    IN
    /\ at = "persist"
    /\ list' = [list EXCEPT ![SendKind] = keep]
    /\ dropped' = dropped \cup (ToSet(long) \ ToSet(keep))
    /\ Settle
    /\ UNCHANGED <<handler, pending, initVars, queueVars, replayVars, topic, faults>>

\* KeyDB answers with an error, which is logged only: to RPUSH, with or without
\* effect, to LTRIM, or to EXPIRE; what LTRIM cut off then is lost in the failure.
PersistFails ==
    LET long == list[SendKind] \o Sending
        keep == IF Len(long) > MaxListLen
                THEN SubSeq(long, Len(long) - MaxListLen + 1, Len(long)) ELSE long
    IN
    /\ at = "persist"
    /\ keydbFailures < MaxKeydbFailures
    /\ keydbFailures' = keydbFailures + 1
    /\ \/ UNCHANGED list
       \/ \E l \in {long, keep} : list' = [list EXCEPT ![SendKind] = l]
    /\ Settle
    /\ UNCHANGED <<handler, pending, initVars, queueVars, replayVars, topic, dropped,
                   sendFailures, crashes>>

-----------------------------------------------------------------------------
(* keydb_replay_loop *)

\* The list of one kind is done with: the other one, or the next cycle.
NextList ==
    /\ replay' = IF replay = "checkin" THEN "checkout" ELSE "checkin"
    /\ replayed' = 0
    /\ UNCHANGED hands

\* Mutant of ReplayPop: the events are read, not taken off the list.
ReplayPeek ==
    LET n == Min({ReplayBatch, ReplayMax - replayed, Len(list[replay])}) IN
    /\ Running
    /\ hands = <<>>
    /\ replayed < ReplayMax
    /\ list[replay] # <<>>
    /\ hands' = SubSeq(list[replay], 1, n)
    /\ replayed' = replayed + n
    /\ UNCHANGED <<handler, pending, initVars, queueVars, workerVars, list, replay, topic,
                   dropped, faults>>

\* lpop_n takes the next events off the list.
ReplayPop ==
    LET n == Min({ReplayBatch, ReplayMax - replayed, Len(list[replay])}) IN
    /\ Running
    /\ hands = <<>>
    /\ replayed < ReplayMax
    /\ list[replay] # <<>>
    /\ hands' = SubSeq(list[replay], 1, n)
    /\ list' = [list EXCEPT ![replay] = SubSeq(@, n + 1, Len(@))]
    /\ replayed' = replayed + n
    /\ UNCHANGED <<handler, pending, initVars, queueVars, workerVars, replay, topic,
                   dropped, faults>>

\* It answers with an error, having removed the events or not.
ReplayPopFails ==
    LET n == Min({ReplayBatch, ReplayMax - replayed, Len(list[replay])}) IN
    /\ Running
    /\ hands = <<>>
    /\ replayed < ReplayMax
    /\ keydbFailures < MaxKeydbFailures
    /\ keydbFailures' = keydbFailures + 1
    /\ list' \in {list, [list EXCEPT ![replay] = SubSeq(@, n + 1, Len(@))]}
    /\ NextList
    /\ UNCHANGED <<handler, pending, initVars, queueVars, workerVars, topic, dropped,
                   sendFailures, crashes>>

\* push_messages
ReplayPush ==
    /\ hands # <<>>
    /\ Push("replay", Head(hands))
    /\ hands' = Tail(hands)
    /\ UNCHANGED <<handler, pending, initVars, workerVars, list, replay, replayed, topic,
                   faults>>

\* Mutant of ReplayNext: only the check-ins are replayed.
ReplayStays ==
    /\ Running
    /\ hands = <<>>
    /\ list[replay] = <<>> \/ replayed >= ReplayMax
    /\ replayed' = 0
    /\ UNCHANGED <<handler, pending, initVars, queueVars, workerVars, list, replay, hands,
                   topic, dropped, faults>>

\* The list is empty, or the cycle has its fill.
ReplayNext ==
    /\ Running
    /\ hands = <<>>
    /\ list[replay] = <<>> \/ replayed >= ReplayMax
    /\ NextList
    /\ UNCHANGED <<handler, pending, initVars, queueVars, workerVars, list, topic, dropped,
                   faults>>

-----------------------------------------------------------------------------
(* The process *)

NewProcess ==
    /\ pending' = <<>>
    /\ init' = "starting" /\ moving' = <<>>
    /\ queue' = <<>> /\ permits' = 0 /\ owed' = {}
    /\ at' = "pop" /\ batch' = Empty /\ attempt' = 0
    /\ replay' = "checkin" /\ hands' = <<>> /\ replayed' = 0

\* The process stops, on a signal too, and starts again: nothing is flushed.
Crash ==
    /\ crashes < MaxCrashes
    /\ crashes' = crashes + 1
    /\ NewProcess
    /\ handler' = [e \in Event |-> IF handler[e] = "idle" THEN "idle" ELSE "done"]
    /\ UNCHANGED <<list, topic, dropped, sendFailures, keydbFailures>>

Init ==
    /\ handler = [e \in Event |-> "idle"]
    /\ pending = <<>>
    /\ init = "starting" /\ moving = <<>>
    /\ queue = <<>> /\ permits = 0 /\ owed = {}
    /\ at = "pop" /\ batch = Empty /\ attempt = 0
    /\ list = Empty
    /\ replay = "checkin" /\ hands = <<>> /\ replayed = 0
    /\ topic = {} /\ dropped = {}
    /\ sendFailures = 0 /\ keydbFailures = 0 /\ crashes = 0

HandlerStep(e) == Look(e) \/ ToPending(e) \/ ToQueue(e)

PermitStep == \E pusher \in Event \cup {"init", "replay"} : AddPermit(pusher)

InitStep == SetProducer \/ DrainPending \/ MovePending

WorkerStep ==
    \/ Acquire   \/ Take          \/ Fill    \/ SendOk
    \/ SendAgain \/ GiveUpSending \/ Persist \/ PersistFails

ReplayStep == ReplayPop \/ ReplayPopFails \/ ReplayPush \/ ReplayNext

Next ==
    \/ \E e \in Event : HandlerStep(e)
    \/ PermitStep \/ InitStep \/ WorkerStep \/ ReplayStep
    \/ Crash

Spec == Init /\ [][Next]_vars

\* The runtime polls every task, handlers finish what they began, and the brokers
\* can be reached again and again.
FairSpec ==
    /\ Spec
    /\ \A e \in Event : WF_vars(handler[e] # "idle" /\ HandlerStep(e))
    /\ WF_vars(PermitStep)
    /\ WF_vars(InitStep)
    /\ WF_vars(WorkerStep)
    /\ WF_vars(ReplayStep)

-----------------------------------------------------------------------------
\* Everything has its type; neither queue exceeds its capacity nor a batch its size.
TypeOK ==
    /\ handler \in [Event -> {"idle", "pending", "queue", "done"}]
    /\ pending \in Seq(Event) /\ Len(pending) <= Capacity
    /\ init \in {"starting", "set", "moving"}
    /\ moving \in Seq(Event)
    /\ queue \in Seq(Event) /\ Len(queue) <= Capacity
    /\ permits \in Nat
    /\ owed \subseteq Event \cup {"init", "replay"}
    /\ at \in {"pop", "take", "fill", "send", "persist"}
    /\ batch \in [Kinds -> Seq(Event)] /\ BatchLen <= BatchSize
    /\ attempt \in 0..(MaxAttempts - 1)
    /\ list \in [Kinds -> Seq(Event)]
    /\ \A k \in Kinds : ToSet(list[k]) \cup ToSet(batch[k]) \subseteq Of(k)
    /\ replay \in Kinds
    /\ hands \in Seq(Event)
    /\ replayed \in 0..ReplayMax
    /\ topic \subseteq Event /\ dropped \subseteq Event
    /\ sendFailures \in 0..MaxSendFailures
    /\ keydbFailures \in 0..MaxKeydbFailures
    /\ crashes \in 0..MaxCrashes

\* Where an event can be on its way.
Places == <<pending, moving, queue, hands, batch["checkin"], batch["checkout"],
            list["checkin"], list["checkout"]>>

Held == UNION {ToSet(Places[i]) : i \in DOMAIN Places}

\* Kafka may fail as it likes: as long as KeyDB answers and the process runs, an
\* event that a handler handed over is on its way, has reached the topic, or was
\* the oldest in a queue or list that was full.
NothingVanishes ==
    keydbFailures = 0 /\ crashes = 0 =>
        \A e \in Event : handler[e] = "done" => e \in Held \cup topic \cup dropped

\* Between batches the batch is empty, and the init task holds events only while it
\* moves them.
NothingLeftOver ==
    /\ at \in {"pop", "take"} => batch = Empty
    /\ init # "moving" => moving = <<>>

\* The inductive invariant behind NothingVanishes.
IInv == TypeOK /\ NothingLeftOver /\ NothingVanishes

\* No event is in two places, or twice in one.
Apart ==
    /\ \A i, j \in DOMAIN Places : i # j => ToSet(Places[i]) \cap ToSet(Places[j]) = {}
    /\ \A i \in DOMAIN Places : IsInjective(Places[i])

\* "No double message ... each message is sent once only" (service.rs:148): an event
\* is in one place at a time, and what has reached the topic or was dropped is on
\* its way no more, unless an attempt to send failed.
SentOnce ==
    /\ Apart
    /\ sendFailures = 0 => Held \cap topic = {}
    /\ Held \cap dropped = {}

\* What the handlers have handed over.
Given == {e \in Event : handler[e] = "done"}

\* An event that was not handed over is nowhere.
Fresh == Held \cup topic \cup dropped \subseteq Given

\* The inductive invariant behind SentOnce and the implementation of Outbox.
SInv == TypeOK /\ NothingLeftOver /\ SentOnce /\ Fresh

\* The producer implements Outbox: through queues, batches, lists and tasks an event
\* is published from what is kept, is no longer kept after that, and never comes
\* back once it was published or dropped; only failed sends may repeat one.
Contract == INSTANCE Outbox WITH
    accepted <- Given, kept <- Held, published <- topic,
    unsure <- sendFailures, faults <- keydbFailures + crashes

ImplementsOutbox == Contract!Spec

\* Once failures end, the queue, the batch and the KeyDB lists are emptied for good,
\* so every event in them is sent.
Drained ==
    <>[](/\ moving = <<>> /\ queue = <<>> /\ hands = <<>>
         /\ batch = Empty /\ list = Empty)
=============================================================================
