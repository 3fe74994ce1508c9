----------------------------- MODULE OrderEvents -----------------------------
(***************************************************************************)
(* What becomes of an order event after its order is committed: the broker  *)
(* clients of backend-nest, RabbitMQ, Kafka and the notifications.           *)
(*                                                                         *)
(* RabbitMQService publishes through amqp-connection-manager's channel        *)
(* wrapper, which keeps a message in memory until the broker has confirmed    *)
(* it and sends it again after a reconnection.  The queue is durable, and a   *)
(* message that is not consumed within its TTL moves to the dead-letter      *)
(* queue.  KafkaService consumes its own topics in one group and hands every  *)
(* message to the gateway and to the list of notifications.                  *)
(***************************************************************************)
EXTENDS Integers, Sequences, FiniteSets

CONSTANTS
    Events,         \* events, each published by the request of the same name
    Rounds,         \* bound: sets of events that may occur in one behaviour
    EventKind,      \* "created", "status", or "poison" (any producer, not JSON)
    Addressee,      \* room an event is for: a company, a user or "admin"
    Partition,      \* partition of its key, the order
    Partitions,
    Sockets,        \* clients of the gateway
    Rooms,          \* rooms the token of a socket lets it join
    MaxLog,         \* bound: messages per partition
    MaxFaults       \* bound: disconnections, rebalances and restarts

ASSUME EventConstants ==
    /\ EventKind \in [Events -> {"created", "status", "poison"}]
    /\ Partition \in [Events -> Partitions]
    /\ Rounds \subseteq SUBSET Events
    /\ DOMAIN Addressee = Events /\ DOMAIN Rooms = Sockets
    /\ MaxLog \in Nat /\ MaxFaults \in Nat

VARIABLES
    publish,    \* each request: "idle", "waiting", "sent", "kafka", "done" or "lost"
    linked,     \* the channel wrapper is connected
    consuming,  \* consumeOrders has been called in this process
    queue, dlq, unacked, worked,  \* messages in orders.queue, in orders.dlq, delivered, acked
    confirmed,  \* history: events whose publish has resolved
    log,        \* the Kafka topics
    committed,  \* offsets the group has committed, -1 when none
    consumer,   \* "starting", "running", "rejoining" or "off" (Kafka was not there at start)
    position,   \* offsets the consumer has handled
    ready,      \* setNotificationDeps has been called
    list,       \* NotificationsService.notifications, as <<partition, offset>>
    joined,     \* connected sockets
    heard,      \* events each connected socket has been sent
    first,      \* history: offset the notifications are to follow the log from
    highest,    \* history: highest offset handled or skipped since then
    skipped,    \* history: offsets a join without a committed offset has passed over
    faults

rabbitVars == <<linked, consuming, queue, dlq, unacked, worked, confirmed>>
kafkaVars == <<log, committed, consumer, position, ready, list, first, highest, skipped>>
socketVars == <<joined, heard>>
eventVars == <<publish, rabbitVars, kafkaVars, socketVars, faults>>

---------------------------------------------------------------------------
Zero == [p \in Partitions |-> 0]
NoOffsets == [p \in Partitions |-> -1]
NoneSkipped == [p \in Partitions |-> {}]
PublishAt(e, step) == publish' = [publish EXCEPT ![e] = step]
NewFault == faults < MaxFaults /\ faults' = faults + 1

EventInit ==
    /\ \E round \in Rounds :
          publish = [e \in Events |-> IF e \in round THEN "idle" ELSE "done"]
    /\ linked = TRUE /\ consuming = FALSE
    /\ queue = {} /\ dlq = {} /\ unacked = {} /\ worked = {} /\ confirmed = {}
    /\ log = [p \in Partitions |-> <<>>]
    /\ committed = NoOffsets /\ consumer = "starting" /\ position = Zero
    /\ ready = FALSE /\ list = <<>>
    /\ joined = {} /\ heard = [s \in Sockets |-> {}]
    /\ first = Zero /\ highest = Zero /\ skipped = NoneSkipped /\ faults = 0

(***************************************************************************)
(* Producers.  create publishes to RabbitMQ, then to Kafka; updateStatus     *)
(* emits to Kafka, then publishes, and a Kafka failure skips RabbitMQ.       *)
(* Requests are served once every module has been initialised.              *)
(***************************************************************************)
OrderCommitted(e) ==
    /\ publish[e] = "idle" /\ ready
    /\ \/ EventKind[e] = "created" /\ PublishAt(e, "waiting")
       \/ EventKind[e] = "status" /\ PublishAt(e, "kafka")
    /\ UNCHANGED <<rabbitVars, kafkaVars, socketVars, faults>>

AfterRabbit(e) == IF EventKind[e] = "created" THEN "kafka" ELSE "done"

\* The wrapper sends a buffered message while it is connected.
SendToBroker(e) ==
    /\ publish[e] = "waiting" /\ linked
    /\ queue' = queue \cup {e}
    /\ PublishAt(e, "sent")
    /\ UNCHANGED <<linked, consuming, dlq, unacked, worked, confirmed, kafkaVars, socketVars, faults>>

Confirm(e) ==
    /\ publish[e] = "sent" /\ linked
    /\ confirmed' = confirmed \cup {e}
    /\ PublishAt(e, AfterRabbit(e))
    /\ UNCHANGED <<linked, consuming, queue, dlq, unacked, worked, kafkaVars, socketVars, faults>>

\* The broker nacks: publish rejects, the request logs it and goes on.
Refuse(e) ==
    /\ publish[e] = "waiting" /\ linked
    /\ PublishAt(e, AfterRabbit(e))
    /\ UNCHANGED <<rabbitVars, kafkaVars, socketVars, faults>>

AfterKafka(e) == IF EventKind[e] = "status" THEN "waiting" ELSE "done"

\* producer.send, whose retries may append a message twice.
Emit(e) ==
    LET p == Partition[e] IN
    /\ publish[e] = "kafka"
    /\ \E copies \in {<<e>>, <<e, e>>} :
          Len(log[p] \o copies) <= MaxLog /\ log' = [log EXCEPT ![p] = @ \o copies]
    /\ PublishAt(e, AfterKafka(e))
    /\ UNCHANGED <<rabbitVars, committed, consumer, position, ready, list, first, highest, skipped,
                   socketVars, faults>>

EmitRejected(e) ==
    /\ publish[e] = "kafka"
    /\ PublishAt(e, "done")
    /\ UNCHANGED <<rabbitVars, kafkaVars, socketVars, faults>>

\* Another producer of the topics sends a message the consumer cannot read.
ForeignMessage(e) ==
    LET p == Partition[e] IN
    /\ publish[e] = "idle" /\ EventKind[e] = "poison" /\ Len(log[p]) < MaxLog
    /\ log' = [log EXCEPT ![p] = Append(@, e)]
    /\ PublishAt(e, "done")
    /\ UNCHANGED <<rabbitVars, committed, consumer, position, ready, list, first, highest, skipped,
                   socketVars, faults>>

(***************************************************************************)
(* RabbitMQ.                                                               *)
(***************************************************************************)

\* Mutant of Stored: orders.queue is not durable.
StoredUntilRestart(messages) == {}

\* Messages a durable queue still holds when the broker is back.
Stored(messages) == messages

\* What was sent and not confirmed goes back into the wrapper's buffer.
Resent == [e \in Events |-> IF publish[e] = "sent" THEN "waiting" ELSE publish[e]]

\* The broker restarts or the connection breaks; deliveries return to the queue.
Disconnect ==
    /\ linked /\ NewFault
    /\ linked' = FALSE
    /\ queue' = Stored(queue \cup unacked) /\ unacked' = {}
    /\ publish' = Resent
    /\ UNCHANGED <<consuming, dlq, worked, confirmed, kafkaVars, socketVars>>

\* Mutant of Reconnect: a plain connection, which nobody opens again.
ReconnectNever == FALSE /\ UNCHANGED eventVars

\* The wrapper reconnects and runs its setups again, consumers included.
Reconnect ==
    /\ ~linked /\ linked' = TRUE
    /\ UNCHANGED <<publish, consuming, queue, dlq, unacked, worked, confirmed,
                   kafkaVars, socketVars, faults>>

\* messageTtl: 60 s in the queue, then the dead-letter queue.
Expire(e) ==
    /\ e \in queue
    /\ queue' = queue \ {e} /\ dlq' = dlq \cup {e}
    /\ UNCHANGED <<publish, linked, consuming, unacked, worked, confirmed,
                   kafkaVars, socketVars, faults>>

ConsumeOrders ==
    /\ ~consuming /\ consuming' = TRUE
    /\ UNCHANGED <<publish, linked, queue, dlq, unacked, worked, confirmed,
                   kafkaVars, socketVars, faults>>

Deliver(e) ==
    /\ consuming /\ linked /\ e \in queue
    /\ queue' = queue \ {e} /\ unacked' = unacked \cup {e}
    /\ UNCHANGED <<publish, linked, consuming, dlq, worked, confirmed, kafkaVars, socketVars, faults>>

\* The callback acks, nacks with requeue, or nacks without: the DLQ.
Settle(e) ==
    /\ linked /\ e \in unacked
    /\ unacked' = unacked \ {e}
    /\ \/ worked' = worked \cup {e} /\ UNCHANGED <<queue, dlq>>
       \/ queue' = queue \cup {e} /\ UNCHANGED <<worked, dlq>>
       \/ dlq' = dlq \cup {e} /\ UNCHANGED <<worked, queue>>
    /\ UNCHANGED <<publish, linked, consuming, confirmed, kafkaVars, socketVars, faults>>

(***************************************************************************)
(* Kafka consumer and notifications.                                       *)
(***************************************************************************)

\* Mutant of JoinAt: the consumer goes to the end of a topic it has read before.
JoinAtEnd(p) == Len(log[p])

\* fromBeginning: false; a group that has committed goes on from there.
JoinAt(p) == IF committed[p] = -1 THEN Len(log[p]) ELSE committed[p]

\* The consumer joins the group: in KafkaService.onModuleInit, and after a
\* rebalance.  Without a committed offset it follows the topic from its end, and
\* what it has not handled by then is never handed to it.
JoinGroup ==
    LET passes(p) == ready /\ committed[p] = -1 IN
    /\ consumer \in {"starting", "rejoining"}
    /\ consumer' = "running"
    /\ position' = [p \in Partitions |-> JoinAt(p)]
    /\ highest' = [p \in Partitions |-> IF passes(p) THEN Len(log[p]) ELSE highest[p]]
    /\ skipped' = [p \in Partitions |-> IF passes(p)
                                          THEN skipped[p] \cup (highest[p] + 1)..Len(log[p])
                                          ELSE skipped[p]]
    /\ UNCHANGED <<publish, rabbitVars, log, committed, ready, list, first, socketVars, faults>>

\* onModuleInit logs the error; nothing tries again in this process.
ConsumerStaysOff ==
    /\ consumer = "starting"
    /\ consumer' = "off"
    /\ UNCHANGED <<publish, rabbitVars, log, committed, position, ready, list, first, highest,
                   skipped, socketVars, faults>>

\* NotificationsModule.onModuleInit hands over the gateway and the list; the
\* consumer may have handled messages before.
SetNotificationDeps ==
    /\ ~ready /\ consumer # "starting"
    /\ ready' = TRUE
    /\ first' = [p \in Partitions |-> IF consumer = "running" \/ committed[p] = -1
                                        THEN position[p] ELSE committed[p]]
    /\ highest' = first' /\ skipped' = NoneSkipped
    /\ UNCHANGED <<publish, rabbitVars, log, committed, consumer, position, list, socketVars, faults>>

\* Sockets the gateway sends e to.  broadcastAdmin emits to every socket.
Recipients(e) ==
    IF Addressee[e] = "admin" THEN joined ELSE {s \in joined : Addressee[e] \in Rooms[s]}

\* Mutant of Handled: an error in the handler keeps the offset.
HandledUnlessPoison(p) == IF EventKind[log[p][position[p] + 1]] = "poison" THEN position[p]
                                                                 ELSE position[p] + 1

\* Whatever happens in eachMessage is caught, and the offset advances.
Handled(p) == position[p] + 1

\* sendToUser and broadcastToAdmin of NotificationsService push what they are given.
Pushed(p, at) == Append(list, <<p, at>>)

EachMessage(p) ==
    LET at == position[p] + 1  e == log[p][at]
        listed == ready /\ EventKind[e] # "poison" IN
    /\ consumer = "running" /\ at <= Len(log[p])
    /\ position' = [position EXCEPT ![p] = Handled(p)]
    /\ highest' = [highest EXCEPT ![p] = IF ready /\ at > @ THEN at ELSE @]
    /\ list' = IF listed THEN Pushed(p, at) ELSE list
    /\ heard' = [s \in Sockets |-> IF listed /\ s \in Recipients(e) THEN heard[s] \cup {e}
                                                                    ELSE heard[s]]
    /\ UNCHANGED <<publish, rabbitVars, log, committed, consumer, ready, first, skipped, joined, faults>>

CommitOffsets ==
    /\ consumer = "running" /\ committed # position
    /\ committed' = position
    /\ UNCHANGED <<publish, rabbitVars, log, consumer, position, ready, list, first, highest,
                   skipped, socketVars, faults>>

\* A session timeout: the consumer joins again from the committed offsets.
Rebalance ==
    /\ consumer = "running" /\ NewFault
    /\ consumer' = "rejoining"
    /\ UNCHANGED <<publish, rabbitVars, log, committed, position, ready, list, first, highest,
                   skipped, socketVars>>

Connect(s) ==
    /\ ready /\ s \notin joined
    /\ joined' = joined \cup {s}
    /\ UNCHANGED <<publish, rabbitVars, kafkaVars, heard, faults>>

Leave(s) ==
    /\ s \in joined
    /\ joined' = joined \ {s} /\ heard' = [heard EXCEPT ![s] = {}]
    /\ UNCHANGED <<publish, rabbitVars, kafkaVars, faults>>

\* The Nest process dies with the wrapper's buffer, the list and the sockets.
RestartServer ==
    /\ NewFault
    /\ publish' = [e \in Events |-> IF publish[e] \in {"idle", "done"} THEN publish[e] ELSE "lost"]
    /\ queue' = queue \cup unacked /\ unacked' = {}
    /\ linked' = TRUE /\ consuming' = FALSE
    /\ consumer' = "starting" /\ position' = Zero /\ ready' = FALSE /\ list' = <<>>
    /\ first' = Zero /\ highest' = Zero /\ skipped' = NoneSkipped
    /\ joined' = {} /\ heard' = [s \in Sockets |-> {}]
    /\ UNCHANGED <<dlq, worked, confirmed, log, committed>>

---------------------------------------------------------------------------
PublishStep(e) == SendToBroker(e) \/ Confirm(e) \/ Refuse(e) \/ Emit(e) \/ EmitRejected(e)

EventNext ==
    \/ \E e \in Events :
          \/ OrderCommitted(e) \/ ForeignMessage(e) \/ PublishStep(e)
          \/ Expire(e) \/ Deliver(e) \/ Settle(e)
    \/ Disconnect \/ Reconnect \/ ConsumeOrders
    \/ JoinGroup \/ ConsumerStaysOff \/ SetNotificationDeps \/ CommitOffsets \/ Rebalance
    \/ \E p \in Partitions : EachMessage(p)
    \/ \E s \in Sockets : Connect(s) \/ Leave(s)
    \/ RestartServer

\* Both clients keep trying to reconnect, and pending callbacks run.
EventFairness ==
    /\ WF_eventVars(Reconnect) /\ WF_eventVars(JoinGroup) /\ WF_eventVars(SetNotificationDeps)
    /\ \A e \in Events : WF_eventVars(PublishStep(e))
    /\ \A p \in Partitions : WF_eventVars(EachMessage(p))

EventSpec == EventInit /\ [][EventNext]_eventVars /\ EventFairness

---------------------------------------------------------------------------
(* Types; offsets stay inside the log.  *)
EventTypeOK ==
    /\ publish \in [Events -> {"idle", "waiting", "sent", "kafka", "done", "lost"}]
    /\ linked \in BOOLEAN /\ consuming \in BOOLEAN /\ ready \in BOOLEAN
    /\ \A set \in {queue, dlq, unacked, worked, confirmed} : set \subseteq Events
    /\ \A p \in Partitions : /\ log[p] \in Seq(Events)
                             /\ committed[p] \in -1..Len(log[p]) /\ position[p] \in 0..Len(log[p])
                             /\ first[p] \in 0..highest[p] /\ highest[p] <= Len(log[p])
                             /\ skipped[p] \subseteq (first[p] + 1)..highest[p]
    /\ list \in Seq(Partitions \X (1..MaxLog))
    /\ consumer \in {"starting", "running", "rejoining", "off"}
    /\ joined \subseteq Sockets /\ heard \in [Sockets -> SUBSET Events]
    /\ faults \in 0..MaxFaults

(* An order event whose publish has resolved is in the queue, with a worker,  *)
(* in the dead-letter queue or worked off: no restart of the broker or of     *)
(* Nest, no expiry and no nack loses it.                                    *)
ConfirmedDurable == confirmed \subseteq queue \cup unacked \cup worked \cup dlq

(* However the connection breaks while a request is publishing, the request   *)
(* ends: the wrapper sends again what was not confirmed.                     *)
PublishEnds == []<>(\A e \in Events : publish[e] \notin {"waiting", "sent", "kafka"})

(* Every message of the topics is handled sooner or later, whatever is in the *)
(* messages before it: one the consumer cannot read blocks nobody.           *)
PoisonNeverBlocks ==
    []<>(consumer = "off" \/ \A p \in Partitions : position[p] = Len(log[p]))

(* Once it is ready the list holds every readable message the consumer gets to, *)
(* those of one partition, so of one order, in the order of the log, although   *)
(* rebalances hand messages over again.  The messages it does not get to are    *)
(* those in the log, not yet handled, when it joins again with nothing           *)
(* committed: fromBeginning: false passes over them, and no later rebalance     *)
(* brings one back.                                                         *)
FirstAt(p, i) == CHOOSE k \in 1..Len(list) :
                    list[k] = <<p, i>> /\ \A j \in 1..(k - 1) : list[j] # <<p, i>>
Listed(p, i) == \E k \in 1..Len(list) : list[k] = <<p, i>>
Due(p) == {i \in ((first[p] + 1)..highest[p]) \ skipped[p] : EventKind[log[p][i]] # "poison"}
NotificationsFollowLog ==
    \A p \in Partitions :
       /\ \A i \in Due(p) : Listed(p, i)
       /\ \A i, j \in Due(p) : i < j => FirstAt(p, i) < FirstAt(p, j)
       /\ \A i \in skipped[p] : ~Listed(p, i)
=============================================================================
