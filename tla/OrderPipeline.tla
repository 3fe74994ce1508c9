---------------------------- MODULE OrderPipeline ----------------------------
(***************************************************************************)
(* NestOrders and OrderEvents as the one process they are.  A request of      *)
(* NestOrders is the publisher of OrderEvents of the same name: what one      *)
(* module leaves open about a publish (it is accepted, or it fails) the       *)
(* other decides, in a joint step.  Everything else either module does alone. *)
(*                                                                         *)
(* Both modules call a variable queue.  Here queue and topic are those of      *)
(* NestOrders, what the handlers take for published; ordersQueue is the       *)
(* queue of the broker.                                                     *)
(***************************************************************************)
EXTENDS NestOrders

CONSTANTS
    Foreign,      \* messages of other producers
    EventKind, Addressee, Partition, Partitions, Sockets, Rooms,
    MaxLog, MaxFaults

Messages == Requests \cup Foreign

ASSUME PipelineConstants ==
    /\ Requests \cap Foreign = {}
    /\ EventKind \in [Messages -> {"created", "status", "poison"}]
    /\ \A e \in Messages : EventKind[e] = "poison" <=> e \in Foreign
    /\ Partition \in [Messages -> Partitions]
    /\ DOMAIN Addressee = Messages /\ DOMAIN Rooms = Sockets
    /\ MaxLog \in Nat /\ MaxFaults \in Nat

VARIABLES
    publish, linked, consuming, ordersQueue, dlq, unacked, worked, confirmed,
    log, committed, consumer, position, ready, list, joined, heard, first, highest, skipped, faults,
    payload,   \* the order and the status in the message a request publishes
    behind     \* history: requests that had ended when a request saved its order or status

Events == INSTANCE OrderEvents WITH
    Events <- Messages, Rounds <- {Messages}, queue <- ordersQueue

brokerVars == <<publish, linked, consuming, ordersQueue, dlq, unacked, worked, confirmed,
                log, committed, consumer, position, ready, list, joined, heard, first, highest, skipped,
                faults>>
pipelineVars == <<vars, brokerVars, payload, behind>>

Blank == [order |-> "none", status |-> "none"]

PipelineInit ==
    /\ Init /\ Events!EventInit
    /\ payload = [r \in Requests |-> Blank] 
    /\ behind = [r \in Requests |-> {}]

\* Nest listens when every module has been initialised.  A request publishes one
\* kind of event, and the key of an event is its order.
Begin(r) ==
    /\ ready
    /\ \/ CreateStart(r) /\ EventKind[r] = "created"
       \/ StatusStart(r) /\ EventKind[r] = "status" /\ Partition[r] = Partition[target'[r]]
       \/ CancelStart(r) \/ UpdateStart(r) \/ RemoveStart(r)

\* What a handler does before it saves an order, and what publishes nothing.
HandlerStep(r) ==
    /\ \/ Begin(r)
       \/ CreateRead(r) \/ CreateReject(r) \/ FreightFails(r)
       \/ CancelSave(r) \/ CreditRead(r) \/ Load(r) \/ Update(r)
    /\ UNCHANGED <<brokerVars, payload, behind>>

\* ordersRepo.save has resolved; the handler goes on to build its messages.
Save(r) ==
    /\ InsertOrder(r) \/ StatusSave(r)
    /\ Events!OrderCommitted(r)
    /\ payload' = [payload EXCEPT ![r] = EventOf(r)]
    /\ behind' = [behind EXCEPT ![r] = {q \in Requests : pc[q] = "done"}]

\* Mutant of Published: the handler gives up waiting for an emit that goes out later.
PublishedInTime(r) ==
    /\ \/ PublishRabbit(r) /\ Events!Confirm(r)
       \/ PublishFails(r) /\ Events!Refuse(r)
       \/ EmitKafka(r) /\ Events!Emit(r)
       \/ EmitFails(r) /\ (Events!EmitRejected(r) \/ UNCHANGED brokerVars)
       \/ pc[r] = "done" /\ Events!Emit(r) /\ UNCHANGED vars
    /\ UNCHANGED <<payload, behind>>

\* The awaits of publishOrder and emit resolve, or reject.
Published(r) ==
    /\ \/ PublishRabbit(r) /\ Events!Confirm(r)
       \/ PublishFails(r) /\ Events!Refuse(r)
       \/ EmitKafka(r) /\ Events!Emit(r)
       \/ EmitFails(r) /\ Events!EmitRejected(r)
    /\ UNCHANGED <<payload, behind>>

\* The brokers, the consumers and the sockets.
BrokerStep ==
    /\ \/ \E e \in Messages :
             \/ Events!SendToBroker(e) \/ Events!ForeignMessage(e)
             \/ Events!Expire(e) \/ Events!Deliver(e) \/ Events!Settle(e)
       \/ Events!Disconnect \/ Events!Reconnect \/ Events!ConsumeOrders
       \/ Events!JoinGroup \/ Events!ConsumerStaysOff \/ Events!SetNotificationDeps
       \/ Events!CommitOffsets \/ Events!Rebalance
       \/ \E p \in Partitions : Events!EachMessage(p)
       \/ \E s \in Sockets : Events!Connect(s) \/ Events!Leave(s)
    /\ UNCHANGED <<vars, payload, behind>>

\* The process dies, with or without a request on its way.
Restart ==
    /\ Events!RestartServer
    /\ Crash \/ ((\A r \in Requests : ~InFlight(r)) /\ UNCHANGED vars)
    /\ UNCHANGED <<payload, behind>>

PipelineNext ==
    \/ \E r \in Requests : HandlerStep(r) \/ Save(r) \/ Published(r)
    \/ BrokerStep \/ Restart

PipelineSpec == PipelineInit /\ [][PipelineNext]_pipelineVars

---------------------------------------------------------------------------
AtBroker == ordersQueue \cup unacked \cup worked \cup dlq
InLog(e) == \E p \in Partitions : \E i \in DOMAIN log[p] : log[p][i] = e

(* Whatever fails in between, a message that is anywhere at the brokers is      *)
(* about an order in the table.  A worker or a notification that looks the      *)
(* order up finds it.                                                       *)
AboutAnOrder(r) == payload[r].order \in Requests /\ orders[payload[r].order] # NoOrder
MessagesAreAboutOrders == \A r \in Requests : r \in AtBroker \/ InLog(r) => AboutAnOrder(r)

(* What a handler takes for published is published: for each event it counts    *)
(* as accepted there is a message with that order and status that the broker    *)
(* still has, or a worker has acked, or that is in the Kafka topic, after any   *)
(* disconnection, expiry and restart.                                       *)
AcceptedIsHeld ==
    /\ \A k \in DOMAIN queue : \E r \in Requests : r \in AtBroker /\ payload[r] = queue[k]
    /\ \A k \in DOMAIN topic : \E r \in Requests : InLog(r) /\ payload[r] = topic[k]

(* "ordenado por key", for calls that do not overlap: when a request has been    *)
(* answered, or has died, before another saves, its event is nowhere behind the  *)
(* other's in the topic, although create waits for RabbitMQ before it emits and  *)
(* emits are retried.                                                       *)
LogFollowsAnswers ==
    \A p \in Partitions : \A i, j \in DOMAIN log[p] :
       i < j /\ log[p][i] \in Requests => log[p][j] \notin behind[log[p][i]]
===========================================================================
