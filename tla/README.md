# LogoCA Logística — TLA+ specifications

Models of the stateful core of this repository, checked with TLC and, where a result
matters for every size of the system, proved with TLAPS. Each module names the code it
translates; file names below are relative to `src/`.

    tlc -workers 2 -config nest_concurrent.cfg MCNestOrders     # one run
    tlapm NestOrdersProofs.tla                                  # one set of proofs

## 1. The system

Two backends over PostgreSQL, Redis, RabbitMQ and Kafka, two browser front ends and a
reporting backend. The backends do not call each other, and each creates its own tables.

| Component | State it keeps | Operations | What makes it hard |
|---|---|---|---|
| Nest orders and products (`backend-nest/src/modules/orders`, `products`) | tables `products`, `orders`, `order_items` | create, updateStatus, cancel; product create, update, remove | read – check – save over several awaits, no transaction, no lock, no version |
| Nest broker clients (`messaging/rabbitmq.service.ts`, `kafka.service.ts`) | channel, producer, queue, topic | publishOrder, emit, consume with 3 tries, DLQ | publishes that fail after the commit; redelivery |
| Nest warehouses | table `warehouses` | create, update, remove, allocate, release, calculateFreight | capacity tested on a stale copy, saved as an absolute value |
| Nest notifications | in-memory list, socket rooms | consumer of order events, broadcasts | messages handed over twice after a rebalance, messages nobody can read, restart |
| Nest Ignite cache and interceptor | mode, memory maps, remote cache | get, set, del, clear, clean-up | one decision at start, put that falls back, answers stored after the response |
| Nest auth, users | `users`, `companies`, JWT | register, login, refresh, CRUD | tokens older than the roles they carry; save of a row that is gone inserts it |
| FastAPI stock and orders (`services/stock_service.py`, `routers/stock.py`, `routers/orders.py`) | tables `stock`, `orders` | reserve, consume, PUT/POST/DELETE stock, create and delete order, alerts | one transaction per call with absolute values, row locks in item order |
| FastAPI GPS (`services/gps_service.py`, `routers/tracking.py`) | a socket registry per process, last position and history in Redis | connect, update, broadcast, disconnect, POST /tracking | every await interleaves; sockets die during a broadcast; several processes over one Redis |
| FastAPI rows with entries in Redis (`routers/orders.py`, `products.py`, `routes.py`, `trucks.py`, `services/finance_service.py`, `cache.py`) | tables, Redis `finance:*`, `product:*`, `route:*`, `truck:*` | CRUD, reads that fill, optimize, PATCH status | entry written after the commit, in no order, and lost with a Redis error |
| FastAPI route optimizer (`services/route_optimizer.py`) | none beyond a request | POST /routes/optimize/custom: nearest neighbour from the origin, which is then taken out again | bodies that repeat or equal the origin, equal distances, coordinates that cannot be read |
| FastAPI broker clients | connections | publish (returns False, never raises) | little |
| Angular storefront (`features/`, `core/services/`) | cart in memory and localStorage, one copy per tab; filters, freight and form of the page shown | add, change, remove, checkout; filter, simulate, send | answers and timers that outlive the component; tabs that overwrite each other; calls nothing cancels |
| Next dashboard | sockets and badge of Rastreamento; localStorage and forms of Configurações | connect, reconnect; edit, save, reload | handlers of old sockets; saves of the state before the change |
| Django analytics, infrastructure | none of their own | read only, deployment | not modelled |

How they interact: the Nest order handlers share the product rows with the admin's product
endpoints and hand events to the broker clients; warehouses is called once in the middle of
an order (`calculateFreight`). In FastAPI the orders router calls the stock service inside
its own transaction; stock alerts go to both brokers; the GPS service is one object per
process, shared by the sockets and the `POST /tracking` calls of that process, and speaks to
the one Redis. The images start two processes (`backend-fastapi/Dockerfile:32`) and Kubernetes
two replicas. The dashboard's tracking page opens a socket to FastAPI.

What makes each correct: stock neither negative nor promised twice, price columns that
agree, an order that is placed or not, cancelled once, events only about committed orders
(Nest); a row over its capacity only when the caller made it so, power only to who has it now,
a login that gives tokens, what is removed stays removed, confirmed events kept and listed in
order, every request answered whatever the cache does (Nest, the other modules); reserved
within quantity, no reservation without its order, no shortage without an alert, no call stuck
(FastAPI stock); every connected client gets the last position and the registry holds the
connected sockets and no others (GPS); an entry in Redis that is its row's,
or soon gone (rows); a cart with one line per product, ordered once, and pages that end up showing the answer to the last question (storefront); a badge, and
a saved configuration, that say what is the case (dashboard). The list of what can go wrong,
line by line, is `hazards` in `PROJECT.json`.

## 2. Modules

| Module | Role |
|---|---|
| `NestOrders` | OrdersService and ProductsService, one action per round trip |
| `OrderBook` | what the order endpoints promise, every call atomic |
| `NestOrdersBook` | refinement mapping `NestOrders` → `OrderBook`, and two properties in its terms |
| `NestOrdersProofs` | theorems about `NestOrders`, under overlapping calls and one call at a time |
| `NestOrdersBookProofs` | the refinement, one call at a time, and the composition with the brokers |
| `MCNestOrders` | constants of its instances |
| `FastStock`, `MCFastStock`, `FastStockProofs` | stock rows, sessions, row locks, alerts; constants, and a history of overlaps; theorems |
| `GpsTracking`, `MCGpsTracking`, `GpsTrackingProofs` | tracking service, WebSocket endpoint, POST, in several processes; constants; theorems |
| `WarehouseStorage` | WarehousesService over table `warehouses` |
| `Accounts` | users, companies, tokens and guards |
| `OrderEvents` | an order's event from its publication to queue, log and notifications |
| `OrderPipeline` | `NestOrders` and `OrderEvents` as one process |
| `MCOrderPipeline` | `OrderPipeline` and `GpsTracking` in one instance, and their constants |
| `IgniteCache` | IgniteCacheService under the cache interceptor |
| `RowCache` | FastAPI's rows and their entries in Redis |
| `RouteOptimizer` | the order in which a request's waypoints are visited |
| `Storefront` | cart and checkout in several tabs |
| `ShopPages` | catalogue, product and contact page and the ApiService they ask |
| `DashboardTracking` | the dashboard's page Rastreamento and its sockets |
| `DashboardSettings` | the dashboard's page Configurações |
| `FastServicesProofs` | theorems about `RowCache` and `RouteOptimizer` |
| `NestServicesProofs` | theorems about `WarehouseStorage`, `Accounts`, `IgniteCache` and `OrderEvents` |
| `FrontEndProofs` | theorems about `Storefront`, `ShopPages`, `DashboardTracking`, `DashboardSettings`, and about the ten together |
| `SumTheorems` | sums of functions over finite sets, for the theorems that count units |
| `MCComponents` | the ten later components in one instance, and their constants |
| `MCProgress` | the same with the calls of `FastStock`, for what must eventually happen |

Operators whose comment starts with "Mutant of" are not part of a specification. Each is a
plausible bug of the definition that follows it, kept to show that a property depends on
that definition; `mutants` in `PROJECT.json` pairs them with the properties.

### NestOrders

A request is a process with a program counter; an order is named after the request that
creates it.

- **save.** `repository.save(entity)` of TypeORM 0.3 is a SELECT whose row is compared with
  the entity (`Load`), then an UPDATE of the columns that differ (`Update`). Another request
  may run between the read of the entity, the SELECT and the UPDATE. The decimal price
  columns are read back as strings, so prices assigned from a DTO always count as changed
  (`AlwaysDirty`).
- **create** (`CreateStart`, `CreateRead`/`CreateReject`, `Load`, `Update` for each item,
  then `FreightFails` or `InsertOrder`, `PublishRabbit`/`PublishFails`,
  `EmitKafka`/`EmitFails`). A rejection of a later item leaves the earlier debits in place,
  as the code does.
- **updateStatus** and **cancel** write one column of the order, so their save is one step
  (`StatusSave`, `CancelSave`). cancel then credits the items in the order they were inserted.
- **update**, **remove** are the product endpoints; "restock" is a PATCH of the stock.
  `adjustStock` has no caller. Product create is the initial state: any active product.
- `Crash` kills the process; the tables and the brokers stay.
- Prices are abstract: `Markup` maps a base price to its final price and is assumed
  injective: prices are whole cents, and a markup that does not shrink them keeps different
  base prices apart after rounding (the default is 20%). Freight and totals are left out.
- Left out: RBAC, DTO validation (inputs are valid by construction), listings, the pool.

### FastStock

Every call has its SQLAlchemy session. `mem` holds the entities, `base` the values they were
loaded with, `written` the columns updated and not committed. Autoflush is off; the identity
map is weak, so each item of an order reads its row again, and sees its own session's writes
(`Seen`, `Merge`). An UPDATE carries absolute values and waits for the session holding the
row (`Holders`); `DeadlockAbort` is PostgreSQL's choice of a victim in a circle.
`consume_stock` alerts before its commit, `update_stock` and `create_stock` after it; the
alert test reads Redis and may fail (`AlertCacheFails`). An alert counts as sent when
`check_stock_alert` hands it to the brokers, which never raise. Deleting an order does not
give reservations back. `claims` records what committed orders and reserve calls were
promised and is what the properties compare the rows with.

### GpsTracking

The application runs as several processes over one Redis: `worker` says which one accepts a
socket or a post, any assignment being possible. `registry` is the `_connections` of each
process, `keys` its dictionary entries (a defaultdict: discarding from a missing truck makes an
empty one), `last` and `history` the Redis keys. The sections under `_lock` contain no await
and are one step each; every other await is a boundary, LPUSH (`PushHistory`) and LTRIM
(`TrimHistory`) included. A broadcast takes a snapshot of the sockets of its process
(`audience`), sends to one after the other, and then discards those that raised. `POST
/tracking` stores and broadcasts twice, once by itself and once through
`handle_position_update` (`round`). A Redis error in `connect` escapes `websocket_endpoint` and
leaves the socket registered (`ReadLastFails`); an error while storing a position ends the
update (`CacheFails`); one in the history is logged, skips what is left of it and may come
before or after Redis did what it was asked. Redis keys expire and a process may die
(`ProcessDies`). Positions are identified by their sender and a number; pings and invalid
messages change nothing and are left out, as is table `tracking_events`, which is written
before anything here and read by nothing here.

### WarehouseStorage

As in `NestOrders`, `save` is a SELECT that decides the columns to write (`CompareWarehouse`)
and an UPDATE of those (`SaveWarehouse`). update, remove, allocate and release share the read
(`ReadWarehouse`) and differ in what they do to their copy (`Changed`). A PATCH body is a full
`CreateWarehouseDto`, as `whitelist` validation of that type requires, so it never carries
`capacityUsed`. The quantity of allocate and release does come from the body unchecked
(`warehouses.controller.ts:69`, `:79`), so it may be zero or negative: a negative release fills a
row beyond its capacity and a negative allocation empties it below zero. That it is a number is
assumed. Four history variables: `shrunk` (capacities some UPDATE has lowered), `negated` (rows a
negative quantity has been written to), `overlapped` (rows two calls worked on at once) and
`atomic`, the rows had every call been one step. Prices and addresses are left out.

### Accounts

Both tables in one function `accounts`; `Marks` are e-mails or CNPJs. A call arrives with a
token (`Arrive`), passes JwtStrategy and RolesGuard (`Guard`: both look at the row, not at the
token) and does its reads and writes one by one. `save` of an entity whose row is gone goes on
to INSERT (`CompareAccount`, `InsertRow`), which for a user needs a password, and a user is
read without (`select: false`). For the same reason `Login` does not get past bcrypt, which run
`login` shows: tokens come from `Register` and `Refresh` only. `rightful` notes the calls whose caller has been an
administrator at some moment since they arrived; `contested` the rows removed under a PATCH
able to bring them back.

### IgniteCache

`mode` is decided once, by `ConnectIgnite`. A request is a slot that asks, misses, lets its
handler answer, and stores the answer after the response is out (`Store`, the `tap` of the
interceptor). A failed put falls back to the maps, which nobody reads in Ignite mode. `origin`
is the version of the data behind a URL; `Ttl` counts `Tick`s.

### OrderEvents

Starts where `NestOrders` stops. The channel wrapper keeps what the broker has not confirmed
and sends it again (`Resent`), also when that makes a duplicate. `orders.queue` is durable,
with a TTL after which messages move to the dead-letter queue; a worker acks, requeues or
rejects. On the Kafka side `position` is what the consumer has handled and `committed` what the
group remembers; a rebalance or restart goes back to `committed`, and with nothing committed to the
end of the topic (`fromBeginning: false`): `skipped` has what the consumer passed over that way.
Messages that are not JSON are caught (`Handled`). The list and the sockets belong to the process and go with it.

### OrderPipeline

The process that `NestOrders` and `OrderEvents` describe a half of each. A request is the
publisher of the same name. `Save` is the step where a handler has its row and goes on to build
messages, `Published` the step where the promise of publishOrder or emit settles: what
`NestOrders` leaves open (accepted or failed) happens exactly when `OrderEvents` has the broker
confirm, refuse, append or reject. `HandlerStep` and `BrokerStep` are one side alone; `Restart`
takes both down, and a request is served only once Nest is initialised. `payload` is the order
and status in a request's message, taken at its save. A message stays in `worked` when a worker
has acked it, so "the broker has it" includes what was worked off. Both modules have a variable
`queue`: here it is what handlers take for published, and the broker's is `ordersQueue`.
`behind` is history: the requests that had ended when a request saved.

### RowCache

A row is its version, an entry the version it was written from. Writers commit, refresh and
set, or delete, their keys one by one in the code's order (`SavedKeys`, `DeletedKeys`); the
finance endpoints answer a hit, the others fill whatever they find. PATCH status writes no
entry and the deletion of a truck changes routes through its foreign key (`UnlinkTruck`).
`strayed` collects the rows for whose entries the code does nothing: after an overlap with a
writer, a lost entry write, or one of those two operations.

### RouteOptimizer

One request, which runs alone because its handler awaits nothing; an action is one turn of a
loop (`VisitNearest`, `DropOrigin`). Stops are named by their index in `[origem] + waypoints`,
so that waypoints with the same body stay apart; `IsOrigin` compares bodies, as the list
comprehension does, and `Nearest` takes the first of equal distances, as `min` does.
`unvisited.remove` also compares bodies, and finds the same stop: an equal body before it would
have been the first nearest. A distance is a natural number for each pair of places;
`RouteOptimizerConstants` asks of it what the haversine formula gives up to rounding. A
coordinate that `float` cannot read ends the request (`OrderRaises`). NaN is left out.

### Storefront

One browser, several tabs. Each tab has its cart (`itemsSubject`), all share `stored`
(localStorage), which a tab reads when it opens and overwrites with every change. `pending`
are the orders under way with the question whether the component that sent them is still
there: the answer empties the cart and starts the redirect in either case. `restless` notes
tabs that left a checkout while it was loading, `outdated` those since whose last load or store
another tab has stored: what such a tab stores next wipes out the other's lines.

### ShopPages

One tab. `route` is the component the router shows; leaving it destroys the component, whose
answers then change nothing that is shown, so `Navigate` starts the next one afresh. Every call
of ApiService answers after the delay of its kind: `waiting` is a queue per kind, and nothing
cancels a call. `catalog` asks again with every change of a filter (`Ask`); `detail` and
`contact` wait behind a flag that switches their button off. A freight is named by the arguments
of `calcularFrete`, whose formula is left out; the model shows that it is computed for whatever
is in the quantity field, also below the minimum that `add` enforces. The cart belongs to
`Storefront`: `ShowAdded` is the rest of `add`. `enviarContato` cannot fail as it stands, so the
error callback of the contact page is never run.

### DashboardTracking, DashboardSettings

`DashboardTracking`: a socket has a phase and a maker; only the effect's sockets drive the
badge (`Hears`). React's strict mode runs the effect twice. `/ws/tracking` without a truck
answers with a hint and closes (`SocketTurnedAway`), which the model keeps apart from a
connection that breaks, is refused or is closed by the page (`SocketCloses`). `DashboardSettings`: `config` is the state of a tab, `guardada`
the text in localStorage, `Encoded` what JSON does to NaN. A button that changes and saves in
one event saves the configuration before the change (`SaveConfig(t, FALSE)`).

## 3. Runs

| Run | Instance | What it shows |
|---|---|---|
| `nest_concurrent` | 3 overlapping calls, 1 product, all operations, 1 crash | stock never negative and prices consistent, in every interleaving |
| `nest_serial` | 3 calls one at a time, 2 products, orders of 2 items, 1 crash | implements `OrderBook`; stock is what atomic increments would give |
| `nest_oversell` | 2 overlapping creates | **violated**: two orders are accepted over the same units |
| `nest_double_cancel` | create, cancel, cancel, one at a time | **violated**: the second cancel credits the stock again |
| `fast_concurrent` | 3 orders, reservations, consumptions, overlapping or not, 2 products, 1 crash | until calls overlap, reserved stays within quantity and is exactly what was promised; in every interleaving no reservation leaks from an aborted session and no shortage is silent |
| `fast_overpromise` | 2 overlapping reserve calls | **violated**: both are promised the same units |
| `processes` | orders: a create and a status change, overlapping or not, a foreign message, 1 fault; GPS: a driver, a watcher, a POST on one truck, 2 processes, 1 fault | messages are about orders in the table; what is counted as accepted is held; the topic follows the calls; clients get the last position their process received; the registries are exact; the history keeps its cap |
| `gps_workers` | a watcher in one process, a POST to another, no fault | **violated**: the watcher never hears of the position |
| `components_safety` | the ten later components, one per behaviour, 2 overlapping calls, 1 or 2 tabs, 1 fault | the safety properties below |
| `components_progress` | the three components with liveness properties, 1 fault, and 2 overlapping stock calls, everything but reserve | the liveness properties below |
| `login` | the accounts of `components_safety` | **violated**: the right password is answered with an error |
| `realtime` | the tracking page, sockets served fairly, one reconnect | **violated**: the badge ends in simulation although nothing broke |

The six violated properties state what the repository says of the program; `findings` in
`PROJECT.json` quotes each line:

- `NoOversell` (`orders.controller.ts:39`): read, check and save of the stock are not one step.
- `CancelRestoresOnce` (`orders.controller.ts:58`): `cancel` accepts a cancelled order.
- `NoOverPromise` (`stock_service.py:92`): `reserved_quantity` is written as an absolute value.
- `EveryClientKnowsLast` (`main.py:138`, "broadcast para todos conectados no mesmo truck_id"):
  `_connections` is per process, and there are at least two processes.
- `LoginWorks` (`auth.controller.ts:23`): `login` compares with a password it has not selected.
- `RealTime` (`rastreamento/page.tsx:85`): the page opens the one path FastAPI turns away.

The two `components_` runs check, component by component:

| Component | Property | What it says |
|---|---|---|
| all | `ComponentsTypeOK` | types, and one line per product with its minimum in every cart (`CartWellFormed`) |
| warehouses | `OccupancyInBounds` | for any overlap, a row is over its capacity only after the capacity was lowered or a negative quantity released, and below zero only after a negative one was allocated |
| | `RowIsSequentialUnlessOverlap` | without an overlap a row is what atomic calls leave |
| accounts | `PowerIsCurrent` | an old token gives no power: the caller was an administrator since the call arrived |
| | `RemovedStaysRemoved` | a stale save brings back only rows removed under it, a user only with a new password |
| | `CompanyReferences` | no user refers to a removed company |
| events | `NotificationsFollowLog` | every message the consumer gets to is listed, in the order of the log, despite redelivery; those it does not get to are the ones a join without a committed offset passes over, and they are never listed |
| | `PublishEnds`, `PoisonNeverBlocks` | requests end although the connection breaks; a message that cannot be read stops nothing |
| cache | `EveryGetAnswers`, `StaleExpires` | a cache failure fails no request; in memory mode stale answers die out |
| rows | `EntryFollowsRow` | an entry is its row's unless the row is in `strayed` |
| | `EntriesSettle` | and for every row once it stops changing |
| storefront | `OrderedOnce` | one order per cart, unless the checkout was left |
| | `ClearsWhatWasOrdered` | unless the checkout was left, the answer empties a cart of exactly what was ordered, and localStorage of just that cart, unless another tab has stored since: then that tab's lines are lost, which nobody ordered |
| | `SettledIsLast` | with nothing spinning, no call made before can change what a page shows: it is about the last filters, simulation or message |
| tracking page | `ConnectedIsTrue`, `OneLiveSocket` | the badge is true; sockets do not pile up unless Reconectar is clicked twice |
| settings page | `LagsByOneChange` | localStorage lags behind the tab that saved last by one change at most |
| optimizer | `GreedyTour` | an answer has each waypoint once, and each is a nearest one of those still to come |
| stock | `EveryCallEnds`, `ShortageAlerted` | calls end in spite of lock circles; a shortage any writer leaves is alerted, refilled or deleted |

The components share no variable, so each behaviour exercises the one in `focus`; the states
of the run are the sum of theirs and not the product, and each property reads as that of its
component alone.

**Bounds.** `MaxInFlight`, `MaxItems`, `MaxCrashes`, `MaxUpdates`, `MaxFaults`, `Drivers` and
the sizes of the sets bound the instances; nothing else in the models does. Two overlapping
calls are enough for each read–save race, the third reaches the ones where a stale copy is
saved over a newer stale copy. Two products and two items give a half-done loop, an order
with the same product twice and, in FastStock, circular waits. The initial stock of 2 or 3
with quantities 1 and 2 makes an order exactly fit, exceed by one and leave a rest. One
crash between any two steps is what the safety properties can tell apart: a second one finds
only states the first has made reachable from the start. Two sockets are the least with
which one can disturb the other's registration; two updates (driver and POST) overflow the
history of length 1 and overlap on the last position, in one process or in two: every assignment
of watcher and POST to processes is an initial state, the driver's is called the first. In
`gps_workers` the two calls that cannot hear each other are enough. Quantities of storage are -1,
1 and 2. In the components two
calls overlap, of up to three, which reaches each stale copy; one cached row is enough because
rows meet only in `UnlinkTruck`, which is there without the truck; lifetimes of 1 or 2 ticks tell
an entry that expires between two steps from one that does not. One identifier is left unused
at the start so that creates and registrations happen. `MaxLog` is 3 (an event doubled by a
retry and a message nobody can read), four sockets give a page with strict mode two reconnects
(two in `realtime`, a visit and one reconnect),
and two edits are one more than the lag the settings page allows. Two calls of a page
without an answer (`MaxWaiting`) are the least that can land in the wrong state; two products
that differ in category and in what the search finds give filters with different lists. Three waypoints on a line with two bodies at one place, one of them possibly the origin's, give ties,
repetitions and an origin met again before and after other stops. `SYMMETRY` is used on requests and
products in safety runs only; in `nest_serial` the refinement is a safety formula invariant under it. In `processes` two
requests are the least of which one can publish about the other's order, and `MaxLog` of 2 lets
each be in the topic once, or one twice; the theorems of §4 have no such bound.

**Fairness** is assumed in `components_progress` and `realtime`. For the stock calls
(`StockFairness`): weak fairness of every handler's steps, as the event loop resumes each handler
whose awaited result has arrived, and of PostgreSQL's deadlock resolution. Nobody has to start a
call. The number of calls is finite, so no call is overtaken for ever on a row lock; PostgreSQL
queues waiters, which justifies it beyond the bound.

For the components (`ComponentsFairness`): the event loops run pending callbacks (`ServeReader`,
`PublishStep`, `EachMessage`, `SocketEvent`, `ServeRowCall`), a timeout fires (`ReconnectTimer`), time
passes (`Tick`, `EntryTick`), both broker
clients keep trying to reconnect, which is what amqp-connection-manager and kafkajs do, and
Nest finishes its initialisation. No request, edit, click, fault or settlement by a worker is
fair: nobody has to ask, change or acknowledge anything.

**Deadlock** is checked in all `nest_` and `fast_` runs, whose modules have `AllDone`; in the
others a finished instance may stop.

## 4. Proofs

For every value of the constants, under the named assumptions of the modules (`Markup`
injective, quantities positive, patches well formed, an integer bound for each counter).
Hypotheses beyond those are part of the theorem: `MaxInFlight = 1` is "one call at a time",
`Ops \subseteq ...` says which operations run, and the instances that check the property
satisfy them. They are no convenience: `nest_oversell` and `fast_overpromise` are what
overlapping calls do to the same promises. Every auxiliary invariant was checked by TLC on the instances of the runs before it
was proved.

### Nest orders: `NestOrdersProofs`, `NestOrdersBookProofs`

For any overlap of calls and any crashes:

- `TypeCorrect`. `TypeOK` is not inductive: a loop index may leave its list and a save may
  have no entity unless each control point says what it holds. `ControlOK` adds that.
- `StockNeverNegative`. `StockInv` adds that an entity about to be saved has a stock ≥ 0:
  the copy was tested before it was debited, and other columns of a row never make it
  negative. That is all the code guarantees under concurrency.
- `PriceAlwaysConsistent`. `PriceInv` adds that entities in memory are consistent and that
  the two price columns are dirty together, which needs `Markup` injective: otherwise an
  UPDATE could carry one without the other.
- `NoEventWithoutOrder`. Orders are never deleted (`OrdersStay`), and a call that publishes
  names a row that exists (part of `ControlOK`). No run checks its `NoPhantomEvent` separately:
  `MessagesAreAboutOrders` and `AcceptedIsHeld` of `processes` say more.

One call at a time, with any crashes between its steps:

- `NoSaveLostAlone`, `SoftDeleteAlone`, `CancelAlone`, from `SerialInv`. Its heart is
  `FreshEntity`: the entity between findOne and the UPDATE of `save()` is the row as it is, with
  the change of the handler itself. Then what the UPDATE writes is what an increment would give
  (the ledger), no save revives a deactivated product, and the status a cancel has tested is
  the one it overwrites. Overlapping calls break all
  three. `SoftDeleteIsFinal` and `CancelRespectsShipment` are theorems only, as the book that
  `nest_serial` checks refuses the same steps.
- `SerialCallsAreAtomic`: `NestOrders` implements `OrderBook`. Each call takes effect at
  one step: a create at `InsertOrder` (*Place*), a status change at its `StatusSave`, a cancel
  at `CancelSave`, an edit or a removal at its `Update` of the product; a rejection, a failed
  freight or a crash that leaves debits behind is *Lose*; every other step stutters. The mapping
  shows a shelf that does not see a half-done loop: the units a call has debited and not yet
  sold, or not yet credited, are counted back (`Held`). The step of a create must therefore
  show that the checks *Place* makes at once held when the loop made them one by one and hold
  still: `ChecksHold`, with `OnlyStockChanges` (the saves of the loop leave `active` and the
  minimum alone), `NotYetPlaced` and `CancelsItsItems`. `OnlyOneHolds` reduces the sum over calls
  to the running one.

With the brokers (`OrderPipeline`), for any overlap of calls, disconnections, expiries and restarts:

- `PipelineRunsBoth`. Each joint step is a step of `NestOrders` and one of `OrderEvents`, or
  stutters there: the composition does not restrict one half to what the other half likes.
- `MessagesHaveTheirOrder`, `AcceptedStaysHeld`, `TopicFollowsAnswers`. None is inductive.
  `PublishInv` follows a request while it publishes: before its save nothing of it is at the
  brokers, while it waits its order is in the table, what was sent and not confirmed is at the
  broker, and the message still has the order and status the handler means. Each step of either
  half is reduced to four facts (`SavesNothing`, `MessagesMove`, `LogGrows`, `Accepts`), from which
  `MovesKeep` concludes once for all of them. That the topic follows the calls rests on `DoneStays`:
  a request that has ended emits nothing any more, which is not so with an emit that is given
  up and goes out later.

### FastAPI stock: `FastStockProofs`

- `StockTypes`. No interleaving leaves a column negative or revives a row: `TypeInv` adds that
  a locked row exists and what a session under way holds.
- `NoShortageIsSilent`, for operations that do not write quantities from outside (PUT and POST
  alert after their commit) and minima the seeded rows satisfy. `ShortageInv`: a quantity
  that is flushed and not committed has been alerted already, only consumptions flush one, and a row
  with a lock on it exists, so that the commit neither revives nor misses a row.
- `ReservedStaysWithinQuantity`, without PUT, POST and deletions of orders, and either one call
  at a time or without consumptions. `WholeCopies`: what a commit writes fits as a whole, since
  the columns it does not write have not changed since they were read; a session that
  reserves a product twice sees its own UPDATE.
- `NothingReservedUnpromised`, for any overlap. What a session holds is covered by what has
  been promised so far and by its own grant (`CopiesCovered`): sums of promises only grow. A stale
  copy is thus too low, never too high, which is why overlapping reservations overpromise
  (`fast_overpromise`) and do not leak.
- `SerialReservationsExact`, one call at a time: the copies are exact (`CopiesExact`), as long as a
  consumption has not lowered the row; `NeverRefilled` makes that visible in the quantity.

### FastAPI services: `GpsTrackingProofs`, `FastServicesProofs`

- `TypeCorrect`, for any number of processes, with the cap of the history. That the cap holds but
  for a trim to come is inductive: a push goes on to its trim, and a trim by anybody brings the list
  below the cap. `CountOK` adds that a handler with an update under way has received one.
- `ConnectedStaysRegistered`, `GoneStaysUnregistered`. `SocketsOK` adds that a socket not yet
  connected is in no snapshot, that whatever a broadcast will discard is closed for good, and
  that finished sockets are closed.
- `ClientsAlwaysKnowLast`, within a process. `LastReaches`: each connected client has the last
  position if its process received it, or is about to read it, or holds it for its greeting, or the handler that stored
  it has yet to take its snapshot, or has the client in it. It rests on the registry
  invariant, as a snapshot taken later must contain the client.
- `EntryAlwaysFollowsRow`. The property speaks of rows nobody works on; `CacheInv` says what holds
  in the middle of a call, for rows that have not strayed: who changes a row is alone on it,
  who is about to write an entry has the row as it is (`HoldsRow`), and an entry that does not
  match is one that call will write (`AccountedFor`). It needs that a delete removes every key a
  save of the same table sets (`TableKeys`).
- `RowCacheTypes`. That no row passes its bound of commits is not inductive: two calls may have
  begun to change it. `WithinBounds` counts the commits to come with those made (`RoomFor`), for
  which `RowCalls` must be finite, and says that a call has keys left to write only while it
  writes.
- `AnswersAreGreedyTours`, for any places, bodies and distances. That the
  stops are ordered nearest first (`OrderIsGreedy`) says nothing yet of an answer from which
  some were taken out: the leg that closes a gap was never compared. But the stops taken out have
  the origin's body, and a greedy order visits a stop at distance 0 at once, so everything
  before one of them is where the origin is (`AtOrigin`) and the gap is measured from the same
  place (`KeptIsGreedy`). This is where the two facts about distance are needed.

### Nest services: `NestServicesProofs`

- `StorageTypes`, `OccupancyStaysInBounds`, for integer quantities. `StorageInv` adds what a call holds
  at each step, and `CopyFits`: unless the capacity was lowered, or a negative quantity has been
  written or is about to be, the occupancy any call will write fits it. The test was made on a
  copy, so this needs that capacities read earlier are not larger.
- `SequentialUnlessOverlap`. The property says nothing of calls under way. `AloneExact` does: a
  call alone on its warehouse has the row as it is, changed by its own operation, and will
  write every column that differs.
- `PowerAlwaysCurrent`, `RemovedForGood`, `ReferencesHold` from one invariant, `AccountInv`: a
  call before the guards whose caller is an administrator has been noted; an identifier
  generated for an insertion is nobody else's (`CreatorsAlone`); a removed row that a PATCH can
  insert again has been noted; references are intact. The three belong together: that a stale
  save cannot restore a reference rests on the foreign key being tested again at the write.
- `AccountTypes`, from the same invariant.
- `ResponseTypes`. An answer about to be stored is a version, since the request has been through its
  handler since it missed (`Storing`): the mark of a miss never enters a cache. It supposes that
  there is a URL to ask for.
- `EventTypes`. `EventParts` adds to the two invariants below what the brokers and the gateway hold,
  and that no log passes its bound; that a listed offset is one of the log's is `NotesInv`'s.
- `ConfirmedNeverLost`. `SentHeld`: what the wrapper waits to see confirmed is somewhere at the
  broker, and every move of a message ends in another place of the broker. No run checks
  `ConfirmedDurable` separately: `AcceptedIsHeld` of `processes` is the same seen from the
  handlers, which know what they meant to say.
- `NotificationsInLogOrder`. Redelivery puts old messages behind newer ones in the list, so
  only first occurrences are in order. `NotesInv` places the offsets (a consumer starts at most at
  `highest`, or at the end of the log when nothing is committed, and then `skipped` has what lies
  between) and says that before any occurrence of a message the list has every readable one of
  its partition below it that was not skipped.

### Front ends: `FrontEndProofs`

- `BadgeIsAlwaysTrue`, `AlwaysOneLiveSocket`. `RaisedByEffect`: the badge was raised by a socket of
  the effect that is still open, which sockets of Reconectar cannot lower or raise; `LiveIsRef`:
  the live socket is the one `wsRef` holds, and there is none while a timeout is pending.
  `SocketsSuffice` keeps every new socket a new one.
- `CartsStayWellFormed`, `CartsOrderedOnce`, `AnswerClearsTheOrder` from `StoreInv`. Its part
  `OneOrderShown`: unless the checkout was left while it was loading, an order on the way is the
  only one, its component is the one shown, with the button off, and the cart is still what was
  sent. For localStorage `InStep`: a tab that is not outdated holds what is stored. The theorem
  names the other case, in which the answer wipes out another tab's lines.
- `PagesSettle`. `PagesInv` says what holds while something is on its way: the last question the
  catalogue has asked is about the filters it shows, and a freight or a message is waited for
  exactly while its flag is up, one at most.
- `SavesLagByOneChange`. `SettingsInv` adds the types of form and history, which say what the next
  save writes.
- `SettingsTypes`, `StorefrontTypes`, `TrackingTypes`, `PageTypes`, from these invariants and, for the
  settings page, what its toasts say (`ToastsTyped`).

The ten components side by side (`MCComponents`):

- `EachComponentRuns`. A step of the composition is a step of the component in focus and a stutter of
  the other nine, so each of them behaves as its own specification says. The theorems about single
  components are therefore about the specification the runs `components_*` check.
- `ComponentsTypes`, from that and the inductive invariants of the ten (`EachHolds`).

### What the proofs rest on

`SumTheorems` has the sums over finite sets that "units" of the models are. The library's
induction takes an operator as its parameter and cannot be used; the sizes of sets are covered by
an argument by a least counterexample instead (`SizeInduction`, from `LeastNumber`), in which
the set of good sizes is a constant and not an operator. The definitions that sum are functions
and folds, so that nothing here is RECURSIVE.

### Only model-checked

- Liveness (`EveryCallEnds`, `ShortageAlerted`, `PublishEnds`, `PoisonNeverBlocks`,
  `EveryGetAnswers`, `StaleExpires`, `EntriesSettle`) and everything about
  ENABLED, which the prover does not do. `IgniteCache` promises nothing else.
- Refinement under overlap: `ImplementsOrderBook` is proved, and checked, one call at a time only.
  With overlapping calls the code does not implement the atomic book (`nest_oversell`).
- `WithinQuantityUntilOverlap` and `ExactUntilOverlap` as such: the theorems say the same of one call at a
  time, as a hypothesis instead of a history.
- The six violated properties have traces, not proofs.

## 5. Not modelled

- The rest of FastAPI's route optimizer (ETA, freight, hours of a route) is one formula over
  decimals each.
- FastAPI's broker clients: publish reports False instead of raising and no caller looks.
- Django's reports, the remaining pages of the two front ends (they show constant tables, filtered
  as they are drawn) and the mock login, which no page calls, keep no state that a sequence of
  calls could spoil. Infrastructure is deployment.
- Status transitions of trucks and routes: the code checks none, so every order is possible.
- A WebSocket send that blocks on a client which does not read depends on buffers outside the
  program. It is recorded as a hazard, like Ignite entries without expiry and a start that waits
  for RabbitMQ without limit: there the code makes no promise that could be checked.
- Bodies of allocate and release whose quantity is no number, which JavaScript adds as text.
- Two status changes of one order that overlap: `updateStatus` saves and then emits with nothing
  that keeps the calls in order, so the last event in Kafka may carry an older status than the row,
  although `docs/ARQUITETURA.md:197` has Kafka "ordenado por key". `LogFollowsAnswers` is what does
  hold: calls one of which has ended before the other saves.
- The fallback of the route optimizer. `route_optimizer.py:119` counts a leg without lat/lng as 0,
  but `optimize_route_order` has read the same coordinates before, where nothing catches: with two
  waypoints or more the request ends with an error. The model does so too (`OrderRaises`); there is
  no promise to check, only a comment that two lines of the code would have to share.

## 6. Plan

The plan of modules and theorems is done. What would come next:

1. `ReservedWithinQuantity` of `FastStock` with consumptions that overlap: which of its columns
   can still be promised then.
