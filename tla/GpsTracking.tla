---------------------------- MODULE GpsTracking ----------------------------
(***************************************************************************)
(* Realtime tracking of backend-fastapi: GPSService, its WebSocket endpoint  *)
(* and POST /tracking.  Every await is a step.  The sections under           *)
(* GPSService._lock hold no await, so each is a step of its own.             *)
(*                                                                         *)
(* Brokers are fire-and-forget (publish never raises) and only delay the     *)
(* broadcast.  Table tracking_events is written before anything modelled     *)
(* here and is not part of the model; an update is named after the handler   *)
(* that received it and its position among those of that handler.            *)
(*                                                                         *)
(* The application runs as several processes (uvicorn --workers 2, two        *)
(* replicas in Kubernetes) over one Redis.  Each has a GPSService, and so a   *)
(* registry, of its own.                                                    *)
(***************************************************************************)
EXTENDS Naturals, Sequences

CONSTANTS
    Workers,      \* processes of the application
    Trucks,
    GpsSockets,   \* WebSocket connections, each used once
    Drivers,      \* bound: sockets whose client sends positions, the others only watch
    Posts,        \* POST /tracking calls that carry a truck
    Truck,        \* the truck of every socket and post
    HistoryMax,   \* length of the Redis history (100 in the code)
    MaxUpdates,   \* bound: positions a driver sends
    MaxGpsFaults  \* bound: failing Redis calls, expired keys and crashes together

Handlers == GpsSockets \cup Posts
NoFix == [by |-> "none", n |-> 0]
Fix == [by : Handlers, n : 1..MaxUpdates]

ASSUME TrackingConstants ==
    /\ GpsSockets \cap Posts = {} /\ Drivers \subseteq GpsSockets
    /\ Truck \in [Handlers -> Trucks]
    /\ HistoryMax \in Nat \ {0} /\ MaxUpdates \in Nat \ {0}
    /\ MaxGpsFaults \in Nat

VARIABLES
    worker,    \* the process that accepts a socket or post, fixed from the start
    registry,  \* _connections of each process: sockets of each truck
    keys,      \* trucks _connections has an entry for, empty ones included
    last,      \* Redis tracking:truck:<id>
    history,   \* Redis tracking:history:<id>, newest first
    gpsPc,
    count,     \* updates received by each handler
    round,     \* a post broadcasts twice: on its own, then in handle_position_update
    audience,  \* snapshot of a broadcast: sockets still to be sent to
    failed,    \* sockets of the snapshot a send has raised for
    open,      \* the client has its end of the socket open
    held,      \* last position read for the greeting of a socket
    got,       \* positions each client has been sent
    failures,  \* Redis calls that have failed
    losses     \* expiries and crashes so far

redis == <<last, history>>
connections == <<registry, keys>>
casting == <<audience, failed>>
clients == <<open, held, got>>
gpsVars ==
    <<worker, connections, redis, gpsPc, count, round, casting, clients, failures, losses>>

---------------------------------------------------------------------------
Enter(h, step) == gpsPc' = [gpsPc EXCEPT ![h] = step]
MayFault == failures + losses < MaxGpsFaults
Received(h) == [by |-> h, n |-> count[h]]

\* What a handler finds in _connections: the sockets of its own process and truck.
Connected(h) == registry[worker[h]][Truck[h]]

\* Mutant of Unregistered: the truck's whole entry goes.
UnregisteredAll(s) == [registry EXCEPT ![worker[s]][Truck[s]] = {}]

\* Removing a socket in disconnect: the entry goes with its last socket.
Unregistered(s) == [registry EXCEPT ![worker[s]][Truck[s]] = @ \ {s}]
KeysWithout(s) ==
    IF Connected(s) = {s} THEN [keys EXCEPT ![worker[s]] = @ \ {Truck[s]}] ELSE keys

GpsInit ==
    /\ worker \in [Handlers -> Workers]
    /\ registry = [w \in Workers |-> [t \in Trucks |-> {}]]
    /\ keys = [w \in Workers |-> {}]
    /\ last = [t \in Trucks |-> NoFix]
    /\ history = [t \in Trucks |-> <<>>]
    /\ gpsPc = [h \in Handlers |-> "new"]
    /\ count = [h \in Handlers |-> 0]
    /\ round = [h \in Handlers |-> 2]
    /\ audience = [h \in Handlers |-> {}]
    /\ failed = [h \in Handlers |-> {}]
    /\ open = [s \in GpsSockets |-> FALSE]
    /\ held = [s \in GpsSockets |-> NoFix]
    /\ got = [s \in GpsSockets |-> {}]
    /\ failures = 0 /\ losses = 0

(***************************************************************************)
(* connect: accept, register, read the last position, send it.              *)
(***************************************************************************)
Connect(s) ==
    /\ gpsPc[s] = "new"
    /\ open' = [open EXCEPT ![s] = TRUE]
    /\ registry' = [registry EXCEPT ![worker[s]][Truck[s]] = @ \cup {s}]
    /\ keys' = [keys EXCEPT ![worker[s]] = @ \cup {Truck[s]}]
    /\ Enter(s, "greet")
    /\ UNCHANGED <<redis, count, round, casting, held, got, failures, losses>>

ReadLast(s) ==
    /\ gpsPc[s] = "greet"
    /\ held' = [held EXCEPT ![s] = last[Truck[s]]]
    /\ Enter(s, "greeting")
    /\ UNCHANGED <<connections, redis, count, round, casting, open, got, failures, losses>>

\* connect is outside the try of websocket_endpoint: when Redis raises, the server
\* closes the socket and nobody takes it out of the registry.
ReadLastFails(s) ==
    /\ gpsPc[s] = "greet" /\ MayFault
    /\ failures' = failures + 1
    /\ open' = [open EXCEPT ![s] = FALSE]
    /\ Enter(s, "gone")
    /\ UNCHANGED <<connections, redis, count, round, casting, held, got, losses>>

\* A failing send is swallowed.
Greet(s) ==
    /\ gpsPc[s] = "greeting"
    /\ got' = IF open[s] /\ held[s] # NoFix
              THEN [got EXCEPT ![s] = @ \cup {held[s]}] ELSE got
    /\ held' = [held EXCEPT ![s] = NoFix]
    /\ Enter(s, "loop")
    /\ UNCHANGED <<connections, redis, count, round, casting, open, failures, losses>>

ClientCloses(s) ==
    /\ open[s]
    /\ open' = [open EXCEPT ![s] = FALSE]
    /\ UNCHANGED <<connections, redis, gpsPc, count, round, casting, held, got, failures, losses>>

\* Mutant of Disconnect: only the handler of WebSocketDisconnect cleans up, a failed
\* ack does not.
DisconnectUnlessAck(s) ==
    /\ gpsPc[s] \in {"loop", "ack"} /\ ~open[s]
    /\ IF gpsPc[s] = "ack" THEN UNCHANGED connections
       ELSE registry' = Unregistered(s) /\ keys' = KeysWithout(s)
    /\ Enter(s, "gone")
    /\ UNCHANGED <<redis, count, round, casting, clients, failures, losses>>

\* receive_text or a reply raises: websocket_endpoint calls disconnect and ends.
Disconnect(s) ==
    /\ gpsPc[s] \in {"loop", "ack"} /\ ~open[s]
    /\ registry' = Unregistered(s)
    /\ keys' = KeysWithout(s)
    /\ Enter(s, "gone")
    /\ UNCHANGED <<redis, count, round, casting, clients, failures, losses>>

(***************************************************************************)
(* An update: from the socket of a driver, or by POST.  Pings and messages   *)
(* that are not valid positions are answered and change nothing.  What a     *)
(* driver has sent before it left may still be read.                         *)
(***************************************************************************)
Receive(s) ==
    /\ s \in Drivers /\ gpsPc[s] = "loop" /\ count[s] < MaxUpdates
    /\ count' = [count EXCEPT ![s] = @ + 1]
    /\ Enter(s, "cache")
    /\ UNCHANGED <<connections, redis, round, casting, clients, failures, losses>>

Post(p) ==
    /\ gpsPc[p] = "new"
    /\ count' = [count EXCEPT ![p] = 1]
    /\ round' = [round EXCEPT ![p] = 1]
    /\ Enter(p, "cache")
    /\ UNCHANGED <<connections, redis, casting, clients, failures, losses>>

CacheLast(h) ==
    /\ gpsPc[h] = "cache"
    /\ last' = [last EXCEPT ![Truck[h]] = Received(h)]
    /\ Enter(h, IF round[h] = 1 THEN "cast" ELSE "push")
    /\ UNCHANGED <<connections, history, count, round, casting, clients, failures, losses>>

\* set_tracking raises, whether or not Redis has stored the value: the socket is
\* sent an error, the post answers 500; nothing is broadcast any more.
CacheFails(h) ==
    /\ gpsPc[h] = "cache" /\ MayFault
    /\ failures' = failures + 1
    /\ last' \in {last, [last EXCEPT ![Truck[h]] = Received(h)]}
    /\ Enter(h, IF h \in GpsSockets THEN "loop" ELSE "done")
    /\ UNCHANGED <<connections, history, count, round, casting, clients, losses>>

\* LPUSH.  When it fails, which is only logged, Redis may have pushed nonetheless, and
\* LTRIM is skipped.  Then the brokers, see above.
PushHistory(h) ==
    LET longer == [history EXCEPT ![Truck[h]] = <<Received(h)>> \o @] IN
    /\ gpsPc[h] = "push"
    /\ \/ history' = longer /\ Enter(h, "trim") /\ UNCHANGED failures
       \/ /\ MayFault
          /\ failures' = failures + 1
          /\ history' \in {history, longer}
          /\ Enter(h, "cast")
    /\ UNCHANGED <<connections, last, count, round, casting, clients, losses>>

\* Mutant of Trimmed: LTRIM 0 100, which keeps one position too many.
TrimmedLate(fixes) ==
    IF Len(fixes) > HistoryMax THEN SubSeq(fixes, 1, HistoryMax + 1) ELSE fixes

Trimmed(fixes) == IF Len(fixes) > HistoryMax THEN SubSeq(fixes, 1, HistoryMax) ELSE fixes

\* LTRIM, by then of whatever the list has become; a failure is only logged.  EXPIRE,
\* the next await, renews a TTL and nothing else.
TrimHistory(h) ==
    LET shorter == [history EXCEPT ![Truck[h]] = Trimmed(@)] IN
    /\ gpsPc[h] = "trim"
    /\ \/ history' = shorter /\ UNCHANGED failures
       \/ /\ MayFault
          /\ failures' = failures + 1
          /\ history' \in {history, shorter}
    /\ Enter(h, "cast")
    /\ UNCHANGED <<connections, last, count, round, casting, clients, losses>>

(***************************************************************************)
(* broadcast: a snapshot of the sockets of this process, one send after the   *)
(* other, then the sockets whose send raised are discarded.                   *)
(***************************************************************************)
CastStart(h) ==
    /\ gpsPc[h] = "cast"
    /\ audience' = [audience EXCEPT ![h] = Connected(h)]
    /\ Enter(h, "send")
    /\ UNCHANGED <<connections, redis, count, round, failed, clients, failures, losses>>

Delivered(s, fix) ==
    got' = IF open[s] THEN [got EXCEPT ![s] = @ \cup {fix}] ELSE got

\* Mutant of Send: the first send that raises ends the broadcast.
SendUntilFailure(h) ==
    /\ gpsPc[h] = "send"
    /\ \E s \in audience[h] :
          \/ /\ audience' = [audience EXCEPT ![h] = @ \ {s}]
             /\ Delivered(s, Received(h))
             /\ UNCHANGED failed
          \/ /\ ~open[s]
             /\ audience' = [audience EXCEPT ![h] = {}]
             /\ failed' = [failed EXCEPT ![h] = @ \cup {s}]
             /\ UNCHANGED got
    /\ UNCHANGED <<connections, redis, gpsPc, count, round, open, held, failures, losses>>

\* A send to a client that has left may raise, or vanish in a buffer.
Send(h) ==
    /\ gpsPc[h] = "send"
    /\ \E s \in audience[h] :
          /\ audience' = [audience EXCEPT ![h] = @ \ {s}]
          /\ \/ Delivered(s, Received(h)) /\ UNCHANGED failed
             \/ ~open[s] /\ failed' = [failed EXCEPT ![h] = @ \cup {s}] /\ UNCHANGED got
    /\ UNCHANGED <<connections, redis, gpsPc, count, round, open, held, failures, losses>>

\* _connections is a defaultdict: discarding from a truck without an entry makes an
\* empty one.
CastEnd(h) ==
    /\ gpsPc[h] = "send" /\ audience[h] = {}
    /\ registry' = [registry EXCEPT ![worker[h]][Truck[h]] = @ \ failed[h]]
    /\ keys' = IF failed[h] = {} THEN keys
               ELSE [keys EXCEPT ![worker[h]] = @ \cup {Truck[h]}]
    /\ failed' = [failed EXCEPT ![h] = {}]
    /\ round' = [round EXCEPT ![h] = 2]
    /\ Enter(h, IF round[h] = 1 THEN "cache" ELSE IF h \in GpsSockets THEN "ack" ELSE "done")
    /\ UNCHANGED <<redis, count, audience, clients, failures, losses>>

\* The ack to the driver; a driver that has left may also get here (see Disconnect).
Ack(s) ==
    /\ gpsPc[s] = "ack"
    /\ Enter(s, "loop")
    /\ UNCHANGED <<connections, redis, count, round, casting, clients, failures, losses>>

---------------------------------------------------------------------------
\* The TTLs of the two Redis keys.
Expire ==
    /\ MayFault
    /\ losses' = losses + 1
    /\ \E t \in Trucks :
          \/ last[t] # NoFix /\ last' = [last EXCEPT ![t] = NoFix] /\ UNCHANGED history
          \/ history[t] # <<>> /\ history' = [history EXCEPT ![t] = <<>>] /\ UNCHANGED last
    /\ UNCHANGED <<connections, gpsPc, count, round, casting, clients, failures>>

\* A process dies: its sockets close and its registry is lost; Redis and the other
\* processes go on.
Dies(w, h) == worker[h] = w /\ gpsPc[h] # "new"
ProcessDies(w) ==
    /\ MayFault
    /\ losses' = losses + 1
    /\ registry' = [registry EXCEPT ![w] = [t \in Trucks |-> {}]]
    /\ keys' = [keys EXCEPT ![w] = {}]
    /\ gpsPc' = [h \in Handlers |-> IF ~Dies(w, h) THEN gpsPc[h]
                                 ELSE IF h \in GpsSockets THEN "gone" ELSE "done"]
    /\ round' = [h \in Handlers |-> IF Dies(w, h) THEN 2 ELSE round[h]]
    /\ audience' = [h \in Handlers |-> IF Dies(w, h) THEN {} ELSE audience[h]]
    /\ failed' = [h \in Handlers |-> IF Dies(w, h) THEN {} ELSE failed[h]]
    /\ open' = [s \in GpsSockets |-> open[s] /\ ~Dies(w, s)]
    /\ held' = [s \in GpsSockets |-> IF Dies(w, s) THEN NoFix ELSE held[s]]
    /\ UNCHANGED <<redis, count, got, failures>>

HandleUpdate(h) ==
    \/ CacheLast(h) \/ CacheFails(h) \/ PushHistory(h) \/ TrimHistory(h)
    \/ CastStart(h) \/ Send(h) \/ CastEnd(h)

Serve(s) == ReadLast(s) \/ ReadLastFails(s) \/ Greet(s) \/ Disconnect(s) \/ Ack(s) \/ HandleUpdate(s)

GpsNext ==
    /\ \/ \E s \in GpsSockets : Connect(s) \/ Receive(s) \/ ClientCloses(s) \/ Serve(s)
       \/ \E p \in Posts : Post(p) \/ HandleUpdate(p)
       \/ Expire \/ \E w \in Workers : ProcessDies(w)
    /\ UNCHANGED worker

GpsSpec == GpsInit /\ [][GpsNext]_gpsVars

---------------------------------------------------------------------------
(* Properties. *)

SocketSteps == {"new", "greet", "greeting", "loop", "cache", "push", "trim",
                "cast", "send", "ack", "gone"}
PostSteps == {"new", "cache", "push", "trim", "cast", "send", "done"}

\* The history is over its cap only while the LTRIM of a push is still to come: of
\* overlapping pushes and trims the last is a trim.  (A failed LTRIM or a process that
\* died before it leaves one position more until the next update.)
HistoryCapped ==
    failures + losses = 0 =>
        \A t \in Trucks : Len(history[t]) > HistoryMax
            => \E h \in Handlers : Truck[h] = t /\ gpsPc[h] = "trim"

\* Types, and the cap of the history.
GpsTypeOK ==
    /\ worker \in [Handlers -> Workers]
    /\ registry \in [Workers -> [Trucks -> SUBSET GpsSockets]]
    /\ keys \in [Workers -> SUBSET Trucks]
    /\ last \in [Trucks -> Fix \cup {NoFix}]
    /\ history \in [Trucks -> Seq(Fix)]
    /\ HistoryCapped
    /\ gpsPc \in [Handlers -> SocketSteps \cup PostSteps]
    /\ \A s \in GpsSockets : gpsPc[s] \in SocketSteps
    /\ \A p \in Posts : gpsPc[p] \in PostSteps
    /\ count \in [Handlers -> 0..MaxUpdates]
    /\ round \in [Handlers -> {1, 2}]
    /\ audience \in [Handlers -> SUBSET GpsSockets]
    /\ failed \in [Handlers -> SUBSET GpsSockets]
    /\ open \in [GpsSockets -> BOOLEAN]
    /\ held \in [GpsSockets -> Fix \cup {NoFix}]
    /\ got \in [GpsSockets -> SUBSET Fix]
    /\ failures \in 0..MaxGpsFaults /\ losses \in 0..MaxGpsFaults

\* No update of the truck is between its SET in Redis and the end of its broadcast.
Settled(t) ==
    \A h \in Handlers : Truck[h] = t => gpsPc[h] \notin {"push", "trim", "cast", "send"}

\* Connected, past its greeting, and its truck has a position.
Greeted(s) ==
    /\ gpsPc[s] \notin {"new", "greet", "greeting", "gone"} /\ open[s]
    /\ last[Truck[s]] # NoFix

\* Within a process: between updates, every greeted client has been sent the last
\* position if its process received it, by a broadcast or by its greeting, however
\* connecting and broadcasting overlap (as long as no Redis call has failed).
ClientsKnowLast ==
    failures = 0 =>
        \A s \in GpsSockets :
            /\ Greeted(s) /\ Settled(Truck[s])
            /\ worker[last[Truck[s]].by] = worker[s]
            => last[Truck[s]] \in got[s]

\* "broadcast para todos conectados no mesmo truck_id": the same of every client of the
\* truck, whichever process it is connected to.
EveryClientKnowsLast ==
    failures + losses = 0 =>
        \A s \in GpsSockets : Greeted(s) /\ Settled(Truck[s]) => last[Truck[s]] \in got[s]

\* A connected client is always in the registry of its process: no disconnect or
\* clean-up of another socket, and no broadcast that overlaps one, takes it out.
ConnectedIsRegistered ==
    \A s \in GpsSockets : open[s] => s \in Connected(s) /\ Truck[s] \in keys[worker[s]]

\* A finished endpoint leaves nothing behind: no broadcast whose snapshot still had the
\* socket brings it back.  (Unless its greeting failed: see ReadLastFails.)
GoneIsUnregistered ==
    failures = 0 => \A s \in GpsSockets : gpsPc[s] = "gone" => s \notin Connected(s)
============================================================================
