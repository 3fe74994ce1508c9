------------------------- MODULE DashboardTracking --------------------------
(***************************************************************************)
(* The sockets and the badge of the dashboard's page Rastreamento.           *)
(*                                                                         *)
(* The page opens one socket when it mounts (two under React's strict mode,  *)
(* the first closed at once) and lets it drive `connected`.  Reconectar       *)
(* closes the socket wsRef holds and opens another 500 ms later, which only   *)
(* writes the log.  All of them go to /ws/tracking, where FastAPI accepts,    *)
(* says which path to use instead and closes.                               *)
(*                                                                         *)
(* Left out: vehicles, their simulated movement, and the text of the log.     *)
(***************************************************************************)
EXTENDS Integers, FiniteSets

CONSTANT MaxSockets   \* bound: sockets one visit of the page opens

ASSUME TrackingConstants == MaxSockets \in Nat \ {0, 1}

PageSockets == 1..MaxSockets

VARIABLES
    shown,       \* the page: "before", "shown" or "gone"
    strict,      \* effects run twice (development build)
    usable,      \* the WebSocket constructor accepts the configured URL
    connected,   \* the badge
    wsRef,       \* socket the reference holds; 0: null
    phase,       \* of each socket, as the browser sees it
    maker,       \* "effect" or "reconnect"
    timers,      \* pending timeouts of Reconectar
    hurried   \* history: Reconectar was clicked while a timeout was pending

trackingVars == <<shown, strict, usable, connected, wsRef, phase, maker, timers, hurried>>

---------------------------------------------------------------------------
Live(s) == phase[s] \in {"connecting", "open", "told"}
Used == {s \in PageSockets : phase[s] # "unused"}

\* close(): the closing handshake starts unless it already has.
Closed(ph, s) == IF ph[s] \in {"connecting", "open", "told"}
                   THEN [ph EXCEPT ![s] = "closing"] ELSE ph

\* The handlers that touch the badge are those of the effect's sockets.
Hears(s) == shown = "shown" /\ maker[s] = "effect"

TrackingInit ==
    /\ shown = "before" /\ strict \in BOOLEAN /\ usable \in BOOLEAN
    /\ connected = FALSE /\ wsRef = 0
    /\ phase = [s \in PageSockets |-> "unused"]
    /\ maker = [s \in PageSockets |-> "effect"]
    /\ timers = 0 /\ hurried = FALSE

\* The effect; strict mode runs it, its cleanup and the effect again.
MountTracking ==
    /\ shown = "before"
    /\ shown' = "shown"
    /\ IF usable
         THEN LET mine == IF strict THEN 2 ELSE 1 IN
              /\ phase' = [s \in PageSockets |-> IF s = mine THEN "connecting"
                                                 ELSE IF s < mine THEN "closing" ELSE "unused"]
              /\ wsRef' = mine
         ELSE UNCHANGED <<phase, wsRef>>
    /\ UNCHANGED <<strict, usable, connected, maker, timers, hurried>>

SocketOpens(s) ==
    /\ phase[s] = "connecting"
    /\ phase' = [phase EXCEPT ![s] = "open"]
    /\ connected' = (connected \/ Hears(s))
    /\ UNCHANGED <<shown, strict, usable, wsRef, maker, timers, hurried>>

\* The message "Use /ws/tracking/{truck_id}"; any message sets the badge.
SocketTold(s) ==
    /\ phase[s] = "open"
    /\ phase' = [phase EXCEPT ![s] = "told"]
    /\ connected' = (connected \/ Hears(s))
    /\ UNCHANGED <<shown, strict, usable, wsRef, maker, timers, hurried>>

\* Mutant of OnClose: createTrackingSocket's own handler, which only logs, stays.
OnCloseLogs(s) == connected

\* onerror and onclose of the page.
OnClose(s) == connected /\ ~Hears(s)

\* ws_tracking_generic closes after its message: 1008.
SocketTurnedAway(s) ==
    /\ phase[s] = "told"
    /\ phase' = [phase EXCEPT ![s] = "turned"]
    /\ connected' = OnClose(s)
    /\ UNCHANGED <<shown, strict, usable, wsRef, maker, timers, hurried>>

\* The connection breaks or is refused, or the handshake the page began ends.
SocketCloses(s) ==
    /\ Live(s) \/ phase[s] = "closing"
    /\ phase' = [phase EXCEPT ![s] = "closed"]
    /\ connected' = OnClose(s)
    /\ UNCHANGED <<shown, strict, usable, wsRef, maker, timers, hurried>>

\* Mutant of AfterClick: the badge waits for the close event.
AfterClickWaits == connected

AfterClick == FALSE

\* Mutant of RefClosed: the button opens a socket without closing the one before.
RefClosedNot == phase

RefClosed == IF wsRef = 0 THEN phase ELSE Closed(phase, wsRef)

Reconectar ==
    /\ shown = "shown" /\ Cardinality(Used) + timers < MaxSockets
    /\ phase' = RefClosed
    /\ connected' = AfterClick
    /\ timers' = timers + 1
    /\ hurried' = (hurried \/ timers > 0)
    /\ UNCHANGED <<shown, strict, usable, wsRef, maker>>

\* The timeout is not cleared when the page goes.
ReconnectTimer ==
    /\ timers > 0
    /\ timers' = timers - 1
    /\ IF usable
         THEN LET s == Cardinality(Used) + 1 IN
              /\ phase' = [phase EXCEPT ![s] = "connecting"]
              /\ maker' = [maker EXCEPT ![s] = "reconnect"]
              /\ wsRef' = s
         ELSE UNCHANGED <<phase, maker, wsRef>>
    /\ UNCHANGED <<shown, strict, usable, connected, hurried>>

\* The effect's cleanup closes the effect's socket, not the one of wsRef.
UnmountTracking ==
    /\ shown = "shown"
    /\ shown' = "gone"
    /\ phase' = IF usable THEN Closed(phase, IF strict THEN 2 ELSE 1) ELSE phase
    /\ UNCHANGED <<strict, usable, connected, wsRef, maker, timers, hurried>>

SocketEvent ==
    \E s \in PageSockets :
       SocketOpens(s) \/ SocketTold(s) \/ SocketTurnedAway(s) \/ SocketCloses(s)

TrackingNext == MountTracking \/ SocketEvent \/ Reconectar \/ ReconnectTimer \/ UnmountTracking

\* FastAPI and the browser finish every connection that was begun; timeouts fire.
TrackingFairness == WF_trackingVars(SocketEvent) /\ WF_trackingVars(ReconnectTimer)

TrackingSpec == TrackingInit /\ [][TrackingNext]_trackingVars /\ TrackingFairness

---------------------------------------------------------------------------
(* Types; the sockets are opened in order. *)
TrackingTypeOK ==
    /\ shown \in {"before", "shown", "gone"}
    /\ strict \in BOOLEAN /\ usable \in BOOLEAN /\ connected \in BOOLEAN
    /\ wsRef \in Used \cup {0}
    /\ phase \in [PageSockets -> {"unused", "connecting", "open", "told", "turned",
                             "closing", "closed"}]
    /\ maker \in [PageSockets -> {"effect", "reconnect"}]
    /\ timers \in 0..MaxSockets /\ hurried \in BOOLEAN
    /\ Used = 1..Cardinality(Used)

(* The badge says connected only while a socket is open, although handlers    *)
(* of sockets closed before keep running and set it too.                     *)
ConnectedIsTrue ==
    shown = "shown" /\ connected => \E s \in PageSockets : phase[s] \in {"open", "told"}

(* A page has one socket going at a time, and leaves at most one behind, as   *)
(* long as Reconectar is not clicked twice within its timeout.               *)
OneLiveSocket ==
    hurried \/ \A s, u \in PageSockets : Live(s) /\ Live(u) => s = u

(* "Tempo real via WebSocket FastAPI": on a page that stays open, with a URL   *)
(* the browser accepts and no connection broken, refused or closed by the      *)
(* page, the badge ends at connected.  It does not: the path the page uses is  *)
(* the one FastAPI turns away.                                              *)
RealTime ==
    <>[](shown = "shown" /\ usable /\ (\A s \in PageSockets : phase[s] # "closed") => connected)
===========================================================================
