---------------------------- MODULE RouteOptimizer ----------------------------
(***************************************************************************)
(* POST /routes/optimize/custom of backend-fastapi: RouteOptimizer.optimize   *)
(* over the points of a body.  The handler awaits nothing, so it runs alone;  *)
(* a step is one turn of a loop.                                             *)
(*                                                                         *)
(* optimize_route_order visits the nearest unvisited stop, again and again,    *)
(* starting at the origin, which optimize then takes out of the list by        *)
(* comparing bodies.  A stop is named by its index in [origem] + waypoints,    *)
(* so that equal bodies stay apart.                                         *)
(***************************************************************************)
EXTENDS Integers, Sequences

CONSTANTS
    Places,        \* positions, as a lat and a lng that float() reads
    Points,        \* bodies of points
    HaversineKm,   \* distance of two positions, in any unit
    MaxWaypoints   \* bound: waypoints of a request

\* "unreadable": lat and lng are there, float() raises.  "missing": one is not there.
Point == [name : STRING, place : Places \cup {"unreadable", "missing"}]

\* What the formula gives up to rounding: a position is at distance 0 from itself, two
\* positions at distance 0 are as far from every third.
ASSUME RouteOptimizerConstants ==
    /\ Places \cap {"unreadable", "missing"} = {}
    /\ Points \subseteq Point
    /\ HaversineKm \in [Places -> [Places -> Nat]]
    /\ \A a \in Places : HaversineKm[a][a] = 0
    /\ \A a, b, c \in Places : HaversineKm[a][b] = 0 => HaversineKm[a][c] = HaversineKm[b][c]
    /\ MaxWaypoints \in Nat

VARIABLES
    stage,       \* "new", "order", "drop", or the answer: "refused", "error", "answered"
    trip,        \* origem, destino and waypoints of the body
    ordered,     \* stops in the order of optimize_route_order
    unvisited,
    optimized,   \* stops of optimized_waypoints
    looked       \* stops of ordered the comprehension has looked at

optimizerVars == <<stage, trip, ordered, unvisited, optimized, looked>>

Bodies == [origem : Points, destino : Points, waypoints : UNION {[1..n -> Points] : n \in 0..MaxWaypoints}]

---------------------------------------------------------------------------
Stops == 1..(Len(trip.waypoints) + 1)
Stop(i) == IF i = 1 THEN trip.origem ELSE trip.waypoints[i - 1]
Km(i, j) == HaversineKm[Stop(i).place][Stop(j).place]

\* Both are there in every point of the body.
HasLatLng(p) == p.place # "missing"
AllPointsChecked ==
    /\ HasLatLng(trip.origem) /\ HasLatLng(trip.destino)
    /\ \A i \in DOMAIN trip.waypoints : HasLatLng(trip.waypoints[i])

OptimizerInit ==
    /\ stage = "new" /\ trip \in Bodies
    /\ ordered = <<>> /\ unvisited = {} /\ optimized = <<>> /\ looked = 0

\* The assertion of optimize_custom, a 400.
RefusePoints ==
    /\ stage = "new" /\ ~AllPointsChecked
    /\ stage' = "refused"
    /\ UNCHANGED <<trip, ordered, unvisited, optimized, looked>>

\* Two stops or fewer are returned as they are; without waypoints nothing is ordered.
StartOrder ==
    /\ stage = "new" /\ AllPointsChecked
    /\ IF trip.waypoints = <<>>
         THEN stage' = "answered" /\ UNCHANGED <<ordered, unvisited>>
         ELSE IF Len(trip.waypoints) = 1
           THEN stage' = "drop" /\ ordered' = <<1, 2>> /\ UNCHANGED unvisited
           ELSE stage' = "order" /\ ordered' = <<1>> /\ unvisited' = Stops \ {1}
    /\ UNCHANGED <<trip, optimized, looked>>

Last == ordered[Len(ordered)]
Readable(i) == Stop(i).place \in Places

\* min(unvisited, key = distance from current), which takes the first of equals.
Nearest(i) ==
    \A j \in unvisited : Km(Last, i) <= Km(Last, j) /\ (Km(Last, i) = Km(Last, j) => i <= j)

VisitNearest ==
    /\ stage = "order" /\ unvisited # {}
    /\ \A i \in unvisited \cup {Last} : Readable(i)
    /\ \E i \in unvisited :
          /\ Nearest(i)
          /\ ordered' = Append(ordered, i) /\ unvisited' = unvisited \ {i}
    /\ UNCHANGED <<stage, trip, optimized, looked>>

\* float() raises in the key function and nothing catches it: a 500.
OrderRaises ==
    /\ stage = "order" /\ unvisited # {}
    /\ \E i \in unvisited \cup {Last} : ~Readable(i)
    /\ stage' = "error"
    /\ UNCHANGED <<trip, ordered, unvisited, optimized, looked>>

EndOrder ==
    /\ stage = "order" /\ unvisited = {}
    /\ stage' = "drop"
    /\ UNCHANGED <<trip, ordered, unvisited, optimized, looked>>

\* Mutant of IsOrigin: what stands where the origin stands is taken for the origin.
IsAtOrigin(i) == Stop(i).place = trip.origem.place

\* p == origem, of dicts: the same body.
IsOrigin(i) == Stop(i) = trip.origem

\* One turn of [p for p in optimized_waypoints if p != origem].
DropOrigin ==
    LET i == ordered[looked + 1] IN
    /\ stage = "drop" /\ looked < Len(ordered)
    /\ optimized' = IF IsOrigin(i) THEN optimized ELSE Append(optimized, i)
    /\ looked' = looked + 1
    /\ UNCHANGED <<stage, trip, ordered, unvisited>>

\* The distances are added up, a leg that cannot be read as 0, and the rest of
\* the answer is computed from their sum.
AnswerRoute ==
    /\ stage = "drop" /\ looked = Len(ordered)
    /\ stage' = "answered"
    /\ UNCHANGED <<trip, ordered, unvisited, optimized, looked>>

OptimizerNext ==
    RefusePoints \/ StartOrder \/ VisitNearest \/ OrderRaises \/ EndOrder \/ DropOrigin \/ AnswerRoute

OptimizerSpec == OptimizerInit /\ [][OptimizerNext]_optimizerVars

---------------------------------------------------------------------------
(* Types; the stops ordered and those still unvisited are all there are.     *)
OptimizerTypeOK ==
    /\ stage \in {"new", "order", "drop", "refused", "error", "answered"}
    /\ trip \in Bodies
    /\ ordered \in Seq(Stops) /\ unvisited \subseteq Stops
    /\ optimized \in Seq(Stops) /\ looked \in 0..Len(ordered)
    /\ stage \in {"order", "drop"} =>
          Stops = unvisited \cup {ordered[k] : k \in DOMAIN ordered}

\* An answer visits every waypoint of the request exactly once, repeated ones
\* as often as they were given, and leaves out those only whose body is that
\* of the origin.
EachWaypointOnce ==
    stage = "answered" =>
       /\ {optimized[k] : k \in DOMAIN optimized} = {i \in Stops : Stop(i) # trip.origem}
       /\ \A k, l \in DOMAIN optimized : optimized[k] = optimized[l] => k = l

Before(k) == IF k = 1 THEN 1 ELSE optimized[k - 1]

\* "nearest-neighbor": each waypoint of the answer is the one nearest to the point
\* before it of all that come later.
NearestFirst ==
    stage = "answered" =>
       \A k \in DOMAIN optimized : \A l \in (k + 1)..Len(optimized) :
          Km(Before(k), optimized[k]) <= Km(Before(k), optimized[l])

(* An answer of optimize is a nearest-neighbor tour of the request, although its *)
(* order is built with the origin in it and the origin is then taken out by      *)
(* comparing bodies: no waypoint is lost or doubled, and none is spoilt for its  *)
(* neighbours.                                                            *)
GreedyTour == EachWaypointOnce /\ NearestFirst
===========================================================================
