--------------------------- MODULE MCGpsTracking ---------------------------
(* Constants of the TLC instances of GpsTracking. *)
EXTENDS GpsTracking

MCTruck == [h \in Handlers |-> CHOOSE t \in Trucks : TRUE]
===========================================================================
