---------------------------- MODULE MCFastStock ----------------------------
(* Constants of the TLC instances of FastStock, and what its calls promise as  *)
(* long as they do not overlap.                                              *)
EXTENDS FastStock, TLC

MCNoPuts == {}
MCMinimum == [p \in Products |-> 2]
Symmetry == Permutations(Requests) \cup Permutations(Products)

VARIABLE overlapped   \* a call has begun while another was executing

Overlaps ==
    \E q, r \in Requests : q # r /\ InFlight(q) /\ pc[r] = "idle" /\ pc'[r] # "idle"

OverlapInit == Init /\ overlapped = FALSE

OverlapSpec ==
    /\ OverlapInit
    /\ [][Next /\ overlapped' = (overlapped \/ Overlaps)]_<<vars, overlapped>>

\* As long as calls come one at a time, available_quantity = quantity - reserved_quantity
\* never goes below zero: the availability test of reserve_stock suffices.
WithinQuantityUntilOverlap == ~overlapped => ReservedWithinQuantity

\* As long as calls come one at a time, reserved_quantity is what the committed orders and
\* reserve calls were promised, also when an order has the same product twice.
ExactUntilOverlap == ~overlapped => ReservationsExact
===========================================================================
