----------------------------- MODULE MCProgress -----------------------------
(* What must eventually happen, in one TLC instance: the components of        *)
(* MCComponents, and the stock calls of FastStock as one more.                *)
EXTENDS MCComponents

CONSTANTS Requests, Products, Quantities, Puts, Minimum, InitQuantity, MaxItems, Ops,
          MaxInFlight, MaxCrashes

VARIABLES db, orders, claims, alerts, pc, op, items, at, mem, base, written, grant, crashes

Stock == INSTANCE FastStock

stockVars == <<db, orders, claims, alerts, pc, op, items, at, mem, base, written, grant, crashes>>

MCFewPuts == {[quantity |-> 0], [quantity |-> 3, reserved |-> 1]}
MCMinimum == [p \in Products |-> 2]

ProgressInit ==
    /\ ComponentsInit /\ Stock!Init
    /\ focus # "stock" => \A p \in Products : db[p] = Stock!Absent

ProgressNext ==
    \/ ComponentsNext /\ UNCHANGED stockVars
    \/ focus = "stock" /\ Stock!Next /\ UNCHANGED componentVars

\* Fairness of FastStock, as it stands there.
StockFairness ==
    \A r \in Requests : /\ WF_stockVars(focus = "stock" /\ Stock!Continue(r))
                        /\ WF_stockVars(focus = "stock" /\ Stock!DeadlockAbort(r))

FairProgressSpec ==
    /\ ProgressInit /\ [][ProgressNext]_<<componentVars, stockVars>>
    /\ ComponentsFairness /\ StockFairness

\* A row of stock that update_stock, create_stock or consume_stock leaves below the minimum
\* is sooner or later alerted, refilled or deleted (FastStock).
ShortageAlerted == Stock!ShortageAlerted

\* Every stock call ends, although orders take row locks in the order of their items and may
\* wait for each other in a circle (FastStock).
EveryCallEnds == Stock!EveryCallEnds
===========================================================================
