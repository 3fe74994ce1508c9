--------------------------- MODULE MCOrderPipeline ---------------------------
(* OrderPipeline and GpsTracking, which share no state, in one TLC instance: a  *)
(* behaviour exercises one of them.  The pipeline has requests that create and   *)
(* change orders, and one message nobody can read.                           *)
EXTENDS OrderPipeline, MCGpsTracking

VARIABLE focus   \* the system a behaviour exercises

MCPrices == {10}
MCPatches == {[minQty |-> 1]}
MCMarkup == [b \in MCPrices |-> 12]
MCKind == [e \in Messages |-> CASE e \in {"c1", "c2"} -> "created"
                                [] e \in {"s1", "s2"} -> "status"
                                [] OTHER -> "poison"]
MCPartitions == {0}
MCPartition == [e \in Messages |-> 0]
MCAddressee == [e \in Messages |-> "admin"]
MCRooms == [s \in Sockets |-> {}]

\* The driver's process is named after the first, which one it is does not matter.
FirstProcess == CHOOSE w \in Workers : TRUE

ProcessesInit ==
    /\ PipelineInit /\ GpsInit
    /\ focus \in {"orders", "gps"}
    /\ \A s \in Drivers : worker[s] = FirstProcess
    /\ focus = "orders" => \A h \in Handlers : worker[h] = FirstProcess

ProcessesNext ==
    \/ focus = "orders" /\ PipelineNext /\ UNCHANGED <<focus, gpsVars>>
    \/ focus = "gps" /\ GpsNext /\ UNCHANGED <<focus, pipelineVars>>

ProcessesSpec == ProcessesInit /\ [][ProcessesNext]_<<focus, pipelineVars, gpsVars>>
===========================================================================
