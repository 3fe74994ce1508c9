--------------------------- MODULE FrontEndProofs ---------------------------
(***************************************************************************)
(* Theorems about the front ends: the tracking page of the dashboard          *)
(* (DashboardTracking), its settings page (DashboardSettings), and the cart,   *)
(* checkout and other pages of the storefront (Storefront, ShopPages), for any *)
(* number of sockets, tabs, warehouses, users, texts and products.  And, at    *)
(* the end, about the ten components side by side (MCComponents).             *)
(***************************************************************************)
EXTENDS MCComponents, FastServicesProofs, NestServicesProofs, SumTheorems, SequenceTheorems

---------------------------------------------------------------------------
(***************************************************************************)
(* Proofs about DashboardTracking, for any number of sockets.                *)
(*                                                                         *)
(* The badge can be believed because it was raised by a socket of the effect   *)
(* that is still open: the sockets of Reconectar never touch it, and each of   *)
(* them is new.  TrackingInv adds both, with the bookkeeping of the timeouts.  *)
(***************************************************************************)
Phases == {"unused", "connecting", "open", "told", "turned", "closing", "closed"}

(* Every pending timeout has a socket left for it. *)
SocketsSuffice ==
    /\ Cardinality(Used) \in Nat /\ Cardinality(Used) + timers <= MaxSockets
    /\ shown = "before" => timers = 0 /\ Used = {} /\ ~connected

(* The badge was raised by a socket of the effect that is open. *)
RaisedByEffect ==
    shown = "shown" /\ connected =>
       \E s \in PageSockets : maker[s] = "effect" /\ phase[s] \in {"open", "told"}

(* Without a second click within the timeout, the socket that is live is the   *)
(* one wsRef holds, and none is while a timeout is pending.                  *)
LiveIsRef ==
    ~hurried => /\ timers \in {0, 1}
                /\ \A s \in PageSockets : Live(s) => s = wsRef /\ timers = 0

TrackingInv == TrackingTypeOK /\ SocketsSuffice /\ RaisedByEffect /\ LiveIsRef

---------------------------------------------------------------------------
LEMMA SocketNumbers == PageSockets \subseteq Nat /\ MaxSockets \in Nat /\ {1, 2} \subseteq PageSockets
  BY TrackingConstants DEF PageSockets

(* An interval from 1 has as many sockets as its last number says. *)
LEMMA CountUpTo ==
  ASSUME NEW n \in Nat
  PROVE  Cardinality(1..n) = n /\ (n = 0 => 1..n = {})
  <1>1. Cardinality(1..n) = IF 1 > n THEN 0 ELSE n - 1 + 1  BY FS_Interval
  <1> QED  BY <1>1

(* What closing a socket does to the others, and to which are used. *)
LEMMA ClosedKeeps ==
  ASSUME NEW ph \in [PageSockets -> Phases], NEW s \in PageSockets
  PROVE  /\ Closed(ph, s) \in [PageSockets -> Phases]
         /\ \A u \in PageSockets : (Closed(ph, s)[u] = "unused") = (ph[u] = "unused")
         /\ \A u \in PageSockets :
               Closed(ph, s)[u] \in {"connecting", "open", "told"}
                 => u # s /\ ph[u] \in {"connecting", "open", "told"}
  BY DEF Closed, Phases

(* A step that keeps the sockets that are used keeps what is counted. *)
LEMMA SameUsed ==
  ASSUME phase' \in [PageSockets -> Phases],
         \A u \in PageSockets : (phase'[u] = "unused") = (phase[u] = "unused")
  PROVE  Used' = Used
  BY DEF Used

LEMMA MountKeeps ==
  ASSUME TrackingInv, MountTracking
  PROVE  TrackingInv'
  <1> USE DEF TrackingInv
  <1>1. /\ shown = "before" /\ shown' = "shown" /\ timers = 0 /\ Used = {} /\ ~connected
        /\ UNCHANGED <<strict, usable, connected, maker, timers, hurried>>
    BY DEF MountTracking, SocketsSuffice
  <1>2. CASE ~usable
    <2>1. UNCHANGED <<phase, wsRef>>  BY <1>2 DEF MountTracking
    <2>2. Used' = Used  BY <2>1 DEF Used
    <2> QED
      BY <1>1, <2>1, <2>2 DEF TrackingTypeOK, SocketsSuffice, RaisedByEffect, LiveIsRef, Live
  <1>3. CASE usable
    <2> DEFINE mine == IF strict THEN 2 ELSE 1
    <2>1. mine \in Nat /\ mine \in PageSockets /\ mine <= MaxSockets /\ mine >= 1
      BY SocketNumbers DEF PageSockets
    <2>2. /\ phase' = [s \in PageSockets |-> IF s = mine THEN "connecting"
                                            ELSE IF s < mine THEN "closing" ELSE "unused"]
          /\ wsRef' = mine
      BY <1>3 DEF MountTracking
    <2> HIDE DEF mine
    <2>3. phase' \in [PageSockets -> Phases]  BY <2>2 DEF Phases
    <2>4. Used' = 1..mine  BY <2>1, <2>2, SocketNumbers DEF Used, PageSockets
    <2>5. Cardinality(Used') = mine  BY <2>1, <2>4, CountUpTo
    <2>6. TrackingTypeOK'
      BY <1>1, <2>1, <2>2, <2>3, <2>4, <2>5 DEF TrackingTypeOK, Phases
    <2>7. SocketsSuffice'  BY <1>1, <2>1, <2>5 DEF SocketsSuffice
    <2>8. RaisedByEffect'  BY <1>1 DEF RaisedByEffect
    <2>9. LiveIsRef'  BY <1>1, <2>2 DEF LiveIsRef, Live
    <2> QED  BY <2>6, <2>7, <2>8, <2>9
  <1> QED  BY <1>2, <1>3

(* Opening, the message and closing: a socket that was used stays used, and    *)
(* none becomes live.                                                      *)
LEMMA SocketEventKeeps ==
  ASSUME TrackingInv, NEW s \in PageSockets,
         SocketOpens(s) \/ SocketTold(s) \/ SocketTurnedAway(s) \/ SocketCloses(s)
  PROVE  TrackingInv'
  <1> USE DEF TrackingInv
  <1>1. /\ UNCHANGED <<shown, strict, usable, wsRef, maker, timers, hurried>>
        /\ connected \in BOOLEAN /\ phase \in [PageSockets -> Phases]
        /\ phase[s] # "unused" /\ phase[s] # "closed"
    BY DEF SocketOpens, SocketTold, SocketTurnedAway, SocketCloses, Live, TrackingTypeOK, Phases
  <1>2. PICK next \in {"open", "told", "turned", "closed"} :
          /\ phase' = [phase EXCEPT ![s] = next]
          /\ next \in {"open", "told"} => Live(s) /\ connected' = (connected \/ Hears(s))
          /\ next \in {"turned", "closed"} => connected' = (connected /\ ~Hears(s))
    BY DEF SocketOpens, SocketTold, SocketTurnedAway, SocketCloses, OnClose, Live
  <1>3. /\ phase' \in [PageSockets -> Phases] /\ phase'[s] = next
        /\ \A u \in PageSockets \ {s} : phase'[u] = phase[u]
    BY <1>1, <1>2 DEF Phases
  <1>4. Used' = Used  BY <1>1, <1>3, SameUsed
  <1>5. TrackingTypeOK'
    BY <1>1, <1>2, <1>3, <1>4 DEF TrackingTypeOK, Phases
  <1>6. SocketsSuffice'
    <2>1. Used # {}  BY <1>1 DEF Used
    <2> QED  BY <2>1, <1>1, <1>4 DEF SocketsSuffice
  <1>7. RaisedByEffect'
    BY <1>1, <1>2, <1>3 DEF RaisedByEffect, Hears, TrackingTypeOK
  <1>8. LiveIsRef'
    <2>1. \A u \in PageSockets : Live(u)' => Live(u)  BY <1>2, <1>3 DEF Live
    <2> QED  BY <2>1, <1>1 DEF LiveIsRef
  <1> QED  BY <1>5, <1>6, <1>7, <1>8

LEMMA ReconectarKeeps ==
  ASSUME TrackingInv, Reconectar
  PROVE  TrackingInv'
  <1> USE DEF TrackingInv
  <1>1. /\ UNCHANGED <<shown, strict, usable, wsRef, maker>> /\ shown = "shown"
        /\ connected' = FALSE /\ timers' = timers + 1 /\ hurried' = (hurried \/ timers > 0)
        /\ Cardinality(Used) + timers < MaxSockets /\ timers \in Nat
        /\ phase \in [PageSockets -> Phases] /\ wsRef \in PageSockets \cup {0}
    BY DEF Reconectar, AfterClick, TrackingTypeOK, Phases, Used
  <1>2. /\ phase' \in [PageSockets -> Phases]
        /\ \A u \in PageSockets : (phase'[u] = "unused") = (phase[u] = "unused")
        /\ \A u \in PageSockets : Live(u)' => u # wsRef /\ Live(u)
    <2>1. CASE wsRef = 0
      BY <2>1, <1>1, SocketNumbers DEF Reconectar, RefClosed, Live, PageSockets
    <2>2. CASE wsRef # 0
      <3>1. phase' = Closed(phase, wsRef)  BY <2>2 DEF Reconectar, RefClosed
      <3> QED  BY <2>2, <3>1, <1>1, ClosedKeeps DEF Live
    <2> QED  BY <2>1, <2>2
  <1>3. Used' = Used  BY <1>2, SameUsed
  <1>4. TrackingTypeOK'
    <2>1. timers' \in 0..MaxSockets  BY <1>1, SocketNumbers DEF SocketsSuffice
    <2>2. hurried' \in BOOLEAN
      <3> DEFINE waiting == timers > 0
      <3>1. hurried' = (hurried \/ waiting)  BY <1>1
      <3> HIDE DEF waiting
      <3> QED  BY <3>1
    <2> QED  BY <2>1, <2>2, <1>1, <1>2, <1>3 DEF TrackingTypeOK, Phases
  <1>5. SocketsSuffice'  BY <1>1, <1>3, SocketNumbers DEF SocketsSuffice
  <1>6. RaisedByEffect'  BY <1>1 DEF RaisedByEffect
  <1>7. LiveIsRef'
    <2>1. SUFFICES ASSUME ~hurried'
                   PROVE  timers' \in {0, 1} /\ \A u \in PageSockets : ~Live(u)'
      BY DEF LiveIsRef
    <2>2. ~hurried /\ ~(timers > 0)  BY <2>1, <1>1
    <2>3. timers' = 1  BY <2>2, <1>1
    <2>4. \A u \in PageSockets : ~Live(u)'  BY <2>2, <1>2 DEF LiveIsRef
    <2> QED  BY <2>3, <2>4
  <1> QED  BY <1>4, <1>5, <1>6, <1>7

LEMMA TimerKeeps ==
  ASSUME TrackingInv, ReconnectTimer
  PROVE  TrackingInv'
  <1> USE DEF TrackingInv
  <1>1. /\ timers > 0 /\ timers' = timers - 1 /\ timers \in Nat
        /\ UNCHANGED <<shown, strict, usable, connected, hurried>> /\ shown # "before"
        /\ phase \in [PageSockets -> Phases]
        /\ Cardinality(Used) \in Nat /\ Cardinality(Used) + timers <= MaxSockets
        /\ Used = 1..Cardinality(Used)
    BY DEF ReconnectTimer, TrackingTypeOK, SocketsSuffice, Phases
  <1>2. CASE ~usable
    <2>1. UNCHANGED <<phase, maker, wsRef>>  BY <1>2 DEF ReconnectTimer
    <2>2. Used' = Used  BY <2>1 DEF Used
    <2>3. TrackingTypeOK' /\ SocketsSuffice'
      BY <1>1, <2>1, <2>2, SocketNumbers DEF TrackingTypeOK, SocketsSuffice
    <2> QED
      BY <1>1, <2>1, <2>3 DEF RaisedByEffect, LiveIsRef, Live
  <1>3. CASE usable
    <2> DEFINE s == Cardinality(Used) + 1
    <2>1. s \in PageSockets /\ s \in Nat /\ s >= 1 /\ s \notin Used /\ s <= MaxSockets
      BY <1>1, SocketNumbers DEF PageSockets
    <2>2. /\ phase' = [phase EXCEPT ![s] = "connecting"]
          /\ maker' = [maker EXCEPT ![s] = "reconnect"] /\ wsRef' = s
      BY <1>3 DEF ReconnectTimer
    <2>3. /\ phase' \in [PageSockets -> Phases] /\ phase'[s] = "connecting" /\ phase[s] = "unused"
          /\ maker' \in [PageSockets -> {"effect", "reconnect"}]
          /\ \A u \in PageSockets \ {s} : phase'[u] = phase[u] /\ maker'[u] = maker[u]
      BY <1>1, <2>1, <2>2 DEF Phases, Used, TrackingTypeOK
    <2>4. Used' = 1..s
      <3>1. Used' = Used \cup {s}  BY <2>1, <2>3 DEF Used
      <3>2. 1..s = (1..Cardinality(Used)) \cup {s}  BY <1>1
      <3> HIDE DEF s
      <3> QED  BY <1>1, <3>1, <3>2
    <2>5. Cardinality(Used') = s  BY <2>1, <2>4, CountUpTo
    <2>6. s + timers' <= MaxSockets  BY <1>1, SocketNumbers
    <2> HIDE DEF s
    <2>7. TrackingTypeOK'
      BY <1>1, <2>1, <2>2, <2>3, <2>4, <2>5, SocketNumbers DEF TrackingTypeOK, Phases
    <2>8. SocketsSuffice'  BY <1>1, <2>1, <2>5, <2>6 DEF SocketsSuffice
    <2>9. RaisedByEffect'  BY <1>1, <2>1, <2>3 DEF RaisedByEffect
    <2>10. LiveIsRef'
      BY <1>1, <2>1, <2>2, <2>3 DEF LiveIsRef, Live
    <2> QED  BY <2>7, <2>8, <2>9, <2>10
  <1> QED  BY <1>2, <1>3 DEF TrackingTypeOK

LEMMA UnmountKeeps ==
  ASSUME TrackingInv, UnmountTracking
  PROVE  TrackingInv'
  <1> USE DEF TrackingInv
  <1>1. /\ shown' = "gone" /\ phase \in [PageSockets -> Phases]
        /\ UNCHANGED <<strict, usable, connected, wsRef, maker, timers, hurried>>
    BY DEF UnmountTracking, TrackingTypeOK, Phases
  <1>2. /\ phase' \in [PageSockets -> Phases]
        /\ \A u \in PageSockets : (phase'[u] = "unused") = (phase[u] = "unused")
        /\ \A u \in PageSockets : Live(u)' => Live(u)
    <2>1. CASE ~usable  BY <2>1, <1>1 DEF UnmountTracking, Live
    <2>2. CASE usable
      <3> DEFINE mine == IF strict THEN 2 ELSE 1
      <3>1. mine \in PageSockets  BY SocketNumbers
      <3>2. phase' = Closed(phase, mine)  BY <2>2 DEF UnmountTracking
      <3> HIDE DEF mine
      <3> QED  BY <3>1, <3>2, <1>1, ClosedKeeps DEF Live
    <2> QED  BY <2>1, <2>2
  <1>3. Used' = Used  BY <1>2, SameUsed
  <1>4. TrackingTypeOK' /\ SocketsSuffice'
    BY <1>1, <1>2, <1>3 DEF TrackingTypeOK, SocketsSuffice, Phases
  <1>5. RaisedByEffect' /\ LiveIsRef'  BY <1>1, <1>2 DEF RaisedByEffect, LiveIsRef
  <1> QED  BY <1>4, <1>5

---------------------------------------------------------------------------
LEMMA InitTracking ==
  ASSUME TrackingInit
  PROVE  TrackingInv
  <1>1. Used = {}  BY DEF TrackingInit, Used
  <1>2. Cardinality(Used) = 0  BY <1>1, FS_EmptySet
  <1>3. Used = 1..Cardinality(Used)  BY <1>1, <1>2, CountUpTo
  <1>4. TrackingTypeOK
    <2>1. timers \in 0..MaxSockets /\ wsRef \in Used \cup {0}
      BY SocketNumbers DEF TrackingInit
    <2> QED  BY <1>3, <2>1 DEF TrackingInit, TrackingTypeOK
  <1>5. SocketsSuffice  BY <1>1, <1>2, SocketNumbers DEF TrackingInit, SocketsSuffice
  <1>6. RaisedByEffect /\ LiveIsRef  BY DEF TrackingInit, RaisedByEffect, LiveIsRef, Live
  <1> QED  BY <1>4, <1>5, <1>6 DEF TrackingInv

LEMMA StepTracks ==
  ASSUME TrackingInv, [TrackingNext]_trackingVars
  PROVE  TrackingInv'
  <1>1. CASE UNCHANGED trackingVars
    <2>1. Used' = Used  BY <1>1 DEF trackingVars, Used
    <2> QED
      BY <1>1, <2>1 DEF trackingVars, TrackingInv, TrackingTypeOK, SocketsSuffice,
                        RaisedByEffect, LiveIsRef, Live
  <1>2. CASE TrackingNext
    BY <1>2, MountKeeps, SocketEventKeeps, ReconectarKeeps, TimerKeeps, UnmountKeeps
       DEF TrackingNext, SocketEvent
  <1> QED  BY <1>1, <1>2

(* The invariant holds in every state of the page. *)
THEOREM TrackingInvariant == TrackingSpec => []TrackingInv
  BY InitTracking, StepTracks, PTL DEF TrackingSpec

(* The badge of Rastreamento says connected only while a socket is open, in     *)
(* both builds and however often the user reconnects.                        *)
THEOREM BadgeIsAlwaysTrue == TrackingSpec => []ConnectedIsTrue
  <1>1. TrackingInv => ConnectedIsTrue  BY DEF TrackingInv, RaisedByEffect, ConnectedIsTrue
  <1> QED  BY <1>1, TrackingInvariant, PTL

(* A page that is not hurried has one live socket, and leaves one behind at     *)
(* most: wsRef's, which the cleanup of the effect does not close.             *)
THEOREM AlwaysOneLiveSocket == TrackingSpec => []OneLiveSocket
  <1>1. TrackingInv => OneLiveSocket  BY DEF TrackingInv, LiveIsRef, OneLiveSocket
  <1> QED  BY <1>1, TrackingInvariant, PTL

---------------------------------------------------------------------------
(***************************************************************************)
(* Storefront.  A cart is well formed because every way of changing it keeps  *)
(* one line per product.  OrderedOnce is not inductive: OneOrderShown adds     *)
(* what a checkout that was never left while loading knows of its order.       *)
(***************************************************************************)
Carts == {items \in Seq(CartLine) : WellFormed(items)}

(* The order on the way is the cart's, and the component that waits for it is  *)
(* shown, so the button is off.                                             *)
OneOrderShown(t) ==
    t \notin restless /\ pending[t] # <<>> =>
       /\ Len(pending[t]) = 1 /\ loading[t]
       /\ pending[t][1].shown /\ pending[t][1].items = cart[t]

StoreInv ==
    /\ StorefrontTypeOK /\ CartWellFormed
    /\ \A t \in Tabs : OneOrderShown(t) /\ (page[t] = "closed" => pending[t] = <<>>)

\* A quantity below the minimum is raised to it.
LEMMA RaisedToLeast ==
  ASSUME NEW g \in Goods, NEW n \in Int
  PROVE  Raised(g, n) \in Nat /\ Raised(g, n) >= Least[g] /\ Least[g] \in Nat
  BY StorefrontConstants DEF Raised

\* A sequence of as many lines, for the same products and with enough of each.
LEMMA SameGoods ==
  ASSUME NEW items \in Carts, NEW new, DOMAIN new = DOMAIN items,
         new = [i \in DOMAIN items |-> new[i]],
         \A i \in DOMAIN items :
            /\ new[i] \in CartLine /\ new[i].good = items[i].good
            /\ new[i].qty >= Least[new[i].good]
  PROVE  new \in Carts
  <1>1. items \in Seq(CartLine) /\ WellFormed(items)  BY DEF Carts
  <1>2. DOMAIN items = 1..Len(items) /\ Len(items) \in Nat  BY <1>1
  <1>3. new \in Seq(CartLine)  BY <1>2
  <1>4. WellFormed(new)  BY <1>1 DEF WellFormed
  <1> QED  BY <1>3, <1>4 DEF Carts

\* A line for a product the cart has none of.
LEMMA AnotherLine ==
  ASSUME NEW items \in Carts, NEW line \in CartLine, line.qty >= Least[line.good],
         ~HasLine(items, line.good)
  PROVE  Append(items, line) \in Carts
  <1> DEFINE new == Append(items, line)
  <1>1. items \in Seq(CartLine) /\ WellFormed(items)  BY DEF Carts
  <1>2. /\ new \in Seq(CartLine) /\ Len(new) = Len(items) + 1 /\ Len(items) \in Nat
        /\ \A i \in 1..Len(items) : new[i] = items[i]
        /\ new[Len(items) + 1] = line
    BY <1>1, AppendProperties
  <1>3. DOMAIN new = 1..(Len(items) + 1) /\ DOMAIN items = 1..Len(items)  BY <1>1, <1>2
  <1> HIDE DEF new
  <1>4. \A i \in DOMAIN new : i \in DOMAIN items \/ i = Len(items) + 1  BY <1>2, <1>3
  <1>5. \A i \in DOMAIN items : new[i] = items[i] /\ new[i].good # line.good
    BY <1>2, <1>3 DEF HasLine
  <1>6. WellFormed(new)
    <2>1. \A i \in DOMAIN new : new[i].qty >= Least[new[i].good]
      BY <1>1, <1>2, <1>4, <1>5 DEF WellFormed
    <2>2. ASSUME NEW i \in DOMAIN new, NEW j \in DOMAIN new, new[i].good = new[j].good
          PROVE  i = j
      BY <1>1, <1>2, <1>4, <1>5, <2>2 DEF WellFormed
    <2> QED  BY <2>1, <2>2 DEF WellFormed
  <1> QED  BY <1>2, <1>6 DEF Carts, new

LEMMA AddedWell ==
  ASSUME NEW items \in Carts, NEW g \in Goods, NEW n \in Nat
  PROVE  WithAdded(items, g, n) \in Carts
  <1> DEFINE more == Raised(g, n)
             new == [i \in DOMAIN items |-> IF items[i].good = g
                        THEN [items[i] EXCEPT !.qty = @ + more] ELSE items[i]]
  <1>1. more \in Nat /\ more >= Least[g] /\ Least[g] \in Nat  BY RaisedToLeast
  <1>2. items \in Seq(CartLine) /\ WellFormed(items)  BY DEF Carts
  <1>3. CASE HasLine(items, g)
    <2>1. ASSUME NEW i \in DOMAIN items
          PROVE  /\ new[i] \in CartLine /\ new[i].good = items[i].good
                 /\ new[i].qty >= Least[new[i].good]
      <3>1. items[i] \in CartLine /\ items[i].qty >= Least[items[i].good]
        BY <1>2 DEF WellFormed
      <3>2. Least[items[i].good] \in Nat  BY <3>1, StorefrontConstants DEF CartLine
      <3> HIDE DEF more
      <3>3. new[i] = IF items[i].good = g THEN [items[i] EXCEPT !.qty = @ + more] ELSE items[i]
        OBVIOUS
      <3> HIDE DEF new
      <3> QED  BY <1>1, <3>1, <3>2, <3>3 DEF CartLine
    <2>2. DOMAIN new = DOMAIN items  OBVIOUS
    <2> HIDE DEF more
    <2>3. new = [i \in DOMAIN items |-> new[i]]  OBVIOUS
    <2>4. WithAdded(items, g, n) = new  BY <1>3 DEF WithAdded, more
    <2> HIDE DEF new
    <2> QED  BY <2>1, <2>2, <2>3, <2>4, SameGoods
  <1>4. CASE ~HasLine(items, g)
    <2> DEFINE line == [good |-> g, qty |-> more]
    <2>1. line \in CartLine /\ line.good = g /\ line.qty >= Least[line.good]
      BY <1>1 DEF CartLine
    <2>2. WithAdded(items, g, n) = Append(items, line)  BY <1>4 DEF WithAdded
    <2> HIDE DEF line
    <2> QED  BY <1>4, <2>1, <2>2, AnotherLine
  <1> QED  BY <1>3, <1>4

\* The recursive definition of Without.
Keeps(kept, items, g, n) ==
    kept = [i \in 0..n |->
              IF i = 0 THEN <<>>
              ELSE IF items[i].good = g THEN kept[i - 1] ELSE Append(kept[i - 1], items[i])]

\* ... has a solution, for a list of any length.
LEMMA KeptExists ==
  ASSUME NEW items, NEW g, NEW n \in Nat
  PROVE  \E kept : Keeps(kept, items, g, n)
  <1> DEFINE Solved == {m \in Nat : \E kept : Keeps(kept, items, g, m)}
  <1>1. ASSUME NEW m \in Nat, \A l \in Nat : l < m => l \in Solved
        PROVE  m \in Solved
    <2>1. CASE m = 0
      <3>1. Keeps([i \in {0} |-> <<>>], items, g, 0)
        <4> DEFINE kept == [i \in {0} |-> <<>>]
        <4>1. 0..0 = {0}  OBVIOUS
        <4>2. kept = [i \in {0} |->
              IF i = 0 THEN <<>>
              ELSE IF items[i].good = g THEN kept[i - 1] ELSE Append(kept[i - 1], items[i])]
          OBVIOUS
        <4> HIDE DEF kept
        <4> QED  BY <4>1, <4>2 DEF Keeps
      <3> QED  BY <2>1, <3>1
    <2>2. CASE m # 0
      <3>1. m - 1 \in Nat /\ m - 1 < m  BY <2>2
      <3>2. PICK h : Keeps(h, items, g, m - 1)  BY <1>1, <3>1
      <3> DEFINE Body(f, i) ==
                   IF i = 0 THEN <<>>
                   ELSE IF items[i].good = g THEN f[i - 1] ELSE Append(f[i - 1], items[i])
                 kept == [i \in 0..m |-> Body(h, i)]
      <3>3. \A i \in 0..(m - 1) : h[i] = Body(h, i)  BY <3>2 DEF Keeps
      <3>4. \A i \in 0..m : kept[i] = Body(h, i)  OBVIOUS
      <3>5. 0..(m - 1) \subseteq 0..m  BY <3>1
      <3>6. \A i \in 0..(m - 1) : kept[i] = h[i]  BY <3>3, <3>4, <3>5
      <3>7. \A i \in 0..m : i # 0 => i - 1 \in 0..(m - 1)  BY <3>1
      <3>8. \A i \in 0..m : Body(h, i) = Body(kept, i)  BY <3>6, <3>7
      <3> HIDE DEF Body
      <3>9. kept = [i \in 0..m |-> Body(kept, i)]  BY <3>8
      <3> HIDE DEF kept
      <3>10. Keeps(kept, items, g, m)  BY <3>9 DEF Keeps, Body
      <3> QED  BY <3>10
    <2> QED  BY <2>1, <2>2
  <1> HIDE DEF Solved
  <1>2. Nat \subseteq Solved  BY <1>1, SizeInduction
  <1> QED  BY <1>2 DEF Solved

\* Taking the lines of a product away leaves a well formed cart.
LEMMA WithoutWell ==
  ASSUME NEW items \in Carts, NEW g
  PROVE  Without(items, g) \in Carts
  <1>1. items \in Seq(CartLine) /\ WellFormed(items) /\ Len(items) \in Nat  BY DEF Carts
  <1>2. DOMAIN items = 1..Len(items)  BY <1>1
  <1> DEFINE kept == CHOOSE f : Keeps(f, items, g, Len(items))
  <1>3. Keeps(kept, items, g, Len(items))  BY <1>1, KeptExists
  <1>4. Without(items, g) = kept[Len(items)]  BY DEF Without, Keeps
  <1> HIDE DEF kept
  <1>5. /\ kept[0] = <<>>
        /\ \A i \in 1..Len(items) : kept[i] =
              IF items[i].good = g THEN kept[i - 1] ELSE Append(kept[i - 1], items[i])
    <2>1. 0 \in 0..Len(items) /\ 1..Len(items) \subseteq 0..Len(items) /\ \A i \in 1..Len(items) : i # 0
      BY <1>1
    <2>2. \A i \in 0..Len(items) : kept[i] =
             IF i = 0 THEN <<>>
             ELSE IF items[i].good = g THEN kept[i - 1] ELSE Append(kept[i - 1], items[i])
      BY <1>3 DEF Keeps
    <2> QED  BY <2>1, <2>2
  <1> DEFINE From(i) == /\ kept[i] \in Carts
                        /\ \A j \in DOMAIN kept[i] : \E k \in 1..i : kept[i][j] = items[k]
             Fine == {i \in Nat : i <= Len(items) => From(i)}
  <1>6. ASSUME NEW i \in Nat, \A j \in Nat : j < i => j \in Fine, i <= Len(items)
        PROVE  From(i)
    <2>1. CASE i = 0
      <3>1. <<>> \in Carts  BY DEF Carts, WellFormed
      <3> QED  BY <1>5, <2>1, <3>1
    <2>2. CASE i # 0
      <3>1. i - 1 \in Nat /\ i - 1 < i /\ i \in 1..Len(items) /\ i - 1 <= Len(items)
        BY <1>1, <1>6, <2>2
      <3>2. From(i - 1)  BY <1>6, <3>1
      <3>3. 1..(i - 1) \subseteq 1..i  BY <3>1
      <3>4. CASE items[i].good = g
        <4>1. kept[i] = kept[i - 1]  BY <1>5, <3>1, <3>4
        <4> QED  BY <3>2, <3>3, <4>1
      <3>5. CASE items[i].good # g
        <4>1. kept[i] = Append(kept[i - 1], items[i])  BY <1>5, <3>1, <3>5
        <4>2. items[i] \in CartLine /\ items[i].qty >= Least[items[i].good]
          BY <1>1, <1>2, <3>1 DEF WellFormed
        <4>3. ~HasLine(kept[i - 1], items[i].good)
          BY <1>1, <1>2, <3>1, <3>2 DEF HasLine, WellFormed
        <4>4. kept[i] \in Carts  BY <3>2, <4>1, <4>2, <4>3, AnotherLine
        <4>5. kept[i - 1] \in Seq(CartLine)  BY <3>2 DEF Carts
        <4>6. PICK before : before = kept[i - 1]  OBVIOUS
        <4>7. before \in Seq(CartLine) /\ kept[i] = Append(before, items[i])  BY <4>1, <4>5, <4>6
        <4>8. /\ Len(Append(before, items[i])) = Len(before) + 1 /\ Len(before) \in Nat
              /\ Append(before, items[i]) \in Seq(CartLine)
              /\ \A j \in 1..Len(before) : Append(before, items[i])[j] = before[j]
              /\ Append(before, items[i])[Len(before) + 1] = items[i]
          BY <4>2, <4>7, AppendProperties
        <4>9. DOMAIN kept[i] = 1..(Len(before) + 1) /\ DOMAIN before = 1..Len(before)
          BY <4>7, <4>8
        <4>10. \A j \in DOMAIN kept[i] :
                   kept[i][j] = items[i] \/ (j \in DOMAIN before /\ kept[i][j] = before[j])
          BY <4>7, <4>8, <4>9
        <4>11. \A j \in DOMAIN before : \E k \in 1..i : before[j] = items[k]
          BY <3>2, <3>3, <4>6
        <4>12. i \in 1..i  BY <3>1
        <4> QED  BY <4>4, <4>12, <4>10, <4>11
      <3> QED  BY <3>4, <3>5
    <2> QED  BY <2>1, <2>2
  <1> HIDE DEF From
  <1>7. Nat \subseteq Fine
    <2>1. \A i \in Nat : (\A j \in Nat : j < i => j \in Fine) => i \in Fine  BY <1>6
    <2> HIDE DEF Fine
    <2> QED  BY <2>1, SizeInduction
  <1>8. From(Len(items))  BY <1>1, <1>7
  <1> QED  BY <1>4, <1>8 DEF From

\* The buttons - and + of a line.
Requantified(items, i, n) ==
    [j \in DOMAIN items |-> IF items[j].good = items[i].good
        THEN [items[j] EXCEPT !.qty = Raised(items[j].good, n)] ELSE items[j]]

LEMMA RequantifiedWell ==
  ASSUME NEW items \in Carts, NEW i \in DOMAIN items, NEW n \in Int
  PROVE  Requantified(items, i, n) \in Carts
  <1> DEFINE new == Requantified(items, i, n)
  <1>1. items \in Seq(CartLine) /\ WellFormed(items)  BY DEF Carts
  <1>2. ASSUME NEW j \in DOMAIN items
        PROVE  /\ new[j] \in CartLine /\ new[j].good = items[j].good
               /\ new[j].qty >= Least[new[j].good]
    <2>1. items[j] \in CartLine /\ items[j].qty >= Least[items[j].good]
      BY <1>1 DEF WellFormed
    <2> DEFINE more == Raised(items[j].good, n)
    <2>2. more \in Nat /\ more >= Least[items[j].good]
      BY <2>1, RaisedToLeast DEF CartLine
    <2>3. new[j] = IF items[j].good = items[i].good THEN [items[j] EXCEPT !.qty = more] ELSE items[j]
      BY DEF Requantified
    <2> HIDE DEF more, new
    <2> QED  BY <2>1, <2>2, <2>3 DEF CartLine
  <1>3. DOMAIN new = DOMAIN items /\ new = [j \in DOMAIN items |-> new[j]]  BY DEF Requantified
  <1> HIDE DEF new
  <1>4. new \in Carts  BY <1>2, <1>3, SameGoods
  <1> QED  BY <1>4 DEF new

\* No step of a tab touches another tab.
Elsewhere(t) ==
    \A u \in Tabs \ {t} :
       /\ cart'[u] = cart[u] /\ page'[u] = page[u] /\ loading'[u] = loading[u]
       /\ pending'[u] = pending[u] /\ (u \in restless') = (u \in restless)

Orders == [items : Seq(CartLine), shown : BOOLEAN]

\* What a step of tab t has to establish.
TabIsFine(t) ==
    /\ loading[t] => page[t] = "checkout"
    /\ cart[t] \in Carts /\ \A i \in DOMAIN pending[t] : pending[t][i].items \in Carts
    /\ OneOrderShown(t) /\ (page[t] = "closed" => pending[t] = <<>>)

Columns ==
    /\ stored \in Carts /\ restless \subseteq Tabs /\ outdated \subseteq Tabs
    /\ cart \in [Tabs -> Seq(CartLine)] /\ page \in [Tabs -> Pages]
    /\ loading \in [Tabs -> BOOLEAN] /\ pending \in [Tabs -> Seq(Orders)]
    /\ redirects \in [Tabs -> Nat]

LEMMA StoreParts == StoreInv <=> Columns /\ \A t \in Tabs : TabIsFine(t)
  <1>1. ASSUME StoreInv PROVE Columns /\ \A t \in Tabs : TabIsFine(t)
    <2>1. Columns  BY <1>1 DEF StoreInv, StorefrontTypeOK, CartWellFormed, Columns, Carts, Orders
    <2>2. ASSUME NEW t \in Tabs PROVE TabIsFine(t)
      <3>1. \A i \in DOMAIN pending[t] : pending[t][i] \in Orders  BY <2>1 DEF Columns
      <3> QED  BY <1>1, <2>1, <3>1
            DEF StoreInv, StorefrontTypeOK, CartWellFormed, TabIsFine, Carts, Orders
    <2> QED  BY <2>1, <2>2
  <1>2. ASSUME Columns, \A t \in Tabs : TabIsFine(t) PROVE StoreInv
    BY <1>2 DEF StoreInv, StorefrontTypeOK, CartWellFormed, TabIsFine, Columns, Carts, Orders
  <1> QED  BY <1>1, <1>2

LEMMA TabKeeps ==
  ASSUME StoreInv, NEW t \in Tabs, Elsewhere(t), Columns', TabIsFine(t)'
  PROVE  StoreInv'
  <1>1. ASSUME NEW u \in Tabs \ {t} PROVE TabIsFine(u)'
    BY StoreParts DEF Elsewhere, TabIsFine, OneOrderShown
  <1>2. \A u \in Tabs : TabIsFine(u)'  BY <1>1
  <1> QED
    BY <1>2 DEF StoreInv, StorefrontTypeOK, CartWellFormed, TabIsFine, Columns, Carts, Orders

LEMMA SetCartKeeps ==
  ASSUME StoreInv, NEW t \in Tabs, NEW items \in Carts, SetCart(t, items),
         page[t] # "checkout", page[t] # "closed",
         UNCHANGED <<page, loading, pending, redirects, restless>>
  PROVE  StoreInv'
  <1>1. Columns /\ TabIsFine(t)  BY StoreParts
  <1>2. /\ cart' = [cart EXCEPT ![t] = items] /\ stored' = items /\ items \in Seq(CartLine)
        /\ outdated' = (outdated \cup {u \in Tabs : Open(u)}) \ {t}
    BY DEF SetCart, Carts
  <1>3. Columns' /\ cart'[t] = items  BY <1>1, <1>2 DEF Columns
  <1>4. TabIsFine(t)'
    <2>1. pending[t] = <<>> \/ t \in restless  BY <1>1 DEF TabIsFine, OneOrderShown
    <2> QED  BY <1>1, <1>3, <2>1 DEF TabIsFine, OneOrderShown
  <1>5. Elsewhere(t)  BY <1>1, <1>2 DEF Elsewhere, Columns
  <1> QED  BY <1>3, <1>4, <1>5, TabKeeps

LEMMA CartPageKeeps ==
  ASSUME StoreInv, NEW t \in Tabs, AddToCart(t) \/ UpdateQuantidade(t) \/ RemoveLines(t)
  PROVE  StoreInv'
  <1>1. cart[t] \in Carts  BY StoreParts DEF TabIsFine
  <1>2. CASE AddToCart(t)
    <2>1. PICK g \in Goods, n \in 1..MaxQty : SetCart(t, WithAdded(cart[t], g, n))
      BY <1>2 DEF AddToCart
    <2>2. WithAdded(cart[t], g, n) \in Carts  BY <1>1, AddedWell
    <2> QED  BY <1>2, <2>1, <2>2, SetCartKeeps DEF AddToCart
  <1>3. CASE UpdateQuantidade(t)
    <2>1. PICK i \in DOMAIN cart[t], d \in {-1, 1} :
             SetCart(t, Requantified(cart[t], i, cart[t][i].qty + d))
      BY <1>3 DEF UpdateQuantidade, Requantified
    <2>2. cart[t][i].qty + d \in Int
      <3>1. cart[t][i] \in CartLine /\ d \in Int  BY <1>1 DEF Carts
      <3> QED  BY <3>1 DEF CartLine
    <2>3. Requantified(cart[t], i, cart[t][i].qty + d) \in Carts  BY <1>1, <2>2, RequantifiedWell
    <2> QED  BY <1>3, <2>1, <2>3, SetCartKeeps DEF UpdateQuantidade
  <1>4. CASE RemoveLines(t)
    <2>1. <<>> \in Carts  BY DEF Carts, WellFormed
    <2>2. \A g \in Goods : Without(cart[t], g) \in Carts  BY <1>1, WithoutWell
    <2>3. PICK items \in Carts : SetCart(t, items)  BY <1>4, <2>1, <2>2 DEF RemoveLines
    <2> QED  BY <1>4, <2>3, SetCartKeeps DEF RemoveLines
  <1> QED  BY <1>2, <1>3, <1>4

LEMMA OpenKeeps ==
  ASSUME StoreInv, NEW t \in Tabs, OpenTab(t)
  PROVE  StoreInv'
  <1>1. Columns /\ TabIsFine(t)  BY StoreParts
  <1>2. /\ page' = [page EXCEPT ![t] = "catalogo"] /\ cart' = [cart EXCEPT ![t] = stored]
        /\ UNCHANGED <<stored, loading, pending, redirects, restless, outdated>>
        /\ page[t] = "closed"
    BY DEF OpenTab, Open
  <1>3. pending[t] = <<>> /\ loading[t] = FALSE /\ stored \in Carts
    BY <1>1, <1>2 DEF TabIsFine, Columns
  <1>4. Columns' /\ cart'[t] = stored /\ page'[t] = "catalogo"
    BY <1>1, <1>2 DEF Columns, Pages, Carts
  <1>5. TabIsFine(t)'  BY <1>2, <1>3, <1>4 DEF TabIsFine, OneOrderShown
  <1>6. Elsewhere(t)  BY <1>1, <1>2 DEF Elsewhere, Columns
  <1> QED  BY <1>4, <1>5, <1>6, TabKeeps

LEMMA ClosingKeeps ==
  ASSUME StoreInv, NEW t \in Tabs, CloseTab(t)
  PROVE  StoreInv'
  <1>1. Columns  BY StoreParts
  <1>2. <<>> \in Carts /\ <<>> \in Seq(CartLine) /\ <<>> \in Seq(Orders)
    BY DEF Carts, WellFormed
  <1>3. Columns' /\ cart'[t] = <<>> /\ page'[t] = "closed" /\ pending'[t] = <<>> /\ ~loading'[t]
    BY <1>1, <1>2 DEF CloseTab, Columns, Pages
  <1>4. TabIsFine(t)'  BY <1>2, <1>3 DEF TabIsFine, OneOrderShown
  <1>5. Elsewhere(t)  BY <1>1 DEF CloseTab, Elsewhere, Columns
  <1> QED  BY <1>3, <1>4, <1>5, TabKeeps

\* Leaving a page: an order on the way belongs to a checkout that was loading, unless
\* the tab has left one before.
LEMMA LeaveKeeps ==
  ASSUME StoreInv, NEW t \in Tabs, NEW next \in Pages, next # "closed", LeavePage(t, next),
         UNCHANGED <<stored, cart, outdated>>, redirects' \in [Tabs -> Nat]
  PROVE  StoreInv'
  <1>1. Columns /\ TabIsFine(t)  BY StoreParts
  <1> DEFINE left == [i \in DOMAIN pending[t] |-> [pending[t][i] EXCEPT !.shown = FALSE]]
  <1>2. /\ page' = [page EXCEPT ![t] = next] /\ loading' = [loading EXCEPT ![t] = FALSE]
        /\ pending' = [pending EXCEPT ![t] = left]
        /\ restless' = IF loading[t] THEN restless \cup {t} ELSE restless
    BY DEF LeavePage
  <1>3. pending[t] \in Seq(Orders)  BY <1>1 DEF Columns
  <1>4. ASSUME NEW i \in DOMAIN pending[t]
        PROVE  left[i] \in Orders /\ left[i].items = pending[t][i].items
    <2>1. pending[t][i] \in Orders  BY <1>3
    <2>2. left[i] = [pending[t][i] EXCEPT !.shown = FALSE]  OBVIOUS
    <2> HIDE DEF left
    <2> QED  BY <2>1, <2>2 DEF Orders
  <1>5. left \in Seq(Orders) /\ DOMAIN left = DOMAIN pending[t]
    <2>1. DOMAIN pending[t] = 1..Len(pending[t]) /\ Len(pending[t]) \in Nat  BY <1>3
    <2>2. DOMAIN left = DOMAIN pending[t] /\ left = [i \in DOMAIN pending[t] |-> left[i]]
      OBVIOUS
    <2> HIDE DEF left
    <2>3. left = [i \in 1..Len(pending[t]) |-> left[i]]  BY <2>1, <2>2
    <2>4. \A i \in 1..Len(pending[t]) : left[i] \in Orders  BY <1>4, <2>1
    <2>5. left \in Seq(Orders)  BY <2>1, <2>3, <2>4
    <2> QED  BY <2>2, <2>5
  <1>6. pending[t] = <<>> => left = <<>>  BY <1>3
  <1> HIDE DEF left
  <1>7. /\ Columns' /\ page'[t] = next /\ ~loading'[t] /\ pending'[t] = left
        /\ cart'[t] = cart[t]
    BY <1>1, <1>2, <1>5 DEF Columns
  <1>8. TabIsFine(t)'
    <2>1. t \notin restless' => pending[t] = <<>>
      BY <1>1, <1>2 DEF TabIsFine, OneOrderShown
    <2>2. \A i \in DOMAIN left : left[i].items \in Carts  BY <1>1, <1>4, <1>5 DEF TabIsFine
    <2>3. OneOrderShown(t)'  BY <1>6, <1>7, <2>1 DEF OneOrderShown
    <2>4. cart'[t] \in Carts  BY <1>1, <1>7 DEF TabIsFine
    <2> QED  BY <1>7, <2>2, <2>3, <2>4 DEF TabIsFine
  <1>9. Elsewhere(t)  BY <1>1, <1>2 DEF Elsewhere, Columns
  <1> QED  BY <1>7, <1>8, <1>9, TabKeeps

LEMMA FinishKeeps ==
  ASSUME StoreInv, NEW t \in Tabs, Finalizar(t)
  PROVE  StoreInv'
  <1>1. Columns /\ TabIsFine(t)  BY StoreParts
  <1> DEFINE order == [items |-> cart[t], shown |-> TRUE]
  <1>2. /\ page[t] = "checkout" /\ ~loading[t]
        /\ loading' = [loading EXCEPT ![t] = TRUE]
        /\ pending' = [pending EXCEPT ![t] = Append(@, order)]
        /\ UNCHANGED <<stored, cart, page, redirects, restless, outdated>>
    BY DEF Finalizar, MayFinish, Sent
  <1>3. /\ order \in Orders /\ order.items = cart[t] /\ order.shown
        /\ cart[t] \in Carts /\ pending[t] \in Seq(Orders)
    BY <1>1 DEF Columns, TabIsFine, Orders
  <1> HIDE DEF order
  <1>4. PICK new : new = Append(pending[t], order)  OBVIOUS
  <1>5. /\ new \in Seq(Orders) /\ Len(new) = Len(pending[t]) + 1 /\ Len(pending[t]) \in Nat
        /\ \A i \in 1..Len(pending[t]) : new[i] = pending[t][i]
        /\ new[Len(pending[t]) + 1] = order
    BY <1>3, <1>4, AppendProperties
  <1>6. /\ Columns' /\ pending'[t] = new /\ loading'[t] /\ page'[t] = "checkout"
        /\ cart'[t] = cart[t]
    BY <1>1, <1>2, <1>4, <1>5 DEF Columns
  <1>7. TabIsFine(t)'
    <2>1. \A i \in DOMAIN new : i \in DOMAIN pending[t] \/ i = Len(pending[t]) + 1
      BY <1>3, <1>5
    <2>2. \A i \in DOMAIN new : new[i].items \in Carts
      BY <1>1, <1>3, <1>5, <2>1 DEF TabIsFine
    <2>3. OneOrderShown(t)'
      <3>1. SUFFICES ASSUME t \notin restless'
                     PROVE  Len(new) = 1 /\ new[1].shown /\ new[1].items = cart[t]
        BY <1>6 DEF OneOrderShown
      <3>2. pending[t] = <<>>  BY <1>1, <1>2, <3>1 DEF TabIsFine, OneOrderShown
      <3>3. Len(pending[t]) = 0  BY <3>2
      <3> QED  BY <1>3, <1>5, <3>3
    <2> QED  BY <1>3, <1>6, <2>2, <2>3 DEF TabIsFine
  <1>8. Elsewhere(t)  BY <1>1, <1>2 DEF Elsewhere, Columns
  <1> QED  BY <1>6, <1>7, <1>8, TabKeeps

LEMMA AnswerKeeps ==
  ASSUME StoreInv, NEW t \in Tabs, Answer(t)
  PROVE  StoreInv'
  <1>1. Columns /\ TabIsFine(t)  BY StoreParts
  <1>2. /\ pending[t] # <<>> /\ pending[t] \in Seq(Orders) /\ page[t] # "closed"
    BY <1>1 DEF Answer, Columns, TabIsFine
  <1>3. PICK waits \in BOOLEAN : waits = (loading[t] /\ ~Head(pending[t]).shown)  OBVIOUS
  <1>4. /\ cart' = [cart EXCEPT ![t] = <<>>] /\ stored' = <<>>
        /\ outdated' = (outdated \cup {u \in Tabs : Open(u)}) \ {t}
        /\ loading' = [loading EXCEPT ![t] = waits]
        /\ pending' = [pending EXCEPT ![t] = Tail(@)]
        /\ redirects' = [redirects EXCEPT ![t] = @ + 1]
        /\ UNCHANGED <<page, restless>>
    BY <1>3 DEF Answer, SetCart
  <1>5. <<>> \in Carts /\ <<>> \in Seq(CartLine)  BY DEF Carts, WellFormed
  <1>6. PICK rest : rest = Tail(pending[t])  OBVIOUS
  <1>7. /\ rest \in Seq(Orders) /\ Len(rest) = Len(pending[t]) - 1 /\ Len(pending[t]) \in Nat
        /\ \A i \in 1..Len(rest) : rest[i] = pending[t][i + 1]
    BY <1>2, <1>6, HeadTailProperties
  <1>8. /\ Columns' /\ pending'[t] = rest /\ loading'[t] = waits /\ page'[t] = page[t]
        /\ cart'[t] = <<>>
    BY <1>1, <1>4, <1>5, <1>6, <1>7 DEF Columns
  <1>9. TabIsFine(t)'
    <2>1. \A i \in DOMAIN rest : rest[i] = pending[t][i + 1] /\ i + 1 \in DOMAIN pending[t]
      BY <1>2, <1>7
    <2>2. \A i \in DOMAIN rest : rest[i].items \in Carts  BY <1>1, <2>1 DEF TabIsFine
    <2>3. t \notin restless' => rest = <<>>
      <3>1. t \notin restless' => Len(pending[t]) = 1
        BY <1>1, <1>2, <1>4 DEF TabIsFine, OneOrderShown
      <3> QED  BY <1>7, <3>1
    <2>4. OneOrderShown(t)'  BY <1>8, <2>3 DEF OneOrderShown
    <2>5. loading'[t] => page'[t] = "checkout"  BY <1>1, <1>3, <1>8 DEF TabIsFine
    <2> QED  BY <1>2, <1>5, <1>8, <2>2, <2>4, <2>5 DEF TabIsFine
  <1>10. Elsewhere(t)  BY <1>1, <1>4 DEF Elsewhere, Columns
  <1> QED  BY <1>8, <1>9, <1>10, TabKeeps

LEMMA RedirectKeeps ==
  ASSUME StoreInv, NEW t \in Tabs, Redirect(t)
  PROVE  StoreInv'
  <1>1. Columns /\ TabIsFine(t)  BY StoreParts
  <1>2. redirects' = [redirects EXCEPT ![t] = @ - 1] /\ redirects[t] > 0  BY DEF Redirect
  <1>3. redirects' \in [Tabs -> Nat]  BY <1>1, <1>2 DEF Columns
  <1>4. CASE page[t] = "catalogo"
    <2>1. UNCHANGED <<stored, cart, page, loading, pending, restless, outdated>>  BY <1>4 DEF Redirect
    <2>2. Columns'  BY <1>1, <1>3, <2>1 DEF Columns
    <2>3. TabIsFine(t)'  BY <1>1, <2>1 DEF TabIsFine, OneOrderShown
    <2>4. Elsewhere(t)  BY <2>1 DEF Elsewhere
    <2> QED  BY <2>2, <2>3, <2>4, TabKeeps
  <1>5. CASE page[t] # "catalogo"
    <2>1. LeavePage(t, "catalogo") /\ UNCHANGED <<stored, cart, outdated>>  BY <1>5 DEF Redirect
    <2>2. "catalogo" \in Pages  BY DEF Pages
    <2> QED  BY <1>3, <2>1, <2>2, LeaveKeeps
  <1> QED  BY <1>4, <1>5

LEMMA StoreStart == StorefrontInit => StoreInv
  <1> SUFFICES ASSUME StorefrontInit PROVE StoreInv
    OBVIOUS
  <1>1. <<>> \in Carts /\ <<>> \in Seq(CartLine) /\ <<>> \in Seq(Orders)
    BY DEF Carts, WellFormed
  <1>2. Columns  BY <1>1 DEF StorefrontInit, Columns, Pages
  <1>3. \A t \in Tabs : TabIsFine(t)
    BY <1>1 DEF StorefrontInit, TabIsFine, OneOrderShown
  <1> QED  BY <1>2, <1>3, StoreParts

LEMMA StoreNext == StoreInv /\ [StorefrontNext]_storefrontVars => StoreInv'
  <1>1. ASSUME StoreInv, NEW t \in Tabs, TabStep(t) PROVE StoreInv'
    <2>1. CASE \E next \in Pages : GoTo(t, next)
      <3>1. PICK next \in Pages : GoTo(t, next)  BY <2>1
      <3>2. redirects' \in [Tabs -> Nat]
        BY <1>1, <3>1, StoreParts DEF Columns, GoTo
      <3> QED  BY <1>1, <3>1, <3>2, LeaveKeeps DEF GoTo
    <2> QED
      BY <1>1, <2>1, OpenKeeps, ClosingKeeps, CartPageKeeps, FinishKeeps, AnswerKeeps,
         RedirectKeeps DEF TabStep
  <1>2. ASSUME StoreInv, UNCHANGED storefrontVars PROVE StoreInv'
    BY <1>2 DEF StoreInv, StorefrontTypeOK, CartWellFormed, OneOrderShown, storefrontVars
  <1> QED  BY <1>1, <1>2 DEF StorefrontNext

(* Whatever the tabs do and load from each other through localStorage, every   *)
(* cart, stored, shown or sent, has one line per product with its minimum.     *)
THEOREM CartsStayWellFormed == StorefrontSpec => []CartWellFormed
  <1>1. StoreInv => CartWellFormed  BY DEF StoreInv
  <1> QED  BY <1>1, StoreStart, StoreNext, PTL DEF StorefrontSpec

(* The flag of the CheckoutComponent keeps a tab from ordering one cart twice,  *)
(* for as long as no checkout is left while it waits for its answer.           *)
THEOREM CartsOrderedOnce == StorefrontSpec => []OrderedOnce
  <1>1. StoreInv => OrderedOnce
    <2> SUFFICES ASSUME StoreInv, NEW t \in Tabs, Len(pending[t]) > 1, t \notin restless
                 PROVE  FALSE
      BY DEF OrderedOnce
    <2>1. OneOrderShown(t)  BY DEF StoreInv
    <2>2. pending[t] # <<>>  OBVIOUS
    <2>3. Len(pending[t]) = 1  BY <2>1, <2>2 DEF OneOrderShown
    <2> QED  BY <2>3
  <1> QED  BY <1>1, StoreStart, StoreNext, PTL DEF StorefrontSpec

(* A tab since whose last load or store no other tab has stored has the stored *)
(* cart.  No timer outlives its tab, so a redirect opens none.                *)
InStep(t) ==
    /\ Open(t) /\ t \notin outdated => stored = cart[t]
    /\ ~Open(t) => redirects[t] = 0
StoredInv == \A t \in Tabs : InStep(t)

LEMMA StoredStart == StorefrontInit => StoredInv
  BY DEF StorefrontInit, StoredInv, InStep, Open

LEMMA StoringKeepsInStep ==
  ASSUME StoreInv, StoredInv, NEW t \in Tabs, NEW items, SetCart(t, items), page' = page,
         \A u \in Tabs : ~Open(u) => redirects'[u] = redirects[u]
  PROVE  StoredInv'
  <1>1. cart \in [Tabs -> Seq(CartLine)]  BY DEF StoreInv, StorefrontTypeOK
  <1>2. ASSUME NEW u \in Tabs, page[u] # "closed", u \notin outdated' PROVE stored' = cart'[u]
    <2>1. u = t  BY <1>2 DEF SetCart, Open
    <2> QED  BY <1>1, <2>1 DEF SetCart
  <1>3. ASSUME NEW u \in Tabs, page[u] = "closed" PROVE redirects'[u] = 0
    BY <1>3 DEF StoredInv, InStep, Open
  <1> QED  BY <1>2, <1>3 DEF StoredInv, InStep, Open

LEMMA StoredStep == StoreInv /\ StoredInv /\ [StorefrontNext]_storefrontVars => StoredInv'
  <1> SUFFICES ASSUME StoreInv, StoredInv, [StorefrontNext]_storefrontVars PROVE StoredInv'
    OBVIOUS
  <1>1. /\ cart \in [Tabs -> Seq(CartLine)] /\ page \in [Tabs -> Pages]
        /\ redirects \in [Tabs -> Nat]
        /\ \A u \in Tabs : page[u] = "closed" => pending[u] = <<>> /\ redirects[u] = 0
    BY DEF StoreInv, StorefrontTypeOK, StoredInv, InStep, Open
  <1>2. ASSUME UNCHANGED <<stored, cart, outdated>>,
               \A u \in Tabs : /\ page'[u] = "closed" <=> page[u] = "closed"
                               /\ page[u] = "closed" => redirects'[u] = redirects[u]
        PROVE  StoredInv'
    <2> SUFFICES ASSUME NEW u \in Tabs PROVE InStep(u)'
      BY DEF StoredInv
    <2>1. InStep(u)  BY DEF StoredInv
    <2> QED  BY <1>2, <2>1 DEF InStep, Open
  <1>3. ASSUME NEW t \in Tabs, OpenTab(t) PROVE StoredInv'
    BY <1>1, <1>3 DEF OpenTab, StoredInv, InStep, Open
  <1>4. ASSUME NEW t \in Tabs, CloseTab(t) PROVE StoredInv'
    <2>1. /\ stored' = stored /\ outdated' = outdated \ {t}
          /\ cart' = [cart EXCEPT ![t] = <<>>] /\ page' = [page EXCEPT ![t] = "closed"]
          /\ redirects' = [redirects EXCEPT ![t] = 0]
      BY <1>4 DEF CloseTab
    <2>2. ASSUME NEW u \in Tabs \ {t} PROVE InStep(u)'
      <3>1. InStep(u)  BY DEF StoredInv
      <3>2. cart'[u] = cart[u] /\ page'[u] = page[u] /\ redirects'[u] = redirects[u]
        BY <1>1, <2>1
      <3> QED  BY <2>1, <3>1, <3>2 DEF InStep, Open
    <2>3. InStep(t)'  BY <1>1, <2>1 DEF InStep, Open
    <2> QED  BY <2>2, <2>3 DEF StoredInv
  <1>5. ASSUME NEW t \in Tabs, NEW next \in Pages, GoTo(t, next) PROVE StoredInv'
    <2>1. /\ page[t] # "closed" /\ page' = [page EXCEPT ![t] = next] /\ next # "closed"
          /\ UNCHANGED <<stored, cart, redirects, outdated>>
      BY <1>5 DEF GoTo, LeavePage, Open
    <2> QED  BY <1>1, <1>2, <2>1
  <1>6. ASSUME NEW t \in Tabs, AddToCart(t) \/ UpdateQuantidade(t) \/ RemoveLines(t)
        PROVE  StoredInv'
    <2>1. PICK items : SetCart(t, items)  BY <1>6 DEF AddToCart, UpdateQuantidade, RemoveLines
    <2>2. page' = page /\ redirects' = redirects
      BY <1>6 DEF AddToCart, UpdateQuantidade, RemoveLines
    <2> QED  BY <2>1, <2>2, StoringKeepsInStep
  <1>7. ASSUME NEW t \in Tabs, Answer(t) PROVE StoredInv'
    <2>1. page[t] # "closed"  BY <1>1, <1>7 DEF Answer
    <2>2. \A u \in Tabs : ~Open(u) => redirects'[u] = redirects[u]
      BY <1>1, <1>7, <2>1 DEF Answer, Open
    <2> QED  BY <1>7, <2>2, StoringKeepsInStep DEF Answer
  <1>8. ASSUME NEW t \in Tabs, Finalizar(t) PROVE StoredInv'
    BY <1>2, <1>8 DEF Finalizar
  <1>9. ASSUME NEW t \in Tabs, Redirect(t) PROVE StoredInv'
    <2>1. page[t] # "closed"  BY <1>1, <1>9 DEF Redirect
    <2>2. /\ UNCHANGED <<stored, cart, outdated>>
          /\ redirects' = [redirects EXCEPT ![t] = @ - 1]
          /\ page' = page \/ page' = [page EXCEPT ![t] = "catalogo"]
      BY <1>9 DEF Redirect, LeavePage
    <2> QED  BY <1>1, <1>2, <2>1, <2>2
  <1>10. CASE UNCHANGED storefrontVars  BY <1>2, <1>10 DEF storefrontVars
  <1> QED
    BY <1>3, <1>4, <1>5, <1>6, <1>7, <1>8, <1>9, <1>10 DEF StorefrontNext, TabStep

(* Under the same condition the answer to an order empties the cart of what    *)
(* was ordered: nothing can be put in it while the order is on the way.  What   *)
(* it empties in localStorage is that cart too, unless another tab has stored   *)
(* its own since this tab last loaded or stored; then the answer wipes out the  *)
(* other tab's cart.                                                        *)
THEOREM AnswerClearsTheOrder == StorefrontSpec => ClearsWhatWasOrdered
  <1> DEFINE Clears ==
        \A t \in Tabs :
          Open(t) /\ page'[t] # "closed" /\ Len(pending'[t]) < Len(pending[t]) /\ t \notin restless
             => /\ cart[t] = Head(pending[t]).items
                /\ stored = cart[t] \/ t \in outdated
  <1>1. StoreInv /\ StoreInv' /\ StoredInv => Clears
    <2> SUFFICES ASSUME StoreInv, StoreInv', StoredInv, NEW t \in Tabs, Open(t),
                        Len(pending'[t]) < Len(pending[t]), t \notin restless
                 PROVE  cart[t] = Head(pending[t]).items /\ (stored = cart[t] \/ t \in outdated)
      OBVIOUS
    <2>1. pending[t] \in Seq(Orders)  BY StoreParts DEF Columns
    <2>2. pending'[t] \in Seq(Orders)  BY DEF StoreInv, StorefrontTypeOK, Orders
    <2>3. pending[t] # <<>>  BY <2>1, <2>2
    <2>4. pending[t][1].items = cart[t]  BY <2>3 DEF StoreInv, OneOrderShown
    <2>5. stored = cart[t] \/ t \in outdated  BY DEF StoredInv, InStep
    <2> QED  BY <2>1, <2>3, <2>4, <2>5
  <1>2. StoreInv /\ StoreInv' /\ StoredInv => [Clears]_storefrontVars  BY <1>1
  <1> QED
    BY <1>2, StoreStart, StoreNext, StoredStart, StoredStep, PTL
       DEF StorefrontSpec, ClearsWhatWasOrdered

---------------------------------------------------------------------------
(***************************************************************************)
(* DashboardSettings.  LagsByOneChange is inductive with the types of the     *)
(* form and of the history, which say what a save writes.                    *)
(***************************************************************************)
Galpao == [nome : Textos, cheio : BOOLEAN]
Saves == [tab : SettingsTabs, plain : BOOLEAN]

SettingsInv ==
    /\ config \in [SettingsTabs -> Config]
    /\ guardada = NoConfig \/ (guardada \in Config /\ guardada.numero # "NaN")
    /\ form \in [SettingsTabs -> [of : Galpoes, copy : Galpao] \cup {NoForm}]
    /\ last = NoSave \/ last \in Saves
    /\ LagsByOneChange

LEMMA FewDiffer ==
  ASSUME NEW S, NEW x
  PROVE  /\ S = {} => Cardinality(S) = 0
         /\ S \subseteq {x} => Cardinality(S) <= 1
  <1>1. Cardinality({}) = 0  BY FS_EmptySet
  <1>2. Cardinality({x}) = 1  BY FS_Singleton
  <1>3. S \subseteq {x} => S = {} \/ S = {x}  OBVIOUS
  <1> QED  BY <1>1, <1>2, <1>3

\* What localStorage holds of a configuration is a configuration, the same but for a
\* number that was not one.
LEMMA Encodes ==
  ASSUME NEW c \in Config
  PROVE  /\ Encoded(c) \in Config /\ Encoded(c).numero # "NaN"
         /\ Encoded(c).geral = c.geral /\ Encoded(c).galpoes = c.galpoes
         /\ Encoded(c).ativo = c.ativo
         /\ c.numero # "NaN" => Encoded(c).numero = c.numero
         /\ \A d \in Config : d.numero = c.numero => Encoded(d).numero = Encoded(c).numero
         /\ Encoded(c) # NoConfig
  <1> DEFINE n == IF c.numero = "NaN" THEN "null" ELSE c.numero
  <1>1. n \in Numeros /\ n # "NaN"  BY DEF Config, Numeros
  <1>2. Encoded(c) = [c EXCEPT !.numero = n]  BY DEF Encoded, Config
  <1>3. \A d \in Config : d.numero = c.numero => Encoded(d).numero = n
    BY DEF Encoded, Config
  <1>4. c.numero # "NaN" => n = c.numero  OBVIOUS
  <1> HIDE DEF n
  <1>5. Encoded(c).numero = n  BY <1>2 DEF Config
  <1>6. Encoded(c) \in Config  BY <1>1, <1>2 DEF Config
  <1>7. \A d \in Config : d # NoConfig
    <2> SUFFICES ASSUME NEW d \in Config PROVE d # NoConfig  OBVIOUS
    <2>1. "numero" \in DOMAIN d  BY DEF Config
    <2>2. "numero" \notin DOMAIN NoConfig  BY DEF NoConfig
    <2> QED  BY <2>1, <2>2
  <1> QED  BY <1>1, <1>2, <1>3, <1>4, <1>5, <1>6, <1>7 DEF Config

\* A configuration d that shows at most x otherwise than the saved one c.
LEMMA SavedLags ==
  ASSUME NEW c \in Config, NEW d \in Config, d.geral = c.geral, d.numero = c.numero,
         NEW x, Differing(c, d) \subseteq {x}
  PROVE  /\ Encoded(c) # NoConfig
         /\ Encoded(c).geral = Encoded(d).geral /\ Encoded(c).numero = Encoded(d).numero
         /\ Cardinality(Differing(Encoded(c), Encoded(d))) <= 1
         /\ c = d => Cardinality(Differing(Encoded(c), Encoded(d))) <= 0
  <1>1. Differing(Encoded(c), Encoded(d)) = Differing(c, d)  BY Encodes DEF Differing
  <1>2. c = d => Differing(c, d) = {}  BY DEF Differing
  <1>3. Cardinality(Differing(c, d)) <= 1  BY FewDiffer
  <1>4. c = d => Cardinality(Differing(c, d)) = 0  BY <1>2, FewDiffer
  <1> QED  BY <1>1, <1>3, <1>4, Encodes

LEMMA ConfigStays ==
  ASSUME SettingsInv, UNCHANGED <<config, guardada, last>>,
         form' \in [SettingsTabs -> [of : Galpoes, copy : Galpao] \cup {NoForm}]
  PROVE  SettingsInv'
  BY DEF SettingsInv, LagsByOneChange

\* A change that saves nothing ends what the history says of its tab.
LEMMA SetConfigKeeps ==
  ASSUME SettingsInv, NEW t \in SettingsTabs, NEW c \in Config, SetConfig(t, c), UNCHANGED form
  PROVE  SettingsInv'
  <1>1. /\ config' = [config EXCEPT ![t] = c] /\ guardada' = guardada
        /\ last' = NoSave \/ (last.tab # t /\ last' = last)
    BY DEF SetConfig
  <1>2. config' \in [SettingsTabs -> Config]  BY <1>1 DEF SettingsInv
  <1>3. LagsByOneChange'
    <2>1. SUFFICES ASSUME last' # NoSave PROVE LagsByOneChange'  BY DEF LagsByOneChange
    <2>2. last' = last /\ last.tab # t /\ last.tab \in SettingsTabs
      BY <1>1, <2>1 DEF SettingsInv, Saves
    <2>3. config'[last'.tab] = config[last.tab]  BY <1>1, <2>2 DEF SettingsInv
    <2> QED  BY <1>1, <2>2, <2>3 DEF SettingsInv, LagsByOneChange
  <1> QED  BY <1>1, <1>2, <1>3 DEF SettingsInv

\* A save writes the configuration before the change of its own handler.
LEMMA SaveKeeps ==
  ASSUME SettingsInv, NEW t \in SettingsTabs, NEW plain \in BOOLEAN, SaveConfig(t, plain),
         NEW c \in Config, config' = [config EXCEPT ![t] = c],
         c.geral = config[t].geral, c.numero = config[t].numero,
         NEW x, Differing(config[t], c) \subseteq {x}, plain => c = config[t],
         form' \in [SettingsTabs -> [of : Galpoes, copy : Galpao] \cup {NoForm}]
  PROVE  SettingsInv'
  <1>1. config \in [SettingsTabs -> Config] /\ config[t] \in Config  BY DEF SettingsInv
  <1>2. guardada' = Encoded(config[t]) /\ last' = [tab |-> t, plain |-> plain]
    BY DEF SaveConfig, Written
  <1>3. config' \in [SettingsTabs -> Config] /\ config'[t] = c  BY <1>1
  <1>4. guardada' \in Config /\ guardada'.numero # "NaN"  BY <1>1, <1>2, Encodes
  <1>5. last' \in Saves /\ last'.tab = t /\ last'.plain = plain  BY <1>2 DEF Saves
  <1>6. LagsByOneChange'
    <2> PICK old \in Config : old = config[t]  BY <1>1
    <2> PICK new \in Config : new = c  OBVIOUS
    <2>1. /\ Encoded(old) # NoConfig
          /\ Encoded(old).geral = Encoded(new).geral /\ Encoded(old).numero = Encoded(new).numero
          /\ Cardinality(Differing(Encoded(old), Encoded(new))) <= 1
          /\ old = new => Cardinality(Differing(Encoded(old), Encoded(new))) <= 0
      BY SavedLags
    <2>2. guardada' = Encoded(old) /\ config'[last'.tab] = new  BY <1>2, <1>3, <1>5
    <2>3. Cardinality(Differing(guardada', Encoded(config'[last'.tab])))
             <= (IF last'.plain THEN 0 ELSE 1)
      BY <1>5, <2>1, <2>2
    <2> QED  BY <2>1, <2>2, <2>3 DEF LagsByOneChange
  <1> QED  BY <1>3, <1>4, <1>5, <1>6 DEF SettingsInv

LEMMA NothingSavedKeeps ==
  ASSUME SettingsInv, NEW t \in SettingsTabs, ClearLocalStorage(t)
  PROVE  SettingsInv'
  <1>1. last' = NoSave /\ guardada' = NoConfig /\ UNCHANGED <<config, form>>
    BY DEF ClearLocalStorage
  <1>2. LagsByOneChange'  BY <1>1 DEF LagsByOneChange
  <1>3. /\ config' \in [SettingsTabs -> Config]
        /\ form' \in [SettingsTabs -> [of : Galpoes, copy : Galpao] \cup {NoForm}]
    BY <1>1 DEF SettingsInv
  <1> QED  BY <1>1, <1>2, <1>3 DEF SettingsInv

\* The tab that reloads shows what localStorage holds: no change is missing there.
LEMMA ReloadKeeps ==
  ASSUME SettingsInv, NEW t \in SettingsTabs, Reload(t)
  PROVE  SettingsInv'
  <1> DEFINE loaded == IF guardada = NoConfig THEN defaultConfig ELSE guardada
  <1>1. /\ config' = [config EXCEPT ![t] = loaded] /\ guardada' = guardada
        /\ form' = [form EXCEPT ![t] = NoForm]
        /\ last' = IF last.tab = t /\ ~last.plain THEN NoSave ELSE last
    BY DEF Reload
  <1>2. loaded \in Config
    <2>1. defaultConfig \in Config
      BY SettingsConstants DEF defaultConfig, Config, Numeros
    <2> QED  BY <2>1 DEF SettingsInv
  <1> HIDE DEF loaded
  <1>3. /\ config' \in [SettingsTabs -> Config] /\ config'[t] = loaded
        /\ \A u \in SettingsTabs \ {t} : config'[u] = config[u]
        /\ form' \in [SettingsTabs -> [of : Galpoes, copy : Galpao] \cup {NoForm}]
    BY <1>1, <1>2 DEF SettingsInv
  <1>4. LagsByOneChange'
    <2>1. SUFFICES ASSUME last' # NoSave PROVE LagsByOneChange'  BY DEF LagsByOneChange
    <2>2. last' = last /\ last \in Saves /\ (last.tab = t => last.plain)
      BY <1>1, <2>1 DEF SettingsInv
    <2>3. CASE last.tab # t
      <3>1. config'[last'.tab] = config[last.tab]  BY <1>3, <2>2, <2>3 DEF Saves
      <3> QED  BY <1>1, <2>1, <2>2, <3>1 DEF SettingsInv, LagsByOneChange
    <2>4. CASE last.tab = t
      <3>1. guardada # NoConfig /\ guardada \in Config /\ guardada.numero # "NaN"
        BY <2>1, <2>2 DEF SettingsInv, LagsByOneChange
      <3>2. config'[last'.tab] = guardada  BY <1>3, <2>2, <2>4, <3>1 DEF loaded
      <3> PICK g \in Config : g = guardada  BY <3>1
      <3>3. Encoded(g) \in Config /\ Encoded(g).geral = g.geral /\ Encoded(g).numero = g.numero
            /\ Differing(g, Encoded(g)) = {}
        BY <3>1, Encodes DEF Differing
      <3>4. Cardinality(Differing(g, Encoded(g))) = 0  BY <3>3, FewDiffer
      <3>5. last'.plain /\ guardada' = g /\ config'[last'.tab] = g
        BY <1>1, <2>2, <2>4, <3>2
      <3> QED  BY <3>1, <3>3, <3>4, <3>5 DEF LagsByOneChange
    <2> QED  BY <2>3, <2>4
  <1> QED  BY <1>1, <1>3, <1>4 DEF SettingsInv

LEMMA SettingsStart == SettingsInit => SettingsInv
  <1> SUFFICES ASSUME SettingsInit PROVE SettingsInv
    OBVIOUS
  <1>1. defaultConfig \in Config
    BY SettingsConstants DEF defaultConfig, Config, Numeros
  <1>2. LagsByOneChange  BY DEF SettingsInit, LagsByOneChange
  <1>3. /\ config \in [SettingsTabs -> Config]
        /\ form \in [SettingsTabs -> [of : Galpoes, copy : Galpao] \cup {NoForm}]
        /\ guardada = NoConfig /\ last = NoSave
    BY <1>1 DEF SettingsInit
  <1> QED  BY <1>2, <1>3 DEF SettingsInv

\* The controls that save nothing.
LEMMA EditKeeps ==
  ASSUME SettingsInv, NEW t \in SettingsTabs, EditGeral(t) \/ EditNumero(t) \/ RaiseOcupacao(t)
  PROVE  SettingsInv'
  <1>1. config[t] \in Config  BY DEF SettingsInv
  <1>2. UNCHANGED form  BY DEF EditGeral, EditNumero, RaiseOcupacao
  <1>3. CASE EditGeral(t)
    <2>1. PICK v \in Textos : SetConfig(t, [config[t] EXCEPT !.geral = v])  BY <1>3 DEF EditGeral
    <2>2. [config[t] EXCEPT !.geral = v] \in Config  BY <1>1 DEF Config
    <2> QED  BY <1>2, <2>1, <2>2, SetConfigKeeps
  <1>4. CASE EditNumero(t)
    <2>1. PICK n \in Numeros : SetConfig(t, [config[t] EXCEPT !.numero = n])
      BY <1>4 DEF EditNumero, Numeros
    <2>2. [config[t] EXCEPT !.numero = n] \in Config  BY <1>1 DEF Config
    <2> QED  BY <1>2, <2>1, <2>2, SetConfigKeeps
  <1>5. CASE RaiseOcupacao(t)
    <2>1. PICK g \in Galpoes : SetConfig(t, [config[t] EXCEPT !.galpoes[g].cheio = TRUE])
      BY <1>5 DEF RaiseOcupacao
    <2>2. [config[t] EXCEPT !.galpoes[g].cheio = TRUE] \in Config  BY <1>1 DEF Config
    <2> QED  BY <1>2, <2>1, <2>2, SetConfigKeeps
  <1> QED  BY <1>3, <1>4, <1>5

\* The form holds a copy of a warehouse.
LEMMA FormKeeps ==
  ASSUME SettingsInv, NEW t \in SettingsTabs, OpenForm(t) \/ TypeInForm(t) \/ CancelForm(t)
  PROVE  SettingsInv'
  <1>1. UNCHANGED <<config, guardada, last>>  BY DEF OpenForm, TypeInForm, CancelForm
  <1>2. config[t] \in Config  BY DEF SettingsInv
  <1>3. CASE OpenForm(t)
    <2>1. PICK g \in Galpoes : form' = [form EXCEPT ![t] = [of |-> g, copy |-> config[t].galpoes[g]]]
      BY <1>3 DEF OpenForm
    <2>2. config[t].galpoes[g] \in Galpao  BY <1>2 DEF Config, Galpao
    <2>3. form' \in [SettingsTabs -> [of : Galpoes, copy : Galpao] \cup {NoForm}]
      BY <2>1, <2>2 DEF SettingsInv
    <2> QED  BY <1>1, <2>3, ConfigStays
  <1>4. CASE TypeInForm(t)
    <2>1. PICK v \in Textos : form' = [form EXCEPT ![t].copy.nome = v]
      BY <1>4 DEF TypeInForm
    <2>2. form[t] \in [of : Galpoes, copy : Galpao]  BY <1>4 DEF TypeInForm, SettingsInv
    <2>3. [form[t] EXCEPT !.copy.nome = v] \in [of : Galpoes, copy : Galpao]
      BY <2>2 DEF Galpao
    <2>4. form' = [form EXCEPT ![t] = [form[t] EXCEPT !.copy.nome = v]]
      BY <2>1 DEF SettingsInv
    <2>5. form' \in [SettingsTabs -> [of : Galpoes, copy : Galpao] \cup {NoForm}]
      BY <2>3, <2>4 DEF SettingsInv
    <2> QED  BY <1>1, <2>5, ConfigStays
  <1>5. CASE CancelForm(t)
    <2>1. form' \in [SettingsTabs -> [of : Galpoes, copy : Galpao] \cup {NoForm}]
      BY <1>5 DEF CancelForm, SettingsInv
    <2> QED  BY <1>1, <2>1, ConfigStays
  <1> QED  BY <1>3, <1>4, <1>5

\* The buttons that save: with no change, a warehouse or a user.
LEMMA ButtonKeeps ==
  ASSUME SettingsInv, NEW t \in SettingsTabs, SaveForm(t) \/ ToggleUsuario(t) \/ SaveAll(t)
  PROVE  SettingsInv'
  <1>1. config \in [SettingsTabs -> Config] /\ config[t] \in Config  BY DEF SettingsInv
  <1>2. form \in [SettingsTabs -> [of : Galpoes, copy : Galpao] \cup {NoForm}]
    BY DEF SettingsInv
  <1>3. CASE SaveForm(t)
    <2>1. form[t] \in [of : Galpoes, copy : Galpao]  BY <1>2, <1>3 DEF SaveForm
    <2>2. PICK g \in Galpoes, w \in Galpao : form[t].of = g /\ form[t].copy = w  BY <2>1
    <2>3. PICK c : c = [config[t] EXCEPT !.galpoes[g] = w]  OBVIOUS
    <2>4. /\ c \in Config /\ c.geral = config[t].geral /\ c.numero = config[t].numero
          /\ c.ativo = config[t].ativo /\ \A h \in Galpoes \ {g} : c.galpoes[h] = config[t].galpoes[h]
      BY <1>1, <2>3 DEF Config, Galpao
    <2>5. Differing(config[t], c) \subseteq {g}  BY <2>4 DEF Differing
    <2>6. config' = [config EXCEPT ![t] = c]  BY <1>1, <1>3, <2>2, <2>3 DEF SaveForm
    <2>7. /\ form' \in [SettingsTabs -> [of : Galpoes, copy : Galpao] \cup {NoForm}]
          /\ SaveConfig(t, FALSE)
      BY <1>2, <1>3 DEF SaveForm
    <2> QED  BY <2>4, <2>5, <2>6, <2>7, SaveKeeps
  <1>4. CASE ToggleUsuario(t)
    <2>1. PICK u \in Usuarios : config' = [config EXCEPT ![t].ativo[u] = ~@]
      BY <1>4 DEF ToggleUsuario
    <2>2. PICK b \in BOOLEAN : b = ~config[t].ativo[u]  OBVIOUS
    <2>3. PICK c : c = [config[t] EXCEPT !.ativo[u] = b]  OBVIOUS
    <2>4. /\ c \in Config /\ c.geral = config[t].geral /\ c.numero = config[t].numero
          /\ c.galpoes = config[t].galpoes /\ \A v \in Usuarios \ {u} : c.ativo[v] = config[t].ativo[v]
      BY <1>1, <2>3 DEF Config
    <2>5. Differing(config[t], c) \subseteq {u}  BY <2>4 DEF Differing
    <2>6. config' = [config EXCEPT ![t] = c]  BY <1>1, <2>1, <2>2, <2>3
    <2>7. form' = form /\ SaveConfig(t, FALSE)  BY <1>4 DEF ToggleUsuario
    <2> QED  BY <1>2, <2>4, <2>5, <2>6, <2>7, SaveKeeps
  <1>5. CASE SaveAll(t)
    <2>1. SaveConfig(t, TRUE) /\ config' = config /\ form' = form  BY <1>5 DEF SaveAll
    <2>2. config' = [config EXCEPT ![t] = config[t]]  BY <1>1, <2>1
    <2>3. Differing(config[t], config[t]) \subseteq {t}  BY DEF Differing
    <2> QED  BY <1>1, <1>2, <2>1, <2>2, <2>3, SaveKeeps
  <1> QED  BY <1>3, <1>4, <1>5

LEMMA SettingsStep == SettingsInv /\ [SettingsNext]_settingsVars => SettingsInv'
  <1>1. ASSUME SettingsInv, NEW t \in SettingsTabs, SettingsTab(t) PROVE SettingsInv'
    <2>1. CASE Announce(t) \/ ClearCache(t) \/ ToastTimeout(t)
      <3>1. UNCHANGED <<config, guardada, form, last>>
        BY <2>1 DEF Announce, ClearCache, ToastTimeout
      <3>2. form' \in [SettingsTabs -> [of : Galpoes, copy : Galpao] \cup {NoForm}]
        BY <1>1, <3>1 DEF SettingsInv
      <3> QED  BY <1>1, <3>1, <3>2, ConfigStays
    <2> QED
      BY <1>1, <2>1, EditKeeps, FormKeeps, ButtonKeeps, NothingSavedKeeps, ReloadKeeps
         DEF SettingsTab
  <1>2. ASSUME SettingsInv, UNCHANGED settingsVars PROVE SettingsInv'
    BY <1>2 DEF SettingsInv, LagsByOneChange, settingsVars
  <1> QED  BY <1>1, <1>2 DEF SettingsNext

(* However the tabs edit, save, reload and clear, what localStorage holds       *)
(* after a save lacks at most the one change of the button that saved it.      *)
THEOREM SavesLagByOneChange == SettingsSpec => []LagsByOneChange
  <1>1. SettingsInv => LagsByOneChange  BY DEF SettingsInv
  <1> QED  BY <1>1, SettingsStart, SettingsStep, PTL DEF SettingsSpec

\* The toast and the count of the timeouts that will take it away.
ToastsTyped ==
    /\ toast \in [SettingsTabs -> {"none", "saved", "note"}]
    /\ timeouts \in [SettingsTabs -> 0..MaxToastTimers]
    /\ edits \in 0..MaxEdits

LEMMA ToastsStep == ToastsTyped /\ [SettingsNext]_settingsVars => ToastsTyped'
  <1> SUFFICES ASSUME ToastsTyped, [SettingsNext]_settingsVars PROVE ToastsTyped'  OBVIOUS
  <1>1. CASE UNCHANGED settingsVars  BY <1>1 DEF settingsVars, ToastsTyped
  <1>2. ASSUME NEW t \in SettingsTabs, SettingsTab(t) PROVE ToastsTyped'
    <2>1. edits' \in 0..MaxEdits
      <3>1. edits' = edits \/ Edits
        BY <1>2 DEF SettingsTab, EditGeral, EditNumero, RaiseOcupacao, SetConfig, OpenForm,
                    TypeInForm, CancelForm, SaveForm, ToggleUsuario, SaveAll, Announce,
                    ClearCache, ClearLocalStorage, ToastTimeout, Reload
      <3> QED  BY <3>1, SettingsConstants DEF Edits, ToastsTyped
    <2>2. CASE ToastFor(t)
      <3>1. timeouts[t] + 1 \in 0..MaxToastTimers
        BY <2>2, SettingsConstants DEF ToastFor, Timed, ToastsTyped
      <3> QED  BY <2>1, <2>2, <3>1 DEF ToastFor, ToastsTyped
    <2>3. CASE UNCHANGED <<toast, timeouts>>  BY <2>1, <2>3 DEF ToastsTyped
    <2>4. CASE Announce(t) \/ ClearLocalStorage(t)
      BY <2>1, <2>4 DEF Announce, ClearLocalStorage, ToastsTyped
    <2>5. CASE ToastTimeout(t)
      <3>1. timeouts[t] - 1 \in 0..MaxToastTimers
        BY <2>5, SettingsConstants DEF ToastTimeout, ToastsTyped
      <3> QED  BY <2>1, <2>5, <3>1 DEF ToastTimeout, ToastsTyped
    <2>6. CASE Reload(t)
      <3>1. 0 \in 0..MaxToastTimers  BY SettingsConstants
      <3> QED  BY <2>1, <2>6, <3>1 DEF Reload, ToastsTyped
    <2> QED
      BY <1>2, <2>2, <2>3, <2>4, <2>5, <2>6
         DEF SettingsTab, EditGeral, EditNumero, RaiseOcupacao, OpenForm, TypeInForm,
             CancelForm, SaveForm, SaveConfig, ToggleUsuario, SaveAll, ClearCache
  <1> QED  BY <1>1, <1>2 DEF SettingsNext

LEMMA ToastsStart == SettingsInit => ToastsTyped
  BY SettingsConstants DEF SettingsInit, ToastsTyped

LEMMA SettingsTyped == SettingsInv /\ ToastsTyped => SettingsTypeOK
  <1> SUFFICES ASSUME SettingsInv, ToastsTyped PROVE SettingsTypeOK  OBVIOUS
  <1>1. \A t \in SettingsTabs : form[t] = NoForm \/ form[t].of \in Galpoes  BY DEF SettingsInv
  <1> QED  BY <1>1 DEF SettingsInv, ToastsTyped, SettingsTypeOK

(* For any tabs, warehouses, users and texts: the page and localStorage hold a   *)
(* configuration, NaN never reaches localStorage, and no tab has more timeouts  *)
(* pending than its bound.                                                  *)
THEOREM SettingsTypes == SettingsSpec => []SettingsTypeOK
  BY SettingsStart, SettingsStep, ToastsStart, ToastsStep, SettingsTyped, PTL DEF SettingsSpec

---------------------------------------------------------------------------
(***************************************************************************)
(* Proofs about ShopPages, for any products, filters, texts and bounds.      *)
(*                                                                         *)
(* The list is the answer to the filters shown once nothing is waited for,    *)
(* because the last question on its way is always about them.  A freight or a  *)
(* message is waited for exactly while its flag is up, one at most.           *)
(***************************************************************************)
LastIsCurrent(c) ==
    IF c.waiting = <<>> THEN c.filtrados = getProdutos(c.filtro)
                        ELSE c.waiting[Len(c.waiting)] = c.filtro

CatalogInv ==
    /\ catalog \in CatalogComponent
    /\ IF route = "/catalogo" THEN LastIsCurrent(catalog) ELSE catalog = NewCatalog

DetailInv ==
    /\ detail \in ProductDetailComponent
    /\ (route \notin Produtos => detail = NewDetail)
    /\ Len(detail.waiting) = IF detail.loadingFrete THEN 1 ELSE 0

ContactInv ==
    /\ contact \in ContatoComponent
    /\ (route # "/contato" => contact = NewContact)
    /\ contact.waiting = IF contact.loading THEN 1 ELSE 0
    /\ (contact.loading => ~contact.erro /\ ~contact.sucesso)
    /\ ~(contact.sucesso /\ contact.erro)

PagesInv == route \in Routes /\ CatalogInv /\ DetailInv /\ ContactInv

---------------------------------------------------------------------------
\* Components before anything has happened to them.
LEMMA NewPages ==
  /\ NewCatalog \in CatalogComponent /\ NewDetail \in ProductDetailComponent
  /\ NewContact \in ContatoComponent
  /\ NewCatalog.waiting = <<>> /\ NewDetail.waiting = <<>> /\ ~NewDetail.loadingFrete
  /\ ~NewDetail.loaded /\ NewDetail.timers = 0
  /\ NewContact.waiting = 0 /\ ~NewContact.loading /\ ~NewContact.sucesso
  <1>1. SemFiltro \in Filtros  BY ShopPagesConstants DEF SemFiltro, Filtros
  <1>2. NewCatalog \in CatalogComponent  BY <1>1 DEF NewCatalog, CatalogComponent
  <1>3. NewDetail \in ProductDetailComponent  BY DEF NewDetail, ProductDetailComponent
  <1>4. NewContact \in ContatoComponent  BY DEF NewContact, ContatoComponent
  <1> QED  BY <1>2, <1>3, <1>4 DEF NewCatalog, NewDetail, NewContact

LEMMA PagesStart == ShopPagesInit => PagesInv
  <1> SUFFICES ASSUME ShopPagesInit PROVE PagesInv  OBVIOUS
  <1>0. /\ route = "other" /\ catalog = NewCatalog /\ detail = NewDetail /\ contact = NewContact
    BY DEF ShopPagesInit
  <1>1. route \in Routes /\ route # "/catalogo"  BY <1>0 DEF Routes
  <1>2. CatalogInv  BY <1>0, <1>1, NewPages DEF CatalogInv
  <1>3. DetailInv
    <2>1. Len(NewDetail.waiting) = 0  BY NewPages
    <2> QED  BY <1>0, <2>1, NewPages DEF DetailInv
  <1>4. ContactInv  BY <1>0, NewPages DEF ContactInv
  <1> QED  BY <1>1, <1>2, <1>3, <1>4 DEF PagesInv

\* A question about f is the last one on its way.
LEMMA AskKeeps ==
  ASSUME CatalogInv, route = "/catalogo", route' = route, NEW f \in Filtros, Ask(f)
  PROVE  CatalogInv'
  <1>1. PICK w : w = Append(catalog.waiting, f)  OBVIOUS
  <1>2. catalog' = [catalog EXCEPT !.filtro = f, !.waiting = w]  BY <1>1 DEF Ask
  <1>3. catalog \in CatalogComponent /\ catalog.waiting \in Seq(Filtros)
    BY DEF CatalogInv, CatalogComponent
  <1>4. w \in Seq(Filtros) /\ w # <<>> /\ w[Len(w)] = f  BY <1>1, <1>3
  <1>5. catalog' \in CatalogComponent /\ catalog'.waiting = w /\ catalog'.filtro = f
    BY <1>2, <1>3, <1>4 DEF CatalogComponent
  <1> QED  BY <1>4, <1>5 DEF CatalogInv, LastIsCurrent

\* The answer to the last question is the list of the filters shown.
LEMMA ListKeeps ==
  ASSUME CatalogInv, route = "/catalogo", ProdutosAnswer
  PROVE  CatalogInv'
  <1>1. catalog \in CatalogComponent /\ catalog.waiting \in Seq(Filtros) /\ catalog.waiting # <<>>
    BY DEF CatalogInv, CatalogComponent, ProdutosAnswer
  <1>2. PICK s : s = catalog.waiting  OBVIOUS
  <1>3. PICK answer : answer = getProdutos(Head(s))  OBVIOUS
  <1>4. s \in Seq(Filtros) /\ s # <<>> /\ s[Len(s)] = catalog.filtro
    BY <1>1, <1>2 DEF CatalogInv, LastIsCurrent
  <1>5. /\ Tail(s) \in Seq(Filtros)
        /\ IF Tail(s) = <<>> THEN Head(s) = catalog.filtro
                             ELSE Tail(s)[Len(Tail(s))] = catalog.filtro
    <2>1. /\ Len(s) \in Nat /\ Len(s) >= 1 /\ Tail(s) \in Seq(Filtros)
          /\ Len(Tail(s)) = Len(s) - 1 /\ \A i \in 1..(Len(s) - 1) : Tail(s)[i] = s[i + 1]
      BY <1>4
    <2>2. Tail(s) = <<>> => Len(s) = 1  BY <2>1
    <2>3. Len(s) = 1 => Head(s) = s[Len(s)]  BY <1>4
    <2>4. Tail(s) # <<>> => Len(s) - 1 \in 1..(Len(s) - 1)  BY <2>1
    <2> QED  BY <1>4, <2>1, <2>2, <2>3, <2>4
  <1>6. catalog' = [catalog EXCEPT !.filtrados = answer, !.waiting = Tail(s)]
    BY <1>2, <1>3 DEF ProdutosAnswer
  <1>7. answer \in SUBSET Produtos  BY <1>3 DEF getProdutos
  <1>8. /\ catalog' \in CatalogComponent /\ catalog'.waiting = Tail(s) /\ catalog'.filtrados = answer
        /\ catalog'.filtro = catalog.filtro
    BY <1>1, <1>5, <1>6, <1>7 DEF CatalogComponent
  <1>9. Tail(s) = <<>> => answer = getProdutos(catalog.filtro)  BY <1>3, <1>5
  <1>10. LastIsCurrent(catalog)'  BY <1>5, <1>8, <1>9 DEF LastIsCurrent, getProdutos
  <1>11. route' = route  BY DEF ProdutosAnswer
  <1> QED  BY <1>8, <1>10, <1>11 DEF CatalogInv

LEMMA CatalogKeeps ==
  ASSUME PagesInv, Filtrar \/ Limpar \/ ProdutosAnswer
  PROVE  PagesInv'
  <1>1. UNCHANGED <<route, detail, contact>>  BY DEF Filtrar, Limpar, ProdutosAnswer
  <1>2. catalog \in CatalogComponent /\ catalog.filtro \in Filtros
    BY DEF PagesInv, CatalogInv, CatalogComponent
  <1>3. CatalogInv'
    <2>1. CASE Filtrar
      <3>1. PICK f \in Filtros : Ask(f)  BY <1>2, <2>1 DEF Filtrar, Filtros
      <3> QED  BY <1>1, <2>1, <3>1, AskKeeps DEF Filtrar, PagesInv
    <2>2. CASE Limpar
      <3>1. SemFiltro \in Filtros  BY ShopPagesConstants DEF SemFiltro, Filtros
      <3> QED  BY <1>1, <2>2, <3>1, AskKeeps DEF Limpar, PagesInv
    <2>3. CASE ProdutosAnswer
      <3>1. route = "/catalogo"  BY <2>3, NewPages DEF ProdutosAnswer, PagesInv, CatalogInv
      <3> QED  BY <2>3, <3>1, ListKeeps DEF PagesInv
    <2> QED  BY <2>1, <2>2, <2>3
  <1>4. DetailInv' /\ ContactInv'  BY <1>1 DEF PagesInv, DetailInv, ContactInv
  <1> QED  BY <1>1, <1>3, <1>4 DEF PagesInv

\* The product page: a simulation is waited for while the flag is up.
LEMMA DetailKeeps ==
  ASSUME PagesInv,
         ProdutoAnswer \/ EditDetail \/ SimularFrete \/ FreteAnswer \/ ShowAdded \/ HideAdded
  PROVE  PagesInv'
  <1>1. UNCHANGED <<route, catalog, contact>>
    BY DEF ProdutoAnswer, EditDetail, SimularFrete, FreteAnswer, ShowAdded, HideAdded
  <1>2. /\ detail \in ProductDetailComponent /\ (route \notin Produtos => detail = NewDetail)
        /\ Len(detail.waiting) = IF detail.loadingFrete THEN 1 ELSE 0
    BY DEF PagesInv, DetailInv
  <1>a. detail.waiting \in Seq(Fretes)  BY <1>2 DEF ProductDetailComponent
  <1>b. detail.timers \in Nat  BY <1>2 DEF ProductDetailComponent
  <1>3. route \in Produtos
    <2>1. SUFFICES ASSUME route \notin Produtos PROVE FALSE  OBVIOUS
    <2>2. detail = NewDetail  BY <1>2, <2>1
    <2>3. ~detail.loaded /\ detail.waiting = <<>>  BY <2>2, NewPages
    <2>4. ~(detail.timers > 0)  BY <2>2, NewPages
    <2> QED
      BY <2>1, <2>3, <2>4 DEF ProdutoAnswer, EditDetail, SimularFrete, MaySimulate, FreteAnswer,
                  ShowAdded, HideAdded
  <1>4. detail' \in ProductDetailComponent
        /\ Len(detail'.waiting) = IF detail'.loadingFrete THEN 1 ELSE 0
    <2>1. CASE ProdutoAnswer
      BY <1>2, <1>3, <2>1, ShopPagesConstants DEF ProdutoAnswer, ProductDetailComponent, Produto
    <2>2. CASE EditDetail
      <3>1. CASE \E q \in 0..MaxQtd : detail' = [detail EXCEPT !.qtd = q]
        <4>1. PICK q \in 0..MaxQtd : detail' = [detail EXCEPT !.qtd = q]  BY <3>1
        <4>2. q \in Nat  OBVIOUS
        <4> QED  BY <1>2, <4>1, <4>2 DEF ProductDetailComponent
      <3>2. CASE \E c \in Ceps \cup {""} : detail' = [detail EXCEPT !.cep = c]
        <4>1. PICK c \in Ceps \cup {""} : detail' = [detail EXCEPT !.cep = c]  BY <3>2
        <4> QED  BY <1>2, <4>1 DEF ProductDetailComponent
      <3> QED  BY <2>2, <3>1, <3>2 DEF EditDetail
    <2>3. CASE SimularFrete
      <3>1. PICK frete : frete = [produto |-> route, cep |-> detail.cep, qtd |-> detail.qtd]
        OBVIOUS
      <3>2. frete \in Fretes
        BY <1>2, <1>3, <2>3, <3>1 DEF SimularFrete, MaySimulate, Fretes, ProductDetailComponent
      <3>3. PICK w : w = Append(detail.waiting, frete)  OBVIOUS
      <3>4. detail' = [detail EXCEPT !.loadingFrete = TRUE, !.waiting = w]
        BY <2>3, <3>1, <3>3 DEF SimularFrete
      <3>5. Len(detail.waiting) = 0  BY <1>2, <2>3 DEF SimularFrete, MaySimulate
      <3>6. w \in Seq(Fretes) /\ Len(w) = Len(detail.waiting) + 1
        BY <1>a, <3>2, <3>3, AppendProperties
      <3>7. Len(w) = 1  BY <3>5, <3>6
      <3> QED  BY <1>2, <3>4, <3>6, <3>7 DEF ProductDetailComponent
    <2>4. CASE FreteAnswer
      <3>1. PICK s : s = detail.waiting  OBVIOUS
      <3>2. s \in Seq(Fretes) /\ s # <<>> /\ Len(s) = 1
        <4>1. s \in Seq(Fretes) /\ s # <<>>  BY <1>a, <2>4, <3>1 DEF FreteAnswer
        <4>2. Len(s) # 0  BY <4>1, EmptySeq
        <4> QED  BY <1>2, <3>1, <4>1, <4>2
      <3>3. Head(s) \in Fretes /\ Tail(s) \in Seq(Fretes) /\ Len(Tail(s)) = 0
        BY <3>2, HeadTailProperties
      <3>4. PICK one, rest : one = {Head(s)} /\ rest = Tail(s)  OBVIOUS
      <3>5. detail' = [detail EXCEPT !.frete = one, !.loadingFrete = FALSE, !.waiting = rest]
        BY <2>4, <3>1, <3>4 DEF FreteAnswer
      <3>6. one \in SUBSET Fretes /\ rest \in Seq(Fretes) /\ Len(rest) = 0  BY <3>3, <3>4
      <3> QED  BY <1>2, <3>5, <3>6 DEF ProductDetailComponent
    <2>5. CASE ShowAdded
      <3>1. detail.timers + 1 \in Nat  BY <1>b
      <3>2. PICK n : n = detail.timers + 1  OBVIOUS
      <3>3. detail' = [detail EXCEPT !.added = TRUE, !.timers = n]  BY <2>5, <3>2 DEF ShowAdded
      <3> QED  BY <1>2, <3>1, <3>2, <3>3 DEF ProductDetailComponent
    <2>6. CASE HideAdded
      <3>1. detail.timers - 1 \in Nat  BY <1>b, <2>6 DEF HideAdded
      <3>2. PICK n : n = detail.timers - 1  OBVIOUS
      <3>3. detail' = [detail EXCEPT !.added = FALSE, !.timers = n]  BY <2>6, <3>2 DEF HideAdded
      <3> QED  BY <1>2, <3>1, <3>2, <3>3 DEF ProductDetailComponent
    <2> QED  BY <2>1, <2>2, <2>3, <2>4, <2>5, <2>6
  <1>5. DetailInv'  BY <1>1, <1>3, <1>4 DEF DetailInv
  <1>6. CatalogInv' /\ ContactInv'
    BY <1>1 DEF PagesInv, CatalogInv, LastIsCurrent, getProdutos, ContactInv
  <1> QED  BY <1>1, <1>5, <1>6 DEF PagesInv

\* The contact page: a message is waited for while the flag is up.
LEMMA ContactKeeps ==
  ASSUME PagesInv, EditContact \/ Enviar \/ ContatoAnswer
  PROVE  PagesInv'
  <1>1. UNCHANGED <<route, catalog, detail>>  BY DEF EditContact, Enviar, ContatoAnswer
  <1>2. ContactInv  BY DEF PagesInv
  <1>3. route = "/contato"
    BY <1>2, NewPages DEF ContactInv, EditContact, Enviar, ContatoAnswer
  <1>4. ContactInv'
    <2>1. CASE EditContact  BY <1>1, <1>2, <1>3, <2>1 DEF EditContact, ContactInv, ContatoComponent
    <2>2. CASE Enviar
      <3>1. ~contact.loading /\ contact.waiting = 0  BY <1>2, <2>2 DEF Enviar, ContactInv
      <3>2. CASE contact.filled
        <4>1. contact' = [contact EXCEPT !.erro = FALSE, !.sucesso = FALSE, !.loading = TRUE,
                                         !.waiting = 1]
          BY <2>2, <3>1, <3>2 DEF Enviar
        <4> QED  BY <1>1, <1>2, <1>3, <4>1 DEF ContactInv, ContatoComponent
      <3>3. CASE ~contact.filled
        <4>1. contact' = [contact EXCEPT !.erro = TRUE, !.sucesso = FALSE]
          BY <2>2, <3>3 DEF Enviar
        <4> QED  BY <1>1, <1>2, <1>3, <3>1, <4>1 DEF ContactInv, ContatoComponent
      <3> QED  BY <3>2, <3>3
    <2>3. CASE ContatoAnswer
      <3>1. contact.loading /\ contact.waiting = 1  BY <1>2, <2>3 DEF ContatoAnswer, ContactInv
      <3>2. contact' = [contact EXCEPT !.loading = FALSE, !.sucesso = TRUE, !.filled = FALSE,
                                       !.waiting = 0]
        BY <2>3, <3>1 DEF ContatoAnswer
      <3>3. ~contact.erro  BY <1>2, <3>1 DEF ContactInv
      <3> QED  BY <1>1, <1>2, <1>3, <3>2, <3>3 DEF ContactInv, ContatoComponent
    <2> QED  BY <2>1, <2>2, <2>3
  <1>5. CatalogInv' /\ DetailInv'
    BY <1>1 DEF PagesInv, CatalogInv, LastIsCurrent, getProdutos, DetailInv
  <1> QED  BY <1>1, <1>4, <1>5 DEF PagesInv

\* Another page: its component is new, and the catalogue asks for everything.
LEMMA NavigateKeeps ==
  ASSUME PagesInv, NEW next \in Routes, Navigate(next)
  PROVE  PagesInv'
  <1>1. route' = next /\ detail' = NewDetail /\ contact' = NewContact  BY DEF Navigate
  <1>2. DetailInv' /\ ContactInv'
    <2>1. Len(NewDetail.waiting) = 0  BY NewPages
    <2> QED  BY <1>1, <2>1, NewPages DEF DetailInv, ContactInv
  <1>3. CatalogInv'
    <2>1. CASE next = "/catalogo"
      <3>1. PICK asked : asked = <<SemFiltro>>  OBVIOUS
      <3>2. SemFiltro \in Filtros  BY ShopPagesConstants DEF SemFiltro, Filtros
      <3>3. asked \in Seq(Filtros) /\ asked # <<>> /\ asked[Len(asked)] = SemFiltro
        BY <3>1, <3>2
      <3>4. catalog' = [NewCatalog EXCEPT !.waiting = asked]  BY <2>1, <3>1 DEF Navigate
      <3>5. catalog' \in CatalogComponent /\ catalog'.waiting = asked /\ catalog'.filtro = SemFiltro
        BY <3>3, <3>4, NewPages DEF CatalogComponent, NewCatalog
      <3> QED  BY <1>1, <2>1, <3>3, <3>5 DEF CatalogInv, LastIsCurrent
    <2>2. CASE next # "/catalogo"
      BY <1>1, <2>2, NewPages DEF Navigate, CatalogInv
    <2> QED  BY <2>1, <2>2
  <1> QED  BY <1>1, <1>2, <1>3 DEF PagesInv

LEMMA PagesStep == PagesInv /\ [ShopPagesNext]_pageVars => PagesInv'
  <1>1. ASSUME PagesInv, UNCHANGED pageVars PROVE PagesInv'
    BY <1>1 DEF pageVars, PagesInv, CatalogInv, LastIsCurrent, getProdutos, DetailInv, ContactInv
  <1> QED
    BY <1>1, CatalogKeeps, DetailKeeps, ContactKeeps, NavigateKeeps
       DEF ShopPagesNext

LEMMA PagesInvariant == ShopPagesSpec => []PagesInv
  BY PagesStart, PagesStep, PTL DEF ShopPagesSpec

(* For any products, filters and order of clicks and answers: once a page shows *)
(* nothing spinning, no call made before changes what it shows.  The list is   *)
(* that of the filters, the freight that of the last simulation.              *)
THEOREM PagesSettle == ShopPagesSpec => []SettledIsLast
  <1>1. PagesInv => SettledIsLast
    <2> SUFFICES ASSUME PagesInv PROVE SettledIsLast  OBVIOUS
    <2>1. detail.waiting \in Seq(Fretes)  BY DEF PagesInv, DetailInv, ProductDetailComponent
    <2>2. ~detail.loadingFrete => detail.waiting = <<>>  BY <2>1 DEF PagesInv, DetailInv
    <2>3. route = "/catalogo" /\ catalog.waiting = <<>>
             => catalog.filtrados = getProdutos(catalog.filtro)
      BY DEF PagesInv, CatalogInv, LastIsCurrent
    <2> QED  BY <2>2, <2>3 DEF PagesInv, ContactInv, SettledIsLast
  <1> QED  BY <1>1, PagesInvariant, PTL

---------------------------------------------------------------------------
(***************************************************************************)
(* The storefront and its pages, typed.                                    *)
(***************************************************************************)
(* For any tabs and goods: the rows, the stored and the shown carts and what    *)
(* a tab has sent are typed, the orders in flight included.                   *)
THEOREM StorefrontTypes == StorefrontSpec => []StorefrontTypeOK
  <1>1. StoreInv => StorefrontTypeOK  BY DEF StoreInv
  <1> QED  BY <1>1, StoreStart, StoreNext, PTL DEF StorefrontSpec

(* For any sockets: their states, the reference and the timers are typed, and   *)
(* a page opens the sockets in their order.                                  *)
THEOREM TrackingTypes == TrackingSpec => []TrackingTypeOK
  <1>1. TrackingInv => TrackingTypeOK  BY DEF TrackingInv
  <1> QED  BY <1>1, TrackingInvariant, PTL

LEMMA PagesTyped == PagesInv => ShopPagesTypeOK
  BY DEF PagesInv, CatalogInv, DetailInv, ContactInv, ShopPagesTypeOK

(* For any products and texts: what the three pages hold, and the answers they  *)
(* wait for, are typed.                                                     *)
THEOREM PageTypes == ShopPagesSpec => []ShopPagesTypeOK
  BY PagesTyped, PagesInvariant, PTL

---------------------------------------------------------------------------
(***************************************************************************)
(* The components together (MCComponents).  They share no state: a step of the  *)
(* composition is a step or a stutter of each of them, so what is invariant of  *)
(* each alone is invariant of all.                                           *)
(***************************************************************************)
EachStarts ==
    /\ StorageInit /\ AccountInit /\ CacheInit /\ EventInit /\ StorefrontInit
    /\ TrackingInit /\ SettingsInit /\ RowCacheInit /\ ShopPagesInit /\ OptimizerInit
EachMoves ==
    /\ [StorageNext]_storageVars /\ [AccountNext]_accountVars /\ [CacheNext]_cacheVars
    /\ [EventNext]_eventVars /\ [StorefrontNext]_storefrontVars
    /\ [TrackingNext]_trackingVars /\ [SettingsNext]_settingsVars
    /\ [RowCacheNext]_rowCacheVars /\ [ShopPagesNext]_pageVars /\ [OptimizerNext]_optimizerVars

\* The inductive invariants of the ten.
EachHolds ==
    /\ StorageInv /\ AccountInv /\ ResponsesTyped
    /\ DurableInv /\ NotesInv /\ SkippedInv /\ EventParts
    /\ StoreInv /\ TrackingInv /\ SettingsInv /\ ToastsTyped
    /\ CacheInv /\ WithinBounds /\ PagesInv /\ OptimizerInv

LEMMA ComponentsStart == ComponentsInit => EachStarts
  BY DEF ComponentsInit, EachStarts

LEMMA ComponentsStep == [ComponentsNext]_componentVars => EachMoves
  <1> SUFFICES ASSUME [ComponentsNext]_componentVars PROVE EachMoves  OBVIOUS
  <1>1. CASE UNCHANGED componentVars  BY <1>1 DEF componentVars, EachMoves
  <1>2. CASE ComponentsNext
    <2>1. [StorageNext]_storageVars  BY <1>2 DEF ComponentsNext, Of, Keep
    <2>2. [AccountNext]_accountVars  BY <1>2 DEF ComponentsNext, Of, Keep
    <2>3. [CacheNext]_cacheVars  BY <1>2 DEF ComponentsNext, Of, Keep
    <2>4. [EventNext]_eventVars  BY <1>2 DEF ComponentsNext, Of, Keep
    <2>5. [StorefrontNext]_storefrontVars  BY <1>2 DEF ComponentsNext, Of, Keep
    <2>6. [TrackingNext]_trackingVars  BY <1>2 DEF ComponentsNext, Of, Keep
    <2>7. [SettingsNext]_settingsVars  BY <1>2 DEF ComponentsNext, Of, Keep
    <2>8. [RowCacheNext]_rowCacheVars  BY <1>2 DEF ComponentsNext, Of, Keep
    <2>9. [ShopPagesNext]_pageVars  BY <1>2 DEF ComponentsNext, Of, Keep
    <2>10. [OptimizerNext]_optimizerVars  BY <1>2 DEF ComponentsNext, Of, Keep
    <2> QED
      BY <2>1, <2>2, <2>3, <2>4, <2>5, <2>6, <2>7, <2>8, <2>9, <2>10 DEF EachMoves
  <1> QED  BY <1>1, <1>2

LEMMA EachStartsInvariant == EachStarts => EachHolds
  BY StorageInitInv, AccountsAtStart, CacheStart, DurableAtStart, NotesAtStart, SkippedAtStart,
     PartsAtStart, StoreStart, InitTracking, SettingsStart, ToastsStart, InitSettled, BoundsAtStart,
     PagesStart, OptimizerStarts DEF EachStarts, EachHolds

LEMMA EachKeepsInvariant == EachHolds /\ EachMoves => EachHolds'
  <1> SUFFICES ASSUME EachHolds, EachMoves PROVE EachHolds'  OBVIOUS
  <1>1. StorageInv' /\ AccountInv' /\ ResponsesTyped'
    BY StorageNextInv, AccountStepInv, CacheStep DEF EachHolds, EachMoves
  <1>2. DurableInv' /\ NotesInv' /\ SkippedInv' /\ EventParts'
    BY DurableStep, NotesStep, SkippedStep, PartsStep DEF EachHolds, EachMoves
  <1>3. StoreInv' /\ TrackingInv' /\ SettingsInv' /\ ToastsTyped'
    BY StoreNext, StepTracks, SettingsStep, ToastsStep DEF EachHolds, EachMoves
  <1>4. CacheInv' /\ WithinBounds' /\ PagesInv' /\ OptimizerInv'
    BY StepKeeps, BoundsStep, PagesStep, OptimizerSteps DEF EachHolds, EachMoves
  <1> QED  BY <1>1, <1>2, <1>3, <1>4 DEF EachHolds

LEMMA EachTyped == EachHolds => ComponentsTypeOK
  <1> SUFFICES ASSUME EachHolds PROVE ComponentsTypeOK  OBVIOUS
  <1>1. StorageTypeOK /\ AccountTypeOK /\ CacheTypeOK
    BY DEF EachHolds, StorageInv, AccountInv, ResponsesTyped
  <1>2. EventTypeOK  BY EventsTyped DEF EachHolds
  <1>3. StorefrontTypeOK /\ CartWellFormed /\ TrackingTypeOK
    BY DEF EachHolds, StoreInv, TrackingInv
  <1>4. SettingsTypeOK /\ RowCacheTypeOK /\ ShopPagesTypeOK
    BY SettingsTyped, RowsTyped, PagesTyped DEF EachHolds
  <1>5. OptimizerTypeOK  BY DEF EachHolds, OptimizerInv, OptimizerShape
  <1> QED  BY <1>1, <1>2, <1>3, <1>4, <1>5 DEF ComponentsTypeOK

(* Run together, whatever the components in focus, each of the ten behaves as its  *)
(* own specification says, fairness aside: what is proved of a component alone  *)
(* holds of it in the composition the runs check.                           *)
THEOREM EachComponentRuns ==
  ComponentsSpec =>
    /\ StorageSpec /\ AccountSpec
    /\ CacheInit /\ [][CacheNext]_cacheVars
    /\ EventInit /\ [][EventNext]_eventVars
    /\ StorefrontSpec
    /\ TrackingInit /\ [][TrackingNext]_trackingVars
    /\ SettingsSpec
    /\ RowCacheInit /\ [][RowCacheNext]_rowCacheVars
    /\ ShopPagesSpec /\ OptimizerSpec
  BY ComponentsStart, ComponentsStep, PTL
     DEF ComponentsSpec, EachStarts, EachMoves, StorageSpec, AccountSpec, StorefrontSpec,
         SettingsSpec, ShopPagesSpec, OptimizerSpec

(* The states of all ten are typed in every state of the composition, and every   *)
(* cart, stored, shown or sent, has one line per product, with its minimum.    *)
THEOREM ComponentsTypes == ComponentsSpec => []ComponentsTypeOK
  BY ComponentsStart, ComponentsStep, EachStartsInvariant, EachKeepsInvariant, EachTyped, PTL
     DEF ComponentsSpec
=============================================================================
