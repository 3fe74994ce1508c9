------------------------- MODULE GpsTrackingProofs --------------------------
(***************************************************************************)
(* Theorems about the GPS tracker of the FastAPI application (GpsTracking),    *)
(* for any trucks, sockets, posts, updates and faults.                        *)
(***************************************************************************)
EXTENDS GpsTracking, SequenceTheorems, TLAPS

---------------------------------------------------------------------------
\* What makes ClientsKnowLast inductive.  An update that has been received is numbered.
CountOK ==
    \A h \in Handlers : gpsPc[h] \in {"cache", "push", "trim", "cast", "send"} => count[h] # 0

\* Update h, stored last, still has to be sent to s.
Coming(h, s) ==
    /\ Truck[h] = Truck[s] /\ worker[h] = worker[s] /\ last[Truck[s]] = Received(h)
    /\ \/ gpsPc[h] \in {"push", "trim", "cast"}
       \/ gpsPc[h] = "send" /\ s \in audience[h]

\* Socket s has the last position, is about to read it or holds it for its greeting, or
\* the broadcast of that position will still reach it.
Reached(s) ==
    \/ last[Truck[s]] \in got[s]
    \/ gpsPc[s] = "greet"
    \/ gpsPc[s] = "greeting" /\ held[s] = last[Truck[s]]
    \/ \E h \in Handlers : Coming(h, s)

\* The last position of the truck of s was received by the process of s.
Ours(s) == last[Truck[s]] # NoFix /\ worker[last[Truck[s]].by] = worker[s]

LastReaches ==
    failures = 0 => \A s \in GpsSockets : open[s] /\ Ours(s) => Reached(s)

\* A socket that is not connected yet is nowhere, and dead sockets stay dead.
SocketsOK ==
    /\ \A s \in GpsSockets : gpsPc[s] = "new" =>
          /\ ~open[s]
          /\ \A w \in Workers, t \in Trucks : s \notin registry[w][t]
          /\ \A h \in Handlers : s \notin audience[h] /\ s \notin failed[h]
    /\ \A h \in Handlers : \A s \in failed[h] : ~open[s]
    /\ \A s \in GpsSockets : open[s] => gpsPc[s] # "gone"

---------------------------------------------------------------------------
\* LPUSH makes a list of positions one longer.
LEMMA PushedHistory ==
  ASSUME NEW fixes \in Seq(Fix), NEW fix \in Fix
  PROVE  <<fix>> \o fixes \in Seq(Fix)
  BY ConcatProperties

\* LTRIM leaves a list of positions within the cap.
LEMMA TrimmedHistory ==
  ASSUME NEW fixes \in Seq(Fix)
  PROVE  Trimmed(fixes) \in Seq(Fix) /\ Len(Trimmed(fixes)) <= HistoryMax
<1>1. CASE Len(fixes) > HistoryMax
  <2>1. \A i \in 1..HistoryMax : fixes[i] \in Fix
    BY <1>1, TrackingConstants
  <2>2. HistoryMax \in Int /\ 1 <= HistoryMax
    BY TrackingConstants
  <2>3. SubSeq(fixes, 1, HistoryMax) \in Seq(Fix)
        /\ Len(SubSeq(fixes, 1, HistoryMax)) = HistoryMax - 1 + 1
    BY <2>1, <2>2, SubSeqProperties
  <2>. QED  BY <1>1, <2>2, <2>3 DEF Trimmed
<1>2. CASE ~(Len(fixes) > HistoryMax)
  <2>1. Len(fixes) \in Nat
    BY LenProperties
  <2>. QED  BY <1>2, <2>1, TrackingConstants DEF Trimmed
<1>. QED  BY <1>1, <1>2

\* A received update is a position.
LEMMA CurrentFix ==
  ASSUME GpsTypeOK, CountOK, NEW h \in Handlers, gpsPc[h] \in {"cache", "push", "trim", "cast", "send"}
  PROVE  Received(h) \in Fix
<1>1. count[h] \in 1..MaxUpdates
  BY TrackingConstants DEF GpsTypeOK, CountOK
<1>. QED  BY <1>1 DEF Received, Fix

Inv == GpsTypeOK /\ CountOK

\* Nothing has happened at start, and an empty history is within its cap.
LEMMA InitInv == GpsInit => Inv
  BY TrackingConstants
  DEF GpsInit, Inv, GpsTypeOK, HistoryCapped, CountOK, Handlers, SocketSteps, PostSteps, NoFix

\* The steps of GpsNext, one by one.
LEMMA NextCases ==
  ASSUME GpsNext
  PROVE  /\ UNCHANGED worker
         /\ \/ \E s \in GpsSockets :
                  \/ Connect(s) \/ ReadLast(s) \/ ReadLastFails(s) \/ Greet(s)
                  \/ ClientCloses(s) \/ Disconnect(s) \/ Receive(s) \/ Ack(s)
            \/ \E p \in Posts : Post(p)
            \/ \E h \in Handlers :
                  \/ CacheLast(h) \/ CacheFails(h) \/ PushHistory(h) \/ TrimHistory(h)
                  \/ CastStart(h) \/ Send(h) \/ CastEnd(h)
            \/ Expire \/ \E w \in Workers : ProcessDies(w)
  BY DEF GpsNext, Serve, HandleUpdate, Handlers

\* Without a fault now there has been none before.
LEMMA FaultsGrow ==
  ASSUME failures \in Nat, losses \in Nat, [GpsNext]_gpsVars
  PROVE  /\ failures' = 0 => failures = 0
         /\ failures' + losses' = 0 => failures + losses = 0
<1>1. failures' = failures \/ failures' = failures + 1
  BY NextCases DEF gpsVars, Connect, ReadLast, ReadLastFails, Greet, ClientCloses, Disconnect,
     Receive, Ack, Post, CacheLast, CacheFails, PushHistory, TrimHistory, CastStart, Send,
     CastEnd, Expire, ProcessDies
<1>2. losses' = losses \/ losses' = losses + 1
  BY NextCases DEF gpsVars, Connect, ReadLast, ReadLastFails, Greet, ClientCloses, Disconnect,
     Receive, Ack, Post, CacheLast, CacheFails, PushHistory, TrimHistory, CastStart, Send,
     CastEnd, Expire, ProcessDies
<1>. QED  BY <1>1, <1>2

\* Steps that leave the history alone and end no trim keep the cap.
LEMMA CapFrame ==
  ASSUME GpsTypeOK, [GpsNext]_gpsVars, UNCHANGED history,
         \A h \in Handlers : gpsPc[h] = "trim" => gpsPc'[h] = "trim"
  PROVE  HistoryCapped'
<1>. SUFFICES ASSUME failures' + losses' = 0 PROVE HistoryCapped'
  BY DEF HistoryCapped
<1>1. failures + losses = 0
  BY FaultsGrow DEF GpsTypeOK
<1>. QED  BY <1>1 DEF GpsTypeOK, HistoryCapped

\* So does a fault, whatever it does.
LEMMA CapAfterFault ==
  ASSUME failures \in Nat, losses \in Nat, failures' + losses' = failures + losses + 1
  PROVE  HistoryCapped'
  BY DEF HistoryCapped

\* Types, numbering and the cap are preserved by every step.
LEMMA NextInv == Inv /\ [GpsNext]_gpsVars => Inv'
<1>. SUFFICES ASSUME Inv, [GpsNext]_gpsVars PROVE Inv'
  OBVIOUS
<1>. USE TrackingConstants DEF Inv, GpsTypeOK, CountOK, Handlers, SocketSteps, PostSteps,
     Enter, connections, redis, casting, clients
<1>0. UNCHANGED worker
  BY NextCases DEF gpsVars
<1>1. ASSUME NEW s \in GpsSockets, Connect(s) PROVE Inv'
  <2>1. HistoryCapped'
    BY <1>1, CapFrame DEF Connect
  <2>. QED  BY <1>0, <1>1, <2>1 DEF Connect
<1>2. ASSUME NEW s \in GpsSockets, ReadLast(s) PROVE Inv'
  <2>1. HistoryCapped'
    BY <1>2, CapFrame DEF ReadLast
  <2>. QED  BY <1>0, <1>2, <2>1 DEF ReadLast
<1>3. ASSUME NEW s \in GpsSockets, ReadLastFails(s) PROVE Inv'
  <2>1. HistoryCapped'
    BY <1>3, CapFrame DEF ReadLastFails, MayFault
  <2>. QED  BY <1>0, <1>3, <2>1 DEF ReadLastFails, MayFault
<1>4. ASSUME NEW s \in GpsSockets, Greet(s) PROVE Inv'
  <2>1. HistoryCapped'
    BY <1>4, CapFrame DEF Greet
  <2>. QED  BY <1>0, <1>4, <2>1 DEF Greet
<1>5. ASSUME NEW s \in GpsSockets, ClientCloses(s) PROVE Inv'
  <2>1. HistoryCapped'
    BY <1>5, CapFrame DEF ClientCloses
  <2>. QED  BY <1>0, <1>5, <2>1 DEF ClientCloses
<1>6. ASSUME NEW s \in GpsSockets, Disconnect(s) PROVE Inv'
  <2>1. HistoryCapped'
    BY <1>6, CapFrame DEF Disconnect, Unregistered, KeysWithout
  <2>. QED  BY <1>0, <1>6, <2>1 DEF Disconnect, Unregistered, KeysWithout
<1>7. ASSUME NEW s \in GpsSockets, Receive(s) PROVE Inv'
  <2>1. HistoryCapped'
    BY <1>7, CapFrame DEF Receive
  <2>. QED  BY <1>0, <1>7, <2>1 DEF Receive
<1>8. ASSUME NEW s \in GpsSockets, Ack(s) PROVE Inv'
  <2>1. HistoryCapped'
    BY <1>8, CapFrame DEF Ack
  <2>. QED  BY <1>0, <1>8, <2>1 DEF Ack
<1>9. ASSUME NEW p \in Posts, Post(p) PROVE Inv'
  <2>1. HistoryCapped'
    BY <1>9, CapFrame DEF Post
  <2>. QED  BY <1>0, <1>9, <2>1 DEF Post
<1>10. ASSUME NEW h \in Handlers, CacheLast(h) PROVE Inv'
  <2>1. HistoryCapped'
    BY <1>10, CapFrame DEF CacheLast
  <2>. QED  BY <1>0, <1>10, <2>1, CurrentFix DEF CacheLast
<1>11. ASSUME NEW h \in Handlers, CacheFails(h) PROVE Inv'
  <2>1. Received(h) \in Fix
    BY <1>11, CurrentFix DEF CacheFails
  <2>2. last' \in [Trucks -> Fix \cup {NoFix}]
    <3>1. last' = last \/ last' = [last EXCEPT ![Truck[h]] = Received(h)]
      BY <1>11 DEF CacheFails
    <3>2. last \in [Trucks -> Fix \cup {NoFix}]
      OBVIOUS
    <3>. QED  BY ONLY <2>1, <3>1, <3>2
  <2>3. gpsPc' \in [Handlers -> SocketSteps \cup PostSteps]
        /\ (\A s \in GpsSockets : gpsPc'[s] \in SocketSteps)
        /\ (\A p \in Posts : gpsPc'[p] \in PostSteps)
        /\ CountOK'
    BY <1>11 DEF CacheFails
  <2>4. failures' \in 0..MaxGpsFaults /\ losses' \in 0..MaxGpsFaults
    BY <1>11 DEF CacheFails, MayFault
  <2>5. HistoryCapped'
    BY <1>11, CapFrame DEF CacheFails
  <2>. QED  BY <1>0, <1>11, <2>2, <2>3, <2>4, <2>5 DEF CacheFails
<1>12. ASSUME NEW h \in Handlers, PushHistory(h) PROVE Inv'
  <2> DEFINE longer == [history EXCEPT ![Truck[h]] = <<Received(h)>> \o history[Truck[h]]]
  <2>1. Received(h) \in Fix /\ Truck[h] \in Trucks /\ history[Truck[h]] \in Seq(Fix)
    BY <1>12, CurrentFix DEF PushHistory
  <2>2. longer \in [Trucks -> Seq(Fix)]
    <3>1. <<Received(h)>> \o history[Truck[h]] \in Seq(Fix)
      BY <2>1, PushedHistory
    <3>2. history \in [Trucks -> Seq(Fix)]
      OBVIOUS
    <3>. QED  BY ONLY <3>1, <3>2
  <2>3. history' \in {history, longer}
    BY <1>12 DEF PushHistory
  <2>4. history' \in [Trucks -> Seq(Fix)]
    BY <2>2, <2>3
  <2>5. gpsPc' \in [Handlers -> SocketSteps \cup PostSteps]
        /\ (\A s \in GpsSockets : gpsPc'[s] \in SocketSteps)
        /\ (\A p \in Posts : gpsPc'[p] \in PostSteps)
        /\ CountOK'
    <3>1. gpsPc' = [gpsPc EXCEPT ![h] = "trim"] \/ gpsPc' = [gpsPc EXCEPT ![h] = "cast"]
      BY <1>12 DEF PushHistory
    <3>2. gpsPc[h] = "push" /\ UNCHANGED count
      BY <1>12 DEF PushHistory
    <3>. QED  BY <3>1, <3>2
  <2>6. failures' \in 0..MaxGpsFaults /\ losses' \in 0..MaxGpsFaults
    BY <1>12 DEF PushHistory, MayFault
  <2>7. HistoryCapped'
    <3>1. CASE failures' = failures + 1
      BY <1>12, <3>1, CapAfterFault DEF PushHistory
    <3>2. CASE failures' # failures + 1
      <4>1. history' = longer /\ gpsPc' = [gpsPc EXCEPT ![h] = "trim"]
            /\ UNCHANGED <<failures, losses>>
        BY <1>12, <3>2 DEF PushHistory
      <4>2. \A t \in Trucks : t # Truck[h] => history'[t] = history[t]
        BY <4>1
      <4>3. \A g \in Handlers : gpsPc[g] = "trim" => gpsPc'[g] = "trim"
        BY <4>1
      <4>4. gpsPc'[h] = "trim"
        BY <4>1
      <4>. QED  BY <2>1, <4>1, <4>2, <4>3, <4>4 DEF HistoryCapped
    <3>. QED  BY <3>1, <3>2
  <2>. QED  BY <1>0, <1>12, <2>4, <2>5, <2>6, <2>7 DEF PushHistory
<1>19. ASSUME NEW h \in Handlers, TrimHistory(h) PROVE Inv'
  <2> DEFINE shorter == [history EXCEPT ![Truck[h]] = Trimmed(history[Truck[h]])]
  <2>1. Truck[h] \in Trucks /\ history[Truck[h]] \in Seq(Fix)
    OBVIOUS
  <2>2. Trimmed(history[Truck[h]]) \in Seq(Fix)
        /\ Len(Trimmed(history[Truck[h]])) <= HistoryMax
    BY <2>1, TrimmedHistory
  <2>3. shorter \in [Trucks -> Seq(Fix)]
    <3>1. history \in [Trucks -> Seq(Fix)]
      OBVIOUS
    <3>. QED  BY ONLY <2>2, <3>1
  <2>4. history' \in [Trucks -> Seq(Fix)]
    BY <1>19, <2>3 DEF TrimHistory
  <2>5. gpsPc' \in [Handlers -> SocketSteps \cup PostSteps]
        /\ (\A s \in GpsSockets : gpsPc'[s] \in SocketSteps)
        /\ (\A p \in Posts : gpsPc'[p] \in PostSteps)
        /\ CountOK'
    BY <1>19 DEF TrimHistory
  <2>6. failures' \in 0..MaxGpsFaults /\ losses' \in 0..MaxGpsFaults
    BY <1>19 DEF TrimHistory, MayFault
  <2>7. HistoryCapped'
    <3>1. CASE failures' = failures + 1
      BY <1>19, <3>1, CapAfterFault DEF TrimHistory
    <3>2. CASE failures' # failures + 1
      <4>1. history' = shorter /\ gpsPc' = [gpsPc EXCEPT ![h] = "cast"]
            /\ UNCHANGED <<failures, losses>>
        BY <1>19, <3>2 DEF TrimHistory
      <4>2. SUFFICES ASSUME failures + losses = 0, NEW t \in Trucks,
                            Len(history'[t]) > HistoryMax
                     PROVE  \E g \in Handlers : Truck[g] = t /\ gpsPc'[g] = "trim"
        BY <4>1 DEF HistoryCapped
      <4>3. t # Truck[h] /\ history'[t] = history[t]
        <5>1. CASE t = Truck[h]
          <6>1. history'[t] = Trimmed(history[Truck[h]])
            BY <4>1, <5>1
          <6>2. Len(Trimmed(history[Truck[h]])) \in Nat /\ HistoryMax \in Nat
            BY <2>2, LenProperties
          <6>. QED  BY <2>2, <4>2, <6>1, <6>2
        <5>2. CASE t # Truck[h]
          BY <4>1, <5>2
        <5>. QED  BY <5>1, <5>2
      <4>4. PICK g \in Handlers : Truck[g] = t /\ gpsPc[g] = "trim"
        BY <4>2, <4>3 DEF HistoryCapped
      <4>. QED  BY <4>1, <4>3, <4>4
    <3>. QED  BY <3>1, <3>2
  <2>. QED  BY <1>0, <1>19, <2>4, <2>5, <2>6, <2>7 DEF TrimHistory
<1>13. ASSUME NEW h \in Handlers, CastStart(h) PROVE Inv'
  <2>1. HistoryCapped'
    BY <1>13, CapFrame DEF CastStart
  <2>. QED  BY <1>0, <1>13, <2>1 DEF CastStart, Connected
<1>14. ASSUME NEW h \in Handlers, Send(h) PROVE Inv'
  <2>1. Received(h) \in Fix
    BY <1>14, CurrentFix DEF Send
  <2>2. PICK s \in audience[h] :
          /\ audience' = [audience EXCEPT ![h] = @ \ {s}]
          /\ \/ Delivered(s, Received(h)) /\ UNCHANGED failed
             \/ failed' = [failed EXCEPT ![h] = @ \cup {s}] /\ UNCHANGED got
    BY <1>14 DEF Send
  <2>3. audience' \in [Handlers -> SUBSET GpsSockets] /\ failed' \in [Handlers -> SUBSET GpsSockets]
    <3>1. failed' = failed \/ failed' = [failed EXCEPT ![h] = @ \cup {s}]
      BY <2>2 DEF Delivered
    <3>2. audience \in [Handlers -> SUBSET GpsSockets] /\ failed \in [Handlers -> SUBSET GpsSockets]
          /\ s \in GpsSockets
      BY <2>2
    <3>. QED  BY ONLY <2>2, <3>1, <3>2
  <2>4. got' \in [GpsSockets -> SUBSET Fix]
    BY <2>1, <2>2 DEF Delivered
  <2>5. HistoryCapped'
    BY <1>14, CapFrame DEF Send
  <2>. QED  BY <1>0, <1>14, <2>3, <2>4, <2>5 DEF Send
<1>15. ASSUME NEW h \in Handlers, CastEnd(h) PROVE Inv'
  <2>1. HistoryCapped'
    BY <1>15, CapFrame DEF CastEnd
  <2>. QED  BY <1>0, <1>15, <2>1 DEF CastEnd
<1>16. ASSUME Expire PROVE Inv'
  <2>1. last' \in [Trucks -> Fix \cup {NoFix}]
    BY <1>16 DEF Expire
  <2>2. history' \in [Trucks -> Seq(Fix)]
    <3>1. history' = history \/ \E t \in Trucks : history' = [history EXCEPT ![t] = <<>>]
      BY <1>16 DEF Expire
    <3>2. history \in [Trucks -> Seq(Fix)] /\ <<>> \in Seq(Fix)
      OBVIOUS
    <3>. QED  BY ONLY <3>1, <3>2
  <2>3. failures' \in 0..MaxGpsFaults /\ losses' \in 0..MaxGpsFaults
    BY <1>16 DEF Expire, MayFault
  <2>4. HistoryCapped'
    BY <1>16, CapAfterFault DEF Expire
  <2>. QED  BY <1>0, <1>16, <2>1, <2>2, <2>3, <2>4 DEF Expire
<1>17. ASSUME NEW w \in Workers, ProcessDies(w) PROVE Inv'
  <2>1. HistoryCapped'
    BY <1>17, CapAfterFault DEF ProcessDies
  <2>. QED  BY <1>0, <1>17, <2>1 DEF ProcessDies, Dies, MayFault, NoFix
<1>18. ASSUME UNCHANGED gpsVars PROVE Inv'
  BY <1>18 DEF gpsVars, HistoryCapped
<1>. QED  BY <1>1, <1>2, <1>3, <1>4, <1>5, <1>6, <1>7, <1>8, <1>9, <1>10, <1>11, <1>12, <1>13, <1>14, <1>15, <1>16, <1>17, <1>18, <1>19, NextCases

\* In every reachable state the tracking service is well typed, and a history is longer
\* than its cap only while a trim of it is still to come.
THEOREM TypeCorrect == GpsSpec => []GpsTypeOK
<1>1. Inv => GpsTypeOK
  BY DEF Inv
<1>. QED  BY InitInv, NextInv, <1>1, PTL DEF GpsSpec

---------------------------------------------------------------------------
(* The registry follows the sockets. *)

RegistryInv == SocketsOK /\ ConnectedIsRegistered /\ GoneIsUnregistered

\* Without a Redis failure now there has been none before.
LEMMA FailuresGrow ==
  ASSUME Inv, [GpsNext]_gpsVars, failures' = 0
  PROVE  failures = 0
  BY FaultsGrow DEF Inv, GpsTypeOK

\* No process hands a handler over to another.
LEMMA WorkersStay ==
  ASSUME [GpsNext]_gpsVars
  PROVE  worker' = worker
  BY NextCases DEF gpsVars

\* No socket is connected at start.
LEMMA RegistryInit == GpsInit => RegistryInv
  BY TrackingConstants
  DEF GpsInit, RegistryInv, SocketsOK, ConnectedIsRegistered, GoneIsUnregistered, Connected, Handlers

\* The steps that leave the registry, the snapshots and the sockets alone and neither
\* start nor end a socket.
LEMMA RegistryFrame ==
  ASSUME Inv, RegistryInv, [GpsNext]_gpsVars, UNCHANGED <<connections, audience, failed, open>>,
         \A s \in GpsSockets : (gpsPc'[s] = "new" => gpsPc[s] = "new")
                            /\ (gpsPc'[s] = "gone" => gpsPc[s] = "gone")
  PROVE  RegistryInv'
<1>1. SocketsOK'
  BY DEF RegistryInv, SocketsOK, connections
<1>2. ConnectedIsRegistered'
  BY WorkersStay DEF RegistryInv, ConnectedIsRegistered, Connected, connections
<1>3. GoneIsUnregistered'
  BY WorkersStay, FailuresGrow DEF RegistryInv, GoneIsUnregistered, Connected, connections
<1>. QED  BY <1>1, <1>2, <1>3 DEF RegistryInv

\* Every step keeps the registry in line with the sockets.
LEMMA RegistryNext == Inv /\ RegistryInv /\ [GpsNext]_gpsVars => RegistryInv'
<1>. SUFFICES ASSUME Inv, RegistryInv, [GpsNext]_gpsVars PROVE RegistryInv'
  OBVIOUS
<1>0. /\ registry \in [Workers -> [Trucks -> SUBSET GpsSockets]]
      /\ keys \in [Workers -> SUBSET Trucks]
      /\ worker \in [Handlers -> Workers] /\ worker' = worker
      /\ gpsPc \in [Handlers -> SocketSteps \cup PostSteps]
      /\ audience \in [Handlers -> SUBSET GpsSockets]
      /\ failed \in [Handlers -> SUBSET GpsSockets]
      /\ open \in [GpsSockets -> BOOLEAN]
      /\ Truck \in [Handlers -> Trucks] /\ GpsSockets \subseteq Handlers
      /\ Posts \subseteq Handlers /\ GpsSockets \cap Posts = {}
  BY TrackingConstants, WorkersStay DEF Inv, GpsTypeOK, Handlers
<1>1. ASSUME NEW s \in GpsSockets, Connect(s) PROVE RegistryInv'
  <2>1. SocketsOK'
    BY <1>0, <1>1 DEF RegistryInv, SocketsOK, Connect, Enter, casting
  <2>2. ConnectedIsRegistered'
    BY <1>0, <1>1 DEF RegistryInv, ConnectedIsRegistered, Connected, Connect, Enter, casting
  <2>3. GoneIsUnregistered'
    BY <1>0, <1>1, FailuresGrow DEF RegistryInv, GoneIsUnregistered, Connected, Connect, Enter, casting
  <2>. QED  BY <2>1, <2>2, <2>3 DEF RegistryInv
<1>2. ASSUME NEW s \in GpsSockets, ReadLast(s) PROVE RegistryInv'
  BY <1>0, <1>2, RegistryFrame DEF ReadLast, Enter, casting, clients, connections
<1>3. ASSUME NEW s \in GpsSockets, ReadLastFails(s) PROVE RegistryInv'
  <2>1. SocketsOK'
    BY <1>0, <1>3 DEF RegistryInv, SocketsOK, ReadLastFails, Enter, connections, casting
  <2>2. ConnectedIsRegistered'
    BY <1>0, <1>3 DEF RegistryInv, ConnectedIsRegistered, Connected, ReadLastFails, Enter, connections, casting
  <2>3. GoneIsUnregistered'
    <3>1. failures \in Nat /\ failures' = failures + 1
      BY <1>3 DEF Inv, GpsTypeOK, ReadLastFails
    <3>2. failures' # 0
      BY <3>1
    <3>. QED  BY <3>2 DEF GoneIsUnregistered
  <2>. QED  BY <2>1, <2>2, <2>3 DEF RegistryInv
<1>4. ASSUME NEW s \in GpsSockets, Greet(s) PROVE RegistryInv'
  BY <1>0, <1>4, RegistryFrame DEF Greet, Enter, casting, clients, connections
<1>5. ASSUME NEW s \in GpsSockets, ClientCloses(s) PROVE RegistryInv'
  <2>1. SocketsOK'
    BY <1>0, <1>5 DEF RegistryInv, SocketsOK, ClientCloses, connections, casting
  <2>2. ConnectedIsRegistered'
    BY <1>0, <1>5 DEF RegistryInv, ConnectedIsRegistered, Connected, ClientCloses, connections, casting
  <2>3. GoneIsUnregistered'
    BY <1>0, <1>5, FailuresGrow DEF RegistryInv, GoneIsUnregistered, Connected, ClientCloses, connections, casting
  <2>. QED  BY <2>1, <2>2, <2>3 DEF RegistryInv
<1>6. ASSUME NEW s \in GpsSockets, Disconnect(s) PROVE RegistryInv'
  <2>1. SocketsOK'
    BY <1>0, <1>6 DEF RegistryInv, SocketsOK, Disconnect, Enter, Unregistered, KeysWithout, casting, clients
  <2>2. ConnectedIsRegistered'
    BY <1>0, <1>6 DEF RegistryInv, ConnectedIsRegistered, Connected, Disconnect, Enter, Unregistered, KeysWithout, casting, clients
  <2>3. GoneIsUnregistered'
    BY <1>0, <1>6, FailuresGrow DEF RegistryInv, GoneIsUnregistered, Connected, Disconnect, Enter, Unregistered, KeysWithout, casting, clients
  <2>. QED  BY <2>1, <2>2, <2>3 DEF RegistryInv
<1>7. ASSUME NEW s \in GpsSockets, Receive(s) PROVE RegistryInv'
  BY <1>0, <1>7, RegistryFrame DEF Receive, Enter, casting, clients, connections
<1>8. ASSUME NEW s \in GpsSockets, Ack(s) PROVE RegistryInv'
  BY <1>0, <1>8, RegistryFrame DEF Ack, Enter, casting, clients, connections
<1>9. ASSUME NEW p \in Posts, Post(p) PROVE RegistryInv'
  BY <1>0, <1>9, RegistryFrame DEF Post, Enter, casting, clients, connections
<1>10. ASSUME NEW h \in Handlers, CacheLast(h) PROVE RegistryInv'
  BY <1>0, <1>10, RegistryFrame DEF CacheLast, Enter, casting, clients, connections
<1>11. ASSUME NEW h \in Handlers, CacheFails(h) PROVE RegistryInv'
  BY <1>0, <1>11, RegistryFrame DEF CacheFails, Enter, casting, clients, connections
<1>12. ASSUME NEW h \in Handlers, PushHistory(h) PROVE RegistryInv'
  BY <1>0, <1>12, RegistryFrame DEF PushHistory, Enter, casting, clients, connections
<1>19. ASSUME NEW h \in Handlers, TrimHistory(h) PROVE RegistryInv'
  BY <1>0, <1>19, RegistryFrame DEF TrimHistory, Enter, casting, clients, connections
<1>13. ASSUME NEW h \in Handlers, CastStart(h) PROVE RegistryInv'
  <2>1. SocketsOK'
    BY <1>0, <1>13 DEF RegistryInv, SocketsOK, CastStart, Connected, Enter, connections, clients
  <2>2. ConnectedIsRegistered'
    BY <1>0, <1>13 DEF RegistryInv, ConnectedIsRegistered, Connected, CastStart, Enter, connections, clients
  <2>3. GoneIsUnregistered'
    BY <1>0, <1>13, FailuresGrow DEF RegistryInv, GoneIsUnregistered, Connected, CastStart, Enter, connections, clients
  <2>. QED  BY <2>1, <2>2, <2>3 DEF RegistryInv
<1>14. ASSUME NEW h \in Handlers, Send(h) PROVE RegistryInv'
  <2>1. SocketsOK'
    <3>1. /\ UNCHANGED <<registry, open, gpsPc>>
          /\ \A k \in Handlers : audience'[k] \subseteq audience[k]
      BY <1>0, <1>14 DEF Send, connections
    <3>2. \A k \in Handlers : \A s \in failed'[k] : s \in failed[k] \/ (s \in audience[k] /\ ~open[s])
      <4>1. PICK s \in audience[h] : failed' = failed \/ (~open[s] /\ failed' = [failed EXCEPT ![h] = @ \cup {s}])
        BY <1>14 DEF Send
      <4>2. CASE failed' = failed
        BY <4>2
      <4>3. CASE ~open[s] /\ failed' = [failed EXCEPT ![h] = @ \cup {s}]
        BY <1>0, <4>1, <4>3
      <4>. QED  BY <4>1, <4>2, <4>3
    <3>. QED  BY <3>1, <3>2 DEF RegistryInv, SocketsOK
  <2>2. ConnectedIsRegistered'
    BY <1>0, <1>14 DEF RegistryInv, ConnectedIsRegistered, Connected, Send, Delivered, Enter, connections
  <2>3. GoneIsUnregistered'
    BY <1>0, <1>14, FailuresGrow DEF RegistryInv, GoneIsUnregistered, Connected, Send, Delivered, Enter, connections
  <2>. QED  BY <2>1, <2>2, <2>3 DEF RegistryInv
<1>15. ASSUME NEW h \in Handlers, CastEnd(h) PROVE RegistryInv'
  <2>1. SocketsOK'
    BY <1>0, <1>15 DEF RegistryInv, SocketsOK, CastEnd, Enter, clients
  <2>2. ConnectedIsRegistered'
    <3>1. SUFFICES ASSUME NEW s \in GpsSockets, open[s]
                   PROVE  s \in registry'[worker[s]][Truck[s]] /\ Truck[s] \in keys'[worker[s]]
      BY <1>0, <1>15 DEF ConnectedIsRegistered, Connected, CastEnd, clients
    <3>2. s \in registry[worker[s]][Truck[s]] /\ Truck[s] \in keys[worker[s]] /\ s \notin failed[h]
      BY <3>1, <1>15 DEF RegistryInv, ConnectedIsRegistered, Connected, SocketsOK
    <3>3. registry' = [registry EXCEPT ![worker[h]][Truck[h]] = @ \ failed[h]]
          /\ keys[worker[s]] \subseteq keys'[worker[s]]
      BY <1>0, <1>15 DEF CastEnd
    <3>4. s \in registry'[worker[s]][Truck[s]]
      BY <1>0, <3>2, <3>3
    <3>. QED  BY <3>2, <3>3, <3>4
  <2>3. GoneIsUnregistered'
    BY <1>0, <1>15, FailuresGrow DEF RegistryInv, GoneIsUnregistered, Connected, CastEnd, Enter, clients
  <2>. QED  BY <2>1, <2>2, <2>3 DEF RegistryInv
<1>16. ASSUME Expire PROVE RegistryInv'
  BY <1>0, <1>16, RegistryFrame DEF Expire, Enter, casting, clients, connections
<1>17. ASSUME NEW w \in Workers, ProcessDies(w) PROVE RegistryInv'
  <2>1. SocketsOK'
    <3>1. SUFFICES ASSUME NEW s \in GpsSockets
                   PROVE  /\ gpsPc'[s] = "new" =>
                               /\ ~open'[s]
                               /\ \A v \in Workers, t \in Trucks : s \notin registry'[v][t]
                               /\ \A h \in Handlers : s \notin audience'[h] /\ s \notin failed'[h]
                          /\ \A h \in Handlers : s \in failed'[h] => ~open'[s]
                          /\ open'[s] => gpsPc'[s] # "gone"
      <4>1. failed' \in [Handlers -> SUBSET GpsSockets]
        BY <1>0, <1>17 DEF ProcessDies
      <4>. QED  BY <4>1 DEF SocketsOK
    <3>2. open'[s] = (open[s] /\ ~Dies(w, s))
          /\ \A h \in Handlers : failed'[h] \subseteq failed[h] /\ audience'[h] \subseteq audience[h]
      BY <1>0, <1>17 DEF ProcessDies
    <3>3. \A v \in Workers, t \in Trucks : registry'[v][t] \subseteq registry[v][t]
      BY <1>0, <1>17 DEF ProcessDies
    <3>4. gpsPc'[s] = IF Dies(w, s) THEN "gone" ELSE gpsPc[s]
      BY <1>0, <1>17 DEF ProcessDies
    <3>. QED  BY <3>2, <3>3, <3>4 DEF RegistryInv, SocketsOK
  <2>2. ConnectedIsRegistered'
    <3>1. SUFFICES ASSUME NEW s \in GpsSockets, open'[s]
                   PROVE  s \in registry'[worker[s]][Truck[s]] /\ Truck[s] \in keys'[worker[s]]
      BY <1>0 DEF ConnectedIsRegistered, Connected
    <3>2. open[s] /\ ~Dies(w, s)
      BY <1>0, <1>17, <3>1 DEF ProcessDies
    <3>3. worker[s] # w
      BY <3>2 DEF Dies, RegistryInv, SocketsOK
    <3>4. s \in registry[worker[s]][Truck[s]] /\ Truck[s] \in keys[worker[s]]
      BY <3>2 DEF RegistryInv, ConnectedIsRegistered, Connected
    <3>. QED  BY <1>0, <1>17, <3>3, <3>4 DEF ProcessDies
  <2>3. GoneIsUnregistered'
    BY <1>0, <1>17, FailuresGrow DEF RegistryInv, GoneIsUnregistered, Connected, ProcessDies, Dies
  <2>. QED  BY <2>1, <2>2, <2>3 DEF RegistryInv
<1>18. ASSUME UNCHANGED gpsVars PROVE RegistryInv'
  BY <1>0, <1>18, RegistryFrame DEF gpsVars, Enter, casting, clients, connections
<1>. QED
  BY NextCases, <1>1, <1>2, <1>3, <1>4, <1>5, <1>6, <1>7, <1>8, <1>9, <1>10, <1>11, <1>12, <1>13, <1>14, <1>15, <1>16, <1>17, <1>18, <1>19

\* A connected client stays registered, whatever the other handlers do.
THEOREM ConnectedStaysRegistered == GpsSpec => []ConnectedIsRegistered
<1>1. Inv /\ RegistryInv /\ [GpsNext]_gpsVars => Inv' /\ RegistryInv'
  BY NextInv, RegistryNext
<1>2. RegistryInv => ConnectedIsRegistered
  BY DEF RegistryInv
<1>. QED  BY InitInv, RegistryInit, <1>1, <1>2, PTL DEF GpsSpec

\* Without Redis failures a finished endpoint is not registered.
THEOREM GoneStaysUnregistered == GpsSpec => []GoneIsUnregistered
<1>1. Inv /\ RegistryInv /\ [GpsNext]_gpsVars => Inv' /\ RegistryInv'
  BY NextInv, RegistryNext
<1>2. RegistryInv => GoneIsUnregistered
  BY DEF RegistryInv
<1>. QED  BY InitInv, RegistryInit, <1>1, <1>2, PTL DEF GpsSpec
---------------------------------------------------------------------------
(* Clients get the last position. *)

\* There is no position at start.
LEMMA LastInit == GpsInit => LastReaches
  BY TrackingConstants DEF GpsInit, LastReaches, Ours, Handlers

\* A step that stores no position and takes nothing away from s leaves it reached.
LEMMA ReachedFrame ==
  ASSUME NEW s \in GpsSockets, UNCHANGED last,
         got[s] \subseteq got'[s],
         gpsPc[s] = "greet" => gpsPc'[s] = "greet",
         gpsPc[s] = "greeting" => gpsPc'[s] = "greeting" /\ held'[s] = held[s],
         \A h \in Handlers : Coming(h, s) => Coming(h, s)' \/ last[Truck[s]] \in got'[s]
  PROVE  Reached(s) => Reached(s)'
  BY DEF Reached

\* The steps that do so for every open socket.
LEMMA LastFrame ==
  ASSUME Inv, LastReaches, [GpsNext]_gpsVars, UNCHANGED last,
         \A s \in GpsSockets :
             /\ open'[s] => open[s]
             /\ got[s] \subseteq got'[s]
             /\ gpsPc[s] = "greet" => gpsPc'[s] = "greet"
             /\ gpsPc[s] = "greeting" => gpsPc'[s] = "greeting" /\ held'[s] = held[s],
         \A h \in Handlers : \A s \in GpsSockets :
             open[s] /\ Coming(h, s) => Coming(h, s)' \/ last[Truck[s]] \in got'[s]
  PROVE  LastReaches'
<1>. SUFFICES ASSUME failures' = 0, NEW s \in GpsSockets, open'[s], Ours(s)'
              PROVE  Reached(s)'
  BY DEF LastReaches
<1>1. Reached(s) /\ open[s]
  BY FailuresGrow, WorkersStay DEF LastReaches, Ours
<1>. QED  BY <1>1, ReachedFrame

\* Every step leaves each connected client with the last position, or with it coming.
LEMMA LastNext == Inv /\ RegistryInv /\ LastReaches /\ [GpsNext]_gpsVars => LastReaches'
<1>. SUFFICES ASSUME Inv, RegistryInv, LastReaches, [GpsNext]_gpsVars PROVE LastReaches'
  OBVIOUS
<1>0. /\ worker \in [Handlers -> Workers] /\ worker' = worker
      /\ last \in [Trucks -> Fix \cup {NoFix}]
      /\ gpsPc \in [Handlers -> SocketSteps \cup PostSteps]
      /\ count \in [Handlers -> 0..MaxUpdates]
      /\ audience \in [Handlers -> SUBSET GpsSockets]
      /\ open \in [GpsSockets -> BOOLEAN]
      /\ held \in [GpsSockets -> Fix \cup {NoFix}]
      /\ got \in [GpsSockets -> SUBSET Fix]
      /\ Truck \in [Handlers -> Trucks] /\ GpsSockets \subseteq Handlers
      /\ Posts \subseteq Handlers /\ GpsSockets \cap Posts = {}
  BY TrackingConstants, WorkersStay DEF Inv, GpsTypeOK, Handlers
<1>a. failures' = 0 => failures = 0
  BY FailuresGrow
<1>1. ASSUME NEW s \in GpsSockets, Connect(s) PROVE LastReaches'
  <2>1. SUFFICES ASSUME failures' = 0, NEW z \in GpsSockets, open'[z], Ours(z)'
                 PROVE  Reached(z)'
    BY DEF LastReaches
  <2>2. CASE z = s
    BY <1>0, <1>1, <2>2 DEF Connect, Enter, Reached
  <2>3. CASE z # s
    <3>1. Reached(z)
      BY <1>0, <1>a, <1>1, <2>1, <2>3 DEF Connect, LastReaches, Ours, redis
    <3>2. \A h \in Handlers : Coming(h, z) => Coming(h, z)'
      BY <1>0, <1>1 DEF Connect, Enter, redis, casting, Coming, Received
    <3>. QED  BY <1>0, <1>1, <2>3, <3>1, <3>2, ReachedFrame DEF Connect, Enter, redis
  <2>. QED  BY <2>2, <2>3
<1>2. ASSUME NEW s \in GpsSockets, ReadLast(s) PROVE LastReaches'
  <2>1. SUFFICES ASSUME failures' = 0, NEW z \in GpsSockets, open'[z], Ours(z)'
                 PROVE  Reached(z)'
    BY DEF LastReaches
  <2>2. CASE z = s
    BY <1>0, <1>2, <2>2 DEF ReadLast, Enter, Reached, Ours, redis
  <2>3. CASE z # s
    <3>1. Reached(z)
      BY <1>0, <1>a, <1>2, <2>1, <2>3 DEF ReadLast, LastReaches, Ours, redis
    <3>2. \A h \in Handlers : Coming(h, z) => Coming(h, z)'
      BY <1>0, <1>2 DEF ReadLast, Enter, redis, casting, Coming, Received
    <3>. QED  BY <1>0, <1>2, <2>3, <3>1, <3>2, ReachedFrame DEF ReadLast, Enter, redis
  <2>. QED  BY <2>2, <2>3
<1>3. ASSUME NEW s \in GpsSockets, ReadLastFails(s) PROVE LastReaches'
  <2>1. failures \in Nat /\ failures' = failures + 1
    BY <1>3 DEF Inv, GpsTypeOK, ReadLastFails
  <2>2. failures' # 0
    BY <2>1
  <2>. QED  BY <2>2 DEF LastReaches
<1>4. ASSUME NEW s \in GpsSockets, Greet(s) PROVE LastReaches'
  <2>1. SUFFICES ASSUME failures' = 0, NEW z \in GpsSockets, open'[z], Ours(z)'
                 PROVE  Reached(z)'
    BY DEF LastReaches
  <2>2. Reached(z) /\ open[z] /\ UNCHANGED last
    BY <1>0, <1>a, <1>4, <2>1 DEF Greet, LastReaches, Ours, redis
  <2>3. \A h \in Handlers : Coming(h, z) => Coming(h, z)'
    BY <1>0, <1>4 DEF Greet, Enter, redis, casting, Coming, Received
  <2>4. CASE z = s /\ held[s] = last[Truck[s]]
    BY <1>0, <1>4, <2>1, <2>2, <2>4 DEF Greet, Reached, Ours
  <2>5. CASE z = s /\ held[s] # last[Truck[s]]
    <3>1. last[Truck[z]] \in got[z] \/ \E h \in Handlers : Coming(h, z)
      BY <1>4, <2>2, <2>5 DEF Greet, Reached
    <3>2. got[z] \subseteq got'[z]
      BY <1>0, <1>4 DEF Greet
    <3>. QED  BY <2>2, <2>3, <3>1, <3>2 DEF Reached
  <2>6. CASE z # s
    BY <1>0, <1>4, <2>2, <2>3, <2>6, ReachedFrame DEF Greet, Enter
  <2>. QED  BY <2>4, <2>5, <2>6
<1>5. ASSUME NEW s \in GpsSockets, ClientCloses(s) PROVE LastReaches'
  BY <1>0, <1>5, LastFrame DEF ClientCloses, Coming, Received, Enter, redis, casting, clients
<1>6. ASSUME NEW s \in GpsSockets, Disconnect(s) PROVE LastReaches'
  BY <1>0, <1>6, LastFrame DEF Disconnect, Coming, Received, Enter, redis, casting, clients
<1>7. ASSUME NEW s \in GpsSockets, Receive(s) PROVE LastReaches'
  BY <1>0, <1>7, LastFrame DEF Receive, Coming, Received, Enter, redis, casting, clients
<1>8. ASSUME NEW s \in GpsSockets, Ack(s) PROVE LastReaches'
  BY <1>0, <1>8, LastFrame DEF Ack, Coming, Received, Enter, redis, casting, clients
<1>9. ASSUME NEW p \in Posts, Post(p) PROVE LastReaches'
  BY <1>0, <1>9, LastFrame DEF Post, Coming, Received, Enter, redis, casting, clients
<1>10. ASSUME NEW h \in Handlers, CacheLast(h) PROVE LastReaches'
  <2>1. SUFFICES ASSUME failures' = 0, NEW z \in GpsSockets, open'[z], Ours(z)'
                 PROVE  Reached(z)'
    BY DEF LastReaches
  <2>2. CASE Truck[z] = Truck[h]
    <3>1. last'[Truck[z]] = Received(h) /\ worker[h] = worker[z]
      BY <1>0, <1>10, <2>1, <2>2 DEF CacheLast, Ours, Received
    <3>2. Coming(h, z)'
      BY <1>0, <1>10, <2>2, <3>1 DEF CacheLast, Enter, Coming, Received
    <3>. QED  BY <3>2 DEF Reached
  <2>3. CASE Truck[z] # Truck[h]
    <3>1. last'[Truck[z]] = last[Truck[z]] /\ gpsPc'[z] = gpsPc[z] /\ UNCHANGED <<held, got, open>>
      BY <1>0, <1>10, <2>3 DEF CacheLast, Enter, clients
    <3>2. Reached(z)
      BY <1>0, <1>a, <1>10, <2>1, <3>1 DEF CacheLast, LastReaches, Ours
    <3>3. \A g \in Handlers : Coming(g, z) => Coming(g, z)'
      BY <1>0, <1>10, <2>3 DEF CacheLast, Enter, casting, Coming, Received
    <3>. QED  BY <3>1, <3>2, <3>3 DEF Reached
  <2>. QED  BY <2>2, <2>3
<1>11. ASSUME NEW h \in Handlers, CacheFails(h) PROVE LastReaches'
  <2>1. failures \in Nat /\ failures' = failures + 1
    BY <1>11 DEF Inv, GpsTypeOK, CacheFails
  <2>2. failures' # 0
    BY <2>1
  <2>. QED  BY <2>2 DEF LastReaches
<1>12. ASSUME NEW h \in Handlers, PushHistory(h) PROVE LastReaches'
  BY <1>0, <1>12, LastFrame DEF PushHistory, Coming, Received, Enter, redis, casting, clients
<1>19. ASSUME NEW h \in Handlers, TrimHistory(h) PROVE LastReaches'
  BY <1>0, <1>19, LastFrame DEF TrimHistory, Coming, Received, Enter, redis, casting, clients
<1>13. ASSUME NEW h \in Handlers, CastStart(h) PROVE LastReaches'
  BY <1>0, <1>13, LastFrame DEF CastStart, RegistryInv, ConnectedIsRegistered, Connected, Coming, Received, Enter, redis, casting, clients
<1>14. ASSUME NEW h \in Handlers, Send(h) PROVE LastReaches'
  BY <1>0, <1>14, LastFrame DEF Send, Delivered, Coming, Received, Enter, redis, casting, clients
<1>15. ASSUME NEW h \in Handlers, CastEnd(h) PROVE LastReaches'
  BY <1>0, <1>15, LastFrame DEF CastEnd, Coming, Received, Enter, redis, casting, clients
<1>16. ASSUME Expire PROVE LastReaches'
  <2>1. SUFFICES ASSUME failures' = 0, NEW z \in GpsSockets, open'[z], Ours(z)'
                 PROVE  Reached(z)'
    BY DEF LastReaches
  <2>2. last'[Truck[z]] = last[Truck[z]] /\ UNCHANGED <<gpsPc, count, audience, clients>>
    BY <1>0, <1>16, <2>1 DEF Expire, Ours, casting
  <2>3. Reached(z)
    BY <1>0, <1>a, <2>1, <2>2 DEF LastReaches, Ours, clients
  <2>. QED  BY <1>0, <2>2, <2>3 DEF Reached, Coming, Received, clients
<1>17. ASSUME NEW w \in Workers, ProcessDies(w) PROVE LastReaches'
  <2>1. SUFFICES ASSUME failures' = 0, NEW z \in GpsSockets, open'[z], Ours(z)'
                 PROVE  Reached(z)'
    BY DEF LastReaches
  <2>2. open[z] /\ ~Dies(w, z) /\ worker[z] # w /\ UNCHANGED <<last, got, count>>
    <3>1. open[z] /\ ~Dies(w, z) /\ UNCHANGED <<last, got, count>>
      BY <1>0, <1>17, <2>1 DEF ProcessDies, redis
    <3>. QED  BY <3>1 DEF Dies, RegistryInv, SocketsOK
  <2>3. Reached(z)
    BY <1>0, <1>a, <1>17, <2>1, <2>2 DEF ProcessDies, LastReaches, Ours
  <2>4. gpsPc'[z] = gpsPc[z] /\ held'[z] = held[z]
    BY <1>0, <1>17, <2>2 DEF ProcessDies
  <2>5. \A h \in Handlers : Coming(h, z) => Coming(h, z)'
    BY <1>0, <1>17, <2>2 DEF ProcessDies, Dies, Coming, Received
  <2>. QED  BY <2>2, <2>3, <2>4, <2>5 DEF Reached
<1>18. ASSUME UNCHANGED gpsVars PROVE LastReaches'
  BY <1>0, <1>18, LastFrame DEF gpsVars, Coming, Received, Enter, redis, casting, clients
<1>. QED
  BY NextCases, <1>1, <1>2, <1>3, <1>4, <1>5, <1>6, <1>7, <1>8, <1>9, <1>10, <1>11, <1>12, <1>13, <1>14, <1>15, <1>16, <1>17, <1>18, <1>19

\* Between updates every greeted client has been sent the last position of its truck, when
\* its own process received it.
THEOREM ClientsAlwaysKnowLast == GpsSpec => []ClientsKnowLast
<1>1. Inv /\ RegistryInv /\ LastReaches /\ [GpsNext]_gpsVars => Inv' /\ RegistryInv' /\ LastReaches'
  BY NextInv, RegistryNext, LastNext
<1>2. LastReaches => ClientsKnowLast
  BY DEF LastReaches, Reached, ClientsKnowLast, Greeted, Ours, Coming, Settled
<1>. QED  BY InitInv, RegistryInit, LastInit, <1>1, <1>2, PTL DEF GpsSpec
=============================================================================
