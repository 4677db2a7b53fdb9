----------------------------- MODULE HomeProofs -----------------------------
(***************************************************************************)
(* What Home Assistant is told of a device rests on three things, proved   *)
(* here for any devices, sessions, timeouts and life spans: the broker's   *)
(* bookkeeping of a device's session (MqttSession), the publisher's        *)
(* connection and its index of commands (Publisher), and the reading of    *)
(* what the device reports (Reported).                                     *)
(***************************************************************************)
EXTENDS MqttSession, Publisher, Reported, FiniteSetTheorems, TLAPS

(* MqttSession: the agreement of _live_sessions with the session a device  *)
(* really holds, and the action properties that follow from it.            *)
-----------------------------------------------------------------------------
(* The actions of the broker plugin and its hooks, of the HTTP side, and   *)
(* of the environment, each split over its devices or sessions.            *)
LEMMA NextCases ==
    ASSUME Next
    PROVE  \/ \E d \in Devices, s \in Sessions : Authenticate(d, s)
           \/ \E s \in Sessions : \/ PacketHook(s) \/ DisconnectHook(s)
                                  \/ BrokerAccepts(s) \/ HandshakeDies(s)
                                  \/ SessionEnds(s)
           \/ \E d \in Devices : \/ BridgeFrame(d) \/ Heartbeat(d) \/ Watchdog(d)
                                 \/ DeviceSends(d) \/ DeviceLeaves(d) \/ DevicePolls(d)
           \/ Tick
           \/ Restart
BY DEF Next

LEMMA MaxAgeNat == MaxAge \in Nat
BY TimeAssumption DEF MaxAge

(* Every variable keeps its type: flags are Booleans and _live_sessions    *)
(* holds Session objects, through every hook and handler.                  *)
THEOREM TypeCorrect == Spec => []TypeOK
<1> USE DEF TypeOK
<1>1. Init => TypeOK
  BY MaxAgeNat DEF Init, InitRouting
<1>2. TypeOK /\ [Next]_vars => TypeOK'
  <2> SUFFICES ASSUME TypeOK, [Next]_vars PROVE TypeOK'
    OBVIOUS
  <2> USE MaxAgeNat
  <2>1. ASSUME NEW d \in Devices, NEW s \in Sessions, Authenticate(d, s) PROVE TypeOK'
    BY <2>1 DEF Authenticate
  <2>2. ASSUME NEW s \in Sessions, PacketHook(s) PROVE TypeOK'
    BY <2>2 DEF PacketHook
  <2>3. ASSUME NEW s \in Sessions, DisconnectHook(s) PROVE TypeOK'
    BY <2>3 DEF DisconnectHook
  <2>4. ASSUME NEW s \in Sessions, BrokerAccepts(s) PROVE TypeOK'
    BY <2>4 DEF BrokerAccepts, routing
  <2>5. ASSUME NEW s \in Sessions, HandshakeDies(s) PROVE TypeOK'
    BY <2>5 DEF HandshakeDies, routing
  <2>6. ASSUME NEW s \in Sessions, SessionEnds(s) PROVE TypeOK'
    BY <2>6 DEF SessionEnds, routing
  <2>7. ASSUME NEW d \in Devices, BridgeFrame(d) PROVE TypeOK'
    BY <2>7 DEF BridgeFrame
  <2>8. ASSUME NEW d \in Devices, Heartbeat(d) PROVE TypeOK'
    <3>1. (mqtt_connected[d] /\ ~PollClearsRoute(d)) \in BOOLEAN
      OBVIOUS
    <3>2. QED BY <2>8, <3>1 DEF Heartbeat
  <2>9. ASSUME NEW d \in Devices, Watchdog(d) PROVE TypeOK'
    BY <2>9 DEF Watchdog, env
  <2>10. ASSUME NEW d \in Devices, DeviceSends(d) PROVE TypeOK'
    BY <2>10 DEF DeviceSends, routing
  <2>11. ASSUME NEW d \in Devices, DeviceLeaves(d) PROVE TypeOK'
    BY <2>11 DEF DeviceLeaves, routing
  <2>12. ASSUME NEW d \in Devices, DevicePolls(d) PROVE TypeOK'
    BY <2>12 DEF DevicePolls, routing
  <2>13. CASE Tick
    BY <2>13 DEF Tick, Older, env
  <2>14. CASE Restart
    BY <2>14 DEF Restart
  <2>15. CASE UNCHANGED vars
    BY <2>15 DEF vars, env, routing
  <2>16. QED
    BY <2>1, <2>2, <2>3, <2>4, <2>5, <2>6, <2>7, <2>8, <2>9, <2>10, <2>11,
       <2>12, <2>13, <2>14, <2>15, NextCases
<1>3. QED BY <1>1, <1>2, PTL DEF Spec
-----------------------------------------------------------------------------
(* The inductive invariant.  LiveIsHeld alone is not inductive: a session  *)
(* that ends while the device still believes in it must not come back as   *)
(* somebody's held session, so the owner of the link and what the plugin   *)
(* can still say about it are part of the invariant.                       *)
Agreement(d) ==
    /\ link[d] # NoSession => /\ owner[link[d]] = d
                              /\ live[d] \in {link[d], NoSession}
    /\ Held(d) => live[d] = link[d]
    /\ live[d] # NoSession => owner[live[d]] = d
    /\ mqtt_connected[d] => live[d] # NoSession

SessionInv == \A d \in Devices : Agreement(d)

LEMMA SessionInvInit == Init => SessionInv
BY DEF Init, InitRouting, SessionInv, Agreement, Held

LEMMA SessionInvStep == TypeOK /\ SessionInv /\ [Next]_vars => SessionInv'
<1> SUFFICES ASSUME TypeOK, SessionInv, [Next]_vars, NEW e \in Devices PROVE Agreement(e)'
  BY DEF SessionInv
<1> USE SessionAssumption DEF TypeOK, SessionInv, Agreement, Held
<1>1. ASSUME NEW d \in Devices, NEW s \in Sessions, Authenticate(d, s) PROVE Agreement(e)'
  BY <1>1 DEF Authenticate
<1>2. ASSUME NEW s \in Sessions, PacketHook(s) PROVE Agreement(e)'
  BY <1>2 DEF PacketHook
<1>3. ASSUME NEW s \in Sessions, DisconnectHook(s) PROVE Agreement(e)'
  <2>1. CASE live[owner[s]] # NoSession /\ live[owner[s]] # s
    BY <1>3, <2>1 DEF DisconnectHook
  <2>2. CASE ~(live[owner[s]] # NoSession /\ live[owner[s]] # s)
    BY <1>3, <2>2 DEF DisconnectHook
  <2>3. QED BY <2>1, <2>2
<1>4. ASSUME NEW s \in Sessions, BrokerAccepts(s) PROVE Agreement(e)'
  BY <1>4 DEF BrokerAccepts, routing
<1>5. ASSUME NEW s \in Sessions, HandshakeDies(s) PROVE Agreement(e)'
  BY <1>5 DEF HandshakeDies, routing
<1>6. ASSUME NEW s \in Sessions, SessionEnds(s) PROVE Agreement(e)'
  BY <1>6 DEF SessionEnds, routing
<1>7. ASSUME NEW d \in Devices, BridgeFrame(d) PROVE Agreement(e)'
  BY <1>7 DEF BridgeFrame
<1>8. ASSUME NEW d \in Devices, Heartbeat(d) PROVE Agreement(e)'
  BY <1>8 DEF Heartbeat
<1>9. ASSUME NEW d \in Devices, Watchdog(d) PROVE Agreement(e)'
  BY <1>9 DEF Watchdog, env
<1>10. ASSUME NEW d \in Devices, DeviceSends(d) PROVE Agreement(e)'
  BY <1>10 DEF DeviceSends, routing
<1>11. ASSUME NEW d \in Devices, DeviceLeaves(d) PROVE Agreement(e)'
  BY <1>11 DEF DeviceLeaves, routing
<1>12. ASSUME NEW d \in Devices, DevicePolls(d) PROVE Agreement(e)'
  BY <1>12 DEF DevicePolls, routing
<1>13. CASE Tick
  BY <1>13 DEF Tick, env
<1>14. CASE Restart
  BY <1>14 DEF Restart
<1>15. CASE UNCHANGED vars
  BY <1>15 DEF vars, env, routing
<1>16. QED
  BY <1>1, <1>2, <1>3, <1>4, <1>5, <1>6, <1>7, <1>8, <1>9, <1>10, <1>11,
     <1>12, <1>13, <1>14, <1>15, NextCases

(* The inductive invariant holds in every reachable state.                 *)
THEOREM SessionsAgree == Spec => []SessionInv
BY SessionInvInit, SessionInvStep, TypeCorrect, PTL DEF Spec

(* _live_sessions names the session the device really holds, in whatever   *)
(* order amqtt reports the ends of its earlier ones (mqtt/auth.py).        *)
THEOREM LiveSessionsCorrect == Spec => []LiveIsHeld
<1>1. SessionInv => LiveIsHeld
  BY DEF SessionInv, Agreement, LiveIsHeld
<1>2. QED BY <1>1, SessionsAgree, PTL

(* Commands are routed over MQTT only while a session is tracked.          *)
THEOREM RoutedThroughSession == Spec => []RouteHasSession
<1>1. SessionInv => RouteHasSession
  BY DEF SessionInv, Agreement, RouteHasSession
<1>2. QED BY <1>1, SessionsAgree, PTL
-----------------------------------------------------------------------------
(* No late teardown, lagging or lying poll, or sweep takes a device with a *)
(* healthy session off MQTT.                                               *)
THEOREM HealthyKept == Spec => HealthyRouteKept
<1> DEFINE Kept(d) == Healthy(d) /\ mqtt_connected[d] /\ Healthy(d)' /\ link'[d] = link[d]
                         => mqtt_connected'[d]
<1>1. TypeOK /\ SessionInv /\ [Next]_vars => [\A d \in Devices : Kept(d)]_vars
  <2> SUFFICES ASSUME TypeOK, SessionInv, Next, NEW e \in Devices,
                      Healthy(e), mqtt_connected[e], Healthy(e)', link'[e] = link[e]
               PROVE  mqtt_connected'[e]
    OBVIOUS
  <2> USE SessionAssumption DEF TypeOK, SessionInv, Agreement, Held, Healthy
  <2>1. ASSUME NEW d \in Devices, NEW s \in Sessions, Authenticate(d, s)
        PROVE  mqtt_connected'[e]
    BY <2>1 DEF Authenticate
  <2>2. ASSUME NEW s \in Sessions, PacketHook(s) PROVE mqtt_connected'[e]
    BY <2>2 DEF PacketHook
  <2>3. ASSUME NEW s \in Sessions, DisconnectHook(s) PROVE mqtt_connected'[e]
    BY <2>3 DEF DisconnectHook
  <2>4. ASSUME NEW d \in Devices, Heartbeat(d) PROVE mqtt_connected'[e]
    <3>1. ~PollClearsRoute(e)
      BY TimeAssumption, MaxAgeNat DEF PollClearsRoute, SessionAlive
    <3>2. QED BY <2>4, <3>1 DEF Heartbeat
  <2>5. ASSUME NEW d \in Devices, Watchdog(d) PROVE mqtt_connected'[e]
    BY <2>5, TimeAssumption, MaxAgeNat DEF Watchdog, Stale
  <2>6. CASE Restart
    BY <2>6 DEF Restart
  <2>7. ASSUME NEW s \in Sessions,
               BrokerAccepts(s) \/ HandshakeDies(s) \/ SessionEnds(s)
        PROVE  mqtt_connected'[e]
    BY <2>7 DEF BrokerAccepts, HandshakeDies, SessionEnds, routing
  <2>8. ASSUME NEW d \in Devices,
               BridgeFrame(d) \/ DeviceSends(d) \/ DeviceLeaves(d) \/ DevicePolls(d)
        PROVE  mqtt_connected'[e]
    BY <2>8 DEF BridgeFrame, DeviceSends, DeviceLeaves, DevicePolls, routing
  <2>9. CASE Tick
    BY <2>9 DEF Tick
  <2>10. QED
    BY <2>1, <2>2, <2>3, <2>4, <2>5, <2>6, <2>7, <2>8, <2>9, NextCases
<1>2. QED BY <1>1, SessionsAgree, TypeCorrect, PTL DEF Spec, HealthyRouteKept
-----------------------------------------------------------------------------
(* A route is raised only for a device whose tracked session is the one it *)
(* holds: neither a packet nor a CONNECT revives a replaced session.       *)
THEOREM RaisedByCurrent == Spec => RouteRaisedByCurrent
<1>1. SessionInv' => (\A d \in Devices :
                  ~mqtt_connected[d] /\ mqtt_connected'[d]
                     => /\ live'[d] # NoSession
                        /\ link[d] # NoSession /\ link'[d] = link[d] => live'[d] = link[d])
  BY DEF SessionInv, Agreement
<1>2. QED BY <1>1, SessionsAgree, PTL DEF Spec, RouteRaisedByCurrent
-----------------------------------------------------------------------------
(* Publisher.  A device whose entities Home Assistant has is in the index, *)
(* or its discovery is among what a hook or the pass has left to publish,  *)
(* from the moment a connection is up: the pass covers the registry as it  *)
(* was then, and whoever signs up later is announced by a hook.            *)
PublisherTyped ==
    /\ enrolled \subseteq Appliances
    /\ told \in [Appliances -> Seq({"discovery", "availability", "state"})]
    /\ pubPhase \in {"dialling", "passing", "serving"}
    /\ passLeft \in Seq(Appliances \X {"discovery", "availability"})

AwaitsHook(d) == told[d] # <<>> /\ Head(told[d]) = "discovery"
AwaitsPass(d) == \E i \in DOMAIN passLeft : passLeft[i] = <<d, "discovery">>
Covered(d) == d \in index \cup skipped \/ AwaitsHook(d) \/ AwaitsPass(d)

IndexInv ==
    /\ pubPhase # "passing" => passLeft = <<>>
    /\ connected => pubPhase # "dialling"
    /\ pubPhase # "dialling" => \A d \in enrolled \cap announced : Covered(d)

PublisherInv == PublisherTyped /\ IndexInv

LEMMA PublisherInvInit == PublisherInit => PublisherInv
<1> SUFFICES ASSUME PublisherInit PROVE PublisherInv
  OBVIOUS
<1>1. told \in [Appliances -> Seq({"discovery", "availability", "state"})]
  <2>1. <<>> \in Seq({"discovery", "availability", "state"})
    OBVIOUS
  <2>2. QED BY <2>1 DEF PublisherInit
<1>2. QED BY <1>1 DEF PublisherInit, PublisherInv, PublisherTyped, IndexInv

(* What one publish does: announcing a device indexes it or, with the flag *)
(* down, leaves it skipped; nothing else announces one.                    *)
LEMMA PublishIndexes ==
    ASSUME NEW d \in Appliances, NEW what \in {"discovery", "availability", "state"}, Published(what, d)
    PROVE  /\ index \cup skipped \subseteq index' \cup skipped'
           /\ announced' \subseteq announced \cup {d}
           /\ what = "discovery" \/ d \in announced' \ announced => d \in index' \cup skipped'
<1>1. CASE what = "discovery"
  BY <1>1 DEF Published, PublishDiscovery, Sends
<1>2. CASE what = "availability"
  BY <1>2 DEF Published, PublishAvailability
<1>3. CASE what = "state"
  BY <1>3 DEF Published, PublishState, entities
<1>4. QED BY <1>1, <1>2, <1>3

LEMMA PassTyped ==
    ASSUME enrolled \subseteq Appliances, NEW s \in PassOver(enrolled)
    PROVE  /\ s \in Seq(Appliances \X {"discovery", "availability"})
           /\ \A d \in enrolled : \E i \in DOMAIN s : s[i] = <<d, "discovery">>
<1>1. Cardinality(enrolled) \in Nat
  BY PublisherAssumption, FS_Subset, FS_CardinalityType
<1> DEFINE n == Cardinality(enrolled)
<1>2. /\ s \in [1 .. 2 * n -> enrolled \X {"discovery", "availability"}]
      /\ \A d \in enrolled : \E i \in 1 .. n : s[2 * i - 1] = <<d, "discovery">>
  BY DEF PassOver
<1> HIDE DEF n
<1>3. n \in Nat
  BY <1>1 DEF n
<1>4. s \in [1 .. 2 * n -> Appliances \X {"discovery", "availability"}] /\ 2 * n \in Nat
  BY <1>2, <1>3
<1>5. s \in Seq(Appliances \X {"discovery", "availability"})
  BY <1>4
<1>6. ASSUME NEW d \in enrolled PROVE \E i \in DOMAIN s : s[i] = <<d, "discovery">>
  <2>1. PICK i \in 1 .. n : s[2 * i - 1] = <<d, "discovery">>
    BY <1>2
  <2>2. 2 * i - 1 \in DOMAIN s
    BY <1>2, <1>3
  <2>3. QED BY <2>1, <2>2
<1>7. QED BY <1>5, <1>6

LEMMA HookStep == ASSUME PublisherInv, NEW d \in Appliances, HookPublishes(d) PROVE PublisherInv'
<1> DEFINE What == {"discovery", "availability", "state"}
<1>1. PICK what : what = Head(told[d])
  OBVIOUS
<1>2. told[d] \in Seq(What) /\ told[d] # <<>> /\ Published(what, d)
  BY <1>1 DEF PublisherInv, PublisherTyped, HookPublishes
<1>3. what \in What /\ Tail(told[d]) \in Seq(What)
  BY <1>1, <1>2
<1>4. told' = [told EXCEPT ![d] = Tail(@)] /\ UNCHANGED <<enrolled, pubPhase, connected, passLeft>>
  BY DEF HookPublishes, devices, connection
<1>5. PublisherTyped'
  BY <1>3, <1>4 DEF PublisherInv, PublisherTyped
<1>6. ASSUME pubPhase' # "dialling", NEW e \in enrolled \cap announced' PROVE Covered(e)'
  <2>1. CASE e = d /\ (what = "discovery" \/ d \in announced' \ announced)
    BY <1>2, <1>3, <1>6, <2>1, PublishIndexes DEF Covered
  <2>2. CASE ~(e = d /\ (what = "discovery" \/ d \in announced' \ announced))
    <3>1. e \in announced
      BY <1>2, <1>3, <1>6, <2>2, PublishIndexes
    <3>2. Covered(e)
      BY <1>4, <1>6, <3>1 DEF PublisherInv, IndexInv
    <3>3. AwaitsHook(e) => AwaitsHook(e)'
      <4>1. CASE e = d
        BY <1>1, <2>2, <4>1 DEF AwaitsHook
      <4>2. CASE e # d
        <5>1. e \in Appliances
          BY <1>6 DEF PublisherInv, PublisherTyped
        <5>2. told'[e] = told[e]
          BY <1>4, <4>2, <5>1 DEF PublisherInv, PublisherTyped
        <5>3. QED BY <5>2 DEF AwaitsHook
      <4>3. QED BY <4>1, <4>2
    <3>4. AwaitsPass(e) => AwaitsPass(e)'
      BY <1>4 DEF AwaitsPass
    <3>5. index \cup skipped \subseteq index' \cup skipped'
      BY <1>2, <1>3, PublishIndexes
    <3>6. QED BY <3>2, <3>3, <3>4, <3>5 DEF Covered
  <2>3. QED BY <2>1, <2>2
<1>7. IndexInv'
  BY <1>4, <1>6 DEF PublisherInv, IndexInv
<1>8. QED BY <1>5, <1>7 DEF PublisherInv

LEMMA PassStep == ASSUME PublisherInv, PassPublishes PROVE PublisherInv'
<1> DEFINE Todo == Appliances \X {"discovery", "availability"}
<1>1. passLeft \in Seq(Todo) /\ passLeft # <<>> /\ passLeft' = Tail(passLeft)
  BY DEF PublisherInv, PublisherTyped, PassPublishes
<1>2. PICK d \in Appliances, what \in {"discovery", "availability"} : Head(passLeft) = <<d, what>>
  BY <1>1
<1>3. Published(what, d) /\ UNCHANGED <<enrolled, told, pubPhase, connected>>
  BY <1>2 DEF PassPublishes, devices, connection
<1>4. PublisherTyped'
  BY <1>1, <1>3 DEF PublisherInv, PublisherTyped
<1>5. ASSUME pubPhase' # "dialling", NEW e \in enrolled \cap announced' PROVE Covered(e)'
  <2>1. CASE e = d /\ (what = "discovery" \/ d \in announced' \ announced)
    BY <1>3, <1>5, <2>1, PublishIndexes DEF Covered
  <2>2. CASE ~(e = d /\ (what = "discovery" \/ d \in announced' \ announced))
    <3>1. e \in announced
      BY <1>3, <1>5, <2>2, PublishIndexes
    <3>2. Covered(e)
      BY <1>3, <1>5, <3>1 DEF PublisherInv, IndexInv
    <3>3. AwaitsHook(e) => AwaitsHook(e)'
      BY <1>3 DEF AwaitsHook
    <3>4. ASSUME AwaitsPass(e) PROVE AwaitsPass(e)'
      <4>1. PICK i \in DOMAIN passLeft : passLeft[i] = <<e, "discovery">>
        BY <3>4 DEF AwaitsPass
      <4>2. i # 1
        <5> SUFFICES ASSUME i = 1 PROVE FALSE
          OBVIOUS
        <5>1. <<d, what>> = <<e, "discovery">>
          BY <1>1, <1>2, <4>1
        <5>2. QED BY <2>2, <5>1
      <4>3. i - 1 \in DOMAIN Tail(passLeft) /\ Tail(passLeft)[i - 1] = passLeft[i]
        BY <1>1, <4>2
      <4>4. QED BY <1>1, <4>1, <4>3 DEF AwaitsPass
    <3>5. index \cup skipped \subseteq index' \cup skipped'
      BY <1>3, PublishIndexes
    <3>6. QED BY <3>2, <3>3, <3>4, <3>5 DEF Covered
  <2>3. QED BY <2>1, <2>2
<1>6. IndexInv'
  BY <1>3, <1>5 DEF PublisherInv, IndexInv, PassPublishes
<1>7. QED BY <1>4, <1>6 DEF PublisherInv

(* A hook starts only where none is at work, and a device that is not      *)
(* registered yet is announced by its own.                                 *)
LEMMA TellStep ==
    ASSUME PublisherInv, NEW d \in Appliances, told[d] = <<>>,
           NEW what \in Seq({"discovery", "availability", "state"}), told' = [told EXCEPT ![d] = what],
           enrolled' \subseteq enrolled \cup {d},
           d \in enrolled \/ (what # <<>> /\ Head(what) = "discovery"),
           UNCHANGED <<pubPhase, connected, passLeft, index, skipped, announced>>
    PROVE  PublisherInv'
<1>1. PublisherTyped'
  BY DEF PublisherInv, PublisherTyped
<1>2. ASSUME pubPhase' # "dialling", NEW e \in enrolled' \cap announced PROVE Covered(e)'
  <2>1. CASE e = d /\ d \notin enrolled
    <3>1. told'[d] = what
      BY DEF PublisherInv, PublisherTyped
    <3>2. QED BY <2>1, <3>1 DEF Covered, AwaitsHook
  <2>2. CASE e \in enrolled
    <3>1. Covered(e)
      BY <1>2, <2>2 DEF PublisherInv, IndexInv
    <3>2. AwaitsHook(e) => AwaitsHook(e)'
      <4> SUFFICES ASSUME AwaitsHook(e) PROVE AwaitsHook(e)'
        OBVIOUS
      <4>1. e # d /\ e \in Appliances
        BY <2>2 DEF AwaitsHook, PublisherInv, PublisherTyped
      <4>2. told'[e] = told[e]
        BY <4>1 DEF PublisherInv, PublisherTyped
      <4>3. QED BY <4>2 DEF AwaitsHook
    <3>3. AwaitsPass(e) => AwaitsPass(e)'
      BY DEF AwaitsPass
    <3>4. QED BY <3>1, <3>2, <3>3 DEF Covered
  <2>3. QED BY <1>2, <2>1, <2>2
<1>3. IndexInv'
  BY <1>2 DEF PublisherInv, IndexInv
<1>4. QED BY <1>1, <1>3 DEF PublisherInv

(* Everything else leaves the index, the announcements and what is left to *)
(* publish as they are, and raises no connection.                          *)
LEMMA StaysCovered ==
    ASSUME PublisherInv, enrolled' \subseteq enrolled, UNCHANGED <<told, passLeft, index, skipped, announced>>,
           pubPhase' \in {"dialling", "passing", "serving"}, pubPhase' # "passing" => passLeft = <<>>,
           pubPhase' # "dialling" => pubPhase # "dialling", connected' => pubPhase' # "dialling"
    PROVE  PublisherInv'
<1>1. PublisherTyped'
  BY DEF PublisherInv, PublisherTyped
<1>2. \A d : Covered(d) => Covered(d)'
  BY DEF Covered, AwaitsHook, AwaitsPass
<1>3. QED BY <1>1, <1>2 DEF PublisherInv, IndexInv

LEMMA ConnectsStep == ASSUME PublisherInv, Connects PROVE PublisherInv'
<1>1. enrolled \subseteq Appliances /\ passLeft' \in PassOver(enrolled)
  BY DEF PublisherInv, PublisherTyped, Connects
<1>2. /\ passLeft' \in Seq(Appliances \X {"discovery", "availability"})
      /\ \A d \in enrolled : AwaitsPass(d)'
  BY <1>1, PassTyped DEF AwaitsPass
<1>3. UNCHANGED <<enrolled, told>> /\ pubPhase' = "passing"
  BY DEF Connects, devices
<1>4. QED BY <1>2, <1>3 DEF PublisherInv, PublisherTyped, IndexInv, Covered

LEMMA PublisherInvStep == ASSUME PublisherInv, [PublisherNext]_publisherVars PROVE PublisherInv'
<1> USE DEF devices, connection, entities
<1>1. CASE PublishRaises \/ PublishTimesOut \/ LinkBreaks \/ LossNoticed
  <2>1. /\ UNCHANGED <<enrolled, told, passLeft, index, skipped, announced>>
        /\ pubPhase' = pubPhase \/ (pubPhase' = "dialling" /\ passLeft = <<>>)
        /\ connected' => connected /\ pubPhase' = pubPhase
    BY <1>1 DEF PublishRaises, PublishTimesOut, LinkBreaks, LossNoticed, PublisherInv, IndexInv
  <2>2. QED BY <2>1, StaysCovered DEF PublisherInv, PublisherTyped, IndexInv
<1>2. CASE Subscribes
  <2>1. /\ UNCHANGED <<enrolled, told, passLeft, index, skipped, announced, connected>>
        /\ pubPhase = "passing" /\ pubPhase' = "serving" /\ passLeft = <<>>
    BY <1>2 DEF Subscribes
  <2>2. QED BY <2>1, StaysCovered
<1>3. CASE Connects
  BY <1>3, ConnectsStep
<1>4. CASE PassPublishes
  BY <1>4, PassStep
<1>5. CASE Restarts
  <2>1. <<>> \in Seq({"discovery", "availability", "state"}) /\ <<>> \in Seq(Appliances \X {"discovery", "availability"})
    OBVIOUS
  <2>2. PublisherTyped'
    BY <1>5, <2>1 DEF Restarts, PublisherInv, PublisherTyped
  <2>3. QED BY <1>5, <2>2 DEF Restarts, PublisherInv, IndexInv
<1>6. ASSUME NEW d \in Appliances, HookPublishes(d) PROVE PublisherInv'
  BY <1>6, HookStep
<1>7. ASSUME NEW d \in Appliances, Polls(d) \/ Deleted(d) \/ FallsSilent(d) \/ MarksOffline(d) PROVE PublisherInv'
  <2>1. /\ enrolled' \subseteq enrolled
        /\ UNCHANGED <<told, passLeft, index, skipped, announced, pubPhase, connected>>
    BY <1>7 DEF Polls, Heard, Deleted, FallsSilent, MarksOffline
  <2>2. QED BY <2>1, StaysCovered DEF PublisherInv, PublisherTyped, IndexInv
<1>8. ASSUME NEW d \in Appliances, Reports(d) \/ Requests(d) \/ CommandArrives(d) \/ SignsUpAgain(d) PROVE PublisherInv'
  <2>1. UNCHANGED <<pubPhase, connected, passLeft, index, skipped, announced>> /\ told[d] = <<>>
    BY <1>8 DEF Reports, Requests, CommandArrives, SignsUpAgain, Heard
  <2>2. CASE told' = told
    <3>1. enrolled' = enrolled
      <4>1. CASE SignsUpAgain(d)
        <5>1. told'[d] = <<"discovery", "availability">>
          BY <4>1 DEF SignsUpAgain, PublisherInv, PublisherTyped
        <5>2. QED BY <2>1, <2>2, <5>1
      <4>2. QED BY <1>8, <4>1 DEF Reports, Requests, CommandArrives, Heard
    <3>2. QED BY <2>1, <2>2, <3>1, StaysCovered DEF PublisherInv, PublisherTyped, IndexInv
  <2>3. CASE told' # told
    <3>1. \/ d \in enrolled /\ enrolled' = enrolled
             /\ \/ told' = [told EXCEPT ![d] = <<"state", "availability">>]
                \/ told' = [told EXCEPT ![d] = <<"availability">>]
                \/ told' = [told EXCEPT ![d] = <<"state">>]
          \/ enrolled' = enrolled \cup {d} /\ told' = [told EXCEPT ![d] = <<"discovery", "availability">>]
      BY <1>8, <2>3 DEF Reports, Requests, CommandArrives, SignsUpAgain, Heard
    <3>2. ASSUME NEW what \in {<<"state", "availability">>, <<"availability">>, <<"state">>, <<"discovery", "availability">>},
                 told' = [told EXCEPT ![d] = what], enrolled' \subseteq enrolled \cup {d},
                 d \in enrolled \/ what = <<"discovery", "availability">>
          PROVE  PublisherInv'
      <4>1. what \in Seq({"discovery", "availability", "state"})
        <5> DEFINE What == {"discovery", "availability", "state"}
        <5>1. "discovery" \in What /\ "availability" \in What /\ "state" \in What
          OBVIOUS
        <5> HIDE DEF What
        <5>2. /\ <<"state", "availability">> \in Seq(What) /\ <<"availability">> \in Seq(What)
              /\ <<"state">> \in Seq(What) /\ <<"discovery", "availability">> \in Seq(What)
          BY <5>1
        <5>3. QED BY <3>2, <5>2 DEF What
      <4>2. d \in enrolled \/ (what # <<>> /\ Head(what) = "discovery")
        BY <3>2
      <4>3. QED BY <2>1, <3>2, <4>1, <4>2, TellStep
    <3>3. QED BY <3>1, <3>2
  <2>4. QED BY <2>2, <2>3
<1>9. CASE UNCHANGED publisherVars
  <2>1. UNCHANGED <<enrolled, told, passLeft, index, skipped, announced, pubPhase, connected>>
    BY <1>9 DEF publisherVars
  <2>2. QED BY <2>1, StaysCovered DEF PublisherInv, PublisherTyped, IndexInv
<1>10. QED BY <1>1, <1>2, <1>3, <1>4, <1>5, <1>6, <1>7, <1>8, <1>9 DEF PublisherNext

(* While commands are served, the router knows every control Home          *)
(* Assistant shows, but for those of a device that was to be announced     *)
(* after a publish of the connection had failed (publish_discovery,        *)
(* _publish_all_discovery, _emit).                                         *)
THEOREM EveryControlUnderstood == PublisherSpec => []ControlsUnderstood
<1>1. PublisherInv => ControlsUnderstood
  BY DEF PublisherInv, IndexInv, ControlsUnderstood, Covered, AwaitsHook, AwaitsPass
<1>2. QED BY <1>1, PublisherInvInit, PublisherInvStep, PTL DEF PublisherSpec
-----------------------------------------------------------------------------
(* Reported: what is shown is what the device said last, whatever forms    *)
(* its reports took; and the date it is answered is never older than the   *)
(* one it told.                                                            *)
ReportsTyped ==
    /\ model \in Models /\ watched \subseteq Blocks(model)
    /\ model \in LitterModels => "litter" \in watched
    /\ truth \in [watched -> Nat] /\ \A f \in watched \ {"stamp"} : truth[f] \in {0, 1}
    /\ today \in Nat \ {0}
    /\ DOMAIN said = watched /\ DOMAIN state = watched
    /\ stampTold \in Nat
    /\ pressed \in [Supplies -> Nat] /\ record \in [Supplies -> Nat]

ToldFields == watched \ {"stamp"}

LEMMA ReportsTypedInit == ReportedInit => ReportsTyped
BY ReportedAssumption DEF ReportedInit, ReportsTyped, Models, LitterModels, Supplies

(* What the two parsers make of a message, field by field.                 *)
Read(of, st, f) == IF Present(of, f) THEN truth[f] ELSE st[f]

LEMMA EveryBlockRead ==
    ASSUME ReportsTyped, NEW f \in ToldFields PROVE f \in PropertyReads(model)
<1>1. f \in Blocks(model) /\ f # "stamp"
  BY DEF ReportsTyped, ToldFields
<1>2. model \in {"t4", "t5", "d4sh", "w7h"}
  BY DEF ReportsTyped, Models
<1>3. QED BY <1>1, <1>2 DEF Blocks, PropertyReads, FromBoth, PresenceFields, Plain, OwnHelper, LitterModels

LEMMA PropertyFields ==
    ASSUME ReportsTyped, NEW of \in Messages
    PROVE  /\ DOMAIN Property(of) = watched
           /\ \A f \in ToldFields : Property(of)[f] = Read(of, state, f)
           /\ "stamp" \in watched => Property(of)["stamp"] = Read(of, state, "stamp")
<1> DEFINE first == Parsed(of, Plain)
           second == Parsed(of, PropertyReads(model))
<1>1. /\ DOMAIN first = {f \in Plain \cap watched : Present(of, f)}
      /\ DOMAIN second = {f \in PropertyReads(model) \cap watched : Present(of, f)}
      /\ \A f \in DOMAIN first : first[f] = truth[f]
      /\ \A f \in DOMAIN second : second[f] = truth[f]
  BY DEF Parsed
<1>2. /\ DOMAIN Property(of) = watched
      /\ \A f \in watched : Property(of)[f] = IF f \in DOMAIN first \cup DOMAIN second THEN truth[f] ELSE state[f]
  BY <1>1 DEF Property, Updated, ReportsTyped
<1>3. "stamp" \in PropertyReads(model)
  BY DEF PropertyReads, Plain
<1>4. QED BY <1>1, <1>2, <1>3, EveryBlockRead DEF Read, ToldFields

LEMMA HttpFields ==
    ASSUME ReportsTyped, NEW of \in Messages
    PROVE  /\ DOMAIN Http(of) = watched
           /\ \A f \in ToldFields : \/ Http(of)[f] = Read(of, state, f)
                                    \/ f = "wifi" /\ Http(of)[f] = Unknown
           /\ "stamp" \in watched => Http(of)["stamp"] = Read(of, state, "stamp")
<1> DEFINE base == IF "wifi" \in watched THEN WithoutSignal(state, of) ELSE state
           first == Parsed(of, StateReportReads(model))
           second == Parsed(of, PropertyReads(model))
<1>1. /\ DOMAIN first \subseteq {f \in watched : Present(of, f)}
      /\ DOMAIN second = {f \in PropertyReads(model) \cap watched : Present(of, f)}
      /\ \A f \in DOMAIN first : first[f] = truth[f]
      /\ \A f \in DOMAIN second : second[f] = truth[f]
  BY DEF Parsed
<1>2. DOMAIN base = watched /\ \A f \in watched : base[f] = state[f] \/ (f = "wifi" /\ base[f] = Unknown)
  BY DEF WithoutSignal, ReportsTyped
<1> HIDE DEF base, first, second
<1>3. /\ DOMAIN Http(of) = watched
      /\ \A f \in watched : Http(of)[f] = IF f \in DOMAIN first \cup DOMAIN second THEN truth[f] ELSE base[f]
  BY <1>1, <1>2 DEF Http, Updated, base, first, second
<1>4. "stamp" \in PropertyReads(model) /\ "stamp" # "wifi"
  BY DEF PropertyReads, Plain
<1>5. QED BY <1>1, <1>2, <1>3, <1>4, EveryBlockRead DEF Read, ToldFields

(* A whole snapshot has every field.                                       *)
LEMMA WholeSnapshot == ASSUME ReportsTyped PROVE \A f \in watched : Present(watched, f)
<1> SUFFICES ASSUME NEW f \in watched PROVE Present(watched, f)
  OBVIOUS
<1>1. CASE f \in PresenceFields
  <2>1. model \in LitterModels
    BY <1>1 DEF ReportsTyped, Blocks, PresenceFields, Models, LitterModels
  <2>2. QED BY <1>1, <2>1 DEF ReportsTyped, Present, IsSnapshot
<1>2. CASE f \notin PresenceFields
  BY <1>2 DEF Present, Carried, PresenceFields
<1>3. QED BY <1>1, <1>2
-----------------------------------------------------------------------------
(* The state after a message, before and after the consumables.            *)
LEMMA Recorded ==
    ASSUME ReportsTyped, NEW st, NEW rec, Becomes(st, rec), DOMAIN st = watched, rec \in [Supplies -> Nat],
           "stamp" \in watched => st["stamp"] \in Nat \cup {Unknown}
    PROVE  /\ DOMAIN state' = watched /\ record' \in [Supplies -> Nat]
           /\ \A f \in ToldFields : state'[f] = st[f]
           /\ record'["n50"] = rec["n50"]
           /\ "stamp" \in watched =>
                 /\ record'["n60"] = IF st["stamp"] \notin {Unknown, 0} THEN st["stamp"] ELSE rec["n60"]
                 /\ state'["stamp"] \notin {Unknown, 0} => state'["stamp"] = record'["n60"]
                 /\ state'["stamp"] \in Nat \cup {Unknown}
<1>1. "n60" \in Supplies /\ "n60" # "n50"
  BY DEF Supplies
<1>2. CASE "stamp" \notin watched
  BY <1>2 DEF Becomes, AfterConsumables, ToldFields
<1>3. CASE "stamp" \in watched /\ st["stamp"] \notin {Unknown, 0}
  <2>1. state' = st /\ record' = [rec EXCEPT !["n60"] = st["stamp"]]
    BY <1>3 DEF Becomes, AfterConsumables
  <2>2. QED BY <1>1, <1>3, <2>1 DEF ToldFields
<1>4. CASE "stamp" \in watched /\ st["stamp"] \in {Unknown, 0}
  <2>1. state' = [st EXCEPT !["stamp"] = IF rec["n60"] # 0 THEN rec["n60"] ELSE @] /\ record' = rec
    BY <1>4 DEF Becomes, AfterConsumables
  <2>2. QED BY <1>1, <1>4, <2>1 DEF ToldFields
<1>5. QED BY <1>2, <1>3, <1>4

(* What is known of the replacement date: the record has it.               *)
DateInv ==
    /\ \A w \in Supplies : pressed[w] <= today
    /\ record["n50"] = pressed["n50"]
    /\ "stamp" \notin watched => pressed["n50"] = 0
    /\ "stamp" \in watched =>
          /\ state["stamp"] \in Nat \cup {Unknown}
          /\ state["stamp"] \notin {Unknown, 0} => state["stamp"] = record["n60"]
          /\ stampTold <= today /\ truth["stamp"] <= today
          /\ stampTold <= record["n60"]
          /\ record["n60"] <= stampTold \/ record["n60"] <= pressed["n60"]

ShownInv == ShownIsLastSaid

ReportedInv == ReportsTyped /\ DateInv /\ ShownInv

LEMMA ReportedInvInit == ReportedInit => ReportedInv
<1> SUFFICES ASSUME ReportedInit PROVE ReportedInv
  OBVIOUS
<1>1. ReportsTyped
  BY ReportsTypedInit
<1>2. DateInv
  BY ReportedAssumption DEF ReportedInit, DateInv, Supplies
<1>3. ShownInv
  BY DEF ReportedInit, ShownInv, ShownIsLastSaid
<1>4. QED BY <1>1, <1>2, <1>3 DEF ReportedInv

(* A message of any form: what it left out is as it was.                   *)
LEMMA ReportFollows ==
    ASSUME ReportedInv, NEW of \in Messages, NEW st, DOMAIN st = watched,
           \A f \in ToldFields : st[f] = Read(of, state, f) \/ (f = "wifi" /\ st[f] = Unknown),
           "stamp" \in watched => st["stamp"] = Read(of, state, "stamp"),
           Says(of), Becomes(st, record), UNCHANGED <<deviceSide, pressed>>
    PROVE  ReportedInv'
<1> USE DEF ReportedInv
<1>1. UNCHANGED <<model, watched, truth, today, pressed>>
  BY DEF deviceSide
<1>2. "stamp" \in watched => st["stamp"] \in Nat \cup {Unknown}
  BY DEF Read, DateInv, ReportsTyped
<1>3. /\ DOMAIN state' = watched /\ record' \in [Supplies -> Nat]
      /\ \A f \in ToldFields : state'[f] = st[f]
      /\ record'["n50"] = record["n50"]
      /\ "stamp" \in watched =>
            /\ record'["n60"] = IF st["stamp"] \notin {Unknown, 0} THEN st["stamp"] ELSE record["n60"]
            /\ state'["stamp"] \notin {Unknown, 0} => state'["stamp"] = record'["n60"]
            /\ state'["stamp"] \in Nat \cup {Unknown}
  BY <1>2, Recorded DEF ReportsTyped
<1>4. /\ DOMAIN said' = watched /\ \A f \in watched : said'[f] = IF Present(of, f) THEN truth[f] ELSE said[f]
      /\ stampTold' = IF "stamp" \in of /\ truth["stamp"] # 0 THEN truth["stamp"] ELSE stampTold
  BY DEF Says
<1>5. of \subseteq watched
  BY DEF Messages
<1>6. stampTold' \in Nat
  BY <1>4, <1>5 DEF ReportsTyped
<1>7. ReportsTyped'
  BY <1>1, <1>3, <1>4, <1>6 DEF ReportsTyped
<1>8. DateInv'
  <2>1. CASE "stamp" \notin watched
    BY <1>1, <1>3, <2>1 DEF DateInv
  <2>2. CASE "stamp" \in watched /\ "stamp" \in of
    <3>1. Present(of, "stamp")
      BY <2>2 DEF Present, Carried, PresenceFields
    <3>2. st["stamp"] = truth["stamp"] /\ truth["stamp"] \in Nat
      BY <2>2, <3>1 DEF Read, ReportsTyped
    <3>3. QED BY <1>1, <1>3, <1>4, <2>2, <3>2, ReportedAssumption DEF DateInv, ReportsTyped, Supplies
  <2>3. CASE "stamp" \in watched /\ "stamp" \notin of
    <3>1. ~Present(of, "stamp")
      BY <2>3 DEF Present, Carried, PresenceFields
    <3>2. st["stamp"] = state["stamp"]
      BY <2>3, <3>1 DEF Read
    <3>3. record'["n60"] = record["n60"] /\ stampTold' = stampTold
      BY <1>3, <1>4, <2>3, <3>2 DEF DateInv
    <3>4. QED BY <1>1, <1>3, <2>3, <3>3 DEF DateInv
  <2>4. QED BY <2>1, <2>2, <2>3
<1>9. ShownInv'
  BY <1>1, <1>3, <1>4 DEF ShownInv, ShownIsLastSaid, Read, ToldFields
<1>10. QED BY <1>7, <1>8, <1>9

LEMMA StateStep == ASSUME ReportedInv, NEW of \in Messages, StateReported(of) PROVE ReportedInv'
BY ReportFollows, HttpFields DEF StateReported, ReportedInv

LEMMA PropertyStep == ASSUME ReportedInv, NEW of \in Messages, PropertyPosted(of) PROVE ReportedInv'
BY ReportFollows, PropertyFields DEF PropertyPosted, ReportedInv

LEMMA EventStep == ASSUME ReportedInv, EventReported PROVE ReportedInv'
<1>1. watched \in Messages
  BY DEF Messages
<1>2. QED BY <1>1, ReportFollows, HttpFields DEF EventReported, SnapshotApplied, ReportedInv

LEMMA FaultStep == ASSUME ReportedInv, NEW v \in {0, 1}, FaultReported(v) PROVE ReportedInv'
<1> DEFINE st == [SnapshotApplied EXCEPT !["err"] = v]
<1> USE DEF ReportedInv
<1>1. watched \in Messages /\ "err" \in watched
  BY DEF Messages, FaultReported
<1>2. \A f \in watched : Present(watched, f)
  BY WholeSnapshot
<1>3. /\ DOMAIN st = watched /\ st["err"] = v
      /\ \A f \in ToldFields \ {"err"} : st[f] = truth[f] \/ (f = "wifi" /\ st[f] = Unknown)
      /\ "stamp" \in watched => st["stamp"] = truth["stamp"]
  BY <1>1, <1>2, HttpFields DEF SnapshotApplied, Read, ToldFields
<1> HIDE DEF st
<1>4. "stamp" \in watched => st["stamp"] \in Nat
  BY <1>3 DEF ReportsTyped
<1>5. /\ UNCHANGED <<model, watched, truth, today, pressed>> /\ Becomes(st, record)
      /\ said' = [f \in watched |-> IF f = "err" THEN v ELSE truth[f]]
      /\ stampTold' = IF "stamp" \in watched /\ truth["stamp"] # 0 THEN truth["stamp"] ELSE stampTold
  BY DEF FaultReported, deviceSide, st
<1>6. /\ DOMAIN state' = watched /\ record' \in [Supplies -> Nat]
      /\ \A f \in ToldFields : state'[f] = st[f]
      /\ record'["n50"] = record["n50"]
      /\ "stamp" \in watched =>
            /\ record'["n60"] = IF st["stamp"] \notin {Unknown, 0} THEN st["stamp"] ELSE record["n60"]
            /\ state'["stamp"] \notin {Unknown, 0} => state'["stamp"] = record'["n60"]
            /\ state'["stamp"] \in Nat \cup {Unknown}
  BY <1>3, <1>4, <1>5, Recorded DEF ReportsTyped
<1>7. ReportsTyped'
  <2>1. stampTold' \in Nat
    BY <1>5 DEF ReportsTyped
  <2>2. QED BY <1>5, <1>6, <2>1 DEF ReportsTyped
<1>8. DateInv'
  BY <1>3, <1>5, <1>6, ReportedAssumption DEF DateInv, ReportsTyped, Supplies
<1>9. ShownInv'
  BY <1>3, <1>5, <1>6 DEF ShownInv, ShownIsLastSaid, ToldFields
<1>10. QED BY <1>7, <1>8, <1>9

LEMMA ButtonStep == ASSUME ReportedInv, NEW which \in Supplies, ButtonPressed(which) PROVE ReportedInv'
<1> DEFINE rec == [record EXCEPT ![which] = today]
<1> USE DEF ReportedInv
<1>1. /\ UNCHANGED <<model, watched, truth, today, said, stampTold>> /\ Becomes(state, rec)
      /\ pressed' = [pressed EXCEPT ![which] = today] /\ "stamp" \in watched
  BY DEF ButtonPressed, deviceSide
<1>2. rec \in [Supplies -> Nat] /\ DOMAIN state = watched /\ state["stamp"] \in Nat \cup {Unknown}
  BY <1>1 DEF ReportsTyped, DateInv
<1>3. /\ DOMAIN state' = watched /\ record' \in [Supplies -> Nat]
      /\ \A f \in ToldFields : state'[f] = state[f]
      /\ record'["n50"] = rec["n50"]
      /\ record'["n60"] = IF state["stamp"] \notin {Unknown, 0} THEN state["stamp"] ELSE rec["n60"]
      /\ state'["stamp"] \notin {Unknown, 0} => state'["stamp"] = record'["n60"]
      /\ state'["stamp"] \in Nat \cup {Unknown}
  BY <1>1, <1>2, Recorded DEF ReportsTyped
<1>4. ReportsTyped'
  BY <1>1, <1>3 DEF ReportsTyped
<1>5. DateInv'
  <2>1. CASE which = "n50"
    BY <1>1, <1>3, <2>1 DEF DateInv, ReportsTyped, Supplies
  <2>2. CASE which = "n60"
    <3>1. /\ pressed'["n60"] = today /\ pressed'["n50"] = pressed["n50"] /\ rec["n50"] = record["n50"] /\ rec["n60"] = today
      BY <1>1, <2>2 DEF ReportsTyped, Supplies
    <3>2. stampTold <= record'["n60"] /\ (record'["n60"] <= stampTold \/ record'["n60"] <= today)
      <4>1. CASE state["stamp"] \notin {Unknown, 0}
        BY <1>1, <1>3, <4>1 DEF DateInv, ReportsTyped, Supplies
      <4>2. CASE state["stamp"] \in {Unknown, 0}
        BY <1>1, <1>3, <3>1, <4>2 DEF DateInv, ReportsTyped, Supplies
      <4>3. QED BY <4>1, <4>2
    <3>3. QED BY <1>1, <1>3, <3>1, <3>2 DEF DateInv, ReportsTyped, Supplies
  <2>3. QED BY <2>1, <2>2 DEF Supplies
<1>6. ShownInv'
  BY <1>1, <1>3 DEF ShownInv, ShownIsLastSaid, ToldFields
<1>7. QED BY <1>4, <1>5, <1>6

(* Echoed is the record whenever the box is asked for it.                  *)
LEMMA EchoIsRecord == ASSUME ReportsTyped, DateInv, "stamp" \in watched PROVE Echoed = record["n60"]
BY DEF Echoed, DateInv

LEMMA FetchStep == ASSUME ReportedInv, DeviceInfoFetched PROVE ReportedInv'
<1> USE DEF ReportedInv
<1>1. /\ UNCHANGED <<model, watched, today, said, stampTold, pressed, state, record>>
      /\ "stamp" \in watched /\ truth' = [truth EXCEPT !["stamp"] = record["n60"]]
  BY EchoIsRecord DEF DeviceInfoFetched
<1>2. record["n60"] \in Nat
  BY DEF ReportsTyped, Supplies
<1>3. record["n60"] <= today
  BY <1>1, <1>2 DEF DateInv, ReportsTyped, Supplies
<1>4. ReportsTyped'
  BY <1>1, <1>2 DEF ReportsTyped
<1>5. DateInv'
  BY <1>1, <1>3 DEF DateInv, ReportsTyped
<1>6. ShownInv'
  BY <1>1 DEF ShownInv, ShownIsLastSaid
<1>7. QED BY <1>4, <1>5, <1>6

LEMMA RestartStep == ASSUME ReportedInv, Restarted PROVE ReportedInv'
<1> USE DEF ReportedInv
<1>1. /\ UNCHANGED <<model, watched, truth, today, stampTold, pressed, record>>
      /\ state' = [f \in watched |-> Unknown] /\ said' = state'
  BY DEF Restarted, deviceSide
<1>2. ReportsTyped'
  BY <1>1 DEF ReportsTyped
<1>3. DateInv'
  BY <1>1 DEF DateInv
<1>4. ShownInv'
  BY <1>1 DEF ShownInv, ShownIsLastSaid
<1>5. QED BY <1>2, <1>3, <1>4

LEMMA WorldStep == ASSUME ReportedInv, DayPasses \/ \E f \in watched : Changes(f) PROVE ReportedInv'
<1> USE DEF ReportedInv
<1>1. CASE DayPasses
  <2>1. today' = today + 1 /\ UNCHANGED <<model, watched, truth, said, stampTold, pressed, state, record>>
    BY <1>1 DEF DayPasses
  <2>2. ReportsTyped' /\ ShownInv'
    BY <2>1 DEF ReportsTyped, ShownInv, ShownIsLastSaid
  <2>3. DateInv'
    BY <2>1 DEF ReportsTyped, DateInv, Supplies
  <2>4. QED BY <2>2, <2>3
<1>2. CASE \E f \in watched : Changes(f)
  <2>1. PICK f \in watched : Changes(f)
    BY <1>2
  <2>2. /\ UNCHANGED <<model, watched, today, said, stampTold, pressed, state, record>>
        /\ truth' = [truth EXCEPT ![f] = IF f = "stamp" THEN today ELSE 1 - truth[f]]
    BY <2>1 DEF Changes
  <2>3. \A g \in watched : truth'[g] \in Nat /\ (g # "stamp" => truth'[g] \in {0, 1})
    <3>1. 1 - truth[f] \in {0, 1} \/ f = "stamp"
      BY DEF ReportsTyped
    <3>2. QED BY <2>2, <3>1 DEF ReportsTyped
  <2>4. ReportsTyped' /\ ShownInv' /\ DateInv'
    BY <2>2, <2>3 DEF ReportsTyped, ShownInv, ShownIsLastSaid, DateInv
  <2>5. QED BY <2>4
<1>3. QED BY <1>1, <1>2

LEMMA ReportedInvStep == ASSUME ReportedInv, [ReportedNext]_reportedVars PROVE ReportedInv'
<1>1. CASE UNCHANGED reportedVars
  BY <1>1 DEF reportedVars, deviceSide, ReportedInv, ReportsTyped, DateInv, ShownInv, ShownIsLastSaid
<1>2. CASE \E of \in Messages : StateReported(of) \/ PropertyPosted(of)
  BY <1>2, StateStep, PropertyStep
<1>3. CASE EventReported
  BY <1>3, EventStep
<1>4. CASE \E v \in {0, 1} : FaultReported(v)
  BY <1>4, FaultStep
<1>5. CASE \E which \in Supplies : ButtonPressed(which)
  BY <1>5, ButtonStep
<1>6. CASE DeviceInfoFetched \/ Restarted
  BY <1>6, FetchStep, RestartStep
<1>7. CASE DayPasses \/ \E f \in watched : Changes(f)
  BY <1>7, WorldStep
<1>8. QED BY <1>1, <1>2, <1>3, <1>4, <1>5, <1>6, <1>7 DEF ReportedNext
-----------------------------------------------------------------------------
(* What is shown is what the device said last, in whatever form and on     *)
(* whichever transport (state_parsers): each field of a model's reports    *)
(* goes through both parsers.                                              *)
THEOREM ShownAsSaid == ReportedSpec => []ShownIsLastSaid
<1>1. ReportedInv => ShownIsLastSaid
  BY DEF ReportedInv, ShownInv
<1>2. QED BY <1>1, ReportedInvInit, ReportedInvStep, PTL DEF ReportedSpec

LEMMA DatesFollow == ASSUME ReportedInv PROVE ReplacementKept
<1> USE DEF ReportedInv
<1>1. ASSUME "stamp" \in watched
      PROVE  /\ stampTold <= Echoed /\ (Echoed <= stampTold \/ Echoed <= pressed["n60"])
             /\ Countdown("n60") = IF Echoed = 0 THEN Unknown ELSE DaysLeft(Echoed)
  <2>1. Echoed = record["n60"]
    BY <1>1, EchoIsRecord
  <2>2. AfterConsumables(state, record).rec["n60"] = record["n60"]
    BY <1>1 DEF AfterConsumables, DateInv, ReportsTyped, Supplies
  <2>3. Countdown("n60") = IF Echoed = 0 THEN Unknown ELSE DaysLeft(Echoed)
    BY <2>1, <2>2 DEF Countdown
  <2>4. QED BY <1>1, <2>1, <2>3 DEF DateInv
<1>2. ASSUME NEW w \in Supplies \ {"n60"}, pressed[w] # 0 PROVE Countdown(w) = DaysLeft(pressed[w])
  <2>1. w = "n50"
    BY DEF Supplies
  <2>2. AfterConsumables(state, record).rec["n50"] = record["n50"]
    BY DEF AfterConsumables, DateInv, ReportsTyped, Supplies
  <2>3. QED BY <1>2, <2>1, <2>2 DEF Countdown, DateInv
<1>3. QED BY <1>1, <1>2 DEF ReplacementKept

(* A replacement date outlives restarts and quiet devices, and the box is  *)
(* never answered one older than it told (apply_consumable_state,          *)
(* to_device_info).                                                        *)
THEOREM DatesKept == ReportedSpec => []ReplacementKept
<1>1. ReportedInv => ReplacementKept
  BY DatesFollow
<1>2. QED BY <1>1, ReportedInvInit, ReportedInvStep, PTL DEF ReportedSpec
=============================================================================
