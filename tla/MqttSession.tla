---------------------------- MODULE MqttSession ----------------------------
(***************************************************************************)
(* Who believes a device can be reached over MQTT, and why.                *)
(*                                                                         *)
(* `Device.mqtt_connected' decides how every command travels.  Four        *)
(* parts of the program write it: the broker plugin of mqtt/auth.py (on    *)
(* CONNECT, on every packet, on disconnect), the heartbeat handler         *)
(* (`note_iot_status'), the availability watchdog of ha/publisher.py, and  *)
(* a restart.  Each runs to its first await without interruption, so each  *)
(* is one action here; what interleaves is their order, the device and the *)
(* network.                                                                *)
(*                                                                         *)
(* Outside the repository, and modelled from how it is used: amqtt, which  *)
(* owns the Session objects and calls the plugin's hooks from tasks of its *)
(* own (so a hook runs some time after the event it reports), and the      *)
(* device, which may drop its link without telling the broker and whose    *)
(* heartbeat carries an iotStatus sampled before the request was sent.     *)
(*                                                                         *)
(* Time is counted in ticks since the last stamp of each kind; an age      *)
(* stops growing where no comparison in the code can tell it from a larger *)
(* one (MaxAge).  Not modelled: `mqtt_subscriptions', the rejected CONNECT *)
(* of strict mode and CONNECTs of unknown devices (neither writes device   *)
(* state), and CONNECTs processed out of the order they were sent in.      *)
(***************************************************************************)
EXTENDS Integers

CONSTANTS
    Devices,         \* the registered devices
    Sessions,        \* Session objects of the broker; one is reused once nothing refers to it
    NoSession,       \* "no entry" in _live_sessions, "no link" at the device
    Grace,           \* IOT_STATUS_GRACE, in ticks
    AliveWindow,     \* max(15, 1.5 * keep_alive) of mqtt_session_alive, in ticks
    OfflineTimeout   \* offline_timeout, in ticks

ASSUME SessionAssumption == NoSession \notin Sessions
ASSUME TimeAssumption ==
    /\ Grace \in Nat /\ AliveWindow \in Nat /\ OfflineTimeout \in Nat
    /\ 0 < Grace /\ Grace <= AliveWindow   \* the window is max(15, ...), the grace 15

VARIABLES
    sess,            \* Session.transitions as the broker moves it, per session
    owner,           \* the device the session's client id names
    rx,              \* a packet the broker read whose plugin hook has not run yet
    link,            \* the session the device itself still holds open
    poll,            \* a heartbeat in flight, with the iotStatus it carries
    frame,           \* a published frame on its way to the bridge
    live,            \* AliyunAuthPlugin._live_sessions
    mqtt_connected,
    online,
    contactAge,      \* ticks since last_heartbeat, last_state_report, last_seen
    mqttAge,         \* ticks since last_mqtt
    connectAge       \* ticks since mqtt_connected_at

env     == <<sess, owner, rx, link, poll, frame>>
routing == <<live, mqtt_connected, online, contactAge, mqttAge, connectAge>>
vars    == <<env, routing>>

MaxAge == IF AliveWindow > OfflineTimeout THEN AliveWindow ELSE OfflineTimeout + 1

TypeOK ==
    /\ sess \in [Sessions -> {"free", "authed", "connected", "ended"}]
    /\ owner \in [Sessions -> Devices]
    /\ rx \in [Sessions -> {"none", "packet", "disconnect"}]
    /\ link \in [Devices -> Sessions \cup {NoSession}]
    /\ poll \in [Devices -> {"none", "down", "up"}]
    /\ frame \in [Devices -> BOOLEAN]
    /\ live \in [Devices -> Sessions \cup {NoSession}]
    /\ mqtt_connected \in [Devices -> BOOLEAN]
    /\ online \in [Devices -> BOOLEAN]
    /\ contactAge \in [Devices -> 0 .. MaxAge]
    /\ mqttAge \in [Devices -> 0 .. MaxAge]
    /\ connectAge \in [Devices -> 0 .. MaxAge]

(* A process that has just started: nothing of this is persisted.  An age  *)
(* of MaxAge stands for the timestamp 0.0 of a device never heard from.    *)
InitRouting ==
    /\ live = [d \in Devices |-> NoSession]
    /\ mqtt_connected = [d \in Devices |-> FALSE]
    /\ online = [d \in Devices |-> FALSE]
    /\ contactAge = [d \in Devices |-> MaxAge]
    /\ mqttAge = [d \in Devices |-> MaxAge]
    /\ connectAge = [d \in Devices |-> MaxAge]

Init ==
    /\ sess = [s \in Sessions |-> "free"]
    /\ owner \in [Sessions -> Devices]
    /\ rx = [s \in Sessions |-> "none"]
    /\ link = [d \in Devices |-> NoSession]
    /\ poll = [d \in Devices |-> "none"]
    /\ frame = [d \in Devices |-> FALSE]
    /\ InitRouting
-----------------------------------------------------------------------------
(* The broker plugin, mqtt/auth.py.                                        *)

(* Faulty variant: a half-open session counts as alive.                    *)
SessionAliveIgnoresSilence(d) == live[d] # NoSession /\ sess[live[d]] = "connected"

(* mqtt_session_alive, the predicate _mark_mqtt_connected installs.        *)
SessionAlive(d) ==
    /\ live[d] # NoSession
    /\ sess[live[d]] = "connected"
    /\ mqttAge[d] < AliveWindow

(* authenticate: a CONNECT whose device is known, signed correctly or let  *)
(* in by the non-strict default, ends in _mark_mqtt_connected.  The device *)
(* has given up whatever link it held before.                              *)
Authenticate(d, s) ==
    /\ sess[s] = "free" /\ \A e \in Devices : live[e] # s /\ link[e] # s
    /\ sess' = [sess EXCEPT ![s] = "authed"]
    /\ owner' = [owner EXCEPT ![s] = d]
    /\ link' = [link EXCEPT ![d] = s]
    /\ live' = [live EXCEPT ![d] = s]
    /\ online' = [online EXCEPT ![d] = TRUE]
    /\ mqtt_connected' = [mqtt_connected EXCEPT ![d] = TRUE]
    /\ mqttAge' = [mqttAge EXCEPT ![d] = 0]
    /\ connectAge' = [connectAge EXCEPT ![d] = 0]
    /\ UNCHANGED <<rx, poll, frame, contactAge>>

(* Faulty variants: the device is found by its client id, not by the       *)
(* Session object; the packet stamps the device but restores nothing.      *)
PacketHookByClientId(s) ==
    /\ rx[s] # "none"
    /\ rx' = [rx EXCEPT ![s] = "none"]
    /\ mqttAge' = [mqttAge EXCEPT ![owner[s]] = 0]
    /\ mqtt_connected' = [mqtt_connected EXCEPT ![owner[s]] =
                              @ \/ (rx[s] # "disconnect" /\ sess[s] = "connected")]
    /\ UNCHANGED <<sess, owner, link, poll, frame, live, online, contactAge, connectAge>>

PacketHookOnlyStamps(s) ==
    /\ rx[s] # "none"
    /\ rx' = [rx EXCEPT ![s] = "none"]
    /\ mqttAge' = [d \in Devices |-> IF live[d] = s THEN 0 ELSE mqttAge[d]]
    /\ UNCHANGED <<sess, owner, link, poll, frame, live, mqtt_connected, online,
                   contactAge, connectAge>>

(* on_mqtt_packet_received: stamps the device whose live session this is,  *)
(* and restores a route something else cleared, unless the packet is a     *)
(* DISCONNECT or the broker has already taken the session down.            *)
PacketHook(s) ==
    LET heard == {d \in Devices : live[d] = s}
        restored == {d \in heard : rx[s] # "disconnect" /\ sess[s] = "connected"}
    IN  /\ rx[s] # "none"
        /\ rx' = [rx EXCEPT ![s] = "none"]
        /\ mqttAge' = [d \in Devices |-> IF d \in heard THEN 0 ELSE mqttAge[d]]
        /\ mqtt_connected' = [d \in Devices |-> mqtt_connected[d] \/ d \in restored]
        /\ UNCHANGED <<sess, owner, link, poll, frame, live, online, contactAge, connectAge>>

(* Faulty variants: a teardown is believed whatever session it names; the  *)
(* entry is popped but the flag is left to the backstops.                  *)
DisconnectHookAnySession(s) ==
    /\ sess[s] = "ended" /\ rx[s] = "none"
    /\ sess' = [sess EXCEPT ![s] = "free"]
    /\ live' = [live EXCEPT ![owner[s]] = NoSession]
    /\ mqtt_connected' = [mqtt_connected EXCEPT ![owner[s]] = FALSE]
    /\ UNCHANGED <<owner, rx, link, poll, frame, online, contactAge, mqttAge, connectAge>>

(* on_broker_client_disconnected: the teardown of a session that has been  *)
(* superseded is ignored; a teardown with no entry still clears the flag.  *)
DisconnectHook(s) ==
    LET d == owner[s]
        superseded == live[d] # NoSession /\ live[d] # s
    IN  /\ sess[s] = "ended" /\ rx[s] = "none"
        /\ sess' = [sess EXCEPT ![s] = "free"]
        /\ live' = IF superseded THEN live ELSE [live EXCEPT ![d] = NoSession]
        /\ mqtt_connected' = IF superseded THEN mqtt_connected
                             ELSE [mqtt_connected EXCEPT ![d] = FALSE]
        /\ UNCHANGED <<owner, rx, link, poll, frame, online, contactAge, mqttAge, connectAge>>

(* MQTTBridge._handle_message: any frame of the device stamps it.          *)
BridgeFrame(d) ==
    /\ frame[d]
    /\ frame' = [frame EXCEPT ![d] = FALSE]
    /\ online' = [online EXCEPT ![d] = TRUE]
    /\ mqttAge' = [mqttAge EXCEPT ![d] = 0]
    /\ UNCHANGED <<sess, owner, rx, link, poll, live, mqtt_connected, contactAge, connectAge>>
-----------------------------------------------------------------------------
(* The HTTP side and the watchdog.                                         *)

(* Faulty variant: the report is believed without asking the broker side.  *)
PollClearsRouteUnasked(d) ==
    mqtt_connected[d] /\ poll[d] = "down" /\ connectAge[d] >= Grace

(* note_iot_status: an iotStatus of 0 clears the flag, unless the session  *)
(* is demonstrably alive or so young that the sample predates it.          *)
PollClearsRoute(d) ==
    /\ mqtt_connected[d] /\ poll[d] = "down"
    /\ ~SessionAlive(d)
    /\ connectAge[d] >= Grace

(* handle_heartbeat up to the command queue (SettingsDelivery has the rest). *)
Heartbeat(d) ==
    /\ poll[d] # "none"
    /\ poll' = [poll EXCEPT ![d] = "none"]
    /\ online' = [online EXCEPT ![d] = TRUE]
    /\ contactAge' = [contactAge EXCEPT ![d] = 0]
    /\ mqtt_connected' = [mqtt_connected EXCEPT ![d] = @ /\ ~PollClearsRoute(d)]
    /\ UNCHANGED <<sess, owner, rx, link, frame, live, mqttAge, connectAge>>

(* device_is_stale: the newest of all four contact stamps is too old.      *)
Stale(d) == contactAge[d] > OfflineTimeout /\ mqttAge[d] > OfflineTimeout

(* availability_watchdog, for one device of its sweep.                     *)
Watchdog(d) ==
    /\ online[d] /\ Stale(d)
    /\ online' = [online EXCEPT ![d] = FALSE]
    /\ mqtt_connected' = [mqtt_connected EXCEPT ![d] = FALSE]
    /\ UNCHANGED <<env, live, contactAge, mqttAge, connectAge>>

(* A restart of the add-on loses every session and every runtime field.    *)
Restart ==
    /\ sess' = [s \in Sessions |-> "free"]
    /\ rx' = [s \in Sessions |-> "none"]
    /\ poll' = [d \in Devices |-> "none"]
    /\ frame' = [d \in Devices |-> FALSE]
    /\ live' = [d \in Devices |-> NoSession]
    /\ mqtt_connected' = [d \in Devices |-> FALSE]
    /\ online' = [d \in Devices |-> FALSE]
    /\ contactAge' = [d \in Devices |-> MaxAge]
    /\ mqttAge' = [d \in Devices |-> MaxAge]
    /\ connectAge' = [d \in Devices |-> MaxAge]
    /\ UNCHANGED <<owner, link>>
-----------------------------------------------------------------------------
(* The environment: amqtt and the device.                                  *)

(* The broker sends CONNACK and moves the session to `connected'.          *)
BrokerAccepts(s) ==
    /\ sess[s] = "authed"
    /\ sess' = [sess EXCEPT ![s] = "connected"]
    /\ UNCHANGED <<owner, rx, link, poll, frame, routing>>

(* The socket dies before CONNACK: no CLIENT_DISCONNECTED event follows a  *)
(* session that never connected, so _live_sessions keeps its entry.        *)
HandshakeDies(s) ==
    /\ sess[s] = "authed"
    /\ sess' = [sess EXCEPT ![s] = "free"]
    /\ UNCHANGED <<owner, rx, link, poll, frame, routing>>

(* The broker notices the end of a session: EOF, a missed keep-alive, a    *)
(* DISCONNECT, a take-over.  Its plugin hook runs later (DisconnectHook),  *)
(* and so does the device's own discovery of it (DeviceLeaves).            *)
SessionEnds(s) ==
    /\ sess[s] = "connected"
    /\ sess' = [sess EXCEPT ![s] = "ended"]
    /\ UNCHANGED <<owner, rx, link, poll, frame, routing>>

(* The device sends a PINGREQ, or a PUBLISH that the bridge will also see. *)
DeviceSends(d) ==
    /\ link[d] # NoSession /\ sess[link[d]] = "connected" /\ rx[link[d]] = "none"
    /\ rx' = [rx EXCEPT ![link[d]] = "packet"]
    /\ \E publishes \in BOOLEAN : frame' = [frame EXCEPT ![d] = @ \/ publishes]
    /\ UNCHANGED <<sess, owner, link, poll, routing>>

(* The device leaves, with a DISCONNECT or (rebooting, out of Wi-Fi range) *)
(* without a word: the broker's half of the connection stays open.         *)
DeviceLeaves(d) ==
    /\ link[d] # NoSession
    /\ \/ /\ sess[link[d]] = "connected" /\ rx[link[d]] = "none"
          /\ rx' = [rx EXCEPT ![link[d]] = "disconnect"]
       \/ rx' = rx
    /\ link' = [link EXCEPT ![d] = NoSession]
    /\ UNCHANGED <<sess, owner, poll, frame, routing>>

(* The device samples iotStatus and sends a poll.  Without a link it is 0; *)
(* with one it is 1, or 0 while the firmware has not caught up.            *)
DevicePolls(d) ==
    /\ poll[d] = "none"
    /\ \E status \in {"down", "up"} :
          /\ link[d] = NoSession => status = "down"
          /\ poll' = [poll EXCEPT ![d] = status]
    /\ UNCHANGED <<sess, owner, rx, link, frame, routing>>

Older(age) == [d \in Devices |-> IF age[d] < MaxAge THEN age[d] + 1 ELSE age[d]]

Tick ==
    /\ \E d \in Devices : \E a \in {contactAge[d], mqttAge[d], connectAge[d]} : a < MaxAge
    /\ contactAge' = Older(contactAge)
    /\ mqttAge' = Older(mqttAge)
    /\ connectAge' = Older(connectAge)
    /\ UNCHANGED <<env, live, mqtt_connected, online>>
-----------------------------------------------------------------------------
Next ==
    \/ \E d \in Devices, s \in Sessions : Authenticate(d, s)
    \/ \E s \in Sessions : PacketHook(s)
    \/ \E s \in Sessions : DisconnectHook(s)
    \/ \E s \in Sessions : BrokerAccepts(s)
    \/ \E s \in Sessions : HandshakeDies(s)
    \/ \E s \in Sessions : SessionEnds(s)
    \/ \E d \in Devices : BridgeFrame(d)
    \/ \E d \in Devices : Heartbeat(d)
    \/ \E d \in Devices : Watchdog(d)
    \/ \E d \in Devices : DeviceSends(d)
    \/ \E d \in Devices : DeviceLeaves(d)
    \/ \E d \in Devices : DevicePolls(d)
    \/ Tick
    \/ Restart

Spec == Init /\ [][Next]_vars

(* Time passes, the event loop runs every hook and handler it has been     *)
(* given and the watchdog task sweeps, and a device that holds a session   *)
(* pings within its keep-alive.  Nothing is assumed of the broker noticing *)
(* a dead link (keep-alive 0 means never) or of the device polling.        *)
Fairness ==
    /\ WF_vars(Tick)
    /\ \A s \in Sessions : WF_vars(PacketHook(s)) /\ WF_vars(DisconnectHook(s))
    /\ \A d \in Devices : /\ WF_vars(BridgeFrame(d))
                          /\ WF_vars(Heartbeat(d))
                          /\ WF_vars(Watchdog(d))
                          /\ WF_vars(DeviceSends(d))

-----------------------------------------------------------------------------
(* Properties.                                                             *)

(* The device and the broker agree that this session is being set up or up. *)
Held(d) == link[d] # NoSession /\ sess[link[d]] \in {"authed", "connected"}

(* The session is up and the plugin heard from it recently, or it is being *)
(* set up and so young that a poll in flight may have been sampled before. *)
Healthy(d) ==
    /\ link[d] # NoSession /\ mqttAge[d] <= OfflineTimeout
    /\ \/ sess[link[d]] = "connected" /\ mqttAge[d] < AliveWindow
       \/ sess[link[d]] = "authed" /\ connectAge[d] < Grace

(* _live_sessions names the session the device is really using, whatever   *)
(* order the teardowns of its earlier sessions arrive in, and names only   *)
(* sessions of that device.  mqtt/auth.py compares Session objects for     *)
(* this: by client id alone a take-over would remove the new entry.        *)
LiveIsHeld ==
    \A d \in Devices :
        /\ Held(d) => live[d] = link[d]
        /\ live[d] # NoSession => owner[live[d]] = d

(* Commands are routed to MQTT only while the plugin still tracks a        *)
(* session: nothing restores the flag once the disconnect hook has run.    *)
RouteHasSession == \A d \in Devices : mqtt_connected[d] => live[d] # NoSession

(* While a session is healthy no poll, sweep or late teardown of an older  *)
(* session takes its device off MQTT: a device on the broker may have      *)
(* stopped polling, and commands queued for its heartbeat would then wait. *)
HealthyRouteKept ==
    [][\A d \in Devices :
          Healthy(d) /\ mqtt_connected[d] /\ Healthy(d)' /\ link'[d] = link[d]
             => mqtt_connected'[d]]_vars

(* A route comes back only with a CONNECT or with a packet on the session  *)
(* the plugin tracks, and never through a session the device has replaced. *)
RouteRaisedByCurrent ==
    [][\A d \in Devices :
          ~mqtt_connected[d] /\ mqtt_connected'[d]
             => /\ live'[d] # NoSession
                /\ link[d] # NoSession /\ link'[d] = link[d] => live'[d] = link[d]]_vars

(* A device that stays connected keeps, or gets back, its MQTT route,      *)
(* whatever iotStatus its polls report.                                    *)
RouteRestored ==
    \A d \in Devices :
        <>[](link[d] # NoSession /\ sess[link[d]] = "connected") => []<>mqtt_connected[d]

(* A stale flag swallows commands: a device that has lost its session      *)
(* and goes back to polling over HTTP must get its commands there.         *)
PollingDeviceOffRoute ==
    \A d \in Devices :
        <>[](link[d] = NoSession) /\ []<>(poll[d] # "none") => <>[](~mqtt_connected[d])

=============================================================================
