----------------------------- MODULE Publisher -----------------------------
(***************************************************************************)
(* What Home Assistant is told: ha/publisher.py on its one connection to   *)
(* Home Assistant's broker, the hooks of main/wiring.py that call it, and  *)
(* the index by which commands that come back are routed.                  *)
(*                                                                         *)
(* Everything published here is retained, so Home Assistant shows a thing  *)
(* until it is told another.  A publish leaves at the moment of the call,  *)
(* in order; whether it failed is known only later.                        *)
(***************************************************************************)
EXTENDS Naturals, Sequences, FiniteSets

CONSTANTS
    Appliances,
    MaxTroubles      \* broken links, slow publishes, restarts and deletions

ASSUME PublisherAssumption == IsFiniteSet(Appliances)

VARIABLES
    enrolled, alive,     \* the registry; device.online
    quiet,               \* not heard from within the offline timeout
    told,                \* per device, what a hook has left to publish
    pubPhase,            \* start(): "dialling", "passing", "serving"
    passLeft,            \* what the pass after a connect has left to publish
    connected,           \* _connected
    linkUp,              \* the link is not broken, noticed or not
    overdue,             \* a publish fails and has not raised yet
    index,               \* devices the command router knows
    skipped,             \* history: devices whose announcing found the flag down
    announced, shown,    \* what Home Assistant has: entities, availability
    troubles

publisherVars == <<enrolled, alive, quiet, told, pubPhase, passLeft, connected, linkUp, overdue,
                   index, skipped, announced, shown, troubles>>
devices == <<enrolled, alive, quiet>>
connection == <<pubPhase, connected, linkUp>>
entities == <<index, skipped, announced, shown>>

Trouble == troubles < MaxTroubles /\ troubles' = troubles + 1

PublisherInit ==
    /\ enrolled = Appliances /\ alive = [d \in Appliances |-> FALSE] /\ quiet = [d \in Appliances |-> TRUE]
    /\ told = [d \in Appliances |-> <<>>]
    /\ pubPhase = "dialling" /\ passLeft = <<>> /\ connected = FALSE /\ linkUp = FALSE /\ overdue = FALSE
    /\ index = {} /\ skipped = {} /\ announced = {} /\ shown = [d \in Appliances |-> "unknown"]
    /\ troubles = 0
-----------------------------------------------------------------------------
(* _emit: without a client that is thought to be connected nothing is      *)
(* sent; on a broken link the message is gone, and the call raises later.*)
Sends == connected /\ linkUp
Emitted == overdue' = (overdue \/ (connected /\ ~linkUp))

Availability(d) == IF alive[d] THEN "online" ELSE "offline"

PublishAvailability(d) ==
    /\ Emitted
    /\ shown' = IF Sends THEN [shown EXCEPT ![d] = Availability(d)] ELSE shown
    /\ UNCHANGED <<index, skipped, announced>>

(* publish_discovery: the index first, then every entity; with the flag    *)
(* down neither, so that a publish which timed out, or failed late, during *)
(* the pass leaves the devices still to come out of the index.             *)
PublishDiscovery(d) ==
    /\ Emitted
    /\ index' = IF connected THEN index \cup {d} ELSE index
    /\ skipped' = IF connected THEN skipped \ {d} ELSE skipped \cup {d}
    /\ announced' = IF Sends THEN announced \cup {d} ELSE announced
    /\ UNCHANGED shown

PublishState(d) == Emitted /\ UNCHANGED entities

Published(what, d) ==
    CASE what = "discovery" -> PublishDiscovery(d)
      [] what = "availability" -> PublishAvailability(d)
      [] what = "state" -> PublishState(d)

(* A hook goes on with its next publish.                                   *)
HookPublishes(d) ==
    /\ told[d] # <<>>
    /\ Published(Head(told[d]), d)
    /\ told' = [told EXCEPT ![d] = Tail(@)]
    /\ UNCHANGED <<devices, connection, passLeft, troubles>>

(* What the call on the broken link ends with, whichever connection is     *)
(* there by then.                                                          *)
PublishRaises ==
    /\ overdue /\ overdue' = FALSE /\ connected' = FALSE
    /\ UNCHANGED <<devices, told, pubPhase, passLeft, linkUp, entities, troubles>>

(* aiomqtt gives up on a slow broker; the link stays.                      *)
PublishTimesOut ==
    /\ Sends /\ Trouble /\ connected' = FALSE
    /\ UNCHANGED <<devices, told, pubPhase, passLeft, linkUp, overdue, entities>>
-----------------------------------------------------------------------------
Heard(d) ==
    /\ d \in enrolled /\ told[d] = <<>>
    /\ alive' = [alive EXCEPT ![d] = TRUE] /\ quiet' = [quiet EXCEPT ![d] = FALSE]
    /\ UNCHANGED <<enrolled, connection, passLeft, overdue, entities, troubles>>

(* A state report, or an event over MQTT, is published as a whole.         *)
Reports(d) == Heard(d) /\ told' = [told EXCEPT ![d] = <<"state", "availability">>]

(* Any other HTTP request: the middleware publishes availability if the    *)
(* device was not online when its handler was done.                        *)
Requests(d) == Heard(d) /\ told' = IF alive[d] THEN told ELSE [told EXCEPT ![d] = <<"availability">>]

(* handle_heartbeat marks the device online itself, so that the middleware *)
(* finds it online; so do a CONNECT and every frame over MQTT.             *)
Polls(d) == Heard(d) /\ UNCHANGED told

SignsUpAgain(d) ==
    /\ d \notin enrolled /\ told[d] = <<>>
    /\ enrolled' = enrolled \cup {d}
    /\ alive' = [alive EXCEPT ![d] = FALSE] /\ quiet' = [quiet EXCEPT ![d] = FALSE]
    /\ told' = [told EXCEPT ![d] = <<"discovery", "availability">>]
    /\ UNCHANGED <<connection, passLeft, overdue, entities, troubles>>

(* api_device_delete looks for the publisher under a key that nobody sets. *)
Deleted(d) ==
    /\ d \in enrolled /\ Trouble
    /\ enrolled' = enrolled \ {d}
    /\ UNCHANGED <<alive, quiet, told, connection, passLeft, overdue, entities>>

FallsSilent(d) ==
    /\ ~quiet[d] /\ told[d] = <<>>
    /\ quiet' = [quiet EXCEPT ![d] = TRUE]
    /\ UNCHANGED <<enrolled, alive, told, connection, passLeft, overdue, entities, troubles>>

MarksOffline(d) ==
    /\ d \in enrolled /\ alive[d] /\ quiet[d]
    /\ alive' = [alive EXCEPT ![d] = FALSE]
    /\ Emitted
    /\ shown' = IF Sends THEN [shown EXCEPT ![d] = "offline"] ELSE shown
    /\ UNCHANGED <<enrolled, quiet, told, connection, passLeft, index, skipped, announced, troubles>>
-----------------------------------------------------------------------------
(* _publish_all_discovery, over the devices registered when it begins.     *)
PassOver(S) == {s \in [1 .. 2 * Cardinality(S) -> S \X {"discovery", "availability"}] :
                  \A d \in S : \E i \in 1 .. Cardinality(S) :
                      s[2 * i - 1] = <<d, "discovery">> /\ s[2 * i] = <<d, "availability">>}

Connects ==
    /\ pubPhase = "dialling"
    /\ pubPhase' = "passing" /\ connected' = TRUE /\ linkUp' = TRUE
    /\ passLeft' \in PassOver(enrolled) /\ skipped' = {}
    /\ UNCHANGED <<devices, told, overdue, index, announced, shown, troubles>>

(* Faulty variant: what Home Assistant has retained is not said again.     *)
PassSkipsAnnounced ==
    /\ pubPhase = "passing" /\ passLeft # <<>>
    /\ IF Head(passLeft)[1] \in announced
       THEN UNCHANGED <<overdue, entities>>
       ELSE Published(Head(passLeft)[2], Head(passLeft)[1])
    /\ passLeft' = Tail(passLeft)
    /\ UNCHANGED <<devices, told, connection, troubles>>

PassSkipsAvailability ==
    /\ pubPhase = "passing" /\ passLeft # <<>>
    /\ IF Head(passLeft)[2] = "availability"
       THEN UNCHANGED <<overdue, entities>>
       ELSE Published(Head(passLeft)[2], Head(passLeft)[1])
    /\ passLeft' = Tail(passLeft)
    /\ UNCHANGED <<devices, told, connection, troubles>>

PassPublishes ==
    /\ pubPhase = "passing" /\ passLeft # <<>>
    /\ Published(Head(passLeft)[2], Head(passLeft)[1])
    /\ passLeft' = Tail(passLeft)
    /\ UNCHANGED <<devices, told, connection, troubles>>

Subscribes ==
    /\ pubPhase = "passing" /\ passLeft = <<>> /\ linkUp
    /\ pubPhase' = "serving"
    /\ UNCHANGED <<devices, told, passLeft, connected, linkUp, overdue, entities, troubles>>

LinkBreaks ==
    /\ linkUp /\ Trouble /\ linkUp' = FALSE
    /\ UNCHANGED <<devices, told, pubPhase, passLeft, connected, overdue, entities>>

(* The subscription, or the iterator over the messages, raises.            *)
LossNoticed ==
    /\ ~linkUp /\ (pubPhase = "serving" \/ (pubPhase = "passing" /\ passLeft = <<>>))
    /\ pubPhase' = "dialling" /\ connected' = FALSE
    /\ UNCHANGED <<devices, told, passLeft, linkUp, overdue, entities, troubles>>

(* handle_command: what the index does not know is dropped; what it does   *)
(* is applied, and the state published at once.                            *)
CommandArrives(d) ==
    /\ pubPhase = "serving" /\ linkUp /\ d \in announced \cap index \cap enrolled /\ told[d] = <<>>
    /\ told' = [told EXCEPT ![d] = <<"state">>]
    /\ UNCHANGED <<devices, connection, passLeft, overdue, entities, troubles>>

(* What Home Assistant has is retained at its broker; the rest is gone.    *)
Restarts ==
    /\ Trouble
    /\ alive' = [d \in Appliances |-> FALSE] /\ quiet' = [d \in Appliances |-> TRUE]
    /\ told' = [d \in Appliances |-> <<>>]
    /\ pubPhase' = "dialling" /\ passLeft' = <<>> /\ connected' = FALSE /\ linkUp' = FALSE
    /\ overdue' = FALSE /\ index' = {} /\ skipped' = {}
    /\ UNCHANGED <<enrolled, announced, shown>>

PublisherNext ==
    \/ PublishRaises \/ PublishTimesOut
    \/ Connects \/ PassPublishes \/ Subscribes \/ LinkBreaks \/ LossNoticed \/ Restarts
    \/ \E d \in Appliances :
         \/ HookPublishes(d) \/ Reports(d) \/ Requests(d) \/ Polls(d) \/ SignsUpAgain(d)
         \/ Deleted(d) \/ FallsSilent(d) \/ MarksOffline(d) \/ CommandArrives(d)

(* The reconnecting loop, the hooks and the watchdog go on; a broken link  *)
(* is noticed, and a failed publish raises.                                *)
PublisherFairness ==
    /\ WF_publisherVars(PublishRaises) /\ WF_publisherVars(Connects) /\ WF_publisherVars(PassPublishes)
    /\ WF_publisherVars(Subscribes) /\ WF_publisherVars(LossNoticed)
    /\ \A d \in Appliances : WF_publisherVars(HookPublishes(d)) /\ WF_publisherVars(MarksOffline(d))

PublisherSpec == PublisherInit /\ [][PublisherNext]_publisherVars /\ PublisherFairness
-----------------------------------------------------------------------------
PublisherTypeOK ==
    /\ enrolled \subseteq Appliances /\ index \subseteq Appliances /\ announced \subseteq Appliances
    /\ pubPhase \in {"dialling", "passing", "serving"}
    /\ shown \in [Appliances -> {"unknown", "online", "offline"}]

(* While commands are served, every control Home Assistant shows can be    *)
(* used: the router, whose index is lost with the process and rebuilt by   *)
(* the pass, knows each of them before the first command is taken.  The    *)
(* one exception is `skipped`: a publish of this connection has timed out  *)
(* or failed late, the flag is down (_emit), and the device was to be      *)
(* announced after that; what is retained of it reaches nobody, until the  *)
(* next connection.                                                        *)
ControlsUnderstood ==
    pubPhase = "serving" =>
        \A d \in (enrolled \cap announced) \ skipped : told[d] = <<>> => d \in index

(* A device that stays silent is shown offline in the end, whether the     *)
(* connection was up when the watchdog looked or not                       *)
(* (availability_watchdog, _publish_all_discovery).                        *)
SilentShownOffline ==
    \A d \in Appliances :
        <>[](d \in enrolled /\ quiet[d]) /\ []<>connected => <>[](shown[d] = "offline")

=============================================================================
