------------------------------ MODULE Upstream ------------------------------
(***************************************************************************)
(* Proxy mode's MQTT half (mqtt/upstream.py): one connection per device to *)
(* the real cloud, supervised against a live setting, and the relaying of  *)
(* frames between the local broker and that connection.                    *)
(*                                                                         *)
(* The supervisor is one task, each connection another.  What runs between *)
(* two awaits is one action; a task waits in `dialling' (the CONNECT),     *)
(* `up' (the next message), `closing' (leaving the client's context) and   *)
(* `backoff' (the sleep before it dials again).  A relayed frame is        *)
(* handled in one action: its awaits store a record and publish, and       *)
(* nothing the relay reads changes its answer in between.                  *)
(*                                                                         *)
(* Outside the repository: the cloud, which sends what it likes on any     *)
(* topic and was seen to hand back what it was sent (issue 20), the local  *)
(* broker, which gives the bridge's `#' subscription every frame including *)
(* its own, and aiomqtt.                                                   *)
(*                                                                         *)
(* A frame is an identifier with the topic it travels on.  Payloads and    *)
(* the contents redaction takes out of them are the subject of Redact.     *)
(***************************************************************************)
EXTENDS Integers, FiniteSets

CONSTANTS
    Devices,        \* the device ids the registry may hold
    Creds,          \* cloud identities a proxied reply may reveal
    NoCreds,        \* "never seen"
    Frames,         \* frames, each published for the first time once
    MaxToggles,     \* panel writes of the live setting
    MaxTrouble      \* lost or refused connections, devices removed, credentials replaced

ASSUME UpstreamAssumption ==
    /\ NoCreds \notin Creds
    /\ MaxToggles \in Nat /\ MaxTrouble \in Nat

(* The topics of mqtt/topics.py, and the two shapes its parser refuses.    *)
Topics == {"event", "ota_inform", "service", "service_reply", "user_get",
           "ota_upgrade", "post_reply", "rrpc"}

VARIABLES
    wanted,         \* proxy_mode and proxy_mqtt_bridge of the live config
    registered,     \* devices in the registry
    creds,          \* UpstreamCredentials._data
    task,           \* where each device's _run task stands
    inDict,         \* whether UpstreamMQTT._tasks holds it
    cancelled,      \* a cancellation the task has not acted on yet
    conn,           \* the credentials its connection was opened with
    client,         \* whether UpstreamMQTT._clients holds it
    super,          \* where supervise() waits: in its sleep, in stop(), or nowhere any more
    toggles, trouble,
    bridgeUp,       \* the local bridge has a broker session
    topic,          \* the topic of each frame
    sender,         \* who published it first: "device", "server", "cloud", or nobody yet
    dev,            \* the device it is about
    at,             \* where copies of it are: at the local broker, the cloud, a connection
    ups, downs,     \* how often it was relayed up, and down
    heard,          \* frames the bridge took for device traffic
    blocked         \* frames recorded as blocked attempts

taskVars  == <<task, inDict, cancelled, conn, client, super>>
worldVars == <<wanted, registered, creds, toggles, trouble, bridgeUp>>
frameVars == <<topic, sender, dev, at, ups, downs, heard, blocked>>
upVars    == <<taskVars, worldVars, frameVars>>

Places == {"broker", "cloud", "inbound"}

TasksTypeOK ==
    /\ task \in [Devices -> {"none", "new", "dialling", "up", "closing", "backoff", "done"}]
    /\ inDict \in [Devices -> BOOLEAN]
    /\ cancelled \in [Devices -> BOOLEAN]
    /\ conn \in [Devices -> Creds \cup {NoCreds}]
    /\ client \in [Devices -> BOOLEAN]
    /\ super \in {"sleep", "stopping", "ended"}

WorldTypeOK ==
    /\ wanted \in BOOLEAN
    /\ registered \in SUBSET Devices
    /\ creds \in [Devices -> Creds \cup {NoCreds}]
    /\ toggles \in 0 .. MaxToggles
    /\ trouble \in 0 .. MaxTrouble
    /\ bridgeUp \in BOOLEAN

FramesTypeOK ==
    /\ topic \in [Frames -> Topics]
    /\ sender \in [Frames -> {"nobody", "device", "server", "cloud"}]
    /\ dev \in [Frames -> Devices]
    /\ at \in [Frames -> SUBSET Places]
    /\ ups \in [Frames -> Nat]
    /\ downs \in [Frames -> Nat]
    /\ heard \in SUBSET Frames
    /\ blocked \in SUBSET Frames

UpTypeOK == TasksTypeOK /\ WorldTypeOK /\ FramesTypeOK

(* A process that has just started: the credentials file was read, nothing *)
(* is connected, and the supervisor is about to make its first pass.       *)
UpInit ==
    /\ wanted \in BOOLEAN
    /\ registered = Devices
    /\ creds \in [Devices -> Creds \cup {NoCreds}]
    /\ task = [d \in Devices |-> "none"]
    /\ inDict = [d \in Devices |-> FALSE]
    /\ cancelled = [d \in Devices |-> FALSE]
    /\ conn = [d \in Devices |-> NoCreds]
    /\ client = [d \in Devices |-> FALSE]
    /\ super = "sleep"
    /\ toggles = 0 /\ trouble = 0
    /\ bridgeUp = TRUE
    /\ topic \in [Frames -> Topics]
    /\ sender = [n \in Frames |-> "nobody"]
    /\ dev \in [Frames -> Devices]
    /\ at = [n \in Frames |-> {}]
    /\ ups = [n \in Frames |-> 0] /\ downs = [n \in Frames |-> 0]
    /\ heard = {} /\ blocked = {}
-----------------------------------------------------------------------------
(* Topics, mqtt/topics.py.                                                 *)

(* parse_topic answers None for an acknowledgement and for RRPC.           *)
Parsed(n) == topic[n] \notin {"post_reply", "rrpc"}

(* Faulty variant: what the device is told to do is not ours.              *)
ServerPublishedWithoutCommands(n) == topic[n] \in {"user_get", "ota_upgrade"}

(* is_server_published, of a parsed topic.                                 *)
ServerPublished(n) == topic[n] \in {"service", "user_get", "ota_upgrade"}

(* _is_from_device, the allow-list of the way up.                          *)
FromDevice(n) == topic[n] \in {"event", "ota_inform"}
-----------------------------------------------------------------------------
(* The supervisor.                                                         *)

Alive(d) == task[d] \notin {"none", "done"}

(* Faulty variant: a finished task stays in the dict.                      *)
StartMissingUnreaped ==
    LET start == {d \in registered : creds[d] # NoCreds /\ ~inDict[d]}
    IN /\ task' = [d \in Devices |-> IF d \in start THEN "new" ELSE task[d]]
       /\ inDict' = [d \in Devices |-> inDict[d] \/ d \in start]
       /\ UNCHANGED <<cancelled, conn, client, super>>

(* reconcile() when the bridge is wanted: finished tasks are dropped from  *)
(* the dict, and each registered device with credentials gets a task.      *)
StartMissing ==
    LET kept  == {d \in Devices : inDict[d] /\ task[d] # "done"}
        start == {d \in registered : creds[d] # NoCreds /\ d \notin kept}
    IN /\ task' = [d \in Devices |-> IF d \in start THEN "new"
                                     ELSE IF task[d] = "done" THEN "none" ELSE task[d]]
       /\ inDict' = [d \in Devices |-> d \in kept \cup start]
       /\ UNCHANGED <<cancelled, conn, client, super>>

(* Faulty variant: the tasks are forgotten, not cancelled.                 *)
ForgetAll(next) ==
    /\ inDict' = [d \in Devices |-> FALSE]
    /\ super' = next
    /\ UNCHANGED <<task, cancelled, conn, client>>

(* stop() up to its first await: the dict is emptied and every task in it  *)
(* cancelled.                                                              *)
CancelAll(next) ==
    /\ inDict' = [d \in Devices |-> FALSE]
    /\ cancelled' = [d \in Devices |-> cancelled[d] \/ (inDict[d] /\ Alive(d))]
    /\ super' = next
    /\ UNCHANGED <<task, conn, client>>

(* One pass of supervise(), up to its next await.  With nothing to cancel  *)
(* stop() does not wait.                                                   *)
SupervisorPass ==
    /\ super = "sleep"
    /\ \/ wanted /\ StartMissing
       \/ ~wanted /\ CancelAll(IF \E d \in Devices : inDict[d] THEN "stopping" ELSE "sleep")
    /\ UNCHANGED <<worldVars, frameVars>>

(* supervise() is cancelled.  In its sleep it ends.  In stop() the         *)
(* cancellation comes out of the `await task' of a connection, is taken    *)
(* for that connection's own, and swallowed: the loop goes on.             *)
SupervisorCancelled ==
    /\ super # "ended"
    /\ super' = IF super = "sleep" THEN "ended" ELSE super
    /\ UNCHANGED <<task, inDict, cancelled, conn, client>>

(* stop() has awaited every task it cancelled.                             *)
SupervisorStopped ==
    /\ super = "stopping"
    /\ \A d \in Devices : ~Alive(d)
    /\ super' = "sleep"
    /\ UNCHANGED <<task, inDict, cancelled, conn, client, worldVars, frameVars>>
-----------------------------------------------------------------------------
(* One device's connection, _run.                                          *)

(* The top of the loop: credentials and device are looked up afresh, and   *)
(* the task returns when either is missing.                                *)
RunLoop(d) ==
    /\ task[d] \in {"new", "backoff"} /\ ~cancelled[d]
    /\ conn' = [conn EXCEPT ![d] = creds[d]]
    /\ task' = [task EXCEPT ![d] = IF creds[d] = NoCreds \/ d \notin registered
                                   THEN "done" ELSE "dialling"]
    /\ UNCHANGED <<inDict, cancelled, client, super, worldVars, frameVars>>

(* The CONNECT was accepted: the client is published to forward_up.        *)
Connected(d) ==
    /\ task[d] = "dialling" /\ ~cancelled[d]
    /\ task' = [task EXCEPT ![d] = "up"]
    /\ client' = [client EXCEPT ![d] = TRUE]
    /\ UNCHANGED <<inDict, cancelled, conn, super, worldVars, frameVars>>

(* It was refused or timed out.                                            *)
Refused(d) ==
    /\ task[d] = "dialling" /\ ~cancelled[d] /\ trouble < MaxTrouble
    /\ task' = [task EXCEPT ![d] = "backoff"]
    /\ trouble' = trouble + 1
    /\ UNCHANGED <<inDict, cancelled, conn, client, super,
                   wanted, registered, creds, toggles, bridgeUp, frameVars>>

Unread(n, d) == dev[n] = d /\ "inbound" \in at[n]

(* The frames a connection had received and not handled go with it.        *)
DropInbound(d) ==
    at' = [n \in Frames |-> IF Unread(n, d) THEN at[n] \ {"inbound"} ELSE at[n]]

(* The session is lost: the message iterator raises, and the context is    *)
(* left with the client still in _clients.                                 *)
Lost(d) ==
    /\ task[d] = "up" /\ ~cancelled[d] /\ trouble < MaxTrouble
    /\ task' = [task EXCEPT ![d] = "closing"]
    /\ trouble' = trouble + 1
    /\ DropInbound(d)
    /\ UNCHANGED <<inDict, cancelled, conn, client, super, wanted, registered, creds,
                   toggles, bridgeUp, topic, sender, dev, ups, downs, heard, blocked>>

(* The cancellation reaches the task at the await it stands in.            *)
ActOnCancel(d) ==
    /\ cancelled[d]
    /\ \/ /\ task[d] = "up"
          /\ task' = [task EXCEPT ![d] = "closing"]
          /\ DropInbound(d)
          /\ UNCHANGED <<topic, sender, dev, ups, downs, heard, blocked, cancelled>>
       \/ /\ task[d] \in {"new", "dialling", "backoff"}
          /\ task' = [task EXCEPT ![d] = "done"]
          /\ cancelled' = [cancelled EXCEPT ![d] = FALSE]
          /\ UNCHANGED frameVars
    /\ UNCHANGED <<inDict, conn, client, super, worldVars>>

(* Faulty variant: the finally does not withdraw the client.               *)
CloseKeepsClient(d) ==
    /\ task[d] = "closing"
    /\ task' = [task EXCEPT ![d] = IF cancelled[d] THEN "done" ELSE "backoff"]
    /\ cancelled' = [cancelled EXCEPT ![d] = FALSE]
    /\ UNCHANGED <<inDict, conn, client, super, worldVars, frameVars>>

(* The context is left and the finally runs: the client is withdrawn, and  *)
(* the task ends or sleeps before it dials again.                          *)
Closed(d) ==
    /\ task[d] = "closing"
    /\ client' = [client EXCEPT ![d] = FALSE]
    /\ task' = [task EXCEPT ![d] = IF cancelled[d] THEN "done" ELSE "backoff"]
    /\ cancelled' = [cancelled EXCEPT ![d] = FALSE]
    /\ UNCHANGED <<inDict, conn, super, worldVars, frameVars>>
-----------------------------------------------------------------------------
(* Frames.                                                                 *)

(* A device publishes on one of its own topics, or we publish to it.       *)
PublishLocal(n) ==
    /\ sender[n] = "nobody"
    /\ \/ /\ topic[n] \in {"event", "ota_inform", "service_reply"}
          /\ dev[n] \in registered
          /\ sender' = [sender EXCEPT ![n] = "device"]
       \/ /\ topic[n] \in {"service", "user_get", "post_reply"}
          /\ sender' = [sender EXCEPT ![n] = "server"]
    /\ bridgeUp
    /\ at' = [at EXCEPT ![n] = @ \cup {"broker"}]
    /\ UNCHANGED <<topic, dev, ups, downs, heard, blocked, taskVars, worldVars>>

(* The cloud publishes on any topic the connection may carry.              *)
CloudPublish(n) ==
    /\ sender[n] = "nobody"
    /\ task[dev[n]] = "up"
    /\ sender' = [sender EXCEPT ![n] = "cloud"]
    /\ at' = [at EXCEPT ![n] = @ \cup {"inbound"}]
    /\ UNCHANGED <<topic, dev, ups, downs, heard, blocked, taskVars, worldVars>>

(* The cloud hands back a frame it was sent.                               *)
CloudEcho(n) ==
    /\ "cloud" \in at[n]
    /\ task[dev[n]] = "up"
    /\ at' = [at EXCEPT ![n] = (@ \ {"cloud"}) \cup {"inbound"}]
    /\ UNCHANGED <<topic, sender, dev, ups, downs, heard, blocked, taskVars, worldVars>>

(* forward_up: through the live client, re-addressed, and only what a      *)
(* device originates.  A client that is closing raises and is swallowed.   *)
RelaysUp(n) ==
    /\ client[dev[n]] /\ creds[dev[n]] # NoCreds
    /\ FromDevice(n)
    /\ task[dev[n]] = "up"

(* MQTTBridge._handle_message on a frame of the `#' subscription: what the *)
(* server publishes is our own echo; the rest counts as the device         *)
(* talking, and is then offered to the cloud.                              *)
BridgeHandles(n) ==
    /\ "broker" \in at[n] /\ bridgeUp
    /\ IF ~Parsed(n) \/ ServerPublished(n) \/ dev[n] \notin registered
       THEN /\ at' = [at EXCEPT ![n] = @ \ {"broker"}]
            /\ UNCHANGED <<heard, ups>>
       ELSE /\ heard' = heard \cup {n}
            /\ IF RelaysUp(n)
               THEN /\ at' = [at EXCEPT ![n] = (@ \ {"broker"}) \cup {"cloud"}]
                    /\ ups' = [ups EXCEPT ![n] = @ + 1]
               ELSE /\ at' = [at EXCEPT ![n] = @ \ {"broker"}]
                    /\ UNCHANGED ups
    /\ UNCHANGED <<topic, sender, dev, downs, blocked, taskVars, worldVars>>

(* Faulty variant: a firmware push is relayed like any command.            *)
RelayDownWithFirmware(n) ==
    /\ Unread(n, dev[n]) /\ task[dev[n]] = "up" /\ ~cancelled[dev[n]]
    /\ IF Parsed(n) /\ ServerPublished(n) /\ bridgeUp
       THEN /\ at' = [at EXCEPT ![n] = (@ \ {"inbound"}) \cup {"broker"}]
            /\ downs' = [downs EXCEPT ![n] = @ + 1]
       ELSE at' = [at EXCEPT ![n] = @ \ {"inbound"}] /\ UNCHANGED downs
    /\ UNCHANGED <<topic, sender, dev, ups, heard, blocked, taskVars, worldVars>>

(* _on_upstream: a firmware push is recorded and goes no further; a topic  *)
(* the server does not publish on is refused; what cannot be re-addressed  *)
(* is dropped; the rest is republished locally when the bridge has a       *)
(* session to publish on.                                                  *)
RelayDown(n) ==
    /\ Unread(n, dev[n]) /\ task[dev[n]] = "up" /\ ~cancelled[dev[n]]
    /\ IF topic[n] = "ota_upgrade"
       THEN /\ blocked' = blocked \cup {n}
            /\ at' = [at EXCEPT ![n] = @ \ {"inbound"}]
            /\ UNCHANGED downs
       ELSE IF Parsed(n) /\ ServerPublished(n) /\ bridgeUp
       THEN /\ at' = [at EXCEPT ![n] = (@ \ {"inbound"}) \cup {"broker"}]
            /\ downs' = [downs EXCEPT ![n] = @ + 1]
            /\ UNCHANGED blocked
       ELSE at' = [at EXCEPT ![n] = @ \ {"inbound"}] /\ UNCHANGED <<downs, blocked>>
    /\ UNCHANGED <<topic, sender, dev, ups, heard, taskVars, worldVars>>
-----------------------------------------------------------------------------
(* What the rest of the add-on does to this part.                          *)

(* The panel writes the live config.                                       *)
Toggle ==
    /\ toggles < MaxToggles
    /\ wanted' = ~wanted /\ toggles' = toggles + 1
    /\ UNCHANGED <<registered, creds, trouble, bridgeUp, taskVars, frameVars>>

(* A proxied reply revealed a device's cloud identity.                     *)
Learn(d, c) ==
    /\ creds[d] # c /\ trouble < MaxTrouble
    /\ creds' = [creds EXCEPT ![d] = c] /\ trouble' = trouble + 1
    /\ UNCHANGED <<wanted, registered, toggles, bridgeUp, taskVars, frameVars>>

(* A device is deleted in the panel, or signs up again.                    *)
Unregister(d) ==
    /\ d \in registered /\ trouble < MaxTrouble
    /\ registered' = registered \ {d} /\ trouble' = trouble + 1
    /\ UNCHANGED <<wanted, creds, toggles, bridgeUp, taskVars, frameVars>>

Register(d) ==
    /\ d \notin registered
    /\ registered' = registered \cup {d}
    /\ UNCHANGED <<wanted, creds, toggles, trouble, bridgeUp, taskVars, frameVars>>

(* The local bridge loses its broker session, or gets one; what its        *)
(* subscription held is gone.                                              *)
BridgeDown ==
    /\ bridgeUp /\ trouble < MaxTrouble
    /\ bridgeUp' = FALSE /\ trouble' = trouble + 1
    /\ at' = [n \in Frames |-> at[n] \ {"broker"}]
    /\ UNCHANGED <<wanted, registered, creds, toggles, taskVars,
                   topic, sender, dev, ups, downs, heard, blocked>>

BridgeBack ==
    /\ ~bridgeUp /\ bridgeUp' = TRUE
    /\ UNCHANGED <<wanted, registered, creds, toggles, trouble, taskVars, frameVars>>
-----------------------------------------------------------------------------
ConnectionStep(d) == RunLoop(d) \/ Connected(d) \/ Refused(d) \/ Lost(d) \/ ActOnCancel(d) \/ Closed(d)
FrameStep(n) == PublishLocal(n) \/ CloudPublish(n) \/ CloudEcho(n) \/ BridgeHandles(n) \/ RelayDown(n)
WorldStep ==
    \/ Toggle \/ BridgeDown \/ BridgeBack
    \/ \E d \in Devices : Unregister(d) \/ Register(d) \/ \E c \in Creds : Learn(d, c)

(* What shutdown does to this part: its tasks are cancelled, the bridge's  *)
(* with the session it held, and later the connections (Lifecycle).        *)
TasksCancelled ==
    /\ SupervisorCancelled
    /\ bridgeUp' = FALSE
    /\ at' = [n \in Frames |-> at[n] \ {"broker"}]
    /\ UNCHANGED <<wanted, registered, creds, toggles, trouble,
                   topic, sender, dev, ups, downs, heard, blocked>>

ConnectionsStopped ==
    /\ super = "ended" /\ CancelAll("ended")
    /\ UNCHANGED <<worldVars, frameVars>>

UpNext ==
    \/ SupervisorPass \/ SupervisorStopped \/ WorldStep \/ TasksCancelled \/ ConnectionsStopped
    \/ \E d \in Devices : ConnectionStep(d)
    \/ \E n \in Frames : FrameStep(n)

UpSpec == UpInit /\ [][UpNext]_upVars
-----------------------------------------------------------------------------
(* Properties.                                                             *)

(* No frame goes round: it is relayed at most once, in one direction, away *)
(* from whoever sent it, whatever the cloud hands back and although the    *)
(* bridge hears its own publishes (_on_upstream, issue 20).                *)
NoEcho ==
    \A n \in Frames :
        /\ ups[n] + downs[n] <= 1
        /\ ups[n] > 0 => sender[n] = "device"
        /\ downs[n] > 0 => sender[n] = "cloud"

(* Only the device is taken for the device: a frame the add-on or the      *)
(* cloud sent never stamps its liveness (_handle_message, issue 20), and   *)
(* no firmware push reaches the local broker (_block_ota).                 *)
FramesKnowTheirPlace ==
    /\ \A n \in heard : sender[n] = "device"
    /\ \A n \in Frames : topic[n] = "ota_upgrade" => "broker" \notin at[n]

(* Both of these: a frame goes where it belongs, once.                     *)
RelayedOnce == NoEcho /\ FramesKnowTheirPlace

(* A connection belongs to somebody who will end it: the dict that         *)
(* reconcile() and stop() work from, or a stop() that is awaiting it; and  *)
(* the client forward_up finds is never one whose task is gone (_run's     *)
(* finally).                                                               *)
NoStrayConnection ==
    \A d \in Devices :
        /\ Alive(d) => inDict[d] \/ cancelled[d]
        /\ client[d] => task[d] \in {"up", "closing"}
        /\ task[d] = "up" => client[d]
=============================================================================
