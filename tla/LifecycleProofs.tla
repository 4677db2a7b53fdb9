-------------------------- MODULE LifecycleProofs --------------------------
(***************************************************************************)
(* For any devices, credentials, frames and any number of toggles and      *)
(* troubles: the supervisor, stop() and shutdown leave no connection       *)
(* without an owner; nothing is running when the store is closed; and no   *)
(* frame goes round between the local broker and the cloud.  For any       *)
(* cameras: the sidecar has one child, and knows what it offers.           *)
(***************************************************************************)
EXTENDS Lifecycle, Sidecar, TLAPS

(* Who ends a connection: while the supervisor sleeps, the dict; a task    *)
(* that was cancelled is in no dict any more.                              *)
Owned(d) ==
    /\ Alive(d) => inDict[d] \/ cancelled[d]
    /\ super = "sleep" /\ Alive(d) => inDict[d]
    /\ cancelled[d] => Alive(d) /\ ~inDict[d]
    /\ client[d] <=> task[d] \in {"up", "closing"}

TasksInv ==
    /\ task \in [Devices -> {"none", "new", "dialling", "up", "closing", "backoff", "done"}]
    /\ inDict \in [Devices -> BOOLEAN]
    /\ cancelled \in [Devices -> BOOLEAN]
    /\ client \in [Devices -> BOOLEAN]
    /\ \A d \in Devices : Owned(d)

LEMMA TasksInit == LifeInit => TasksInv
BY DEF LifeInit, UpInit, TasksInv, Owned, Alive

(* A step that touches the task of no device but one.                      *)
LEMMA OneConnection ==
    ASSUME TasksInv, NEW d \in Devices, ConnectionStep(d) PROVE TasksInv' /\ super' = super
<1>1. CASE RunLoop(d)
  BY <1>1 DEF TasksInv, Owned, Alive, RunLoop
<1>2. CASE Connected(d)
  BY <1>2 DEF TasksInv, Owned, Alive, Connected
<1>3. CASE Refused(d)
  BY <1>3 DEF TasksInv, Owned, Alive, Refused
<1>4. CASE Lost(d)
  BY <1>4 DEF TasksInv, Owned, Alive, Lost
<1>5. CASE ActOnCancel(d)
  BY <1>5 DEF TasksInv, Owned, Alive, ActOnCancel
<1>6. CASE Closed(d)
  BY <1>6 DEF TasksInv, Owned, Alive, Closed
<1>7. QED BY <1>1, <1>2, <1>3, <1>4, <1>5, <1>6 DEF ConnectionStep

LEMMA SupervisorTurn == ASSUME TasksInv, SupervisorPass PROVE TasksInv'
<1>1. CASE StartMissing
  <2>1. \A d \in Devices : ~cancelled[d] /\ (Alive(d) => inDict[d])
    BY DEF SupervisorPass, TasksInv, Owned
  <2> DEFINE kept  == {d \in Devices : inDict[d] /\ task[d] # "done"}
             start == {d \in registered : creds[d] # NoCreds /\ d \notin kept}
  <2>2. \A d \in Devices : Alive(d) => d \in kept /\ d \notin start
    BY <2>1 DEF Alive
  <2>3. /\ task' = [d \in Devices |-> IF d \in start THEN "new" ELSE IF task[d] = "done" THEN "none" ELSE task[d]]
        /\ inDict' = [d \in Devices |-> d \in kept \cup start]
        /\ UNCHANGED <<cancelled, client, super>>
    BY <1>1 DEF StartMissing
  <2> HIDE DEF kept, start
  <2>4. \A d \in Devices : Owned(d)'
    BY <2>1, <2>2, <2>3 DEF TasksInv, Owned, Alive
  <2>5. QED BY <2>3, <2>4 DEF TasksInv
<1>2. CASE CancelAll(IF \E d \in Devices : inDict[d] THEN "stopping" ELSE "sleep")
  BY <1>2 DEF SupervisorPass, CancelAll, TasksInv, Owned, Alive
<1>3. QED BY <1>1, <1>2 DEF SupervisorPass

LEMMA TasksStep == ASSUME TasksInv, [LifeNext]_lifeVars PROVE TasksInv'
<1>1. CASE UNCHANGED taskVars
  BY <1>1 DEF taskVars, TasksInv, Owned, Alive
<1>2. CASE MediaDrained
  BY <1>2 DEF MediaDrained, TasksCancelled, SupervisorCancelled, TasksInv, Owned, Alive
<1>3. CASE TasksStopped
  BY <1>3 DEF TasksStopped, ConnectionsStopped, CancelAll, TasksInv, Owned, Alive
<1>4. CASE SupervisorPass
  BY <1>4, SupervisorTurn
<1>5. CASE SupervisorStopped
  BY <1>5 DEF SupervisorStopped, TasksInv, Owned, Alive
<1>6. CASE \E d \in Devices : ConnectionStep(d)
  BY <1>6, OneConnection
<1>7. CASE \E n \in Frames : FrameStep(n)
  BY <1>7, <1>1 DEF FrameStep, PublishLocal, CloudPublish, CloudEcho, BridgeHandles, RelayDown
<1>8. CASE OutsideStep
  BY <1>8, <1>1 DEF OutsideStep, Toggle, Unregister, Register, Learn, BridgeDown, BridgeBack
<1>9. CASE StopRequested \/ UpstreamStopped \/ RunnersClosed \/ RegistriesStopped
           \/ UploadReported \/ MediaEnds \/ RegistryChanges \/ Flushed \/ UNCHANGED lifeVars
  BY <1>9, <1>1 DEF StopRequested, UpstreamStopped, RunnersClosed, RegistriesStopped,
                    UploadReported, MediaEnds, RegistryChanges, Flushed, lifeVars, upVars
<1>10. QED BY <1>2, <1>3, <1>4, <1>5, <1>6, <1>7, <1>8, <1>9 DEF LifeNext, ShutdownStep, UpstreamStep

(* Every connection has somebody who will end it, and the client that      *)
(* forward_up finds belongs to a task that stands in its context           *)
(* (reconcile, stop, _run's finally).                                      *)
THEOREM ConnectionsOwned == LifeSpec => []NoStrayConnection
<1>1. TasksInv => NoStrayConnection
  BY DEF TasksInv, Owned, NoStrayConnection
<1>2. QED BY <1>1, TasksInit, TasksStep, PTL DEF LifeSpec
-----------------------------------------------------------------------------
(* Shutdown: what each phase of cleanup_background has put an end to.      *)
Ended == {"runners", "registries", "closed"}

ShutdownInv ==
    /\ phase \in Phases
    /\ phase \in Ended \cup {"upstream"} => super = "ended" /\ \A d \in Devices : ~inDict[d]
    /\ phase \in Ended => \A d \in Devices : ~Alive(d)
    /\ phase \notin {"running", "media"} => ~media
    /\ phase = "closed" => ~unsaved

LEMMA ShutdownInit == LifeInit => ShutdownInv
BY DEF LifeInit, ShutdownInv, Ended, Phases

(* A step of one connection makes no connection alive that was not.        *)
LEMMA NoRevival ==
    ASSUME TasksInv, NEW d \in Devices, ConnectionStep(d)
    PROVE  UNCHANGED <<super, inDict>> /\ \A e \in Devices : ~Alive(e) => ~Alive(e)'
<1>1. CASE RunLoop(d)
  BY <1>1 DEF TasksInv, Alive, RunLoop
<1>2. CASE Connected(d)
  BY <1>2 DEF TasksInv, Alive, Connected
<1>3. CASE Refused(d)
  BY <1>3 DEF TasksInv, Alive, Refused
<1>4. CASE Lost(d)
  BY <1>4 DEF TasksInv, Alive, Lost
<1>5. CASE ActOnCancel(d)
  BY <1>5 DEF TasksInv, Owned, Alive, ActOnCancel
<1>6. CASE Closed(d)
  BY <1>6 DEF TasksInv, Alive, Closed
<1>7. QED BY <1>1, <1>2, <1>3, <1>4, <1>5, <1>6 DEF ConnectionStep

LEMMA ShutdownStepKeeps == ASSUME TasksInv, ShutdownInv, [LifeNext]_lifeVars PROVE ShutdownInv'
<1> USE DEF ShutdownInv, Ended, Phases
<1>1. CASE UNCHANGED <<taskVars, lifeOwn>>
  BY <1>1 DEF taskVars, lifeOwn, Alive
<1>2. CASE StopRequested
  BY <1>2 DEF StopRequested
<1>3. CASE MediaDrained
  BY <1>3 DEF MediaDrained
<1>4. CASE TasksStopped
  BY <1>4 DEF TasksStopped, ConnectionsStopped, CancelAll
<1>5. CASE UpstreamStopped
  BY <1>5 DEF UpstreamStopped, TasksInv, Owned, upVars, taskVars, Alive
<1>6. CASE RunnersClosed \/ RegistriesStopped
  BY <1>6 DEF RunnersClosed, RegistriesStopped, upVars, taskVars, Alive
<1>7. CASE UploadReported \/ MediaEnds \/ RegistryChanges \/ Flushed
  BY <1>7 DEF UploadReported, MediaEnds, RegistryChanges, Flushed, Serving, PanelOpen, upVars, taskVars, Alive
<1>8. CASE SupervisorPass /\ UNCHANGED lifeOwn
  BY <1>8 DEF SupervisorPass, lifeOwn
<1>9. CASE SupervisorStopped /\ UNCHANGED lifeOwn
  BY <1>9 DEF SupervisorStopped, lifeOwn
<1>10. CASE (\E d \in Devices : ConnectionStep(d)) /\ UNCHANGED lifeOwn
  BY <1>10, NoRevival DEF lifeOwn
<1>11. CASE (\E n \in Frames : FrameStep(n)) /\ UNCHANGED lifeOwn
  BY <1>11, <1>1 DEF FrameStep, PublishLocal, CloudPublish, CloudEcho, BridgeHandles, RelayDown
<1>12. CASE OutsideStep /\ UNCHANGED lifeOwn
  BY <1>12, <1>1 DEF OutsideStep, Toggle, Unregister, Register, Learn, BridgeDown, BridgeBack
<1>13. CASE UNCHANGED lifeVars
  BY <1>13, <1>1 DEF lifeVars, upVars
<1>14. QED BY <1>2, <1>3, <1>4, <1>5, <1>6, <1>7, <1>8, <1>9, <1>10, <1>11, <1>12, <1>13
          DEF LifeNext, ShutdownStep, UpstreamStep

(* When the store is closed no connection, media task or unsaved change is *)
(* left, at whatever moment the stop was asked for (cleanup_background).   *)
THEOREM ClosesLast == LifeSpec => []StorageLast
<1>1. TasksInv /\ ShutdownInv => StorageLast
  BY DEF TasksInv, Owned, Alive, ShutdownInv, Ended, StorageLast
<1>2. QED BY <1>1, TasksInit, TasksStep, ShutdownInit, ShutdownStepKeeps, PTL DEF LifeSpec
-----------------------------------------------------------------------------
(* Frames: where copies of a frame may be, by who sent it.  What a device  *)
(* sent is at the broker until it is relayed and never there again; what   *)
(* the cloud sent is never given back to the cloud.                        *)
FromADevice(n) ==
    /\ sender[n] = "device"
    /\ topic[n] \in {"event", "ota_inform", "service_reply"}
    /\ downs[n] = 0
    /\ \/ ups[n] = 0 /\ at[n] \subseteq {"broker"}
       \/ ups[n] = 1 /\ "broker" \notin at[n]

FromTheServer(n) ==
    /\ sender[n] = "server"
    /\ topic[n] \in {"service", "user_get", "post_reply"}
    /\ ups[n] = 0 /\ downs[n] = 0 /\ at[n] \subseteq {"broker"}

FromTheCloud(n) ==
    /\ sender[n] = "cloud"
    /\ ups[n] = 0
    /\ \/ downs[n] = 0 /\ at[n] \subseteq {"inbound"}
       \/ downs[n] = 1 /\ at[n] \subseteq {"broker"} /\ topic[n] \in {"service", "user_get"}

Unsent(n) == sender[n] = "nobody" /\ ups[n] = 0 /\ downs[n] = 0 /\ at[n] = {}

FramesInv ==
    /\ sender \in [Frames -> {"nobody", "device", "server", "cloud"}]
    /\ at \in [Frames -> SUBSET Places]
    /\ ups \in [Frames -> Nat] /\ downs \in [Frames -> Nat]
    /\ \A n \in Frames : Unsent(n) \/ FromADevice(n) \/ FromTheServer(n) \/ FromTheCloud(n)
    /\ heard \subseteq {n \in Frames : sender[n] = "device"}

LEMMA FramesInit == LifeInit => FramesInv
BY DEF LifeInit, UpInit, FramesInv, Unsent, Places

(* Frames that go with what held them.                                     *)
LEMMA FramesDropped ==
    ASSUME FramesInv, UNCHANGED <<topic, sender, dev, ups, downs, heard, blocked>>,
           at' \in [Frames -> SUBSET Places], \A n \in Frames : at'[n] \subseteq at[n]
    PROVE  FramesInv'
<1>1. \A n \in Frames : (Unsent(n) => Unsent(n)') /\ (FromADevice(n) => FromADevice(n)')
                        /\ (FromTheServer(n) => FromTheServer(n)') /\ (FromTheCloud(n) => FromTheCloud(n)')
  BY DEF Unsent, FromADevice, FromTheServer, FromTheCloud
<1>2. QED BY <1>1 DEF FramesInv

(* One frame moves; every other stays.                                     *)
LEMMA OneFrame ==
    ASSUME FramesInv, NEW n \in Frames, UNCHANGED topic,
           sender' \in [Frames -> {"nobody", "device", "server", "cloud"}],
           at' \in [Frames -> SUBSET Places],
           ups' \in [Frames -> Nat], downs' \in [Frames -> Nat],
           \A m \in Frames \ {n} : sender'[m] = sender[m] /\ at'[m] = at[m] /\ ups'[m] = ups[m] /\ downs'[m] = downs[m],
           Unsent(n)' \/ FromADevice(n)' \/ FromTheServer(n)' \/ FromTheCloud(n)',
           sender[n] \in {"nobody", sender'[n]},
           heard' \subseteq heard \cup {n}, n \in heard' => sender'[n] = "device"
    PROVE  FramesInv'
<1>1. \A m \in Frames \ {n} : Unsent(m)' \/ FromADevice(m)' \/ FromTheServer(m)' \/ FromTheCloud(m)'
  BY DEF FramesInv, Unsent, FromADevice, FromTheServer, FromTheCloud
<1>2. heard' \subseteq {m \in Frames : sender'[m] = "device"}
  BY DEF FramesInv
<1>3. QED BY <1>1, <1>2 DEF FramesInv

LEMMA PublishLocalStep == ASSUME FramesInv, NEW n \in Frames, PublishLocal(n) PROVE FramesInv'
<1>1. Unsent(n) /\ n \notin heard
  BY DEF PublishLocal, FramesInv, FromADevice, FromTheServer, FromTheCloud
<1>2. at' \in [Frames -> SUBSET Places] /\ at'[n] = {"broker"}
  BY <1>1 DEF PublishLocal, FramesInv, Places, Unsent
<1>3. FromADevice(n)' \/ FromTheServer(n)'
  BY <1>1, <1>2 DEF PublishLocal, FramesInv, FromADevice, FromTheServer, Unsent
<1>4. QED BY <1>1, <1>2, <1>3, OneFrame DEF PublishLocal, FramesInv, Unsent

LEMMA CloudPublishStep == ASSUME FramesInv, NEW n \in Frames, CloudPublish(n) PROVE FramesInv'
<1>1. Unsent(n) /\ n \notin heard
  BY DEF CloudPublish, FramesInv, FromADevice, FromTheServer, FromTheCloud
<1>2. at' \in [Frames -> SUBSET Places] /\ at'[n] = {"inbound"}
  BY <1>1 DEF CloudPublish, FramesInv, Places, Unsent
<1>3. FromTheCloud(n)'
  BY <1>1, <1>2 DEF CloudPublish, FramesInv, FromTheCloud, Unsent
<1>4. QED BY <1>1, <1>2, <1>3, OneFrame DEF CloudPublish, FramesInv, Unsent

LEMMA CloudEchoStep == ASSUME FramesInv, NEW n \in Frames, CloudEcho(n) PROVE FramesInv'
<1>1. FromADevice(n)
  BY DEF CloudEcho, FramesInv, Unsent, FromTheServer, FromTheCloud
<1>2. at' \in [Frames -> SUBSET Places] /\ "broker" \notin at'[n]
  BY <1>1 DEF CloudEcho, FramesInv, Places, FromADevice
<1>3. FromADevice(n)'
  BY <1>1, <1>2 DEF CloudEcho, FromADevice
<1>4. QED BY <1>1, <1>2, <1>3, OneFrame DEF CloudEcho, FramesInv

LEMMA BridgeHandlesStep == ASSUME FramesInv, NEW n \in Frames, BridgeHandles(n) PROVE FramesInv'
<1> USE DEF FramesInv
<1>1. "broker" \in at[n] /\ UNCHANGED <<topic, sender, downs>>
  BY DEF BridgeHandles
<1>2. CASE ~Parsed(n) \/ ServerPublished(n) \/ dev[n] \notin registered
  <2>1. at' = [at EXCEPT ![n] = @ \ {"broker"}] /\ UNCHANGED <<heard, ups>>
    BY <1>2 DEF BridgeHandles
  <2>2. at' \in [Frames -> SUBSET Places] /\ \A m \in Frames : at'[m] \subseteq at[m]
    BY <2>1
  <2>3. \A m \in Frames : (Unsent(m) => Unsent(m)') /\ (FromADevice(m) => FromADevice(m)')
                          /\ (FromTheServer(m) => FromTheServer(m)') /\ (FromTheCloud(m) => FromTheCloud(m)')
    BY <1>1, <2>1, <2>2 DEF Unsent, FromADevice, FromTheServer, FromTheCloud
  <2>4. QED BY <1>1, <2>1, <2>2, <2>3
<1>3. CASE Parsed(n) /\ ~ServerPublished(n) /\ dev[n] \in registered
  <2>1. FromADevice(n) /\ ups[n] = 0
    BY <1>1, <1>3 DEF Parsed, ServerPublished, Unsent, FromADevice, FromTheServer, FromTheCloud
  <2>2. heard' = heard \cup {n}
    BY <1>3 DEF BridgeHandles
  <2>3. CASE RelaysUp(n)
    <3>1. at' = [at EXCEPT ![n] = (@ \ {"broker"}) \cup {"cloud"}] /\ ups' = [ups EXCEPT ![n] = @ + 1]
      BY <1>3, <2>3 DEF BridgeHandles
    <3>2. at' \in [Frames -> SUBSET Places] /\ "broker" \notin at'[n] /\ ups'[n] = 1
      BY <2>1, <3>1 DEF Places
    <3>3. FromADevice(n)'
      BY <1>1, <2>1, <3>2 DEF FromADevice
    <3>4. QED BY <1>1, <2>1, <2>2, <3>1, <3>2, <3>3, OneFrame DEF FromADevice
  <2>4. CASE ~RelaysUp(n)
    <3>1. at' = [at EXCEPT ![n] = @ \ {"broker"}] /\ UNCHANGED ups
      BY <1>3, <2>4 DEF BridgeHandles
    <3>2. FromADevice(n)'
      BY <1>1, <2>1, <3>1 DEF FromADevice
    <3>3. QED BY <1>1, <2>1, <2>2, <3>1, <3>2, OneFrame DEF FromADevice
  <2>5. QED BY <2>3, <2>4
<1>4. QED BY <1>2, <1>3

LEMMA RelayDownStep == ASSUME FramesInv, NEW n \in Frames, RelayDown(n) PROVE FramesInv'
<1> USE DEF FramesInv
<1>1. "inbound" \in at[n] /\ UNCHANGED <<topic, sender, ups, heard>>
  BY DEF RelayDown, Unread
<1>2. FromADevice(n) \/ FromTheCloud(n)
  BY <1>1 DEF Unsent, FromTheServer
<1>3. CASE topic[n] # "ota_upgrade" /\ Parsed(n) /\ ServerPublished(n) /\ bridgeUp
  <2>1. FromTheCloud(n) /\ downs[n] = 0 /\ topic[n] \in {"service", "user_get"}
    BY <1>1, <1>2, <1>3 DEF FromADevice, FromTheCloud, ServerPublished
  <2>2. at' = [at EXCEPT ![n] = (@ \ {"inbound"}) \cup {"broker"}] /\ downs' = [downs EXCEPT ![n] = @ + 1]
    BY <1>3 DEF RelayDown
  <2>3. at' \in [Frames -> SUBSET Places] /\ at'[n] \subseteq {"broker"} /\ downs'[n] = 1
    BY <2>1, <2>2, <1>1 DEF Places, FromTheCloud
  <2>4. FromTheCloud(n)'
    BY <1>1, <2>1, <2>3 DEF FromTheCloud
  <2>5. QED BY <1>1, <2>1, <2>2, <2>3, <2>4, OneFrame DEF FromTheCloud
<1>4. CASE ~(topic[n] # "ota_upgrade" /\ Parsed(n) /\ ServerPublished(n) /\ bridgeUp)
  <2>1. at' = [at EXCEPT ![n] = @ \ {"inbound"}] /\ UNCHANGED downs
    BY <1>4 DEF RelayDown
  <2>2. FromADevice(n)' \/ FromTheCloud(n)'
    BY <1>1, <1>2, <2>1 DEF FromADevice, FromTheCloud
  <2>3. QED BY <1>1, <2>1, <2>2, OneFrame
<1>5. QED BY <1>3, <1>4

(* A connection that is lost or cancelled drops what it had not read.      *)
LEMMA ConnectionDrops == ASSUME FramesInv, NEW d \in Devices, ConnectionStep(d) PROVE FramesInv'
<1>1. CASE UNCHANGED frameVars
  BY <1>1 DEF frameVars, FramesInv, Unsent, FromADevice, FromTheServer, FromTheCloud
<1>2. CASE DropInbound(d) /\ UNCHANGED <<topic, sender, dev, ups, downs, heard, blocked>>
  BY <1>2, FramesDropped DEF DropInbound, FramesInv
<1>3. QED BY <1>1, <1>2 DEF ConnectionStep, RunLoop, Connected, Refused, Lost, ActOnCancel, Closed

LEMMA FramesStep == ASSUME FramesInv, [LifeNext]_lifeVars PROVE FramesInv'
<1>1. CASE UNCHANGED frameVars
  BY <1>1 DEF frameVars, FramesInv, Unsent, FromADevice, FromTheServer, FromTheCloud
<1>2. CASE BridgeDown
  BY <1>2, FramesDropped DEF BridgeDown, FramesInv
<1>3. CASE MediaDrained
  BY <1>3, FramesDropped DEF MediaDrained, TasksCancelled, FramesInv
<1>4. CASE \E d \in Devices : ConnectionStep(d)
  BY <1>4, ConnectionDrops
<1>5. CASE \E n \in Frames : FrameStep(n)
  BY <1>5, PublishLocalStep, CloudPublishStep, CloudEchoStep, BridgeHandlesStep, RelayDownStep DEF FrameStep
<1>6. CASE SupervisorPass \/ SupervisorStopped
  BY <1>6, <1>1 DEF SupervisorPass, SupervisorStopped
<1>7. CASE OutsideStep
  BY <1>7, <1>1, <1>2 DEF OutsideStep, Toggle, Unregister, Register, Learn, BridgeBack
<1>8. CASE StopRequested \/ TasksStopped \/ UpstreamStopped \/ RunnersClosed \/ RegistriesStopped
           \/ UploadReported \/ MediaEnds \/ RegistryChanges \/ Flushed \/ UNCHANGED lifeVars
  BY <1>8, <1>1 DEF StopRequested, TasksStopped, ConnectionsStopped, UpstreamStopped, RunnersClosed,
                    RegistriesStopped, UploadReported, MediaEnds, RegistryChanges, Flushed, lifeVars, upVars
<1>9. QED BY <1>3, <1>4, <1>5, <1>6, <1>7, <1>8 DEF LifeNext, ShutdownStep, UpstreamStep

(* A frame is relayed at most once and away from whoever sent it, nothing  *)
(* but a device is taken for the device, and no firmware push reaches the  *)
(* local broker, whatever the cloud sends or hands back                    *)
(* (_handle_message, forward_up, _on_upstream).                            *)
THEOREM NeverGoesRound == LifeSpec => []RelayedOnce
<1>1. FramesInv => RelayedOnce
  BY DEF FramesInv, Unsent, FromADevice, FromTheServer, FromTheCloud, RelayedOnce, NoEcho, FramesKnowTheirPlace
<1>2. QED BY <1>1, FramesInit, FramesStep, PTL DEF LifeSpec
-----------------------------------------------------------------------------
(* The camera sidecar.  What makes the child an owned one: it is never     *)
(* replaced before it was killed, and a task that waits for the            *)
(* replacement to be written knows which verdicts it is written for.       *)
ChildInv ==
    /\ SideTypeOK /\ ChildOwned /\ OffersWhatAnswered
    /\ sidePc \in {"reap", "swap", "write", "spawn"} => alive = {}
    /\ sidePc \in {"swap", "write", "spawn"} => planned = verdict
    /\ sidePc = "spawn" => rendered = verdict
    /\ sidePc \in {"reap", "swap", "ended"} => proc = NoChild
    /\ sidePc = "probe" => asked \in Cameras

LEMMA ChildInit == SideInit => ChildInv
BY SidecarAssumption DEF SideInit, ChildInv, SideTypeOK, ChildOwned, OffersWhatAnswered, Running

(* reconcile() is entered with the child the last sweep left, whatever the *)
(* verdicts say now.                                                       *)
LEMMA GoOnKeeps ==
    ASSUME SideTypeOK, ChildOwned, sidePc \in {"sleep", "asking", "probe"},
           NEW due \in SUBSET Cameras, GoOn(due, verdict'),
           verdict' \in SUBSET Cameras, fresh' \in SUBSET Cameras,
           serving' \in SUBSET Cameras, changes' \in 0 .. MaxChanges
    PROVE  ChildInv'
<1> USE SidecarAssumption DEF SideTypeOK, ChildOwned, OffersWhatAnswered, Running, ChildInv
<1>1. CASE \E c \in due : /\ sidePc' = "probe" /\ asked' = c /\ todo' = due \ {c}
                         /\ UNCHANGED <<viewers, proc, planned, rendered, alive>>
  BY <1>1
<1>2. ASSUME asked' = NoCamera, todo' = {}, Reconcile(verdict') PROVE ChildInv'
  <2>1. CASE verdict' = {} /\ Kill(IF Running THEN "reap" ELSE "sleep") /\ UNCHANGED planned
    BY <1>2, <2>1 DEF Kill
  <2>2. CASE Running /\ rendered = verdict' /\ sidePc' = "sleep"
             /\ UNCHANGED <<viewers, proc, planned, rendered, alive>>
    BY <1>2, <2>2
  <2>3. CASE Running /\ planned' = verdict' /\ Kill("swap")
    BY <1>2, <2>3 DEF Kill
  <2>4. CASE ~Running /\ planned' = verdict' /\ sidePc' = "write"
             /\ UNCHANGED <<viewers, proc, rendered, alive>>
    BY <1>2, <2>4
  <2>5. QED BY <1>2, <2>1, <2>2, <2>3, <2>4 DEF Reconcile
<1>3. QED BY <1>1, <1>2 DEF GoOn

LEMMA ChildStep == ASSUME ChildInv, [SideNext]_sideVars PROVE ChildInv'
<1> USE SidecarAssumption
<1>1. CASE SweepBegins
  <2>1. CASE Running
    BY <1>1, <2>1 DEF SweepBegins, ChildInv, SideTypeOK, ChildOwned, OffersWhatAnswered, Running
  <2>2. CASE ~Running
    BY <1>1, <2>2, GoOnKeeps DEF SweepBegins, ChildInv, SideTypeOK
  <2>3. QED BY <2>1, <2>2
<1>2. CASE WatchersKnown
  BY <1>2, GoOnKeeps DEF WatchersKnown, ChildInv, SideTypeOK
<1>3. CASE WatchersUnknown
  BY <1>3, GoOnKeeps DEF WatchersUnknown, ChildInv, SideTypeOK
<1>4. CASE ProbeEnds
  <2>1. verdict' \in SUBSET Cameras /\ fresh' \in SUBSET Cameras /\ todo \in SUBSET Cameras
    BY <1>4 DEF ProbeEnds, ChildInv, SideTypeOK
  <2>2. GoOn(todo, verdict') /\ UNCHANGED <<serving, changes>> /\ sidePc = "probe"
    BY <1>4 DEF ProbeEnds
  <2>3. QED BY <2>1, <2>2, GoOnKeeps DEF ChildInv, SideTypeOK
<1> USE DEF ChildInv, SideTypeOK, ChildOwned, OffersWhatAnswered, Running, sideEnv
<1>5. CASE Reaped
  BY <1>5 DEF Reaped
<1>6. CASE Written
  BY <1>6 DEF Written
<1>7. CASE Spawned
  BY <1>7 DEF Spawned
<1>8. CASE SpawnFailed
  BY <1>8 DEF SpawnFailed
<1>9. CASE SideCancel
  BY <1>9 DEF SideCancel, Kill
<1>10. CASE ChildExits
  BY <1>10 DEF ChildExits, sideTask
<1>11. ASSUME NEW c \in Cameras, CameraChanges(c) \/ ViewerComes(c) \/ ViewerLeaves(c) \/ VerdictExpires(c)
       PROVE ChildInv'
  BY <1>11 DEF CameraChanges, ViewerComes, ViewerLeaves, VerdictExpires, sideTask
<1>12. CASE UNCHANGED sideVars
  BY <1>12 DEF sideVars, sideTask
<1>13. QED BY <1>1, <1>2, <1>3, <1>4, <1>5, <1>6, <1>7, <1>8, <1>9, <1>10, <1>11, <1>12 DEF SideNext, SideStep

(* For any cameras and any children, however often viewers, cameras and    *)
(* children come and go: one child runs at most, it is the supervisor's    *)
(* own, it dies with the supervisor, and nobody watches one that is gone   *)
(* (stop, _start, supervise).                                              *)
THEOREM NoStrayChild == SideSpec => []ChildOwned
<1>1. ChildInv => ChildOwned
  BY DEF ChildInv
<1>2. QED BY <1>1, ChildInit, ChildStep, PTL DEF SideSpec

(* For the same: between two sweeps the child that runs offers the cameras *)
(* that answered, no more and no fewer, although the verdicts moved while  *)
(* its predecessor was being killed, written over and replaced (reconcile).*)
THEOREM OffersOnlyWhatAnswered == SideSpec => []OffersWhatAnswered
<1>1. ChildInv => OffersWhatAnswered
  BY DEF ChildInv
<1>2. QED BY <1>1, ChildInit, ChildStep, PTL DEF SideSpec
=============================================================================
