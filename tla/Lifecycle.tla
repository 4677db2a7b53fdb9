----------------------------- MODULE Lifecycle -----------------------------
(***************************************************************************)
(* Start-up and shutdown (main/lifecycle.py) around the services that feed *)
(* each other: cleanup_background() stops writers before what they write   *)
(* to.  It is one coroutine; `phase' is what it is waiting for.            *)
(*                                                                         *)
(* The bridging of MQTT to the cloud is Upstream, whole.  The camera       *)
(* sidecar is a module of its own (Sidecar), which shutdown reaches by     *)
(* cancelling it.  The other long-lived tasks (publisher, watchdog, BLE    *)
(* poll, sweeper, stitcher, the local bridge) end when they are cancelled, *)
(* so they are one writer here, and so are the panel's and the bucket's    *)
(* requests and what they leave running.                                   *)
(***************************************************************************)
EXTENDS Upstream

VARIABLES
    phase,          \* what cleanup_background waits for; "running" before it
    media,          \* a media task of dev_upload_file_info_v2 is in flight
    unsaved         \* a registry has changed since it was last written

lifeOwn  == <<phase, media, unsaved>>
lifeVars == <<upVars, lifeOwn>>

Phases == {"running", "media", "tasks", "upstream", "runners", "registries", "closed"}

LifeTypeOK ==
    /\ UpTypeOK
    /\ phase \in Phases
    /\ media \in BOOLEAN /\ unsaved \in BOOLEAN

LifeInit == UpInit /\ phase = "running" /\ media = FALSE /\ unsaved = FALSE

(* Who can still write: requests of devices, background tasks, requests of *)
(* the panel and the bucket.                                               *)
Serving    == phase = "running"
TasksAlive == phase \in {"running", "media"}
PanelOpen  == phase \notin {"registries", "closed"}
-----------------------------------------------------------------------------
(* cleanup_background, from await to await.  aiohttp has closed the        *)
(* device-facing site before it calls it.                                  *)

StopRequested ==
    /\ phase = "running"
    /\ phase' = "media"
    /\ UNCHANGED <<upVars, media, unsaved>>

(* wait_for_media_tasks: they ended, or were cancelled and awaited after   *)
(* thirty seconds.  _stop_tasks then cancels every background task.        *)
MediaDrained ==
    /\ phase = "media"
    /\ phase' = "tasks" /\ media' = FALSE
    /\ TasksCancelled
    /\ UNCHANGED unsaved

(* Faulty variant: cancelling the supervisor is taken to be enough.        *)
TasksStoppedOnly ==
    /\ phase = "tasks" /\ super = "ended"
    /\ phase' = "upstream"
    /\ UNCHANGED <<upVars, media, unsaved>>

(* _stop_tasks has awaited them; upstream_mqtt.stop() cancels what the     *)
(* supervisor had spawned.                                                 *)
TasksStopped ==
    /\ phase = "tasks" /\ super = "ended"
    /\ phase' = "upstream"
    /\ ConnectionsStopped
    /\ UNCHANGED <<media, unsaved>>

(* The connections are gone: broker, bucket and panel are shut down.       *)
UpstreamStopped ==
    /\ phase = "upstream"
    /\ \A d \in Devices : ~cancelled[d]
    /\ phase' = "runners"
    /\ UNCHANGED <<upVars, media, unsaved>>

RunnersClosed ==
    /\ phase = "runners"
    /\ phase' = "registries"
    /\ UNCHANGED <<upVars, media, unsaved>>

(* Both registries' stop() writes what is pending; the store is closed.    *)
RegistriesStopped ==
    /\ phase = "registries"
    /\ phase' = "closed" /\ unsaved' = FALSE
    /\ UNCHANGED <<upVars, media>>

ShutdownStep ==
    \/ MediaDrained \/ TasksStopped \/ UpstreamStopped \/ RunnersClosed \/ RegistriesStopped
-----------------------------------------------------------------------------
(* Writers.                                                                *)

UploadReported ==
    /\ Serving /\ ~media
    /\ media' = TRUE
    /\ UNCHANGED <<upVars, phase, unsaved>>

MediaEnds ==
    /\ media /\ media' = FALSE
    /\ UNCHANGED <<upVars, phase, unsaved>>

(* A device's or the panel's request, a background task or a patcher run   *)
(* changes a device; the panel is the last of them to end.                 *)
RegistryChanges ==
    /\ PanelOpen
    /\ ~unsaved /\ unsaved' = TRUE
    /\ UNCHANGED <<upVars, phase, media>>

(* The debounced writer, which stop() ends.                                *)
Flushed ==
    /\ phase # "closed"
    /\ unsaved /\ unsaved' = FALSE
    /\ UNCHANGED <<upVars, phase, media>>

(* The rest of the add-on acts on Upstream while it still runs.            *)
OutsideStep ==
    \/ PanelOpen /\ (Toggle \/ \E d \in Devices : Unregister(d))
    \/ Serving /\ \E d \in Devices : Register(d) \/ \E c \in Creds : Learn(d, c)
    \/ TasksAlive /\ (BridgeDown \/ BridgeBack)

UpstreamStep ==
    \/ SupervisorPass \/ SupervisorStopped
    \/ \E d \in Devices : ConnectionStep(d)
    \/ \E n \in Frames : FrameStep(n)

LifeNext ==
    \/ StopRequested \/ ShutdownStep
    \/ UploadReported \/ MediaEnds \/ RegistryChanges \/ Flushed
    \/ (OutsideStep \/ UpstreamStep) /\ UNCHANGED lifeOwn

LifeSpec == LifeInit /\ [][LifeNext]_lifeVars

(* The event loop runs every task that is ready, and the local bridge      *)
(* reconnects.  A CONNECT is answered sooner or later (Refused spends the  *)
(* bounded trouble).  Nothing is assumed of devices signing up again.      *)
LifeFairness ==
    /\ WF_lifeVars(ShutdownStep)
    /\ WF_lifeVars(SupervisorPass /\ UNCHANGED lifeOwn)
    /\ WF_lifeVars(SupervisorStopped /\ UNCHANGED lifeOwn)
    /\ \A d \in Devices :
          /\ WF_lifeVars(RunLoop(d) /\ UNCHANGED lifeOwn)
          /\ WF_lifeVars(Connected(d) /\ UNCHANGED lifeOwn)
          /\ WF_lifeVars(ActOnCancel(d) /\ UNCHANGED lifeOwn)
          /\ WF_lifeVars(Closed(d) /\ UNCHANGED lifeOwn)

FairLifeSpec == LifeSpec /\ LifeFairness
-----------------------------------------------------------------------------
(* Properties.                                                             *)

(* When the store is closed nothing is left that could write to it or to a *)
(* registry, and no change is left behind (cleanup_background, steps 1-5). *)
StorageLast ==
    phase = "closed" =>
        /\ \A d \in Devices : ~Alive(d) /\ ~client[d]
        /\ ~media /\ ~unsaved

(* A stop that was asked for is carried through to the store: violated     *)
(* when it meets the supervisor in the middle of its own stop().           *)
ShutdownCompletes == phase = "media" ~> phase = "closed"

(* While the add-on runs, every connection the settings ask for comes up   *)
(* and comes back after every loss (a task that returned because its       *)
(* device had gone is replaced), and switched off, every one of them ends, *)
(* one that is dialling included (reconcile).                              *)
Asked(d) == phase = "running" /\ wanted /\ d \in registered /\ creds[d] # NoCreds
BridgeFollowsSettings ==
    /\ \A d \in Devices : <>[]Asked(d) => <>[]client[d]
    /\ <>[](~wanted /\ phase = "running") => <>[](\A d \in Devices : ~Alive(d) /\ ~client[d])
=============================================================================
