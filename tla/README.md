# petkit-local in TLA+

petkit-local is a Home Assistant add-on that stands in for the Petkit cloud: it
answers the HTTP and MQTT traffic of litter boxes, feeders and fountains, keeps
their settings and media, and offers them to Home Assistant and a web panel. It
is one Python process, almost all of it on one asyncio event loop; what makes it
hard is not parallelism but what happens between two awaits, on two transports
to a device that sleeps, reboots, lies about its connection and forgets.

These modules model the parts where that matters. Paths below are relative to
`addon/petkit_local/`.

## 1. Inventory

| component | state | operations | interacts with | hard part |
|---|---|---|---|---|
| MQTT auth plugin, `mqtt/auth.py` | `_live_sessions`, per device `mqtt_connected`, `last_mqtt`, `mqtt_connected_at` | CONNECT, packet, disconnect hooks | amqtt calls it from tasks of its own; heartbeat and publisher share the flags | hooks run late and in any order; half-open sessions |
| Heartbeat, `http/handlers/heartbeat.py` | drains `command_queue`, `pending_settings`; clears `mqtt_connected` | one handler, no await until the answer | routing flags, registry | the poll's `iotStatus` is older than its arrival |
| HA publisher and watchdog, `ha/publisher.py`, `main/wiring.py` | `_connected`, `online`, what Home Assistant retains | pass after a connect, hooks, offline sweep | all contact stamps, command router | publishes that fail late, Home Assistant that forgets |
| MQTT bridge, `mqtt/bridge.py` | `_client`, the recovery task | consume, publish, recover | broker, lock, registry | losing the broker while publishing |
| Settings delivery, `web/api/_common.py`, `devices/pending.py` | `pending_settings`, `command_queue`, the lock | panel request, publish, fallback | bridge, heartbeat, registry | one value, four carriers |
| HA commands, `ha/command_router.py` | `command_queue`, settings | one sequential consumer | bridge, registry | does not take the lock |
| Registries, `devices/registry.py`, `utils/jsonio.py` | devices, `_dirty`, the file | save, mark_dirty, flush, stop, load | everything that changes a device | a thread writes while the loop goes on |
| Upstream (proxy mode), `mqtt/upstream.py` | credentials, one client task per device | supervise, reconcile, forward up and down | cloud, broker | echo loops, cancellation at every await |
| Proxy middleware, `http/middleware/proxy.py`, `http/redact/` | signing secret, breaker, client session | local answer, forward, choose, adopt a secret | cloud, command queue, registry | the local handler has acted before the cloud answers |
| BLE relay, `mqtt/ble_relay.py`, `devices/ble/` | throttle, accessories, last readings | poll, command, update | bridge, a parent's radio | a block restated from an old reading |
| Media, `media/pipeline.py`, `stitch.py`, `retention.py`, `http/bucket.py` | files, the gallery rows | upload, decrypt, merge, sweep | event store | several writers on one directory; crash between two file operations |
| Camera sidecar, `media/go2rtc.py` | a child process, a verdict per camera | sweep, probe, reconcile, kill | devices, HA entities | the child holds the connection a probe needs |
| Events, `events/` | SQLite store | ingest, upsert, group a page into cards, prune | HA, media, pets | events late, twice, out of order |
| Reports, `devices/state_parsers.py`, `consumables.py`, `payloads.py` | `device.state`, recorded replacement dates | three forms of report, two parsers, the echo | HTTP, MQTT, HA buttons | absence that means something; a state that a restart empties |
| Pets and weights, `ai/`, `web/api/pets.py` | pets, aliases, attributions, photos | resolve, rebind, import, photos; guess by weight | event store, devices | statements of several requests interleave |
| Feeding schedules, `web/api/schedules.py`, `http/handlers/feed.py` | recurring and one-off feeds | edit, list, push | feeder's own clock | the feeder goes by an old list |
| Patchers, `patchers/`, `web/api/patchers.py` | active set, staged files, one lock per device | apply, remove, reboot | command queue, MQTT | commands that nobody sees arrive |
| Life cycle, `main/` | task list | start, stop | everything | the order of shutdown |
| Hub and panel, DNS, configuration, entities | queues per browser, tables | fan-out, lookups | - | see 6 |

What makes each correct is the list of hazards in `PROJECT.json`, each with the
line where it bites and the properties that cover it, or the reason why none
does.

## 2. Plan

Done, in this order, each with what it was for:

1. `MqttSession`, proofs: by which transport do commands travel.
2. `LatestValue` (abstract), `SettingsDelivery`, proofs: does a setting or an
   action get there, and the right one.
3. `Registry`, proofs: does what was saved survive.
4. `Footage`, proofs: uploads, merging and sweeping on one directory, with stops.
5. `Upstream`, composed into `Lifecycle`, proofs: bridging to the cloud, and the
   order in which everything stops; `Sidecar`, proofs, beside them.
6. `Proxy` and `Redact`, proofs: which answer a device gets, and what it is spared.
7. `Accessories`, proofs: a fountain behind a parent's radio.
8. `Pets`, `Timeline` (with `Codes`) and `Weighing`, proofs: what is made of events,
   in whatever order they come.
9. `Publisher` and `Reported`, proofs: what Home Assistant is told.
10. `Patching` and `Feeding`, proofs: what a device does when nobody watches.

Left:

* `MqttSession` with `SettingsDelivery` in one run (a command for a device that
  has just vanished), in place of the free `RoutingChanges`.

## 3. Modules and the code

The modules that make one run stand side by side in an MC module, which chooses
in `focus` which of them moves: the state spaces add up and do not multiply, and
one set of constants serves them. The pairs that do interact are composed in the
module itself (`Lifecycle` takes every step of `Upstream`; `Timeline` uses
`Codes`; in `Pets` every request meets every other).

### MqttSession

`Device.mqtt_connected` decides whether a command is published or queued for the
next poll. The module has the four writers of that flag, and everything they
read.

| module | code |
|---|---|
| `live` | `AliyunAuthPlugin._live_sessions` |
| `mqtt_connected`, `online` | the fields of `Device` |
| `contactAge`, `mqttAge`, `connectAge` | now minus the newest of `last_heartbeat`/`last_state_report`/`last_seen`, minus `last_mqtt`, minus `mqtt_connected_at` |
| `Authenticate`, `PacketHook`, `DisconnectHook`, `SessionAlive` | the plugin's hooks, and the predicate `_mark_mqtt_connected` gives the device |
| `Heartbeat`, `PollClearsRoute` | `handle_heartbeat`, `note_iot_status` |
| `BridgeFrame` | the stamps of `MQTTBridge._handle_message` |
| `Watchdog`, `Stale` | `availability_watchdog`, `device_is_stale` |
| `sess`, `rx`, `link`, `poll`, `frame` and the last seven actions | amqtt, the device and the network: not in this repository |

A hook of the plugin runs in a task of its own, so the event it reports (`rx`,
`sess` = `ended`) and the hook are two steps. A device may leave without a word
(`link` is cleared and nothing else). A poll carries the `iotStatus` of the
moment it was sampled.

### SettingsDelivery and LatestValue

One device; panel requests, the recovery loop, Home Assistant, heartbeats, the
writer of the registry and restarts. An action is the code between two awaits
that suspend, which are a contended lock and a publish.

| module | code |
|---|---|
| `settings`, `pending`, `queue` | `config["settings"]`, `config["pending_settings"]`, `command_queue` |
| `disk`, `dirty` | devices.json and the registry's `_dirty` |
| `lock`, `waiters` | `settings_delivery_lock`, a FIFO `asyncio.Lock` |
| `phase`, `job`, `left` | where a request is; what it publishes; whether the frame has left |
| `PanelRequest`, `PanelGetsLock`, `DeliverLocked`, `Complete`, `PublishReturns`, `PublishRaises` | `api_send_command`, `_deliver`, `_deliver_locked` |
| `QueueAfterRemember`, `QueueAfterCompleted`, `PendingAfterCompleted` | `remember`, `completed`; their list comprehensions are `Sift`, the elements at a set of positions in their order |
| `RecoveryTurn`, `RecoveryWaits`, `RecoveryGetsLock`, `BridgeConnects`, `BridgeDisconnects` | `_recover_settings`, `MQTTBridge.start` |
| `Heartbeat`, `Covered`, `KeptFor` | the second half of `handle_heartbeat` |
| `HACommand`, `HAPublishEnds` | `CommandRouter.handle_command` |
| `Flush`, `Restart`, `KilledBetweenSaves`, `StartsFrom` | the debounced writer; a kill at any await; a kill between the two saves of a request that finds the lock free (`devices.py:332`, `_common.py:121`) |
| `told`, `want`, `owed`, `runs`, `asked`, `cut` | history, no code |

`LatestValue` is the promise: whatever is handed over is the value last asked
for. `SettingsDelivery` implements it with its history variables as the
refinement mapping, for the settings `PanelOnly` names: those that only panel
requests write, with their registry. (Home Assistant and `api_sounds_select` change
a setting without making it pending, so an older write of the panel can follow
theirs.) The two runs have no other writes; the proofs allow them.

A panel request saves twice: its setting, before it asks for the lock, and the
pending write, under it. `owed` begins with the second, so `OwedIsPending` has a
second half for the time between the two, `ShownOnItsWay`: what devices.json shows of a
setting was handed to the device, is pending in the same file, or is with a request
that waits. A kill then takes the last of the three away, and `cut` names exactly the
settings it does that to, until another request remembers them: those of the requests
that waited and, with the lock free, of the one between its saves. That loss is the
code's (observations); the property says that there is no other.

### Registry

`memory` is what `_serialize()` would return; the two writers are the event loop
(`save()`, which blocks it) and the worker thread of `flush()`. Each goes through
"encoded", "written and fsynced", "replaced", or fails. `Starts` is `_load`; a
file whose data was not durable when its rename was may read as empty.
`CleanExit` waits for the worker because the interpreter does. A `save()` may begin
while the worker writes; the histories `late` and `undone` say when the worker then
has the last word and whose credentials it takes back. `SignupSurvives` is the
promise of `save()` as its docstring gives it, which fails (finding 1); `SignupKept`
and `NothingForgotten` say that this interleaving is the only one that breaks it.

### Footage

The chunks of one visit, in one category, with the four writers of the
directory they end up in. A file is the set of chunks it shows; a step of a
thread or a statement to the database is one action, and everything may happen
between two of them.

| module | code |
|---|---|
| `raw`, `work` | the staging directory: uploads, and the clip being made |
| `files` | the media folder; `{}` is a name `_claim_unique_path` reserved |
| `media`, `fresh` | the rows (`status`, `media_path`, `stitch_state`, the order of `created_at`); those younger than `QUIET_SECONDS` |
| `task` | per chunk, how far `process_file_info` has come and the name it holds |
| `Upload`, `Report`, `GivesUp`, `Claim`, `Remux`, `KeepTs`, `Record`, `DropRaw`, `TaskFails` | `handle_put`, `handle_upload_file_info`, then `process_file_info` from await to await |
| `Pick`, `Join`, `RemoveSources`, `MoveIntoPlace`, `MoveFails`, `Swap`, `SwapRefused` | `stitch_candidates`, then `stitch_episode` from await to await |
| `ChooseExpired`, `UnlinkExpired`, `DeleteRow`, `SweepRaw`, `SweepWork` | `sweep_category`, `_delete_media_files`, `_sweep_directory_sync` |
| `Stop` | shutdown, or a crash: tasks end, removals got as far as any file |
| `seen`, `shown`, `covers`, `overdue`, `expired`, `upset` | history, no code |

What ffmpeg makes of the chunks is a choice: chunks in `Damaged` fail to decode
and may fail to probe, and any join may fail. How many rows a sweep takes is a
choice too, always from the oldest.

The code has steps that footage does not survive. So that everything
else can be stated, `upset` names those that have happened, and each invariant
names the ones it excepts; leaving out any of them breaks it:

* a stop, or a failed move, between the removal of the sources and the recording
  of the clip: the rows point at nothing, and the clip lies in `.raw` until it is
  swept. (The docstring of `stitch_episode` says a None result always means that
  the chunks are still there; after a failed move they are not.)
* a name overwritten: a clip named after a first chunk that was left out of the
  join replaces that chunk's file; a remux that fails falls back to a `.ts` name
  nobody reserved, so two failures in one second meet.
* a name reused: the sweeper and the stitcher unlink by paths they read earlier;
  a file unlinked in between frees its name for another chunk.
* a second clip for a visit that has one (finding 2).

`Listed` excepts none of them.

### Upstream and Lifecycle

| module | code |
|---|---|
| `wanted`, `creds`, `registered` | the live settings, `UpstreamCredentials`, the registry |
| `task`, `inDict`, `cancelled`, `client`, `super` | each `_run` task and where it waits; `_tasks`, `_clients`; where `supervise()` waits |
| `SupervisorPass`, `SupervisorStopped`, `SupervisorCancelled` | `supervise`, `reconcile`, `stop` from await to await |
| `RunLoop`, `Connected`, `Refused`, `Lost`, `ActOnCancel`, `Closed` | `_run` from await to await |
| `BridgeHandles`, `RelaysUp`, `FromDevice`, `RelayDown` | `_handle_message`, `forward_up`, `_on_upstream` |
| `PublishLocal`, `CloudPublish`, `CloudEcho` | the devices, the server itself and the cloud, which hands back what it was sent |
| `phase`, `StopRequested` ... `RegistriesStopped` | `cleanup_background`, one action per thing it awaits |
| `UploadReported`, `MediaEnds`, `RegistryChanges`, `Flushed` | the writers it has to outlive |

### Sidecar

`sidePc` is where `Go2rtc.supervise` waits (its sleep, a probe, a child it killed,
the written configuration, a spawn); `alive` are the children the kernel has,
`proc` the one it has a handle of. Whoever watches holds the device's only
connection, so a probe of that device fails. `ChildOwned` and `OffersWhatAnswered`
are stated for the proofs and belong to no run.

### Proxy and Redact

A request of `Proxy` is a coroutine with a wait in `req[r].pc`; `Arrive`, `SignsUp`,
`RunsHandler`, `Forwards`, `Reply`, `NoReply`, `Stored` are `proxy_middleware` and
`forward` from await to await, `Withheld` and `Adopts` what decides between the two
answers. `served`, `dropped` and `shown` are history.

`Redact` takes no steps: its state is a `body` and the `policy` it is redacted
under. `Redacted(b, p)` is what the walker and its rules make of a body; `Lost` is
what the walker drops, decided from the leaves up, `Outside` what it then leaves. `Gone`
is the reference definition of what must be missing, from the struck object up to the
root. The run takes all bodies of four nodes with two marked objects as initial
states; `RedactSpec` allows every body of up to `MaxNodes` nodes.

### Accessories

`held` is the block as the fountain has it, `known` as the server's last reading
or command left it. `PollTick`, `Message`, `Delivered`, `AccessorySpeaks`,
`ReadingArrives` follow a poll through the parent's radio; `WriteBegins`,
`WriteFrames`, `WriteEnds` are a command, `Reflect` what it remembers. `clear` is
history: nothing has happened since that a reading alone can tell. `ReflectedIsHeld`,
which uses it, is stated for the proofs and belongs to no run.

### Publisher

`told[d]` is what a hook has left to publish, `passLeft` what `_publish_all_discovery`
has; `announced` and `shown` are what Home Assistant retains. `Sends` fails late:
the publish has left or not (`overdue`) before anybody knows (`PublishRaises`,
`PublishTimesOut`). `skipped` is history: what was to be announced while the flag
was down.

### Reported

A field stands for the keys that take one way through the parsers; a model has
the blocks its captured reports have. A message is the set of fields it carries.
`Http` and `Property` are what the two transports make of it (`Parsed` by one
parser over the other), `StateReported`, `PropertyPosted`, `EventReported`,
`FaultReported` the handlers, `Echoed` the date `to_device_info` answers. The
device's own mind is `truth`; `said`, `stampTold` and `pressed` are history.

### Pets, Timeline, Weighing

* `Pets`: every statement of the store is an action. `edit` is the request that
  changes aliases, from `EditBegins` to the last `EditStrips`; `task` the requests
  about photos; a report is resolved (`ReportArrives`) and stored later.
* `Timeline`: `RowStored` is `upsert_event`, `Grouped(Page)` is `group_sessions` over
  the newest rows, one operator per pass of it (`EpisodeCards`, `Linked`, `Nearby`,
  `Tails`, `Orphans`, `Standalone`), `Showing` which line gets an episode's media.
  `Codes` are the tables of `events/codes.py`.
* `Weighing`: `Attribute`, `AttributeVisit`, `BuildProfiles`, `WeightStats` and
  `MatchVisit` are the functions of those names, on grams; `Insight` and `Badge` are
  their two callers, which train on different ranges and on different rows:
  `Insight` judges by the closing report's own pet, the Timeline by the card's
  (`CardPet`), which a recognised step of the episode fills. The code sorts a sample and
  takes its middle; `Nth` says which value that is by counting, over the visits.

### Patching and Feeding

* `Patching`: a run is `step[r]`, one value per await of `_patcher_apply` and
  `_patcher_remove`; commands wait in `queue` (the heartbeat) or `inbox` (on the
  device) and are executed in order, or are lost. A `remove` deletes the file and
  leaves the fetch of the new wrapper, the other half of the same command, to be
  executed next (`rewrap`). Two histories name what a command lost, late or overtaken
  may have spoilt (`Costs`), and the properties except it: `doubt`, everything, until
  a command that sets it right is sent (`Settles`), for what the panel shows;
  `missing`, the files such a command was for, until the device has fetched them and
  nothing behind can undo it (`Steady`), for what it boots with. `BootsComplete` is
  about every boot, into a new wrapper or the one it had. What it excepts is a file
  whose fetch was lost, came late, was overtaken or is behind an older wrapper, one
  whose removal found no wrapper to fetch any more, and the one in the middle of
  whose removal power was cut.
* `Feeding`: `LatestFeeds` and `NextTick` are the answer to `dev_feed_get`, in
  countdowns rounded down to whole seconds (`Second` ticks each); `Fetches` and
  `TickPasses` the feeder's own clock, `TakesFeedQueue` the heartbeat, which hands over
  `feed_get` and a list that was not published; `SavesSchedule`, `HomeAssistantSaves`,
  `ReportsSchedule`, `ChangesDeferred` the four writers. `due` is what is stored for
  this moment, `served` what is dispensed of the feeds whose time is not past, and
  the history `untold` says that the feeder's list is not what is stored, or came
  late from the queue. Of the feeder it is taken for granted that an id is dispensed
  once (it is listed the feed it has just dispensed again), and that it asks when told.

## 4. Runs

| run | result | shows |
|---|---|---|
| `Home_told` | holds | tracked session = held session; no healthy device loses its route; routes come back, only through the current session; polling devices leave MQTT. Controls shown are understood; a silent device is shown offline in the end. What is shown of a device is what it said last; replacement dates survive |
| `SettingsDelivery_latest` | holds | owed settings are pending on disk, and what the file shows is on its way, through kills at any await and between the saves; refinement of `LatestValue` |
| `SettingsDelivery_fair` | holds | actions in exactly one place; settled devices show the truth; recovery, waiters and actions end well |
| `Registry_signup` | violated | a save is overwritten by an older flush (finding 1) |
| `Footage_upload` | holds | footage that arrived stays until it expires; one writer per file |
| `Footage_join` | holds | ready rows play; the timeline keeps what it showed; late chunks are not joined for ever; sweeps are finished |
| `Footage_late` | violated | rows of late chunks keep no files (finding 2) |
| `Lifecycle_services` | holds | frames are relayed once; no connection without an owner; storage closes last; the bridge follows its settings; the verdict on a camera follows the camera |
| `Lifecycle_shutdown` | violated | a stop can wait for ever for the supervisor (finding 3) |
| `Proxy_relayed` | holds | every command is in one place and answers can be acted on; secrets settle; bodies lose what they must and nothing else; readings of an accessory catch up |
| `Records_rows` | holds | history follows aliases; photos can be served; cards do not depend on the order of arrival; signups survive and nothing is forgotten; patches are what the panel shows, and boots complete; the feeder dispenses what is stored; weights name the right pet |
| `Feeding_oneoff` | violated | a one-off feed is missed by a feeder on MQTT (finding 4) |

Bounds, and why they are enough:

* `MqttSession`: one device with two sessions. Devices share no state but the
  sessions, and the proofs cover any number of both; two sessions give a
  take-over with the older teardown pending, and are reused, so chains of any
  length occur. Grace 1, window 2, timeout 2 ticks keep the order of the real
  constants (15 s, at least 15 s, minutes) with an age on each side of every
  comparison; ages stop growing where no comparison can tell.
* `Publisher`: one appliance, two troubles (a broken link, a timeout, a restart),
  so that one can meet the recovery from the other.
* `Reported`: four models, which differ in their blocks; of each every choice of
  two fields besides the litter block that marks a snapshot, since fields meet
  only through that marker, and the date with a plain one. A life span of 2 days
  out of 4 gives a countdown on, at and past its end.
* `SettingsDelivery`: two settings with two values, one of the writes touching
  both, so writes overlap, cover and miss each other; two panel requests and
  recovery give three contenders for the lock; `MaxQueue` = 2 bounds only the
  acceptance of new commands, while fallbacks may still append. Each action is asked
  for once. The second run takes one setting, so that the liveness graph
  stays small; the lock and the fallbacks do not depend on which setting it is.
  `LateFailures` (a publish that times out after its frame has left) is on where
  settings are checked, since values are idempotent, and off where actions are
  counted: the code cannot tell the two and would run the action twice. Home
  Assistant's writes are left out, because a heartbeat drops one behind an older
  pending write of the panel (observations); its actions are in both.
* `Registry`: two devices, two credentials, two further changes: one change
  before, one during a worker's write, with saves overlapping it.
* `Footage`: four chunks. In `Footage_upload` two are filed, one of them of
  another stream, and two arrive in one second, one of them damaged: enough for
  a name collision, a join that leaves some chunks out, one that drops damaged
  ones and tries again, with sweeps at any point of them, and no stop. In
  `Footage_join` and `Footage_late` the visit has a clip of two chunks already, a
  third chunk is ready and a fourth arrives, in `Footage_join` in the second the
  clip is named after; the process stops twice (`MaxStops` = 2), so also while the
  next one recovers. When the sweeper takes the clip, the two are a first join,
  so that stops meet joins of both kinds. Chunks are reported once, so
  names and rows are bounded.
* `Upstream`, `Lifecycle`: one device, one set of credentials, one frame on any
  topic; devices share nothing but the supervisor's passes, and the proofs cover
  any number. Two changes of the settings and two troubles give an ending that
  meets another ending. `Sidecar`: one camera, two children (one being killed
  while the next starts), three changes of what the camera does or who watches.
* `Proxy`: two requests (the device gave up on the first), one command, two
  secrets besides the minted one, a breaker that opens after two failures, and
  two incidents, which cover settings, deletion, and the cloud going away. `Redact`:
  four nodes hold every nesting of object, list and text with one marked object
  inside another. `Accessories`: two parents (a move leaves one behind), one
  message in the air, one commander; two out of writes, mishaps and moves, no
  two of a kind except writes.
* `Pets`: two pets and two foreign identities are the fewest in which an identity
  can be claimed twice; one report, since reports do not meet; two photo requests
  for one photo per pet. The interleavings with a second editor are excepted
  (observations).
* `Timeline`: four stories of one day, each a set of reports with the windows
  cleanings and tails are joined by on both sides of their edges; four rows on a
  page and pruning, so that an anchor can be missing.
* `Weighing`: three households with two visits each, with the real thresholds in
  grams: pets that weigh apart, pets that weigh alike with a box of their own,
  and one with earlier visits of which one is odd.
* `Patching`: a binary patch and the camera's, two runs at once, one trouble
  (a lost command, a power cut, a restart) and commands late by two.
* `Feeding`: a week of three days of two seconds of two ticks; meals on the edges of
  a day, of the two days an answer lists, and none at all; questions and edits at
  half seconds. Thirteen ticks reach into the second week. Two changes, one in the
  run that violates one; in that run a polling feeder takes its queue at once.

### Fairness

* `MqttSession`: time passes; the event loop runs the hooks, frames and polls it
  has been given; the watchdog task sweeps (it is a loop with a sleep, and
  catches its errors); a device that holds a session pings it. Nothing is
  assumed of the broker noticing a dead link (keep-alive 0 disables that) or of
  a device polling; `PollingDeviceOffRoute` has polling as its hypothesis.
* `Publisher`: the reconnecting loop, the hooks and the watchdog go on, a broken
  link is noticed and a failed publish raises. That a connection stands again and
  again is the hypothesis of `SilentShownOffline`.
* `SettingsDelivery`: a publish returns or times out (`wait_for`, ten seconds); a
  released lock wakes its first waiter; recovery turns while the bridge is
  connected. Strong fairness of a recovery publish that succeeds says that not
  every frame on a working connection is lost. `ActionsLand` has polling as its
  hypothesis.
* `Footage`: time passes; the stitcher and the sweeper are loops that catch their
  errors, so each takes its next step, and a sweep that was cut short is made
  again for what is still over a cap. Nothing is assumed of devices uploading or
  reporting, or of the tasks of the pipeline.
* `Lifecycle`: tasks that are ready run; a CONNECT is answered, refusals being
  bounded troubles; nothing is assumed of devices signing up again. `Sidecar`: the
  loop goes on and a verdict's time to live passes; that nobody watches a camera
  for ever is the hypothesis of `VerdictCatchesUp`.
* `Proxy`: a request gets on, because DNS and the cloud answer or time out, and the
  breaker's pause ends. That the cloud is up and the device signs up again and
  again are the hypotheses of `SecretSettles`.
* `Accessories`: loops, clocks and deliveries go on, the bridge and the parents come
  back; strong fairness of the poll and of the accessory speaking says that a
  radio asked for ever is granted at some time.

### Findings

1. `devices/registry.py:175`: the worker of `flush()` can put an older snapshot
   over one that `save()` has just written, and nothing is dirty afterwards.
2. `media/stitch.py:425`: late chunks of a visit that has a clip are joined
   again; their files are removed before the insert of the second clip fails on
   its `file_id`, and their rows stay `ready` without files until the next pass
   marks them.
3. `mqtt/upstream.py:316`: `stop()` swallows the cancellation of the supervisor
   together with that of the connection it awaits; the supervisor goes on, and
   whoever awaits it at shutdown waits for ever.
4. `web/api/schedules.py:334`: a one-off feed added or deleted while the feeder is
   on MQTT reaches it with its next question only, which may come too late.

### Observations

What was met while modelling and has no run of its own. The models take the code
as it is, and except these cases by name where a property would meet them.

* Routing. A packet restores `mqtt_connected` but not `online`, and the watchdog
  sweeps only devices that are `online`, so the sweep is no backstop for routes
  (`auth.py:307` says it is). A heartbeat drops a queued Home Assistant setting
  behind an older pending one of the panel (`heartbeat.py:253`). `sounds.py:205`
  delivers without the registry, so its pending write is not saved. `heartbeat.py:247`
  sets `online` before the middleware looks, so `on_device_seen` never fires for a
  device that only polls. A publish that times out but leaves later runs a one-shot
  action twice (`_common.py:138`). A setting the device reports is overwritten by an
  older pending write (`bridge.py:547`). `api_timezone` delivers outside the lock.
* Delivery. `api_send_command` saves and shows a setting (`devices.py:332`) before its
  pending write is on disk (`_common.py:121`), which waits for the lock, and the lock is
  held across a publish of up to ten seconds. A kill meanwhile leaves the setting shown
  after the start and never sent, which the "Durable" of `pending.py:1` does not cover.
  Those settings are `cut`; without that exception both `OwedIsPending` and, with
  restarts, `SettledShowsTruth` fail.
* Publisher. A publish that times out on a healthy link, or the late failure of an
  old connection, leaves publishing off (`publisher.py:303`). When that happens
  during the pass, the devices the pass has still to announce are not put into the
  router's index (`:238`), and yet `start` subscribes and serves (`:169`): after a
  restart the commands of their controls, which Home Assistant retains, are dropped
  until the link itself breaks. They are `skipped`, which `ControlsUnderstood`
  excepts and names. `api_device_delete` looks for the
  publisher and the hub under keys nobody sets, so entities of a deleted device
  stay, and so do those of a deleted pet.
* Reports. "Reset N60" is ignored while the server knows any earlier date
  (`consumables.py:58`). A report over HTTP without its signal block makes the
  signal unknown. `error_over` clears the fault although others remain.
* Cloud. `forward_up` uses the current credentials on a connection opened with
  older ones, and replaced ones are not taken up (`upstream.py:281`, `:417`). A stop
  during the first sleep of a patcher run leaves its file server running. A change
  of the DNS setting closes the session under requests in flight.
* go2rtc. Who watches is asked once per sweep (`go2rtc.py:285`), but the sweep then
  probes one camera after the other: a viewer who comes meanwhile has the device's one
  connection when its probe is due, the probe fails, and the child is restarted
  without that camera, which ends the viewing. "A device being watched right now is
  skipped" is true of the moment of the question only.
* Accessories. The power and suspend fields that a choice of mode sends are not
  remembered. Two concurrent writes restate each other's block stale. Moving an
  accessory does not unlink its old parent.
* Events. A repeated visit report moves the visit in time, detaches cleanings
  near it, and erases the settled weight merged since (`store.py:312`, although
  `store.py:376` says ingest is one-time). Category-blind code sets let one
  device's code count as another's.
* Pets. A report resolved before and stored after a binding stays with nobody. Two
  tabs that bind one identity, or an alias that is another pet's own id, leave it
  with both.
* Weights. Insights and the Timeline train on different ranges, so grades may
  differ, though not the pet (`RecordsProofs`). A visit of which only a step was
  recognised has its pet on the Timeline (`sessions.py:287`) and a guess by weight in
  Insights (`metrics.py:113`), which may be another pet if the weight is not its own
  pet's. Two odd weights of five can turn a grade.
* Patchers. The file of a binary patch is dropped after a fixed sleep
  (`patchers.py:287`). "So the device never boots with a wrapper that references files
  that no longer exist" (`patchers.py:441-443`): power cut between the `rm` and the
  `wget` of that one command boots it into the old wrapper, which names what is gone;
  so does a fetch of the wrapper that finds it dropped. A removal left on the
  heartbeat's queue is executed after a later apply.
* Feeding. An editor opened before a one-off feed was added drops it on saving.
  `api_save_schedule` says it does not push, and pushes. A meal list that was not
  published waits on the heartbeat's queue with the countdowns it was made with
  (`_common.py:140`), so the feeder is late by the time it waited. A schedule the
  feeder reports replaces an edit it has not been told of (`bridge.py:562`). Asked
  over MQTT, `dev_feed_get` is answered with the stored schedule, without the list
  and the countdowns that HTTP computes (`bridge.py:665`).
* Footage. Two losses are excepted by name: a stop or failed move between the
  removal of sources and the recording of the clip, and a name overwritten.

## 5. Proofs

Everything below is proved for any devices, sessions, settings, values,
requests, frames, bodies, cameras, chunks, pets and weights, from the named assumptions on the
constants only.

* `HomeProofs`, of `MqttSession`: `TypeCorrect`, then the invariant `SessionInv`: for each device, the
  session it holds is its own, `_live_sessions` names that session or nothing,
  names it while the session is held, and a route has an entry.
  `LiveIsHeld` alone is not inductive: the disconnect hook works from the owner
  of a session and a packet from the entry, so both ends of the agreement are
  needed. `LiveSessionsCorrect`, `RoutedThroughSession` and `RaisedByCurrent`
  follow, and with `TypeCorrect` and `TimeAssumption` (the grace is no longer
  than the window) `HealthyKept`, an action property.
  Of `Publisher`: `EveryControlUnderstood`. From a connect on, a
  device whose entities Home Assistant has is in the router's index or was skipped,
  or its discovery is the next thing its own hook publishes, or is left in the pass
  (`Covered`). The pass covers the registry as it was at the connect; a device that
  signs up meanwhile has its hook; and nothing is announced with the flag down.
  Of `Reported`: `ShownAsSaid`, from lemmas that say what each form of message
  makes of each field, and that every field a model reports is read by the parser
  both transports use; `DatesKept`, with the invariant that the record holds the
  date that is echoed, or none does.
* `SettingsDeliveryProofs`, in seven parts:
  - `Sift` returns what a list comprehension with a condition does (`SiftFacts`: the
    kept elements, all of them, in their order; `SiftCount`: each as often). There is
    no recursion to induct over: the position of the i-th kept element is the one
    with i kept positions up to it, and that ranking is a bijection (`RankFacts`).
  - `ControlHolds`: the types, whoever publishes holds the lock (`HolderPublishes`),
    a request that waits or publishes has its command with it and nobody else has
    one (`JobsOK`), and those that wait stand in line once (`LineOK`). The
    other parts rest on it.
  - `OnlyLatest`, the refinement of `LatestValue`, without a proviso. `AllLatest` says
    that whatever can still carry a setting carries the value last wanted: the pending
    write, in memory and on disk, every queued write, and the publish in flight. A
    failed publish may queue its value again because the lock kept the value from
    changing meanwhile; a request that waits need not be the latest, and is not
    said to be. `LatestMoves` then shows that each step only makes values wanted
    (`D`) and hands some over (`S`), which is a step of `LatestValue` (`MovesStep`).
  - `Kept`: what is owed is pending, in memory and on disk (the settings of
    `sounds.py:205`, `BareKeys`, excepted). A publish that succeeds drops pending
    writes, so the invariant has to say that those are paid: a frame that left paid
    its debts (`SentIsNotOwed`), and a request that carries other settings saves what
    it changes (`SettingsSave`).
  - `SettledTruth` and `OwedStaysPending`, without a proviso, from `Kept` and three more
    facts: `DebtOK` (what is owed is pending, what is not was handed over, a frame that
    left owes nothing), `ShownOnDisk` (the file shows what memory does) and `LineOrder`:
    of the requests that wait, the last in line that carries a setting wrote what the
    panel shows; with none, what is shown is what is wanted, or the setting is in
    `cut`. That is where the FIFO of the lock matters, and `LineCut` is where a kill
    empties the line: every setting that somebody carried there goes into `cut`.
  - `ActionNeverLost` under `NoRestarts` and `ActionNeverDoubled` under `NoLateFailures`,
    from one lemma (`PlacesStep`) that says what each step does to the number of
    places an action is in; together they give `ActionPlaced`. The two provisos are
    where the code really loses and doubles: `command_queue` is memory only, and
    a publish that times out after its frame left is queued again.
* `RegistryProofs`: `TypeCorrect`, `SignupsKept`, `Coverage`, `NothingIsForgotten` and
  `CleanRestarts`, with saves and the worker writing at once; the one exception is in
  the properties, by name (`undone`, `late`: finding 1). For the signups the
  invariant says that a promised credential that was not taken back is in memory and
  in the file, that the loop writes what memory holds, and that the worker's snapshot
  has memory's credentials until a `save()` begins (`WorkerWritesCreds`). For the other
  two it says that whatever the file lacks is owed by somebody (`Covered`: the dirty
  flag, a writer on its way, or the worker's outcome that `flush()` has still to
  read), that a worker whose snapshot lags has `_dirty` set behind it or is late
  (`WorkerLagsDirty`), and that nothing is dirty after `stop()` unless its save failed
  (`StopSaves`).
* `FootageProofs`: `ShownStayListed` and `OneWriter`, whatever ffmpeg, the disk
  and stops do. For the first the invariant adds that what the sweeper is about
  to delete rows of has expired, and that the clip's row is there as long as the
  sweeper means to delete it, since a row is deleted long after it was chosen. For
  the second it adds that a name held by a task is the name of a file: that is
  why nobody can reserve it, and why unlinking is what endangers it.
  - Two more rest on `Settled`, which holds whatever is upset: a chunk whose row is
    ready, or in the stitcher's snapshot, or in the clip, is one whose task writes
    no more (`Done`), and a row the stitcher holds a copy of has not changed unless
    it expired. That is why a snapshot taken before a join of minutes can be used after it.
  - `FilesStep` says that without an upset every step but `RemoveSources` leaves the
    footage of each file in place or it has expired; `SourcesStep`, that the
    removal takes the footage of what is joined and no other.
  - `FootageStays` (`upset \subseteq {"rejoin"}`): until the sources go, what the stitcher's file
    shows is still in the folder (`WorkIsCopy`); when they go it shows what they
    did (`SourcesCopied`, kept by chunks that still write, since those are not in
    the join); once moved, it is empty.
  - `ReadyRowsPlay` (`upset = {}`): a written file shows its chunk until the row names it,
    the join shows all it replaces, and the clip's name keeps showing it until the
    swap (`AllPlay`).
* `LifecycleProofs`: `ConnectionsOwned`, `ClosesLast` and `NeverGoesRound`, of the
  composition of `Upstream` and the shutdown. The first needs that a supervisor in
  `stop()` has cancelled what it dropped from its dict; the second, from which
  phase on each kind of writer is gone for good; the third says, by who published a
  frame first, in which of the three places copies of it can be.
  Of `Sidecar`: `NoStrayChild` and `OffersOnlyWhatAnswered`. No child is alive while the
  task waits for one to be reaped, written for or spawned; the plan it carries
  through those waits is the verdicts of now, since verdicts change in a sweep only;
  and a cancellation at any of them finds nothing running or kills what is
  (`ChildInv`). `GoOnKeeps` is `reconcile()` entered with the child of the last sweep
  and the verdicts of this one. `ChildInv` is inductive as it stands, so the
  theorems need no fairness.
* `ProxyProofs`: `EveryAnswerRight`. A request that waits for DNS, the cloud or the
  database carries no command (`EmptyHanded`): what takes commands off the queue
  answers without an await. Then each command is queued, or in one answer, or
  deleted with its device (`Accounted`). What goes out carries whether the reply it
  was made from could be used, ours or the cloud's, so that a refusal would show.
  Of `Redact`: `EveryBodyRedacted`, for bodies of any size and nesting. The walks are
  recursive functions over the nodes, and children come after their parent, so what
  holds of all nodes is proved of the least, or greatest, node it fails for
  (`ByRank`), and that each function satisfies its own equation follows the same way
  (`RecursionThere`).
  - What the walker drops, decided from the leaves up, is what goes with a struck object,
    decided from that object down to the root (`StruckIsGone`): if a node is
    dropped for a child's sake, the way from the struck object leads through that child
    (`ChildBetween`), and every node on it is one that does not outlive a child.
  - What is left is closed under parents (`OutsideSays`), so the answer is a tree again
    (`RedactedTree`); no rule strikes anything in it (`CleanStays`), which is why a second
    redaction changes nothing.
  - `RedactAssumption`: a body may have two nodes, as the empty answer has.
  Of `Accessories`: `ReflectionIsTrue`. Where the frames under way lead is the block of the
  last of them, or what is held when there is none (`Settles`). A command that is
  alone built its block from what the server knew, changed in the one field it will
  reflect (`Alone`), and from its frame on that is where the accessory is led; a
  reading counts unless the block has changed since it was taken (`Current`).
  The first two observations under Accessories in section 4 are among what `clear`
  leaves out.
* `PatchingProofs`: `PanelShowsPatches` and `BootsWithItsFiles`. Both speak of the
  commands still on their way, the inbox before the queue: which of a kind is the
  last (`Latest`), and that none of one kind comes behind one of another (`Never`).
  - For the first, the last command about the wrapper fetches what is staged, and
    what is staged is the active set (`WrapperFollows`); the last command about a
    file that a run claims or the panel shows fetches it, and it is staged
    (`FileFollows`). With nothing left on the way, that is the property.
  - For the second, a file the wrapper names, on the device or as staged, is there
    and no removal of it comes before a wrapper without it (`Safe`). A `remove`
    deletes and then fetches, so between its halves the wrapper may name what is gone
    (`HalfRemoved`): that is the one state in which a power cut breaks the promise,
    and `missing` then names that file and no other.  Each loss costs only the files
    its commands were for, so the invariant is carried through every loss for the
    rest (`LossKeeps`, `SendBoots`).
  - The proof found the bookkeeping of an earlier `Patching` too optimistic. It cleared
    `doubt` of a file when the command that fetches it was sent, although an older
    wrapper on its way may name the file before it is fetched; with three troubles,
    TLC shows a boot without the file. `missing` is what the promise needs.
* `RecordsProofs`, of `Pets`: `PhotosThere`. A row gets its file's name once, by the request that
  wrote the file: the invariant says that a request about to name a file has it on
  disk, that no two hold one id, that nobody deletes a file before its row names
  it, and that a row whose file is gone has its deletion under way.
  `HistoryFollows`: outside the identities an edit has yet to move (`UnderEdit`)
  each identity is known as one pet at most, and a stored row is that pet's or a
  deleted one's. The invariant needs what the editing request relies on between its
  statements: what it removed is nobody's, what it wants is its pet's as long as
  there is one, and every other pet that claims what it is about to bind is on its
  list. It rests on the bound of one editing request at a time.
  Of `Weighing`: `WeightsServe`, the four parts of `WeighedRight`. Which pet is
  guessed depends only on the weights entered and the boxes of the household, the
  history behind a profile decides the grade (`OneStory`, `NeverAnothersVisit`);
  that a settled weight lies near the visit it was put on is the invariant behind
  `NeverAnothersWeight`. `OddWeightForgiven` is about medians: a band is an interval
  (`BandConvex`), so of values of which one is outside it only the first or the last
  in order can be that one (`NthInBand`); the middle of three or more is neither,
  and what trimming leaves is three or more. It needs the sample the code asks for
  to have three visits or more (`WeighingAssumption`; `MIN_CORROBORATING_SAMPLES`
  is 5), whatever the band and the trimming thresholds are.
  Of `Timeline`: `CardsAlwaysRight`, the three parts of `CardsRight`, from `RowsInv` (each
  row is a report of the story, no two rows have one id). Most of it is about `Grouped`, not about steps:
  - Each pass puts rows that are on no card under a row that heads one and keeps the
    cards before it (`Carded`, `Extends`), so where the first pass that claims a
    follow-up puts it is where it stays (`FollowsEpisode`, `SummaryHeads`). `Joined`
    says which of two passes has the say, as `used_ids` does in the code.
  - On a card an episode has one line that carries its media, and that is a line
    of the episode (`LinesCarried`, `ShownOnce`).
  - Two pages of the same rows differ by a permutation (`Moved`), and each pass
    commutes with it (`SameCards`), as long as no choice is left to the order: no
    two rows of one moment, no two cards equally near (`Undecided`). A sorted page lists each
    row once, since the rows before a row are as many as its place (`Ranked`).
  - `TimelineAssumption` is what the grouping takes for granted of a device: an
    episode is one device's and is a visit or something else, and its rows name
    one parent, so that "one member establishes it for the whole episode"
    (`_episode_parents`). With two parents for one episode its card would depend
    on the order of the rows, since the first row to name one has the say. TLC
    checks the assumption of the stories it runs.
  Of `Feeding`: `MealsAsStored`, where `untold` is false: each entry of the feeder's
  list is a stored feed at most a second early (`ListedRight`, by `CountdownShort`),
  and each stored feed up to the time it asks again is listed or dispensed
  (`InTime`): the last feed of a list lies before its cut-off, and a feeder with an
  empty list asks within the two days the list covers (`CutoffFar`).

Model-checked only: the liveness properties (`RouteRestored`, `PollingDeviceOffRoute`,
`SilentShownOffline`, `RecoveryDelivers`, `WaitersServed`, `ActionsLand`, `Converges`,
`SweepsFinish`, `BridgeFollowsSettings`, `VerdictCatchesUp`, `SecretSettles`,
`KnowledgeCatchesUp`). They rest on fairness, that is on ENABLED, which the
provers do not reason about. Every invariant and every action property the passing
runs check is also a theorem.

## 6. Not modelled

The components marked `not_modelled` in `PROJECT.json`, with the reason for each:
the embedded broker is third-party code and the environment of `MqttSession`;
configuration, entity descriptions and the front end keep no state others rely
on; the hub registers a subscriber and replays to it without an await in between
and drops events for a full queue on purpose; the DNS helper is a cache of
addresses.

Within the modelled ones: the list of subscriptions, strict-mode rejection and
CONNECTs out of order (`MqttSession`); `api_timezone`, settings a device reports
by itself, errors while saving and the raw form of a panel command
(`SettingsDelivery`, which also lets the route change freely instead of asking
`MqttSession`); migrations, encoding errors and changes after `stop()`
(`Registry`); visits and categories besides each other, photos, labels and pet
names in file names, repeated reports, the sweep of an upload that a task has
read but not finished with, and the temporary files of ffmpeg (`Footage`, which
also takes `skipped`, `missing` and `error` for one status); the file of cloud
credentials and of captured frames (`Upstream`); the accessories' entities and
the content of documents (`Publisher`); unit conversions, totals of feeds and the
models whose reports are flat (`Reported`); the byte layouts of BLE frames
(`Accessories`); texts, durations and totals (`Timeline`); species and portraits
(`Pets`); what is patched, SSH and the certificate patcher (`Patching`).
