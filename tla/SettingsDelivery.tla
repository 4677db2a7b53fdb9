-------------------------- MODULE SettingsDelivery --------------------------
(***************************************************************************)
(* How a setting or an action reaches one device.                          *)
(*                                                                         *)
(* Panel requests and the bridge's recovery loop take                      *)
(* settings_delivery_lock and hold it across the MQTT publish; Home        *)
(* Assistant commands and heartbeats do not take it.  Settings written in  *)
(* the panel are kept in config["pending_settings"] until a transport has  *)
(* accepted them (devices/pending.py), so they outlive a failed publish    *)
(* and, through the registry file, a restart.  command_queue is memory     *)
(* only and is drained by the next heartbeat.                              *)
(*                                                                         *)
(* One asyncio loop runs all of it: an action here is the code between two *)
(* awaits.  The awaits that suspend are the lock, when it is contended,    *)
(* and the publish.                                                        *)
(*                                                                         *)
(* `told', `want', `owed', `runs', `asked' and `cut' are history           *)
(* variables: what the device was last handed per setting, what the panel  *)
(* last asked for, the settings not handed over since they were asked for, *)
(* how often each action was handed over, the actions asked for, and the   *)
(* settings whose request a kill cut short after it had saved what it      *)
(* shows and before it had remembered the write, until another request     *)
(* remembers one.  A frame that publish() accepted counts as handed over;  *)
(* nothing in this code hears whether the device got it.                   *)
(*                                                                         *)
(* Limits: the routing flag changes freely here (MqttSession says when);   *)
(* the debounced writer is one atomic Flush (Registry has its detail);     *)
(* an OSError while saving, the raw {suffix, payload} form of a panel      *)
(* request, api_timezone and settings a device reports by itself are left  *)
(* out; a frame leaves when it is published or not at all; a shutdown is a *)
(* kill.                                                                   *)
(***************************************************************************)
EXTENDS Naturals, Sequences, FiniteSets

CONSTANTS
    Keys, Values,    \* settings the device knows, and their values
    Actions,         \* one-shot commands; each is asked for at most once
    Panels,          \* panel requests that can be in progress at once
    Recovery,        \* the bridge's _recover_settings task
    Nobody,          \* nobody holds the lock
    Transports,      \* what a panel request may ask: auto, mqtt, heartbeat
    PanelWrites,     \* settings writes the panel makes, with their registry
    BareWrites,      \* those of api_sounds_select, which passes no registry
    HAWrites,        \* settings writes of Home Assistant
    HAActions,       \* the actions Home Assistant may ask for
    MaxQueue,        \* bound: no command is accepted beyond this queue length
    LateFailures,    \* whether a publish may fail after its frame has left
    Restarts         \* whether the process may be killed

Procs == Panels \cup {Recovery}

Assignments == UNION {[S -> Values] : S \in SUBSET Keys}
Empty == [k \in {} |-> 0]

ASSUME ProcAssumption == Recovery \notin Panels /\ Nobody \notin Procs
ASSUME PanelsAssumption == IsFiniteSet(Panels)
ASSUME WriteAssumption ==
    /\ PanelWrites \subseteq Assignments \ {Empty}
    /\ BareWrites \subseteq Assignments \ {Empty}
    /\ HAWrites \subseteq Assignments \ {Empty}
    /\ HAActions \subseteq Actions

VARIABLES
    settings,        \* config["settings"]: what panel and Home Assistant show
    pending,         \* config["pending_settings"]
    queue,           \* command_queue
    disk,            \* settings and pending as devices.json has them
    dirty,           \* the registry's _dirty
    lock,            \* settings_delivery_lock: its holder
    waiters,         \* and the FIFO of those awaiting it
    phase, job,      \* per request and for the recovery loop
    left,            \* whether the frame being published has left
    haPhase, haJob, haLeft,   \* the HA consumer, which is one sequential task
    client,          \* whether MQTTBridge._client is set
    mqtt_connected,
    told, want, owed, runs, asked, cut

memory   == <<settings, pending, queue>>
stored   == <<disk, dirty>>
locking  == <<lock, waiters, phase, job, left>>
ha       == <<haPhase, haJob, haLeft>>
link     == <<client, mqtt_connected>>
history  == <<told, want, owed, runs, asked, cut>>
vars     == <<memory, stored, locking, ha, link, history>>
-----------------------------------------------------------------------------
(* Assignments of values to some of the settings, as Python dicts.         *)

Override(f, g) ==   \* f.update(g)
    [k \in DOMAIN f \cup DOMAIN g |-> IF k \in DOMAIN g THEN g[k] ELSE f[k]]

Without(f, S) == [k \in DOMAIN f \ S |-> f[k]]

Set(params) == [kind |-> "set", params |-> params]
Act(a) == [kind |-> "action", name |-> a]
Commands == {Set(f) : f \in Assignments \ {Empty}} \cup {Act(a) : a \in Actions}

IsSet(cmd) == cmd.kind = "set"
Params(cmd) == IF IsSet(cmd) THEN cmd.params ELSE Empty

(* A list comprehension with a condition: the elements of q at the         *)
(* positions of S, in their order.                                         *)
Nth(S, i) == CHOOSE j \in S : Cardinality({n \in S : n <= j}) = i
Sift(q, S) == [i \in 1..Cardinality(S) |-> q[Nth(S, i)]]

(* pending.py: remember drops the rewritten settings from queued writes    *)
(* and a write that is left with none; completed drops the queued writes   *)
(* that are wholly contained in what was sent.                             *)
(* Faulty variant: a rewritten setting stays in the queue.                 *)
QueueAfterRememberKeepsOld(q, params) == q

QueueAfterRemember(q, params) ==
    LET strip(c) == IF IsSet(c) THEN Set(Without(c.params, DOMAIN params)) ELSE c
        stripped == [i \in DOMAIN q |-> strip(q[i])]
    IN  Sift(stripped, {i \in DOMAIN q : ~IsSet(stripped[i]) \/ stripped[i].params # Empty})

(* Something in a write is missing from what was sent, or sent otherwise.  *)
Unsent(f, sent) == \E k \in DOMAIN f : k \notin DOMAIN sent \/ sent[k] # f[k]

(* Faulty variant: actions are discarded along with matching writes.       *)
QueueAfterCompletedAny(q, sent) ==
    Sift(q, {i \in DOMAIN q : Unsent(Params(q[i]), sent)})

QueueAfterCompleted(q, sent) ==
    Sift(q, {i \in DOMAIN q :
               ~IsSet(q[i]) \/ q[i].params = Empty \/ Unsent(q[i].params, sent)})

PendingAfterCompleted(pend, sent) ==
    Without(pend, {k \in DOMAIN pend \cap DOMAIN sent : pend[k] = sent[k]})

(* What the history records when a transport accepts a command, or not.    *)
HandOver(cmd, wanted, owing) ==
    LET params == Params(cmd)
    IN  /\ told' = Override(told, params)
        /\ owed' = owing \ {k \in DOMAIN params : params[k] = wanted[k]}
        /\ runs' = IF IsSet(cmd) THEN runs ELSE [runs EXCEPT ![cmd.name] = @ + 1]

Hold(owing) == owed' = owing /\ UNCHANGED <<told, runs>>

HandOverIf(gone, cmd, wanted, owing) ==
    IF gone THEN HandOver(cmd, wanted, owing) ELSE Hold(owing)

AskedFor(cmd) == IF IsSet(cmd) THEN {} ELSE {cmd.name}

(* registry.save(): what memory holds after this step is on disk.          *)
Saved == disk' = [settings |-> settings', pending |-> pending'] /\ dirty' = FALSE

NoJob == <<Set(Empty), FALSE>>
-----------------------------------------------------------------------------
Init ==
    /\ settings \in [Keys -> Values] /\ told = settings /\ want = settings
    /\ pending = Empty /\ queue = <<>>
    /\ disk = [settings |-> settings, pending |-> Empty] /\ dirty = FALSE
    /\ lock = Nobody /\ waiters = <<>>
    /\ phase = [p \in Procs |-> "idle"] /\ job = [p \in Procs |-> NoJob]
    /\ left = [p \in Procs |-> FALSE]
    /\ haPhase = "idle" /\ haJob = Set(Empty) /\ haLeft = FALSE
    /\ client = FALSE /\ mqtt_connected = FALSE
    /\ owed = {} /\ runs = [a \in Actions |-> 0] /\ asked = {} /\ cut = {}

(* asyncio.Lock: free only when nobody holds it and nobody waits for it.   *)
(* A release wakes the first waiter, and newcomers queue behind it.        *)
LockFree == lock = Nobody /\ waiters = <<>>
NextWaiter(p) == lock = Nobody /\ waiters # <<>> /\ p = Head(waiters)

Publishing(p, j, gone) ==
    /\ lock' = p
    /\ phase' = [phase EXCEPT ![p] = "publishing"]
    /\ job' = [job EXCEPT ![p] = j]
    /\ left' = [left EXCEPT ![p] = gone]

Release(p) ==
    /\ lock' = Nobody
    /\ phase' = [phase EXCEPT ![p] = "idle"]
    /\ job' = [job EXCEPT ![p] = NoJob]
    /\ left' = [left EXCEPT ![p] = FALSE]

ByMqtt(transport) ==
    client /\ (transport = "mqtt" \/ (transport = "auto" /\ mqtt_connected))

(* _deliver_locked up to the publish, or to its end when the command goes  *)
(* to the heartbeat queue.  `stored' is the caller's.                      *)
DeliverLocked(p, j, transport) ==
    LET cmd    == j[1]
        params == Params(cmd)
        rest   == QueueAfterRemember(queue, params)
        wanted == Override(want, params)
        owing  == owed \cup DOMAIN params
    IN  /\ pending' = Override(pending, params)
        /\ want' = wanted /\ cut' = cut \ DOMAIN params
        /\ IF ByMqtt(transport)
             THEN \E gone \in BOOLEAN :
                    /\ queue' = rest
                    /\ Publishing(p, j, gone)
                    /\ HandOverIf(gone, cmd, wanted, owing)
             ELSE /\ queue' = Append(rest, cmd)
                  /\ Release(p)
                  /\ Hold(owing)

PanelJobs ==
    {<<Set(f), TRUE>> : f \in PanelWrites} \cup {<<Set(f), FALSE>> : f \in BareWrites}
        \cup {<<Act(a), TRUE>> : a \in Actions \ asked}

(* A panel request: the setting is applied and saved, then _deliver.  With *)
(* the lock free that remembers the write and saves again without an await *)
(* in between, and disk has what the second save leaves                    *)
(* (KilledBetweenSaves: what the first leaves); with the lock taken, the   *)
(* request waits with only its setting on disk.                            *)
PanelRequest(p) ==
    /\ phase[p] = "idle" /\ Len(queue) < MaxQueue
    /\ \E j \in PanelJobs, transport \in Transports :
         /\ settings' = Override(settings, Params(j[1]))
         /\ asked' = asked \cup AskedFor(j[1])
         /\ IF LockFree
              THEN DeliverLocked(p, j, transport) /\ UNCHANGED waiters
              ELSE /\ waiters' = Append(waiters, p)
                   /\ phase' = [phase EXCEPT ![p] = "waiting"]
                   /\ job' = [job EXCEPT ![p] = j]
                   /\ UNCHANGED <<pending, queue, lock, left, told, want, owed, runs, cut>>
         /\ IF j[2] THEN Saved ELSE UNCHANGED stored
    /\ UNCHANGED <<ha, link>>

(* Faulty variant: the remembered write is not saved.                      *)
PanelGetsLockUnsaved(p) ==
    /\ NextWaiter(p) /\ p \in Panels
    /\ waiters' = Tail(waiters)
    /\ \E transport \in Transports : DeliverLocked(p, job[p], transport)
    /\ UNCHANGED <<settings, stored, ha, link, asked>>

PanelGetsLock(p) ==
    /\ NextWaiter(p) /\ p \in Panels
    /\ waiters' = Tail(waiters)
    /\ \E transport \in Transports : DeliverLocked(p, job[p], transport)
    /\ UNCHANGED <<settings, ha, link, asked>>
    /\ IF job[p][2] /\ IsSet(job[p][1]) THEN Saved ELSE UNCHANGED stored

(* The publish returned: the write is no longer pending.                   *)
Complete(p) ==
    LET sent == Params(job[p][1])
    IN  /\ pending' = PendingAfterCompleted(pending, sent)
        /\ queue' = QueueAfterCompleted(queue, sent)
        /\ UNCHANGED settings
        /\ IF job[p][2] /\ IsSet(job[p][1]) THEN Saved ELSE UNCHANGED stored

PublishReturns(p) ==
    /\ phase[p] = "publishing" /\ left[p]
    /\ Complete(p)
    /\ Release(p)
    /\ UNCHANGED <<waiters, ha, link, history>>

(* Faulty variant: the lock is not released when the publish raises.       *)
PublishRaisesHoldingLock(p) ==
    /\ phase[p] = "publishing" /\ (~left[p] \/ LateFailures)
    /\ queue' = IF p = Recovery THEN queue ELSE Append(queue, job[p][1])
    /\ phase' = [phase EXCEPT ![p] = "idle"]
    /\ job' = [job EXCEPT ![p] = NoJob] /\ left' = [left EXCEPT ![p] = FALSE]
    /\ UNCHANGED <<settings, pending, stored, waiters, lock, ha, link, history>>

(* The publish raised.  A panel request falls back to the heartbeat queue; *)
(* the recovery loop leaves the write pending.                             *)
PublishRaises(p) ==
    /\ phase[p] = "publishing" /\ (~left[p] \/ LateFailures)
    /\ queue' = IF p = Recovery THEN queue ELSE Append(queue, job[p][1])
    /\ Release(p)
    /\ UNCHANGED <<settings, pending, stored, waiters, ha, link, history>>

(* Faulty variant: recovery leaves a device alone while its queue holds    *)
(* commands, for the next heartbeat to deliver.                            *)
RecoveryPublishesIfQuiet(gone) ==
    /\ pending # Empty /\ mqtt_connected /\ queue = <<>>
    /\ Publishing(Recovery, <<Set(pending), TRUE>>, gone)
    /\ HandOverIf(gone, Set(pending), want, owed)

RecoveryPublishes(gone) ==
    /\ pending # Empty /\ mqtt_connected
    /\ Publishing(Recovery, <<Set(pending), TRUE>>, gone)
    /\ HandOverIf(gone, Set(pending), want, owed)

(* One turn of _recover_settings, which runs while the bridge is connected.*)
RecoveryTurn(gone) ==
    /\ client /\ phase[Recovery] = "idle" /\ LockFree
    /\ RecoveryPublishes(gone)
    /\ UNCHANGED <<memory, stored, waiters, ha, link, want, asked, cut>>

RecoveryWaits ==
    /\ client /\ phase[Recovery] = "idle" /\ ~LockFree
    /\ waiters' = Append(waiters, Recovery)
    /\ phase' = [phase EXCEPT ![Recovery] = "waiting"]
    /\ UNCHANGED <<memory, stored, lock, job, left, ha, link, history>>

RecoveryGetsLock(gone) ==
    /\ NextWaiter(Recovery)
    /\ waiters' = Tail(waiters)
    /\ \/ RecoveryPublishes(gone)
       \/ /\ pending = Empty \/ ~mqtt_connected
          /\ Release(Recovery)
          /\ Hold(owed)
    /\ UNCHANGED <<memory, stored, ha, link, want, asked, cut>>

BridgeConnects ==
    /\ ~client /\ client' = TRUE
    /\ UNCHANGED <<memory, stored, locking, ha, mqtt_connected, history>>

(* The bridge lost the broker: recovery is cancelled, holding the lock or  *)
(* waiting for it, and _client is cleared.                                 *)
BridgeDisconnects ==
    /\ client /\ client' = FALSE
    /\ waiters' = Sift(waiters, {i \in DOMAIN waiters : waiters[i] # Recovery})
    /\ lock' = IF lock = Recovery THEN Nobody ELSE lock
    /\ phase' = [phase EXCEPT ![Recovery] = "idle"]
    /\ job' = [job EXCEPT ![Recovery] = NoJob]
    /\ left' = [left EXCEPT ![Recovery] = FALSE]
    /\ UNCHANGED <<memory, stored, ha, mqtt_connected, history>>

RoutingChanges ==
    /\ mqtt_connected' = ~mqtt_connected
    /\ UNCHANGED <<memory, stored, locking, ha, client, history>>

(* handle_heartbeat: the queue, without the writes that pending covers and *)
(* with one write of everything pending at its end, is handed over.        *)
CarriersOf(q, k) == {i \in DOMAIN q : k \in DOMAIN Params(q[i])}
LastOf(S) == CHOOSE i \in S : \A n \in S : n <= i

Covered(cmd) == IsSet(cmd) /\ DOMAIN cmd.params \subseteq DOMAIN pending
KeptFor(k) == {i \in CarriersOf(queue, k) : ~Covered(queue[i])}

Heartbeat ==
    /\ queue # <<>> \/ pending # Empty
    /\ queue' = <<>>
    /\ pending' = Empty
    /\ dirty' = (dirty \/ pending # Empty \/ \E i \in DOMAIN queue : IsSet(queue[i]))
    /\ told' = [k \in Keys |->
                  IF k \in DOMAIN pending THEN pending[k]
                  ELSE IF KeptFor(k) # {} THEN queue[LastOf(KeptFor(k))].params[k]
                  ELSE told[k]]
    /\ owed' = {k \in owed :
                  /\ k \in DOMAIN pending => pending[k] # want[k]
                  /\ \A i \in KeptFor(k) : queue[i].params[k] # want[k]}
    /\ runs' = [a \in Actions |->
                  runs[a] + Cardinality({i \in DOMAIN queue : queue[i] = Act(a)})]
    /\ UNCHANGED <<settings, disk, locking, ha, link, want, asked, cut>>

(* handle_command of the Home Assistant side, up to its publish.           *)
HACommand ==
    /\ haPhase = "idle" /\ Len(queue) < MaxQueue
    /\ \E cmd \in {Set(f) : f \in HAWrites} \cup {Act(a) : a \in HAActions \ asked} :
         /\ settings' = Override(settings, Params(cmd))
         /\ asked' = asked \cup AskedFor(cmd)
         /\ IF mqtt_connected /\ client
              THEN \E gone \in BOOLEAN :
                     /\ haPhase' = "publishing" /\ haJob' = cmd /\ haLeft' = gone
                     /\ HandOverIf(gone, cmd, want, owed)
                     /\ UNCHANGED <<queue, dirty>>
              ELSE /\ queue' = Append(queue, cmd)
                   /\ dirty' = TRUE
                   /\ Hold(owed)
                   /\ UNCHANGED ha
    /\ UNCHANGED <<pending, disk, locking, link, want, cut>>

(* Faulty variant: a command whose publish failed is dropped.              *)
HAPublishEndsDropping ==
    /\ haPhase = "publishing"
    /\ dirty' = TRUE
    /\ haPhase' = "idle" /\ haJob' = Set(Empty) /\ haLeft' = FALSE
    /\ UNCHANGED <<settings, pending, queue, disk, locking, link, history>>

HAPublishEnds ==
    /\ haPhase = "publishing"
    /\ \/ haLeft /\ UNCHANGED queue
       \/ (~haLeft \/ LateFailures) /\ queue' = Append(queue, haJob)
    /\ dirty' = TRUE
    /\ haPhase' = "idle" /\ haJob' = Set(Empty) /\ haLeft' = FALSE
    /\ UNCHANGED <<settings, pending, disk, locking, link, history>>

(* The registry's debounced writer.                                        *)
Flush ==
    /\ dirty
    /\ UNCHANGED <<memory, locking, ha, link, history>>
    /\ Saved

(* The process is killed and starts again from `saved'; `lost' are the     *)
(* settings that are shown there and whose requests remembered nothing.    *)
StartsFrom(saved, lost) ==
    /\ Restarts
    /\ disk' = saved /\ dirty' = FALSE
    /\ settings' = saved.settings /\ pending' = saved.pending /\ queue' = <<>>
    /\ lock' = Nobody /\ waiters' = <<>>
    /\ phase' = [p \in Procs |-> "idle"] /\ job' = [p \in Procs |-> NoJob]
    /\ left' = [p \in Procs |-> FALSE]
    /\ haPhase' = "idle" /\ haJob' = Set(Empty) /\ haLeft' = FALSE
    /\ client' = FALSE /\ mqtt_connected' = FALSE
    /\ cut' = cut \cup lost
    /\ UNCHANGED <<told, want, owed, runs, asked>>

(* The settings of the requests that wait for the lock.                    *)
Unremembered ==
    UNION {DOMAIN Params(job[p][1]) : p \in {q \in Panels : phase[q] = "waiting"}}

Restart == StartsFrom(disk, Unremembered)

(* The kill falls between the two saves of a request that finds the lock   *)
(* free.                                                                   *)
KilledBetweenSaves ==
    /\ LockFree
    /\ \E p \in Panels, f \in PanelWrites :
         /\ phase[p] = "idle"
         /\ StartsFrom([settings |-> Override(settings, f), pending |-> pending], DOMAIN f)

Next ==
    \/ \E p \in Panels : PanelRequest(p) \/ PanelGetsLock(p)
    \/ \E p \in Procs : PublishReturns(p) \/ PublishRaises(p)
    \/ \E gone \in BOOLEAN : RecoveryTurn(gone) \/ RecoveryGetsLock(gone)
    \/ RecoveryWaits
    \/ BridgeConnects \/ BridgeDisconnects \/ RoutingChanges
    \/ Heartbeat
    \/ HACommand \/ HAPublishEnds
    \/ Flush \/ Restart \/ KilledBetweenSaves

Spec == Init /\ [][Next]_vars
-----------------------------------------------------------------------------
TypeOK ==
    /\ settings \in [Keys -> Values]
    /\ pending \in Assignments
    /\ queue \in Seq(Commands)
    /\ disk \in [settings : [Keys -> Values], pending : Assignments]
    /\ dirty \in BOOLEAN
    /\ lock \in Procs \cup {Nobody}
    /\ waiters \in Seq(Procs)
    /\ phase \in [Procs -> {"idle", "waiting", "publishing"}]
    /\ job \in [Procs -> (Commands \cup {Set(Empty)}) \X BOOLEAN]
    /\ left \in [Procs -> BOOLEAN]
    /\ haPhase \in {"idle", "publishing"} /\ haJob \in Commands \cup {Set(Empty)} /\ haLeft \in BOOLEAN
    /\ client \in BOOLEAN /\ mqtt_connected \in BOOLEAN
    /\ told \in [Keys -> Values] /\ want \in [Keys -> Values]
    /\ owed \subseteq Keys
    /\ runs \in [Actions -> Nat]
    /\ asked \subseteq Actions /\ cut \subseteq Keys
-----------------------------------------------------------------------------
(* Safety.                                                                 *)

(* The settings that api_sounds_select writes, which passes no registry.   *)
BareKeys == UNION {DOMAIN f : f \in BareWrites}

(* The settings that only panel requests which pass their registry write:  *)
(* Home Assistant and api_sounds_select do not touch them.                 *)
PanelOnly == Keys \ UNION {DOMAIN f : f \in HAWrites \cup BareWrites}

OwedKept ==
    \A k \in owed \ BareKeys :
        /\ k \in DOMAIN pending /\ pending[k] = want[k]
        /\ k \in DOMAIN disk.pending /\ disk.pending[k] = want[k]

Awaits(p, k, v) ==
    phase[p] = "waiting" /\ k \in DOMAIN Params(job[p][1]) /\ Params(job[p][1])[k] = v

ShownOnItsWay ==
    \A k \in PanelOnly \ cut :
        \/ told[k] = disk.settings[k]
        \/ k \in DOMAIN disk.pending /\ disk.pending[k] = disk.settings[k]
        \/ \E p \in Panels : Awaits(p, k, disk.settings[k])

(* Until some transport has accepted what the panel last asked of a        *)
(* setting, exactly that value is pending, in memory and on disk: no       *)
(* failed publish, newer write, heartbeat or restart drops it (remember,   *)
(* completed and the saves of _deliver_locked; api_sounds_select saves     *)
(* nothing, so its settings are excepted).  And what devices.json shows of *)
(* a setting was handed to the device, is pending in that same file, or is *)
(* with a request that waits for the lock: a kill leaves nothing shown     *)
(* that never reaches the device, except `cut', where it fell between the  *)
(* save of the setting (devices.py:332) and that of the pending write      *)
(* (_common.py:121), which waits for the lock.                             *)
OwedIsPending == OwedKept /\ ShownOnItsWay

L == INSTANCE LatestValue WITH
        Keys <- PanelOnly,
        want <- [k \in PanelOnly |-> want[k]],
        told <- [k \in PanelOnly |-> told[k]],
        owed <- owed \cap PanelOnly

(* The device is only ever handed the value the panel last asked for,      *)
(* whichever of queue, pending write, in-flight publish and recovery       *)
(* carries it and wherever the process restarts.                           *)
OnlyLatestValues == L!Spec

(* An action asked for is in exactly one place: handed over once, queued   *)
(* once, or still with the one request that brought it.  Neither remember, *)
(* completed nor a fallback after a failed publish loses or doubles it.    *)
ActionInOnePlace ==
    \A a \in asked :
        1 = runs[a]
          + Cardinality({i \in DOMAIN queue : queue[i] = Act(a)})
          + Cardinality({p \in Panels : job[p][1] = Act(a) /\ ~left[p]})
          + (IF haJob = Act(a) /\ ~haLeft THEN 1 ELSE 0)

(* When nothing about a setting is in flight, queued or pending, the       *)
(* device was last handed the value the panel shows: requests reach the    *)
(* device in the order in which they changed config["settings"].  (`cut'   *)
(* is what a kill takes from the requests that wait.)                      *)
InFlight(k) ==
    \/ k \in DOMAIN pending
    \/ CarriersOf(queue, k) # {}
    \/ \E p \in Procs : k \in DOMAIN Params(job[p][1])

SettledShowsTruth == \A k \in PanelOnly \ cut : InFlight(k) \/ told[k] = settings[k]

-----------------------------------------------------------------------------
(* Liveness.  A publish returns or times out; the event loop wakes the     *)
(* first waiter; the recovery loop keeps turning; and while the bridge is  *)
(* connected not every frame of recovery is lost.  Requests, heartbeats    *)
(* and the bridge's connection owe nothing.                                *)
Fairness ==
    /\ \A p \in Procs : WF_vars(PublishReturns(p) \/ PublishRaises(p))
    /\ WF_vars(HAPublishEnds)
    /\ \A p \in Panels : WF_vars(PanelGetsLock(p))
    /\ WF_vars(RecoveryWaits)
    /\ WF_vars(\E gone \in BOOLEAN : RecoveryGetsLock(gone))
    /\ SF_vars(RecoveryTurn(TRUE) \/ RecoveryGetsLock(TRUE))

FairSpec == Spec /\ Fairness

(* With the bridge and the device's session up for good, a setting does    *)
(* not stay owed, though every panel publish may fail and the device may   *)
(* never poll again (the W7H does that).                                   *)
RecoveryDelivers ==
    <>[](client /\ mqtt_connected) => \A k \in Keys : []<>(k \notin owed)

(* A request that waits for the lock gets its turn and ends, whatever the  *)
(* bridge, recovery and other requests do.                                 *)
WaitersServed ==
    \A p \in Panels : phase[p] = "waiting" ~> phase[p] = "idle"

(* Each action asked for is handed over in the end, by whichever way, if   *)
(* the device keeps polling.                                               *)
ActionsLand ==
    WF_vars(Heartbeat) => \A a \in Actions : a \in asked ~> runs[a] = 1
=============================================================================
