------------------------------ MODULE Patching ------------------------------
(***************************************************************************)
(* Patching one device (web/api/patchers.py, patchers/common.py): runs of  *)
(* several minutes that send shell commands and cannot see them arrive.    *)
(* The device takes them from MQTT or from its heartbeat, executes them in *)
(* order, fetches what the server has staged and runs, at boot, what its   *)
(* wrapper names.  A fixed sleep promises nothing: the device may or may   *)
(* not have done its part when it ends.                                    *)
(***************************************************************************)
EXTENDS Naturals, Sequences, FiniteSets

CONSTANTS
    Jobs,            \* requests from the panel, accepted and not yet done
    Patchers,
    PatchKind,                \* "binary" (mqtt, cloud, cacert), "ssh", "talk", "camera"
    None,
    MaxRuns,
    MaxLag,              \* commands a run gets ahead of the device
    MaxPatchTroubles          \* lost commands, changes of transport, power cuts and restarts

ASSUME PatchingAssumption == (\A set \in SUBSET Patchers : set # None) /\ "wrapper" \notin Patchers

VARIABLES
    step, action, patcher,   \* per request: where its run is, and what it is for
    probe,                   \* per request: the nonce it waits to read
    nonces, runs, patchTroubles,
    active,                  \* config["active_patchers"]
    staged, stagedWrapper,   \* what the device can fetch
    queue, onMqtt,           \* command_queue, mqtt_connected
    inbox,                   \* commands that reached the device
    onDevice, wrapper, booted,  \* its storage; the wrapper it was booted with
    servers, outputs,        \* its temporary file servers and command outputs
    doubt,                   \* what commands lost, late or overtaken may have spoilt
    missing                  \* files its wrapper may, for the same reasons, name in vain,
                             \* or because power was cut in the middle of their removal

runVars == <<step, action, patcher, probe, nonces, runs, active, staged, stagedWrapper>>
deviceVars == <<onDevice, wrapper, booted, servers, outputs>>
ghosts == <<doubt, missing>>
patchingVars == <<runVars, patchTroubles, queue, onMqtt, inbox, deviceVars, ghosts>>

WithFiles == {p \in Patchers : PatchKind[p] # "camera"}
Everything == Patchers \cup {"wrapper"}
PatchTrouble == patchTroubles < MaxPatchTroubles /\ patchTroubles' = patchTroubles + 1

PatchingInit ==
    /\ step = [r \in Jobs |-> "idle"] /\ action = [r \in Jobs |-> "apply"]
    /\ patcher = [r \in Jobs |-> None] /\ probe = [r \in Jobs |-> 0]
    /\ nonces = 0 /\ runs = 0 /\ patchTroubles = 0
    /\ active \in SUBSET Patchers /\ onDevice = active \cap WithFiles /\ booted = active
    /\ wrapper = IF active = {} THEN None ELSE active
    /\ staged = {} /\ stagedWrapper = None
    /\ queue = <<>> /\ onMqtt \in BOOLEAN /\ inbox = <<>> /\ servers = {} /\ outputs = {}
    /\ doubt = {} /\ missing = {}
-----------------------------------------------------------------------------
Command(do, on) == [do |-> do, on |-> on]
Among(commands) == {commands[i] : i \in DOMAIN commands}
OnTheWay == Among(inbox) \cup Among(queue)
Pending(kinds) == \E c \in OnTheWay : c.do \in kinds

(* What trouble costs: the panel may be wrong about anything, a boot about *)
(* the files in question only, those that commands of some kinds are for.  *)
Costs(files) == doubt' = Everything /\ missing' = missing \cup (files \cap WithFiles)
For(commands, kinds) == {c.on : c \in {d \in commands : d.do \in kinds}}

(* What a command sets right once it arrives: the file it fetches, or the  *)
(* wrapper.  While an older wrapper is still on its way, it may name the   *)
(* file before it is fetched.                                              *)
Settles(c) ==
    CASE c.do = "fetch" -> {c.on}
      [] c.do \in {"wrap", "remove", "removeAll"} -> {"wrapper"}
      [] OTHER -> {}
Early(c) == IF c.do = "fetch" /\ Pending({"wrap", "remove", "rewrap", "removeAll"}) THEN {c.on} ELSE {}

(* send_run_cmd: over MQTT while the device holds a session, else, or when *)
(* the publish fails, on the heartbeat queue, which a device on MQTT does  *)
(* not poll.  What is sent over MQTT overtakes what is queued.             *)
Send(c) ==
    /\ Len(inbox) + (IF onMqtt THEN 0 ELSE Len(queue)) < MaxLag
    /\ \/ /\ onMqtt /\ inbox' = Append(inbox, c)
          /\ UNCHANGED <<queue, patchTroubles>>
       \/ /\ onMqtt => PatchTrouble
          /\ ~onMqtt => UNCHANGED patchTroubles
          /\ queue' = Append(queue, c)
          /\ UNCHANGED inbox
    /\ IF inbox' # inbox /\ queue # <<>>
       THEN Costs(For(Among(queue) \cup {c}, {"fetch", "removeAll"}))
       ELSE doubt' = doubt \ Settles(c) /\ missing' = missing \cup Early(c)
    /\ UNCHANGED onMqtt

SendsNothing == UNCHANGED <<queue, onMqtt, inbox, patchTroubles>>
SpoilsNothing == UNCHANGED ghosts

At(r, here) == step[r] = here
GoTo(r, there) == step' = [step EXCEPT ![r] = there]
SameRun == UNCHANGED <<action, patcher, runs>>

(* api_patcher_apply: the run is spawned and takes the device's lock.      *)
Accepted(r) ==
    /\ At(r, "idle") /\ runs < MaxRuns
    /\ \E p \in Patchers, a \in {"apply", "remove"} :
         patcher' = [patcher EXCEPT ![r] = p] /\ action' = [action EXCEPT ![r] = a]
    /\ GoTo(r, "waiting") /\ runs' = runs + 1
    /\ UNCHANGED <<probe, nonces, active, staged, stagedWrapper, deviceVars, ghosts>> /\ SendsNothing

(* Faulty variant: no lock.                                                *)
AnyTime(r) == TRUE
LockFree(r) == \A q \in Jobs \ {r} : step[q] \in {"idle", "waiting"}

Begins(r) ==
    /\ At(r, "waiting") /\ LockFree(r) /\ GoTo(r, "storage")
    /\ SameRun
    /\ UNCHANGED <<probe, nonces, active, staged, stagedWrapper, deviceVars, ghosts>> /\ SendsNothing
-----------------------------------------------------------------------------
(* run_cmd_capture: the output of a command, under a name nonces for it.   *)
(* (That the output is removed again makes no difference to anyone.)       *)
Probes(r) ==
    /\ step[r] \in {"storage", "space"}
    /\ nonces' = nonces + 1 /\ probe' = [probe EXCEPT ![r] = nonces']
    /\ Send(Command("probe", nonces'))
    /\ GoTo(r, IF At(r, "storage") THEN "reading" ELSE "measuring")
    /\ SameRun /\ UNCHANGED <<active, staged, stagedWrapper, deviceVars>>

Answered(r) == probe[r] \in outputs /\ "tmp" \in servers

AfterStorage(r) ==
    IF action[r] = "remove" THEN "recording"
    ELSE IF PatchKind[patcher[r]] \in {"binary", "ssh"} THEN "serving" ELSE "space"

AfterSpace(r) == IF PatchKind[patcher[r]] = "camera" THEN "recording" ELSE "staging"

(* detect_patch_storage_dir raises without an answer; ensure_space_for     *)
(* goes on, and raises when the answer says there is too little.           *)
Outcomes(r) ==
    CASE At(r, "reading")   -> IF Answered(r) THEN {AfterStorage(r), "idle"} ELSE {"idle"}
      [] At(r, "measuring") -> IF Answered(r) THEN {AfterSpace(r), "idle"} ELSE {AfterSpace(r)}

Reads(r) ==
    /\ step[r] \in {"reading", "measuring"}
    /\ \E there \in Outcomes(r) : GoTo(r, there)
    /\ SameRun /\ SendsNothing
    /\ UNCHANGED <<probe, nonces, active, staged, stagedWrapper, deviceVars, ghosts>>

Serves(r) ==
    /\ At(r, "serving") /\ GoTo(r, "downloading")
    /\ Send(Command("serve", None))
    /\ SameRun /\ UNCHANGED <<probe, nonces, active, staged, stagedWrapper, deviceVars>>

Downloads(r) ==
    /\ At(r, "downloading")
    /\ \/ "bin" \in servers /\ GoTo(r, "space")
       \/ GoTo(r, "idle")
    /\ Send(Command("kill", None))
    /\ SameRun /\ UNCHANGED <<probe, nonces, active, staged, stagedWrapper, deviceVars>>
-----------------------------------------------------------------------------
(* The patched file is staged and the device told to fetch it.             *)
Stages(r) ==
    /\ At(r, "staging") /\ GoTo(r, "delivering")
    /\ staged' = staged \cup {patcher[r]}
    /\ Send(Command("fetch", patcher[r]))
    /\ SameRun /\ UNCHANGED <<probe, nonces, active, stagedWrapper, deviceVars>>

(* A file dropped while a command that fetches it is on its way.           *)
Fetching(p) == \E c \in OnTheWay : c.do = "fetch" /\ c.on = p

(* cleanup_staged: after a fixed sleep (binary), once the queue is empty   *)
(* or after half a minute (ssh), or once the queue is empty (talk).        *)
Drops(r) ==
    /\ At(r, "delivering") /\ GoTo(r, "recording")
    /\ IF PatchKind[patcher[r]] = "talk" /\ queue # <<>>
       THEN UNCHANGED staged /\ SpoilsNothing
       ELSE /\ staged' = staged \ {patcher[r]}
            /\ IF Fetching(patcher[r]) THEN Costs({patcher[r]}) ELSE SpoilsNothing
    /\ SameRun /\ SendsNothing
    /\ UNCHANGED <<probe, nonces, active, stagedWrapper, deviceVars>>

(* The active set, the wrapper made of it, and the command that fetches    *)
(* the wrapper.                                                            *)
Wrap(r, set, do) ==
    /\ active' = set /\ stagedWrapper' = set
    /\ Send(Command(do, patcher[r]))
    /\ GoTo(r, "delivered") /\ SameRun
    /\ UNCHANGED <<probe, nonces, staged, deviceVars>>

(* Faulty variant: the wrapper names the new patcher only.                 *)
RecordsApplyAlone(r) ==
    /\ At(r, "recording") /\ action[r] = "apply"
    /\ active' = active \cup {patcher[r]} /\ stagedWrapper' = {patcher[r]}
    /\ Send(Command("wrap", patcher[r]))
    /\ GoTo(r, "delivered") /\ SameRun
    /\ UNCHANGED <<probe, nonces, staged, deviceVars>>

RecordsApply(r) == At(r, "recording") /\ action[r] = "apply" /\ Wrap(r, active \cup {patcher[r]}, "wrap")

(* Faulty variant: the wrapper is made before the patcher is discarded.    *)
RecordsRemoveLate(r) ==
    /\ At(r, "recording") /\ action[r] = "remove"
    /\ active' = active \ {patcher[r]} /\ stagedWrapper' = active
    /\ Send(Command("remove", patcher[r]))
    /\ GoTo(r, "delivered") /\ SameRun
    /\ UNCHANGED <<probe, nonces, staged, deviceVars>>

(* With others left, the files go and the new wrapper comes in one         *)
(* command; with none, the wrapper goes too, and the device reboots.       *)
RecordsRemove(r) ==
    /\ At(r, "recording") /\ action[r] = "remove"
    /\ LET left == active \ {patcher[r]} IN
         \/ left # {} /\ Wrap(r, left, "remove")
         \/ /\ left = {} /\ active' = {}
            /\ Send(Command("removeAll", patcher[r]))
            /\ GoTo(r, "idle") /\ SameRun
            /\ UNCHANGED <<probe, nonces, staged, stagedWrapper, deviceVars>>

(* wait_for_heartbeat: an empty queue, or half a minute.                   *)
DropsWrapper(r) ==
    /\ At(r, "delivered") /\ GoTo(r, "rebooting")
    /\ IF queue # <<>>
       THEN UNCHANGED stagedWrapper /\ SpoilsNothing
       ELSE /\ stagedWrapper' = None
            /\ IF Pending({"wrap", "remove", "rewrap"}) THEN Costs(For(OnTheWay, {"remove", "rewrap"}))
               ELSE SpoilsNothing
    /\ SameRun /\ SendsNothing
    /\ UNCHANGED <<probe, nonces, active, staged, deviceVars>>

Reboots(r) ==
    /\ At(r, "rebooting") /\ GoTo(r, "idle")
    /\ Send(Command("reboot", None))
    /\ SameRun /\ UNCHANGED <<probe, nonces, active, staged, stagedWrapper, deviceVars>>
-----------------------------------------------------------------------------
Content == {"fetch", "wrap", "remove", "rewrap", "removeAll"}

(* Commands that never arrive: a file is not fetched; a removal is left    *)
(* half done, the file gone and the wrapper as it was.                     *)
Lost(commands) ==
    IF \E c \in commands : c.do \in Content THEN Costs(For(commands, {"fetch", "rewrap"})) ELSE SpoilsNothing

(* What was on its way to a device that goes down is lost.                 *)
Boot(lost) ==
    /\ inbox' = <<>> /\ servers' = {} /\ outputs' = {} /\ onMqtt' = FALSE
    /\ Lost(Among(lost))

TakesQueue ==
    /\ ~onMqtt /\ queue # <<>>
    /\ inbox' = inbox \o queue /\ queue' = <<>>
    /\ UNCHANGED <<runVars, patchTroubles, onMqtt, deviceVars, ghosts>>

(* Nothing behind it can take from the device the file it fetched.         *)
Steady(behind) == \A c \in Among(behind) \cup Among(queue) : c.do \notin {"fetch", "remove", "rewrap", "removeAll"}

Executes ==
    /\ inbox # <<>>
    /\ LET c == Head(inbox)
           Next(rest) == inbox' = rest /\ UNCHANGED <<onMqtt, doubt>>
       IN \/ /\ c.do = "probe" /\ Next(Tail(inbox))
             /\ outputs' = outputs \cup {c.on} /\ servers' = servers \cup {"tmp"}
             /\ UNCHANGED <<onDevice, wrapper, booted, missing>>
          \/ /\ c.do = "serve" /\ Next(Tail(inbox)) /\ servers' = servers \cup {"bin"}
             /\ UNCHANGED <<onDevice, wrapper, booted, outputs, missing>>
          \/ /\ c.do = "kill" /\ Next(Tail(inbox)) /\ servers' = {}
             /\ UNCHANGED <<onDevice, wrapper, booted, outputs, missing>>
          \/ /\ c.do = "fetch" /\ Next(Tail(inbox))
             /\ onDevice' = IF c.on \in staged THEN onDevice \cup {c.on} ELSE onDevice
             /\ missing' = IF c.on \in staged /\ Steady(Tail(inbox)) THEN missing \ {c.on} ELSE missing
             /\ UNCHANGED <<wrapper, booted, servers, outputs>>
          \/ /\ c.do \in {"wrap", "rewrap"} /\ Next(Tail(inbox))
             /\ wrapper' = IF stagedWrapper # None THEN stagedWrapper ELSE wrapper
             /\ UNCHANGED <<onDevice, booted, servers, outputs, missing>>
          \/ /\ c.do = "remove" /\ Next(<<Command("rewrap", c.on)>> \o Tail(inbox))
             /\ onDevice' = onDevice \ {c.on}
             /\ UNCHANGED <<wrapper, booted, servers, outputs, missing>>
          \/ /\ c.do = "removeAll"
             /\ onDevice' = onDevice \ {c.on} /\ wrapper' = None /\ booted' = {} /\ Boot(Tail(inbox))
          \/ /\ c.do = "reboot"
             /\ booted' = IF wrapper = None THEN {} ELSE wrapper
             /\ UNCHANGED <<onDevice, wrapper>> /\ Boot(Tail(inbox))
    /\ UNCHANGED <<runVars, patchTroubles, queue>>

PowerCut ==
    /\ PatchTrouble /\ Boot(inbox)
    /\ booted' = IF wrapper = None THEN {} ELSE wrapper
    /\ UNCHANGED <<runVars, queue, onDevice, wrapper>>

JoinsOrLeavesMqtt ==
    /\ PatchTrouble /\ onMqtt' = ~onMqtt
    /\ UNCHANGED <<runVars, queue, inbox, deviceVars, ghosts>>

(* A frame, or the answer that carries the drained queue, never arrives.   *)
CommandsLost ==
    /\ PatchTrouble
    /\ \/ inbox # <<>> /\ Lost({Head(inbox)}) /\ inbox' = Tail(inbox) /\ UNCHANGED queue
       \/ ~onMqtt /\ queue # <<>> /\ Lost(Among(queue)) /\ queue' = <<>> /\ UNCHANGED inbox
    /\ UNCHANGED <<runVars, onMqtt, deviceVars>>

(* The add-on stops and starts: runs are cancelled, queued commands gone.  *)
AddonRestarts ==
    /\ PatchTrouble
    /\ step' = [r \in Jobs |-> "idle"] /\ queue' = <<>>
    /\ staged' = {} /\ stagedWrapper' = None
    /\ Costs(For(OnTheWay, {"fetch", "remove", "rewrap"}))
    /\ UNCHANGED <<action, patcher, probe, nonces, runs, active, onMqtt, inbox, deviceVars>>

RunSteps(r) ==
    \/ Begins(r) \/ Probes(r) \/ Reads(r) \/ Serves(r) \/ Downloads(r) \/ Stages(r) \/ Drops(r)
    \/ RecordsApply(r) \/ RecordsRemove(r) \/ DropsWrapper(r) \/ Reboots(r)

PatchingNext ==
    \/ \E r \in Jobs : Accepted(r) \/ RunSteps(r)
    \/ TakesQueue \/ Executes \/ PowerCut \/ JoinsOrLeavesMqtt \/ CommandsLost \/ AddonRestarts

PatchingSpec == PatchingInit /\ [][PatchingNext]_patchingVars
-----------------------------------------------------------------------------
PatchingTypeOK ==
    /\ action \in [Jobs -> {"apply", "remove"}] /\ patcher \in [Jobs -> Patchers \cup {None}]
    /\ active \subseteq Patchers /\ staged \subseteq WithFiles /\ onDevice \subseteq WithFiles
    /\ wrapper \in (SUBSET Patchers) \cup {None} /\ stagedWrapper \in (SUBSET Patchers) \cup {None}
    /\ booted \subseteq Patchers /\ servers \subseteq {"bin", "tmp"} /\ doubt \subseteq Everything /\ missing \subseteq WithFiles

AtRest == (\A r \in Jobs : step[r] = "idle") /\ queue = <<>> /\ inbox = <<>>

(* Runs compose: once they are over, and every command since the last      *)
(* wrapper was told of has arrived in time, the wrapper on the device is   *)
(* made of exactly the patchers the panel shows as applied                 *)
(* (_patcher_apply, _patcher_remove).                                      *)
WrapperComposed ==
    AtRest /\ "wrapper" \notin doubt =>
        active = IF wrapper = None THEN {} ELSE wrapper

(* What the panel shows as applied is on the device, if no command was     *)
(* lost, late or overtaken since it was staged.                            *)
AppliedIsThere == AtRest => active \cap WithFiles \subseteq onDevice \cup doubt

(* Both: what the panel shows as applied is what the device boots with.    *)
PatchesInPlace == WrapperComposed /\ AppliedIsThere

DeviceBoots == PowerCut \/ (Executes /\ Head(inbox).do \in {"reboot", "removeAll"})

(* "So the device never boots with a wrapper that references files that no *)
(* longer exist" (_patcher_remove), into a new wrapper or the one it had,  *)
(* but for the files in `missing': one that was not fetched, or not before *)
(* the wrapper, because its command was lost, late or overtaken; and the   *)
(* one that was deleted when the fetch of the new wrapper, in the same     *)
(* command, was cut short.                                                 *)
BootsComplete == [][DeviceBoots => booted' \cap WithFiles \subseteq onDevice' \cup missing']_patchingVars

=============================================================================
