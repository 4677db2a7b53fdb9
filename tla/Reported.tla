------------------------------ MODULE Reported ------------------------------
(***************************************************************************)
(* From what a device says of itself to what is shown of it: three forms   *)
(* of report (dev_state_report over HTTP, property posts over MQTT, and    *)
(* the snapshot inside an event of either), two parsers                    *)
(* (devices/state_parsers.py), and the replacement dates of consumables    *)
(* (devices/consumables.py), which the server keeps and tells the device.  *)
(***************************************************************************)
EXTENDS Naturals, FiniteSets

CONSTANTS
    Unknown,
    TotalDays,      \* SPRAY_TOTAL_DAYS and the others, scaled down
    MaxDay

ASSUME ReportedAssumption == Unknown \notin Nat /\ TotalDays \in Nat /\ MaxDay \in Nat \ {0}

\* A field stands for the keys that take one way through the parsers: plain
\* keys spelled as the entities spell them, keys in snake case, and blocks.
Plain == {"plain", "stamp"}                    \* "stamp" is sprayResetTime
PresenceFields == {"workState", "refreshState"}
Fields == Plain \cup PresenceFields \cup {"snake", "litter", "err", "wifi", "sensor"}
Models == {"t4", "t5", "d4sh", "w7h"}
LitterModels == {"t4", "t5"}
Supplies == {"n50", "n60"}     \* CONSUMABLE_TOTALS; a feeder's desiccant is kept as the N50

VARIABLES
    \* the device
    model, watched,     \* its type, and the fields this run follows
    truth,              \* [watched -> value], what is so
    today,
    \* what it has said, and the buttons that were pressed (history)
    said, stampTold, pressed,
    \* the server
    state,              \* device.state: [watched -> value or Unknown]
    record              \* device.config["consumables"]: [Supplies -> day, 0 if none]

deviceSide == <<model, watched, truth, today>>
reportedVars == <<deviceSide, said, stampTold, pressed, state, record>>

ReportedTypeOK ==
    /\ model \in Models /\ watched \subseteq Fields
    /\ truth \in [watched -> 0 .. MaxDay] /\ today \in 1 .. MaxDay
    /\ said \in [watched -> {Unknown} \cup 0 .. MaxDay] /\ stampTold \in 0 .. MaxDay
    /\ pressed \in [Supplies -> 0 .. MaxDay]
    /\ state \in [watched -> {Unknown} \cup 0 .. MaxDay] /\ record \in [Supplies -> 0 .. MaxDay]

(* The blocks a model's reports have, as the captures in state_tables.py.  *)
Blocks(type) ==
    {"plain", "err", "wifi"}
    \cup (IF type \in LitterModels THEN {"litter"} \cup PresenceFields ELSE {"snake"})
    \cup (IF type = "t4" THEN {} ELSE {"sensor"})
    \cup (IF type = "t5" THEN {"stamp"} ELSE {})

ReportedInit ==
    /\ model \in Models
    /\ watched \in {S \in SUBSET Blocks(model) :
            /\ Cardinality(S \ {"litter"}) = 2 /\ ("stamp" \in S => "plain" \in S)
            /\ model \in LitterModels => "litter" \in S}
    /\ truth \in [watched -> {0}] /\ today = 1
    /\ said = [f \in watched |-> Unknown] /\ state = said
    /\ stampTold = 0
    /\ pressed = [w \in Supplies |-> 0] /\ record = pressed
-----------------------------------------------------------------------------
(* What the two parsers look at, beside the two fields whose absence means *)
(* something: _extract_camel's lists, the blocks, and the helpers both     *)
(* call for the models whose firmware was read.                            *)
FromBoth == {"litter", "err", "wifi"} \cup PresenceFields
OwnHelper(type) == IF type \in {"d4sh", "w7h"} THEN {"plain", "snake", "sensor"} ELSE {}

StateReportReads(type) ==
    Plain \cup {"snake", "err", "wifi"} \cup OwnHelper(type)
    \cup (IF type \in LitterModels THEN FromBoth ELSE {})
    \cup (IF type = "t5" THEN {"sensor"} ELSE {})

\* Faulty variant: the models' own helper is called by the other parser only.
PropertyReadsShared(type) == FromBoth \cup Plain \cup (IF type = "t5" THEN {"sensor"} ELSE {})

PropertyReads(type) ==
    FromBoth \cup Plain \cup OwnHelper(type) \cup (IF type = "t5" THEN {"sensor"} ELSE {})

(* A message is the set of fields it has.  workState and refreshState are  *)
(* there only while they are so; a whole snapshot is known by its litter   *)
(* block, and only there does their absence mean that they are not.        *)
Carried(of) == {f \in of : f \in PresenceFields => truth[f] # 0}
IsSnapshot(of) == "litter" \in of                                \* SNAPSHOT_MARKER

Present(of, f) ==
    \/ f \in Carried(of) \ {"refreshState"}
    \/ f \in PresenceFields /\ IsSnapshot(of)

Parsed(of, reads) == [f \in {g \in reads \cap watched : Present(of, g)} |-> truth[f]]

(* What the state becomes: dict.update().                                  *)
Updated(st, parsed) == [f \in DOMAIN st |-> IF f \in DOMAIN parsed THEN parsed[f] ELSE st[f]]

(* _extract_wifi_rssi writes what it found, and None if there was no block. *)
WithoutSignal(st, of) == [st EXCEPT !["wifi"] = IF "wifi" \in of THEN @ ELSE Unknown]

Http(of) ==
    Updated(Updated(IF "wifi" \in watched THEN WithoutSignal(state, of) ELSE state,
                    Parsed(of, StateReportReads(model))), Parsed(of, PropertyReads(model)))
Property(of) == Updated(Updated(state, Parsed(of, Plain)), Parsed(of, PropertyReads(model)))

(* apply_consumable_state: the box's own date wins over the one recorded,  *)
(* and the one recorded stands in for one the box has not told.            *)
AfterConsumables(st, rec) ==
    IF "stamp" \notin watched THEN [state |-> st, rec |-> rec]
    ELSE IF st["stamp"] \notin {Unknown, 0} THEN [state |-> st, rec |-> [rec EXCEPT !["n60"] = st["stamp"]]]
    ELSE [state |-> [st EXCEPT !["stamp"] = IF rec["n60"] # 0 THEN rec["n60"] ELSE @], rec |-> rec]

Becomes(st, rec) ==
    LET after == AfterConsumables(st, rec)
    IN state' = after.state /\ record' = after.rec

Says(of) ==
    /\ said' = [f \in watched |-> IF Present(of, f) THEN truth[f] ELSE said[f]]
    /\ stampTold' = IF "stamp" \in of /\ truth["stamp"] # 0 THEN truth["stamp"] ELSE stampTold

(* A fragment, from a device that frames its reports otherwise.            *)
Messages == {watched} \cup SUBSET (watched \ {"litter"})

(* handle_state_report.                                                    *)
StateReported(of) ==
    /\ Says(of) /\ Becomes(Http(of), record)
    /\ UNCHANGED <<deviceSide, pressed>>

(* _handle_event, for a property post: the raw keys, the parser over them. *)
PropertyPosted(of) ==
    /\ Says(of) /\ Becomes(Property(of), record)
    /\ UNCHANGED <<deviceSide, pressed>>

(* apply_state_snapshot, for an event of either transport: the raw keys,   *)
(* then both parsers, the property one last.                               *)
SnapshotApplied == Http(watched)

(* An event's snapshot; over MQTT the start or the end of a fault is taken *)
(* from the event itself, after the snapshot.                              *)
EventReported ==
    /\ Says(watched) /\ Becomes(SnapshotApplied, record)
    /\ UNCHANGED <<deviceSide, pressed>>

FaultReported(v) ==
    /\ "err" \in watched
    /\ said' = [f \in watched |-> IF f = "err" THEN v ELSE truth[f]]
    /\ stampTold' = IF "stamp" \in watched /\ truth["stamp"] # 0 THEN truth["stamp"] ELSE stampTold
    /\ Becomes([SnapshotApplied EXCEPT !["err"] = v], record)
    /\ UNCHANGED <<deviceSide, pressed>>
-----------------------------------------------------------------------------
(* handle_ha_command, for the buttons of CONSUMABLE_BUTTONS: the date is   *)
(* recorded at once, whether or not the device is ever reached.            *)
ButtonPressed(which) ==
    /\ "stamp" \in watched
    /\ pressed' = [pressed EXCEPT ![which] = today]
    /\ Becomes(state, [record EXCEPT ![which] = today])
    /\ UNCHANGED <<deviceSide, said, stampTold>>

(* _build_state and _state_doc recompute the countdowns; what they give    *)
(* out is a number of days, or nothing.                                    *)
DaysLeft(date) == IF TotalDays > today - date THEN TotalDays - (today - date) ELSE 0
Countdown(which) ==
    LET date == AfterConsumables(state, record).rec[which]
    IN IF date = 0 THEN Unknown ELSE DaysLeft(date)

(* Faulty variant: `state` alone, which a restart empties.                 *)
EchoedFromState == IF state["stamp"] = Unknown THEN 0 ELSE state["stamp"]

(* to_device_info.                                                         *)
Echoed == IF state["stamp"] \notin {Unknown, 0} THEN state["stamp"] ELSE record["n60"]

(* The firmware has a setter for the date it is answered.                  *)
DeviceInfoFetched ==
    /\ "stamp" \in watched /\ truth' = [truth EXCEPT !["stamp"] = Echoed]
    /\ UNCHANGED <<model, watched, today, said, stampTold, pressed, state, record>>

(* Device.to_dict leaves `state` out, and the stop saves `config`.         *)
Restarted ==
    /\ state' = [f \in watched |-> Unknown]
    /\ said' = state'
    /\ UNCHANGED <<deviceSide, stampTold, pressed, record>>

Changes(f) ==
    /\ f \in watched
    /\ IF f = "stamp" THEN truth' = [truth EXCEPT ![f] = today]
                      ELSE truth' = [truth EXCEPT ![f] = 1 - @]
    /\ UNCHANGED <<model, watched, today, said, stampTold, pressed, state, record>>

DayPasses ==
    /\ "stamp" \in watched /\ today < MaxDay /\ today' = today + 1
    /\ UNCHANGED <<model, watched, truth, said, stampTold, pressed, state, record>>

ReportedNext ==
    \/ \E of \in Messages : StateReported(of) \/ PropertyPosted(of)
    \/ EventReported
    \/ \E v \in {0, 1} : FaultReported(v)
    \/ \E which \in Supplies : ButtonPressed(which)
    \/ \E f \in watched : Changes(f)
    \/ DeviceInfoFetched \/ Restarted \/ DayPasses

ReportedSpec == ReportedInit /\ [][ReportedNext]_reportedVars
-----------------------------------------------------------------------------
(* What is shown is what the device said last, on whichever transport and  *)
(* in whichever form, and nothing it left out is taken for a value: "the   *)
(* standard bug in this module is a derivation wired into one transport    *)
(* only".  The one exception is the signal, which a report over HTTP       *)
(* without it makes unknown.                                               *)
ShownIsLastSaid ==
    \A f \in watched \ {"stamp"} :
        state[f] = said[f] \/ (f = "wifi" /\ state[f] = Unknown)

(* A replacement date outlives restarts and quiet devices.  The box is     *)
(* never answered a date older than the one it told, zero included, nor    *)
(* one later than it told or the button was pressed; Home Assistant counts *)
(* down from the date the box is answered, and for what the box knows      *)
(* nothing of, from the latest press (apply_consumable_state,              *)
(* to_device_info).                                                        *)
ReplacementKept ==
    /\ "stamp" \in watched =>
        /\ stampTold <= Echoed /\ (Echoed <= stampTold \/ Echoed <= pressed["n60"])
        /\ Countdown("n60") = IF Echoed = 0 THEN Unknown ELSE DaysLeft(Echoed)
    /\ \A w \in Supplies \ {"n60"} : pressed[w] # 0 => Countdown(w) = DaysLeft(pressed[w])
=============================================================================
