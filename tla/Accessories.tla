---------------------------- MODULE Accessories ----------------------------
(***************************************************************************)
(* A fountain that is reached over BLE, through the device it is paired    *)
(* to: mqtt/ble_relay.py, web/api/ble.py, devices/ble.  The server tells   *)
(* the parent to open a session, and only in a session does the fountain   *)
(* report or take a frame.  A frame restates a whole block, built from     *)
(* what the server last knew.                                              *)
(*                                                                         *)
(* One accessory; the block is the mode block of a CTW3.  An await of the  *)
(* code is the end of an action.                                           *)
(***************************************************************************)
EXTENDS Naturals, Sequences

CONSTANTS
    Parents, NoParent,
    Commanders,      \* commands of the panel and of Home Assistant under way at once
    NeverRead,
    MaxWrites, MaxMishaps, MaxMoves,
    MaxAir           \* messages under way to the parents

VARIABLES
    linkWith,        \* link_with; NoParent: not in the registry
    listed,          \* parents whose relay list has the accessory
    bridge,          \* the bridge has a client
    up,              \* parents with mqtt_connected
    radio,           \* the parent with a BLE session
    due,             \* the interval has passed since _ble_poll_ts
    air, readings,   \* to the parents; back to the server, with whether the block changed since
    held, known,     \* the block of the accessory, and as the server has it
    writer,          \* per command: where it is, and what it sets
    clear,           \* nothing happened that a reading alone can tell
    wrote, mishaps, moves

accessoryVars == <<linkWith, listed, bridge, up, radio, due, air, readings, held, known, writer,
                   clear, wrote, mishaps, moves>>
wires == <<linkWith, listed, bridge, up>>
spent == <<wrote, mishaps, moves>>

ModeFields == {"power", "suspend", "mode"}
Blocks == [ModeFields -> {0, 1}]
NoCommand == [at |-> "idle", to |-> NoParent, ours |-> FALSE, field |-> "mode", value |-> 0, block |-> [f \in ModeFields |-> 0]]

AccessoryInit ==
    /\ linkWith \in Parents /\ listed = {linkWith} /\ bridge = TRUE /\ up = Parents
    /\ radio = NoParent /\ due = TRUE /\ air = <<>> /\ readings = <<>>
    /\ held = [f \in ModeFields |-> 1] /\ known = held
    /\ writer = [q \in Commanders |-> NoCommand]
    /\ clear = TRUE
    /\ wrote \in 0 .. MaxWrites /\ mishaps \in 0 .. MaxMishaps /\ moves \in 0 .. MaxMoves
-----------------------------------------------------------------------------
Message(p, kind, block) == [to |-> p, kind |-> kind, block |-> block]

(* publish_service: a bridge without a client drops the message.           *)
After(msgs, p, kind, block) == IF bridge THEN Append(msgs, Message(p, kind, block)) ELSE msgs

Room == Len(air) < MaxAir
UnderWay(kind) == \E i \in DOMAIN air : air[i].kind = kind
AllIdle == \A q \in Commanders : writer[q].at = "idle"

(* As the server once did: only when the parent reports a property of its  *)
(* own, which a feeder never does.                                         *)
PollOnReport == FALSE /\ UNCHANGED accessoryVars

(* The loop asks every parent on its own clock, and stamps before it asks. *)
PollTick ==
    /\ bridge /\ linkWith # NoParent /\ due /\ Room
    /\ due' = FALSE /\ air' = After(air, linkWith, "connect", known)
    /\ UNCHANGED <<wires, radio, readings, held, known, writer, clear, spent>>

IntervalElapses == ~due /\ due' = TRUE /\ UNCHANGED <<wires, radio, air, readings, held, known, writer, clear, spent>>

ReadNow ==
    /\ bridge /\ linkWith \in up /\ Room
    /\ due' = FALSE /\ air' = After(air, linkWith, "connect", known)
    /\ UNCHANGED <<wires, radio, readings, held, known, writer, clear, spent>>

(* _ctw3_command_for, ctw3_mode_payload: picking a mode means running in   *)
(* it, and what is off has nothing to suspend.                             *)
Block(f, v) ==
    LET said == [known EXCEPT ![f] = v]
        run  == IF f = "mode" THEN [said EXCEPT !["power"] = 1, !["suspend"] = 1] ELSE said
    IN IF run["power"] = 0 THEN [run EXCEPT !["suspend"] = 0] ELSE run

WriteBegins(q, f, v) ==
    /\ wrote < MaxWrites /\ writer[q].at = "idle"
    /\ linkWith # NoParent /\ bridge /\ Room
    /\ \A g \in ModeFields : known[g] = NeverRead => f = "mode" \/ f = g
    /\ writer' = [writer EXCEPT ![q] = [at |-> "connecting", to |-> linkWith, ours |-> TRUE,
                                        field |-> f, value |-> v, block |-> Block(f, v)]]
    /\ air' = After(air, linkWith, "connect", known)
    /\ clear' = (clear /\ AllIdle /\ Block(f, v) = [known EXCEPT ![f] = v])
    /\ wrote' = wrote + 1
    /\ UNCHANGED <<wires, radio, due, readings, held, known, mishaps, moves>>

(* The answer is success whether or not there was still a client.          *)
WriteFrames(q) ==
    /\ writer[q].at = "connecting"
    /\ writer' = [writer EXCEPT ![q].at = "framing"]
    /\ air' = After(air, writer[q].to, "frame", writer[q].block)
    /\ clear' = (clear /\ bridge)
    /\ UNCHANGED <<wires, radio, due, readings, held, known, spent>>

(* Only the field that was asked for, and only if the accessory was not    *)
(* unpaired meanwhile.                                                     *)
Reflect(q) == known' = IF writer[q].ours THEN [known EXCEPT ![writer[q].field] = writer[q].value] ELSE known

WriteEnds(q) ==
    /\ writer[q].at = "framing" /\ Reflect(q)
    /\ writer' = [writer EXCEPT ![q] = NoCommand]
    /\ UNCHANGED <<wires, radio, due, air, readings, held, clear, spent>>

(* The publish raises.                                                     *)
WriteFails(q) ==
    /\ writer[q].at # "idle" /\ ~bridge
    /\ writer' = [writer EXCEPT ![q] = NoCommand] /\ clear' = FALSE
    /\ UNCHANGED <<wires, radio, due, air, readings, held, known, spent>>
-----------------------------------------------------------------------------
(* A reading is merged, whoever relayed it, and only then is the session   *)
(* closed.                                                                 *)
ReadingArrives ==
    LET r == Head(readings)
    IN /\ readings # <<>> /\ bridge
       /\ readings' = Tail(readings)
       /\ IF linkWith = NoParent
          THEN UNCHANGED <<known, air, clear>>
          ELSE /\ known' = r.block
               /\ air' = After(air, r.from, "close", known)
               /\ clear' = (~r.old /\ AllIdle /\ ~UnderWay("frame"))
       /\ UNCHANGED <<wires, radio, due, held, writer, spent>>

NowOld == [i \in DOMAIN readings |-> [readings[i] EXCEPT !.old = TRUE]]

(* A parent off MQTT gets nothing; one without a session ignores a frame.  *)
Delivered ==
    LET m == Head(air)
        lands == m.to \in up /\ radio = m.to
    IN /\ air # <<>> /\ air' = Tail(air)
       /\ radio' = CASE m.kind = "connect" /\ m.to \in up \cap listed /\ radio = NoParent -> m.to
                       [] m.kind = "close" /\ lands -> NoParent
                       [] OTHER -> radio
       /\ IF m.kind # "frame" THEN UNCHANGED <<held, readings, clear>>
          ELSE IF lands THEN held' = m.block /\ readings' = NowOld /\ UNCHANGED clear
          ELSE clear' = FALSE /\ UNCHANGED <<held, readings>>
       /\ UNCHANGED <<wires, due, known, writer, spent>>

RadioEnds ==
    /\ radio # NoParent /\ radio' = NoParent
    /\ UNCHANGED <<wires, due, air, readings, held, known, writer, clear, spent>>

AccessorySpeaks ==
    /\ radio \in up /\ readings = <<>> /\ ~UnderWay("close")
    /\ readings' = <<[from |-> radio, block |-> held, old |-> FALSE]>>
    /\ UNCHANGED <<wires, radio, due, air, held, known, writer, clear, spent>>

(* The button on the accessory.                                            *)
Touched(f) ==
    /\ mishaps < MaxMishaps /\ mishaps' = mishaps + 1
    /\ held' = [held EXCEPT ![f] = 1 - @] /\ readings' = NowOld /\ clear' = FALSE
    /\ UNCHANGED <<wires, radio, due, air, known, writer, wrote, moves>>

BridgeLost ==
    /\ bridge /\ mishaps < MaxMishaps /\ mishaps' = mishaps + 1
    /\ bridge' = FALSE /\ readings' = <<>>
    /\ UNCHANGED <<linkWith, listed, up, radio, due, air, held, known, writer, clear, wrote, moves>>

BridgeReturns ==
    /\ ~bridge /\ bridge' = TRUE
    /\ UNCHANGED <<linkWith, listed, up, radio, due, air, readings, held, known, writer, clear, spent>>

ParentLost(p) ==
    /\ p \in up /\ mishaps < MaxMishaps /\ mishaps' = mishaps + 1
    /\ up' = up \ {p}
    /\ UNCHANGED <<linkWith, listed, bridge, radio, due, air, readings, held, known, writer, clear, wrote, moves>>

ParentReturns(p) ==
    /\ p \notin up /\ up' = up \cup {p}
    /\ UNCHANGED <<linkWith, listed, bridge, radio, due, air, readings, held, known, writer, clear, spent>>
-----------------------------------------------------------------------------
(* dev_ble_device, on a nudge or after nextTick.  Some firmware throws an  *)
(* empty list away, and goes on with the old one.                          *)
ListFetched(p) ==
    /\ \/ linkWith = p /\ listed' = listed \cup {p}
       \/ linkWith # p /\ listed' \in {listed, listed \ {p}}
    /\ UNCHANGED <<linkWith, bridge, up, radio, due, air, readings, held, known, writer, clear, spent>>

(* Pair, or pair with another parent: what was read stays.                 *)
Paired(p) ==
    /\ linkWith # p /\ moves < MaxMoves /\ moves' = moves + 1
    /\ linkWith' = p
    /\ UNCHANGED <<listed, bridge, up, radio, due, air, readings, held, known, writer, clear, wrote, mishaps>>

Unpaired ==
    /\ linkWith # NoParent /\ moves < MaxMoves /\ moves' = moves + 1
    /\ linkWith' = NoParent
    /\ known' = [f \in ModeFields |-> NeverRead] /\ clear' = FALSE
    /\ writer' = [q \in Commanders |-> [writer[q] EXCEPT !.ours = FALSE]]
    /\ UNCHANGED <<listed, bridge, up, radio, due, air, readings, held, wrote, mishaps>>

AccessoryNext ==
    \/ PollTick \/ IntervalElapses \/ ReadNow
    \/ \E q \in Commanders :
         \/ \E f \in ModeFields, v \in {0, 1} : WriteBegins(q, f, v)
         \/ WriteFrames(q) \/ WriteEnds(q) \/ WriteFails(q)
    \/ ReadingArrives \/ Delivered \/ RadioEnds \/ AccessorySpeaks
    \/ BridgeLost \/ BridgeReturns \/ Unpaired
    \/ \E f \in ModeFields : Touched(f)
    \/ \E p \in Parents : ParentLost(p) \/ ParentReturns(p) \/ ListFetched(p) \/ Paired(p)

(* Loops, clocks and deliveries go on.  A session is not granted at every  *)
(* attempt, and may end before the accessory speaks; asked for ever, the   *)
(* accessory does not stay silent for ever.                                *)
AccessoryFairness ==
    /\ SF_accessoryVars(PollTick) /\ WF_accessoryVars(IntervalElapses)
    /\ \A q \in Commanders : WF_accessoryVars(WriteFrames(q) \/ WriteEnds(q) \/ WriteFails(q))
    /\ WF_accessoryVars(ReadingArrives) /\ WF_accessoryVars(Delivered)
    /\ SF_accessoryVars(AccessorySpeaks) /\ WF_accessoryVars(RadioEnds)
    /\ WF_accessoryVars(BridgeReturns)
    /\ \A p \in Parents : WF_accessoryVars(ParentReturns(p)) /\ WF_accessoryVars(ListFetched(p))

AccessorySpec == AccessoryInit /\ [][AccessoryNext]_accessoryVars /\ AccessoryFairness
-----------------------------------------------------------------------------
AccessoryTypeOK ==
    /\ linkWith \in Parents \cup {NoParent} /\ listed \subseteq Parents /\ up \subseteq Parents
    /\ radio \in Parents \cup {NoParent}
    /\ held \in Blocks /\ known \in [ModeFields -> {0, 1, NeverRead}]

(* As long as nothing happened that only a reading can tell -- the button, *)
(* a frame or its news lost, two commands at once, a mode that moves other *)
(* fields -- a command leaves the server knowing what the accessory does,  *)
(* although it was never told (api_ble_command); a reading restores this.  *)
ReflectedIsHeld == clear /\ AllIdle /\ ~UnderWay("frame") => known = held

(* Whatever was lost, touched, refused or moved: in the end the server     *)
(* shows what the accessory does (poll_ble_loop, _handle_ble_response).    *)
KnowledgeCatchesUp == []<>(linkWith # NoParent => known = held)
=============================================================================
