------------------------------ MODULE Registry ------------------------------
(***************************************************************************)
(* The device registry and its file (devices/registry.py on top of         *)
(* utils/jsonio.py): synchronous saves on the event loop, a debounced      *)
(* background writer whose file work runs in a worker thread, crashes,     *)
(* write errors and shutdown.                                              *)
(*                                                                         *)
(* save() blocks the loop, but not the worker thread: both may be between  *)
(* mkstemp and os.replace at once, each with a temporary file of its own.  *)
(* A writer is `idle', then `open' (its snapshot encoded), `synced' (the   *)
(* temporary file written and fsynced), and after os.replace idle again.   *)
(* The worker's outcome, `done' or `failed', stays until the flusher's     *)
(* await resumes on the loop; a save() that failed stays `failed' until    *)
(* the next one.                                                           *)
(*                                                                         *)
(* A snapshot is the credentials of each device and a revision number that *)
(* stands for everything else the registry holds.                          *)
(*                                                                         *)
(* Two histories, `late' and `undone', name what a slow worker's replace   *)
(* takes back when a save() has begun after its snapshot was encoded.      *)
(*                                                                         *)
(* Limits: a registry with no storage path, encoding errors, reading a     *)
(* file somebody else damaged, and changes made after stop() are left out. *)
(***************************************************************************)
EXTENDS Naturals

CONSTANTS
    Devices,
    MaxCred, MaxRev,    \* bounds: credentials minted, changes made
    Crashes,            \* whether the process may be killed
    DiskErrors          \* whether a write may raise OSError

ASSUME BoundAssumption == MaxCred \in Nat /\ MaxRev \in Nat
ASSUME SwitchAssumption == {Crashes, DiskErrors} \subseteq BOOLEAN

VARIABLES
    memory,      \* what _serialize() would return
    dirty,       \* _dirty
    file,        \* devices.json: a snapshot, and whether its data is durable
    writer,      \* per writer: how far it is, and the snapshot it encoded
    flusher,     \* _flush_task: sleeping, awaiting the worker, or stopped
    minted,      \* credentials minted so far
    promised,    \* history: the credentials a save() that returned has written
    late,        \* history: whether a save() began while the worker was `writing', and
                 \* whether the worker `wrote' after that what the file now holds
    undone       \* history: the devices whose promised credentials it took back so

vars == <<memory, dirty, file, writer, flusher, minted, promised, late, undone>>

Creds == 0..MaxCred    \* 0: the device is not registered
Snapshots == [cred : [Devices -> Creds], rev : 0..MaxRev]
Writers == {"loop", "worker"}
Busy(w) == writer[w].stage \in {"open", "synced"}
LoopFree == ~Busy("loop")
Running == LoopFree /\ flusher # "stopped"

Move(w, stage) == writer' = [writer EXCEPT ![w].stage = stage]
-----------------------------------------------------------------------------
Init ==
    /\ memory = [cred |-> [d \in Devices |-> 0], rev |-> 0]
    /\ file = [text |-> memory, durable |-> TRUE]
    /\ dirty = FALSE
    /\ writer = [w \in Writers |-> [stage |-> "idle", text |-> memory]]
    /\ flusher = "sleeping"
    /\ minted = 0
    /\ promised = [d \in Devices |-> 0]
    /\ late = "no" /\ undone = {}

(* save(): encode, clear the flag, and write; the loop does nothing else   *)
(* until that is over, but a worker may be in the middle of its own write. *)
BeginSave ==
    /\ late' = IF Busy("worker") THEN "writing" ELSE late
    /\ writer' = [writer EXCEPT !["loop"] = [stage |-> "open", text |-> memory']]
    /\ dirty' = FALSE

(* Faulty variant: signup leaves the write to the flusher.                 *)
SignupDebounced(d) ==
    /\ Running /\ memory.cred[d] = 0 /\ minted < MaxCred
    /\ minted' = minted + 1
    /\ memory' = [memory EXCEPT !.cred[d] = minted + 1]
    /\ dirty' = TRUE
    /\ promised' = [promised EXCEPT ![d] = minted + 1]
    /\ UNCHANGED <<file, writer, flusher, late, undone>>

(* get_or_create of an unknown device mints its MQTT credentials.          *)
Signup(d) ==
    /\ Running /\ memory.cred[d] = 0 /\ minted < MaxCred
    /\ minted' = minted + 1
    /\ memory' = [memory EXCEPT !.cred[d] = minted + 1]
    /\ BeginSave
    /\ UNCHANGED <<file, flusher, promised, undone>>

Remove(d) ==
    /\ Running /\ memory.cred[d] # 0
    /\ memory' = [memory EXCEPT !.cred[d] = 0]
    /\ promised' = [promised EXCEPT ![d] = 0]
    /\ BeginSave
    /\ UNCHANGED <<file, flusher, minted, undone>>

(* Any other change, reported by mark_dirty().                             *)
Change ==
    /\ Running /\ memory.rev < MaxRev
    /\ memory' = [memory EXCEPT !.rev = @ + 1]
    /\ dirty' = TRUE
    /\ UNCHANGED <<file, writer, flusher, minted, promised, late, undone>>

(* atomic_write_bytes: the temporary file is written and fsynced.          *)
WriteTemp(w) ==
    /\ writer[w].stage = "open"
    /\ Move(w, "synced")
    /\ UNCHANGED <<memory, dirty, file, flusher, minted, promised, late, undone>>

(* os.replace; save() then returns to its caller.                          *)
ReplaceFile(w) ==
    LET wrong == {d \in Devices : writer[w].text.cred[d] # promised'[d]}
    IN /\ writer[w].stage \in {"synced", "unsynced"}
       /\ file' = [text |-> writer[w].text, durable |-> writer[w].stage = "synced"]
       /\ Move(w, IF w = "loop" THEN "idle" ELSE "done")
       /\ promised' = IF w = "loop" THEN writer[w].text.cred ELSE promised
       /\ IF w = "worker" /\ late = "writing"
          THEN late' = "wrote" /\ undone' = undone \cup wrong
          ELSE /\ late' = IF late = "wrote" \/ w = "worker" THEN "no" ELSE late
               /\ undone' = undone \cap wrong
       /\ UNCHANGED <<memory, dirty, flusher, minted>>

(* OSError: the temporary file is unlinked.  save() notes that the change  *)
(* is still to be written; the worker's error waits for the flusher.       *)
WriteFails(w) ==
    /\ DiskErrors /\ Busy(w)
    /\ Move(w, "failed")
    /\ dirty' = (dirty \/ w = "loop")
    /\ late' = IF w = "worker" /\ late = "writing" THEN "no" ELSE late
    /\ UNCHANGED <<memory, file, flusher, minted, promised, undone>>

(* flush() encodes on the loop and hands the text to the worker thread.    *)
FlushBegins ==
    /\ LoopFree /\ flusher = "sleeping" /\ dirty
    /\ writer' = [writer EXCEPT !["worker"] = [stage |-> "open", text |-> memory]]
    /\ dirty' = FALSE
    /\ flusher' = "awaiting"
    /\ UNCHANGED <<memory, file, minted, promised, late, undone>>

(* Faulty variant: the flag is cleared once the write has ended well.      *)
FlushResumesClearing ==
    /\ LoopFree /\ flusher = "awaiting" /\ writer["worker"].stage \in {"done", "failed"}
    /\ dirty' = (writer["worker"].stage = "failed")
    /\ Move("worker", "idle")
    /\ flusher' = "sleeping"
    /\ UNCHANGED <<memory, file, minted, promised, late, undone>>

(* The flusher's await ends.                                               *)
FlushResumes ==
    /\ LoopFree /\ flusher = "awaiting" /\ writer["worker"].stage \in {"done", "failed"}
    /\ dirty' = (dirty \/ writer["worker"].stage = "failed")
    /\ Move("worker", "idle")
    /\ flusher' = "sleeping"
    /\ UNCHANGED <<memory, file, minted, promised, late, undone>>

(* stop(), and _on_flusher_done: the flusher is cancelled, which abandons  *)
(* the worker but does not stop it, and what is pending is saved.          *)
Stop ==
    /\ Running
    /\ flusher' = "stopped"
    /\ UNCHANGED memory
    /\ IF dirty THEN BeginSave ELSE UNCHANGED <<dirty, writer, late>>
    /\ UNCHANGED <<file, minted, promised, undone>>

(* A new process reads the file; one that does not parse counts as empty.  *)
Starts ==
    /\ memory' \in IF file.durable THEN {file.text}
                   ELSE {file.text, [cred |-> [d \in Devices |-> 0], rev |-> 0]}
    /\ file' = [text |-> memory', durable |-> TRUE]
    /\ dirty' = FALSE
    /\ writer' = [w \in Writers |-> [stage |-> "idle", text |-> memory']]
    /\ flusher' = "sleeping"
    /\ late' = "no"
    /\ UNCHANGED <<minted, promised, undone>>

(* The interpreter joins its worker threads before it exits.               *)
CleanExit ==
    /\ LoopFree /\ flusher = "stopped" /\ ~Busy("worker")
    /\ Starts

Crash == Crashes /\ Starts

Next ==
    \/ \E d \in Devices : Signup(d) \/ Remove(d)
    \/ Change
    \/ \E w \in Writers : WriteTemp(w) \/ ReplaceFile(w) \/ WriteFails(w)
    \/ FlushBegins \/ FlushResumes
    \/ Stop \/ CleanExit \/ Crash

Spec == Init /\ [][Next]_vars
-----------------------------------------------------------------------------
TypeOK ==
    /\ memory \in Snapshots
    /\ dirty \in BOOLEAN
    /\ file \in [text : Snapshots, durable : BOOLEAN]
    /\ writer \in [Writers -> [stage : {"idle", "open", "synced", "done", "failed"},
                               text : Snapshots]]
    /\ writer["loop"].stage # "done"
    /\ flusher \in {"sleeping", "awaiting", "stopped"}
    /\ minted \in Creds
    /\ promised \in [Devices -> Creds]
    /\ late \in {"no", "writing", "wrote"} /\ undone \subseteq Devices

(* Credentials that a save() has returned for are on disk until their      *)
(* device is removed, "even if the container dies a millisecond later".    *)
SignupSurvives ==
    \A d \in Devices : promised[d] # 0 => file.text.cred[d] = promised[d]

(* The same, but for one interleaving: nothing else than a worker that was *)
(* writing when the save() began, and replaced the file after it, takes a  *)
(* credential back: no crash, error, stop, removal or other save.          *)
SignupKept ==
    \A d \in Devices \ undone : promised[d] # 0 => file.text.cred[d] = promised[d]

(* While the registry runs, a change that is not on disk is marked dirty   *)
(* or being written, whatever failed and whenever it was made; only such a *)
(* late worker leaves the file behind memory with nobody to notice.        *)
NothingForgotten ==
    \/ flusher = "stopped" \/ late = "wrote"
    \/ file.text = memory
    \/ dirty
    \/ \E w \in Writers : writer[w].stage # "idle" /\ writer[w].text = memory

(* A restart through stop() loses nothing, unless the disk failed or a     *)
(* late worker had the last word: the next process starts from what the    *)
(* last one held.                                                          *)
CleanRestart ==
    [][CleanExit => \/ memory' = memory \/ late = "wrote"
                    \/ \E w \in Writers : writer[w].stage = "failed"]_vars
=============================================================================
