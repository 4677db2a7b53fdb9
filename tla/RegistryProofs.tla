--------------------------- MODULE RegistryProofs ---------------------------
(***************************************************************************)
(* For any number of devices, and with saves and the worker thread writing *)
(* at once: the only thing that takes back credentials a save() returned   *)
(* for, drops a change, or spoils a clean stop, is a worker that replaces  *)
(* the file with its older snapshot after a save() has begun.  (That it    *)
(* does is shown by the run Registry_signup.)                              *)
(***************************************************************************)
EXTENDS Registry, TLAPS

(* A synchronous save writes what memory holds: the loop is blocked.       *)
LoopWritesMemory == Busy("loop") => writer["loop"].text = memory

(* So does a worker, as far as credentials go, until a save() begins.      *)
WorkerWritesCreds ==
    Busy("worker") /\ late # "writing" => writer["worker"].text.cred = memory.cred

(* Promised credentials that were not taken back are in memory and on disk. *)
PromisedThere ==
    \A d \in Devices \ undone :
        promised[d] # 0 => memory.cred[d] = promised[d] /\ file.text.cred[d] = promised[d]

(* A rename only ever follows an fsync: the file is a whole snapshot.      *)
Durable == file.durable

IInv == TypeOK /\ Durable /\ LoopWritesMemory /\ WorkerWritesCreds /\ PromisedThere
-----------------------------------------------------------------------------
LEMMA WriterFacts == "loop" \in Writers /\ "worker" \in Writers /\ "loop" # "worker"
BY DEF Writers

LEMMA ZeroFacts ==
    /\ 0 \in Creds
    /\ [cred |-> [d \in Devices |-> 0], rev |-> 0] \in Snapshots
BY BoundAssumption DEF Creds, Snapshots

(* A new process has a whole snapshot in memory, its writers idle.         *)
LEMMA StartsTyped ==
    ASSUME TypeOK, Starts
    PROVE  TypeOK'
<1>1. memory' \in Snapshots
  BY ZeroFacts DEF TypeOK, Starts
<1>2. /\ writer'["loop"] = [stage |-> "idle", text |-> memory']
      /\ writer' \in [Writers -> [stage : {"idle"}, text : Snapshots]]
  BY <1>1, WriterFacts DEF Starts
<1>3. file' \in [text : Snapshots, durable : BOOLEAN]
  BY <1>1 DEF Starts
<1>4. writer' \in [Writers -> [stage : {"idle", "open", "synced", "done", "failed"},
                              text : Snapshots]]
  BY <1>2
<1>5. writer'["loop"].stage = "idle"
  BY <1>2
<1>6. /\ dirty' \in BOOLEAN /\ flusher' \in {"sleeping", "awaiting", "stopped"}
      /\ minted' \in Creds /\ promised' \in [Devices -> Creds]
      /\ late' \in {"no", "writing", "wrote"} /\ undone' \subseteq Devices
  BY DEF Starts, TypeOK
<1>7. writer'["loop"].stage # "done"
  BY <1>5
<1>8. QED BY <1>1, <1>3, <1>4, <1>6, <1>7 DEF TypeOK

LEMMA InitTyped == Init => TypeOK
<1> SUFFICES ASSUME Init PROVE TypeOK
  OBVIOUS
<1>1. memory \in Snapshots /\ promised \in [Devices -> Creds] /\ minted \in Creds
  BY ZeroFacts DEF Init
<1>2. writer \in [Writers -> [stage : {"idle", "open", "synced", "done", "failed"},
                             text : Snapshots]]
  BY <1>1 DEF Init
<1>3. QED BY <1>1, <1>2, WriterFacts DEF Init, TypeOK

(* The registry's variables keep their types; a save() never leaves the    *)
(* loop's writer in one of the worker's outcomes.                          *)
THEOREM TypeCorrect == Spec => []TypeOK
<1>1. Init => TypeOK
  BY InitTyped
<1>2. TypeOK /\ [Next]_vars => TypeOK'
  <2> SUFFICES ASSUME TypeOK, [Next]_vars PROVE TypeOK'
    OBVIOUS
  <2> USE WriterFacts
  <2>1. ASSUME NEW d \in Devices, Signup(d) PROVE TypeOK'
    <3>1. minted + 1 \in Creds
      BY <2>1, BoundAssumption DEF TypeOK, Signup, Creds
    <3>2. memory' \in Snapshots
      BY <2>1, <3>1 DEF TypeOK, Signup, Snapshots
    <3>3. QED BY <2>1, <3>1, <3>2 DEF TypeOK, Signup, BeginSave
  <2>2. ASSUME NEW d \in Devices, Remove(d) PROVE TypeOK'
    <3>1. memory' \in Snapshots
      BY <2>2, ZeroFacts DEF TypeOK, Remove, Snapshots
    <3>2. QED BY <2>2, <3>1, ZeroFacts DEF TypeOK, Remove, BeginSave
  <2>3. CASE Change
    <3>1. memory' \in Snapshots
      BY <2>3, BoundAssumption DEF TypeOK, Change, Snapshots
    <3>2. QED BY <2>3, <3>1 DEF TypeOK, Change
  <2>4. ASSUME NEW w \in Writers, WriteTemp(w) PROVE TypeOK'
    BY <2>4 DEF TypeOK, WriteTemp, Move
  <2>5. ASSUME NEW w \in Writers, ReplaceFile(w) PROVE TypeOK'
    <3>1. writer[w].text \in Snapshots /\ writer[w].text.cred \in [Devices -> Creds]
      BY DEF TypeOK, Snapshots
    <3>2. late' \in {"no", "writing", "wrote"} /\ undone' \subseteq Devices
      BY <2>5 DEF TypeOK, ReplaceFile
    <3>3. /\ file' \in [text : Snapshots, durable : BOOLEAN] /\ promised' \in [Devices -> Creds] /\ UNCHANGED <<memory, dirty, flusher, minted>>
          /\ Move(w, IF w = "loop" THEN "idle" ELSE "done")
      BY <2>5, <3>1 DEF TypeOK, ReplaceFile
    <3>4. QED BY <3>2, <3>3 DEF TypeOK, Move
  <2>6. ASSUME NEW w \in Writers, WriteFails(w) PROVE TypeOK'
    <3>1. dirty' \in BOOLEAN
      BY <2>6 DEF TypeOK, WriteFails
    <3>2. QED BY <2>6, <3>1 DEF TypeOK, WriteFails, Move
  <2>7. CASE FlushBegins
    BY <2>7 DEF TypeOK, FlushBegins
  <2>8. CASE FlushResumes
    <3>1. dirty' \in BOOLEAN
      BY <2>8 DEF TypeOK, FlushResumes
    <3>2. QED BY <2>8, <3>1 DEF TypeOK, FlushResumes, Move
  <2>9. CASE Stop
    <3>1. CASE dirty
      <4>1. writer' = [writer EXCEPT !["loop"] = [stage |-> "open", text |-> memory]]
        BY <2>9, <3>1 DEF Stop, BeginSave
      <4>2. /\ UNCHANGED <<memory, file, minted, promised>>
            /\ dirty' = FALSE /\ flusher' = "stopped"
            /\ late' \in {late, "writing"} /\ undone' = undone
        BY <2>9, <3>1 DEF Stop, BeginSave
      <4>3. QED BY <4>1, <4>2 DEF TypeOK
    <3>2. CASE ~dirty
      BY <2>9, <3>2 DEF TypeOK, Stop
    <3>3. QED BY <3>1, <3>2
  <2>10. CASE CleanExit \/ Crash
    BY <2>10, StartsTyped DEF CleanExit, Crash
  <2>11. CASE UNCHANGED vars
    BY <2>11 DEF TypeOK, vars
  <2>12. QED
    BY <2>1, <2>2, <2>3, <2>4, <2>5, <2>6, <2>7, <2>8, <2>9, <2>10, <2>11 DEF Next
<1>3. QED BY <1>1, <1>2, PTL DEF Spec
-----------------------------------------------------------------------------
LEMMA InvInit == Init => IInv
<1> SUFFICES ASSUME Init PROVE IInv
  OBVIOUS
<1>1. TypeOK
  BY InitTyped
<1>2. \A w \in Writers : ~Busy(w)
  BY DEF Init, Busy
<1>3. QED BY <1>1, <1>2, WriterFacts
      DEF IInv, Init, Durable, LoopWritesMemory, WorkerWritesCreds, PromisedThere

(* A save begins with the credentials in memory; a worker that is writing  *)
(* is late from now on.                                                    *)
LEMMA SaveStep ==
    ASSUME IInv, TypeOK', BeginSave, file' = file, undone' = undone,
           \A d \in Devices \ undone : promised'[d] # 0 =>
               promised'[d] = promised[d] /\ memory'.cred[d] = memory.cred[d]
    PROVE  IInv'
<1> USE WriterFacts
<1>1. writer' = [writer EXCEPT !["loop"] = [stage |-> "open", text |-> memory']]
  BY DEF BeginSave
<1>2. writer'["loop"].text = memory' /\ writer'["worker"] = writer["worker"]
  BY <1>1 DEF IInv, TypeOK
<1>3. Busy("worker")' => late' = "writing"
  BY <1>2 DEF Busy, BeginSave
<1>4. PromisedThere'
  BY DEF IInv, PromisedThere
<1>5. Durable'
  BY <1>1, <1>2 DEF IInv, TypeOK, Durable
<1>6. QED BY <1>2, <1>3, <1>4, <1>5 DEF IInv, LoopWritesMemory, WorkerWritesCreds

(* A new process takes up the promises where the file has them.            *)
LEMMA StartStep ==
    ASSUME IInv, TypeOK', Starts
    PROVE  IInv'
<1>1. memory' = file.text /\ file'.text = file.text /\ file'.durable = TRUE /\ UNCHANGED <<promised, undone>>
  BY DEF Starts, IInv, Durable
<1>2. \A w \in Writers : ~Busy(w)' /\ writer'[w].stage = "idle"
  BY DEF Starts, Busy
<1>3. QED BY <1>1, <1>2, WriterFacts
      DEF IInv, Durable, LoopWritesMemory, WorkerWritesCreds, PromisedThere

LEMMA ReplaceStep ==
    ASSUME IInv, TypeOK', NEW w \in Writers, ReplaceFile(w)
    PROVE  IInv'
<1> USE WriterFacts
<1> DEFINE wrong == {d \in Devices : writer[w].text.cred[d] # promised'[d]}
<1>1. Busy(w) /\ writer[w].stage = "synced" /\ file'.text = writer[w].text /\ memory' = memory
  BY DEF IInv, TypeOK, ReplaceFile, Busy
<1>2. \A v \in Writers : Busy(v)' => v # w /\ Busy(v) /\ writer'[v] = writer[v]
  BY DEF IInv, TypeOK, ReplaceFile, Move, Busy
<1>3. LoopWritesMemory' /\ Durable'
  <2>1. file'.durable
    BY <1>1 DEF ReplaceFile
  <2>2. QED BY <1>1, <1>2, <2>1 DEF IInv, LoopWritesMemory, Durable, TypeOK
<1>4. CASE w = "loop"
  <2>1. promised' = memory.cred /\ writer[w].text = memory
    BY <1>1, <1>4 DEF IInv, LoopWritesMemory, ReplaceFile
  <2>2. late # "writing" => late' # "writing"
    BY <1>4 DEF ReplaceFile
  <2>3. late = "writing" => late' = "writing"
    BY <1>4 DEF ReplaceFile
  <2>4. WorkerWritesCreds'
    BY <1>1, <1>2, <2>2, <2>3 DEF IInv, WorkerWritesCreds
  <2>5. PromisedThere'
    BY <1>1, <2>1 DEF PromisedThere
  <2>6. QED BY <1>3, <2>4, <2>5 DEF IInv
<1>5. CASE w = "worker"
  <2>1. promised' = promised /\ ~Busy("worker")'
    BY <1>2, <1>5 DEF ReplaceFile
  <2>2. CASE late = "writing"
    <3>1. undone' = undone \cup wrong
      BY <1>5, <2>2 DEF ReplaceFile
    <3>2. PromisedThere'
      BY <1>1, <2>1, <3>1 DEF IInv, PromisedThere
    <3>3. QED BY <1>3, <2>1, <3>2 DEF IInv, WorkerWritesCreds
  <2>3. CASE late # "writing"
    <3>1. undone' = undone \cap wrong /\ writer[w].text.cred = memory.cred
      BY <1>1, <1>5, <2>3 DEF ReplaceFile, IInv, WorkerWritesCreds
    <3>2. PromisedThere'
      BY <1>1, <2>1, <3>1 DEF IInv, PromisedThere
    <3>3. QED BY <1>3, <2>1, <3>2 DEF IInv, WorkerWritesCreds
  <2>4. QED BY <2>2, <2>3
<1>6. QED BY <1>4, <1>5 DEF Writers

(* A step that starts no writer and changes no snapshot.                   *)
LEMMA QuietStep ==
    ASSUME IInv, TypeOK', UNCHANGED <<file, promised, undone>>,
           memory'.cred = memory.cred,
           \A w \in Writers : Busy(w)' => Busy(w) /\ writer'[w].text = writer[w].text,
           Busy("loop") => memory' = memory,
           late' = late \/ ~Busy("worker")'
    PROVE  IInv'
BY WriterFacts DEF IInv, Durable, LoopWritesMemory, WorkerWritesCreds, PromisedThere

LEMMA InvStep == IInv /\ TypeOK' /\ [Next]_vars => IInv'
<1> SUFFICES ASSUME IInv, TypeOK', [Next]_vars PROVE IInv'
  OBVIOUS
<1> USE WriterFacts
<1>1. ASSUME NEW d \in Devices, Signup(d) PROVE IInv'
  <2>1. (d \notin undone => promised[d] = 0) /\ memory'.cred = [memory.cred EXCEPT ![d] = minted + 1]
    BY <1>1 DEF IInv, TypeOK, Snapshots, PromisedThere, Signup
  <2>2. memory.cred \in [Devices -> Creds]
    BY DEF IInv, TypeOK, Snapshots
  <2>3. QED BY <1>1, <2>1, <2>2, SaveStep DEF Signup
<1>2. ASSUME NEW d \in Devices, Remove(d) PROVE IInv'
  <2>1. /\ promised' = [promised EXCEPT ![d] = 0]
        /\ memory'.cred = [memory.cred EXCEPT ![d] = 0]
    BY <1>2 DEF IInv, TypeOK, Snapshots, Remove
  <2>2. memory.cred \in [Devices -> Creds] /\ promised \in [Devices -> Creds]
    BY DEF IInv, TypeOK, Snapshots
  <2>3. QED BY <1>2, <2>1, <2>2, SaveStep DEF Remove
<1>3. CASE Change
  <2>1. memory'.cred = memory.cred /\ ~Busy("loop")
    BY <1>3 DEF IInv, TypeOK, Snapshots, Change, Running, LoopFree, Busy
  <2>2. QED BY <1>3, <2>1, QuietStep DEF Change, Busy
<1>4. ASSUME NEW w \in Writers, WriteTemp(w) PROVE IInv'
  <2>1. \A v \in Writers : Busy(v)' => Busy(v) /\ writer'[v].text = writer[v].text
    BY <1>4 DEF IInv, TypeOK, WriteTemp, Move, Busy
  <2>2. QED BY <1>4, <2>1, QuietStep DEF WriteTemp
<1>5. ASSUME NEW w \in Writers, ReplaceFile(w) PROVE IInv'
  BY <1>5, ReplaceStep
<1>6. ASSUME NEW w \in Writers, WriteFails(w) PROVE IInv'
  <2>1. \A v \in Writers : Busy(v)' => v # w /\ Busy(v) /\ writer'[v].text = writer[v].text
    BY <1>6 DEF IInv, TypeOK, WriteFails, Move, Busy
  <2>2. late' = late \/ ~Busy("worker")'
    BY <1>6, <2>1 DEF WriteFails
  <2>3. QED BY <1>6, <2>1, <2>2, QuietStep DEF WriteFails
<1>7. CASE FlushBegins
  <2>1. /\ ~Busy("loop")
        /\ writer' = [writer EXCEPT !["worker"] = [stage |-> "open", text |-> memory]]
        /\ UNCHANGED <<memory, file, promised, undone>>
    BY <1>7 DEF FlushBegins, LoopFree, Busy
  <2>2. writer'["worker"].text = memory /\ writer'["loop"] = writer["loop"]
    BY <2>1 DEF IInv, TypeOK
  <2>3. QED BY <2>1, <2>2
        DEF IInv, TypeOK, Durable, LoopWritesMemory, WorkerWritesCreds, PromisedThere, Busy
<1>8. CASE FlushResumes
  <2>1. \A v \in Writers : Busy(v)' => Busy(v) /\ writer'[v].text = writer[v].text
    BY <1>8 DEF IInv, TypeOK, FlushResumes, Move, Busy
  <2>2. QED BY <1>8, <2>1, QuietStep DEF FlushResumes
<1>9. CASE Stop
  <2>1. CASE dirty
    BY <1>9, <2>1, SaveStep DEF Stop
  <2>2. CASE ~dirty
    BY <1>9, <2>2, QuietStep DEF Stop, Busy
  <2>3. QED BY <2>1, <2>2
<1>10. CASE CleanExit \/ Crash
  BY <1>10, StartStep DEF CleanExit, Crash
<1>11. CASE UNCHANGED vars
  BY <1>11, QuietStep DEF vars, Busy
<1>12. QED
  BY <1>1, <1>2, <1>3, <1>4, <1>5, <1>6, <1>7, <1>8, <1>9, <1>10, <1>11 DEF Next

THEOREM Invariance == Spec => []IInv
<1>1. Init => IInv
  BY InvInit
<1>2. IInv /\ TypeOK' /\ [Next]_vars => IInv'
  BY InvStep
<1>3. QED BY <1>1, <1>2, TypeCorrect, PTL DEF Spec

(* Credentials that a save() has returned for stay on disk until their     *)
(* device is removed, through crashes, write errors, stops and writes that *)
(* overlap, unless a worker replaced the file after a save() that began    *)
(* during its write (PersistedRegistry.save and flush).                    *)
THEOREM SignupsKept == Spec => []SignupKept
<1>1. IInv => SignupKept
  BY DEF IInv, PromisedThere, SignupKept
<1>2. QED BY <1>1, Invariance, PTL
-----------------------------------------------------------------------------
(* What memory holds is on disk, will be written, or is being written; a   *)
(* failed worker still counts, since the flusher marks it dirty again.     *)
Covered ==
    \/ late = "wrote"
    \/ file.text = memory
    \/ dirty
    \/ \E w \in Writers : /\ writer[w].text = memory
                          /\ Busy(w) \/ (w = "worker" /\ writer[w].stage = "failed")

(* A worker that writes an older snapshot leaves the change dirty, or is   *)
(* late.                                                                   *)
WorkerLagsDirty ==
    Busy("worker") => dirty \/ late = "writing" \/ writer["worker"].text = memory

(* Nothing is left to write after stop() unless its save failed.           *)
StopSaves == flusher = "stopped" /\ dirty => writer["loop"].stage = "failed"

(* A save covers memory.                                                   *)
LEMMA SaveCovers ==
    ASSUME IInv, BeginSave
    PROVE  Covered' /\ WorkerLagsDirty' /\ StopSaves'
<1> USE WriterFacts
<1>1. /\ writer'["loop"] = [stage |-> "open", text |-> memory']
      /\ writer'["worker"] = writer["worker"] /\ ~dirty'
  BY DEF BeginSave, IInv, TypeOK
<1>2. Busy("loop")' /\ (Busy("worker")' => late' = "writing")
  BY <1>1 DEF Busy, BeginSave
<1>3. QED BY <1>1, <1>2 DEF Covered, WorkerLagsDirty, StopSaves

LEMMA CoverInit == Init => Covered /\ WorkerLagsDirty /\ StopSaves
BY WriterFacts DEF Init, Covered, WorkerLagsDirty, StopSaves, Busy

LEMMA CoverStep ==
    ASSUME IInv, Covered, WorkerLagsDirty, StopSaves, [Next]_vars
    PROVE  Covered' /\ WorkerLagsDirty' /\ StopSaves'
<1> USE WriterFacts
<1> DEFINE Goal == Covered' /\ WorkerLagsDirty' /\ StopSaves'
<1>0. /\ DOMAIN writer = Writers
      /\ \A w \in Writers : writer[w] \in [stage : {"idle", "open", "synced", "done", "failed"},
                                           text : Snapshots]
      /\ dirty \in BOOLEAN
  BY DEF IInv, TypeOK
<1>1. ASSUME NEW d \in Devices, Signup(d) \/ Remove(d) PROVE Goal
  BY <1>1, SaveCovers DEF Signup, Remove
<1>2. CASE Change
  BY <1>2 DEF Change, Running, Covered, WorkerLagsDirty, StopSaves, Busy
<1>3. ASSUME NEW w \in Writers, WriteTemp(w) PROVE Goal
  <2>1. \A v \in Writers : /\ writer'[v].text = writer[v].text
                           /\ Busy(v)' <=> Busy(v)
                           /\ writer'[v].stage = "failed" <=> writer[v].stage = "failed"
    BY <1>0, <1>3 DEF WriteTemp, Move, Busy
  <2>2. UNCHANGED <<memory, dirty, file, flusher, late>>
    BY <1>3 DEF WriteTemp
  <2>3. QED BY <2>1, <2>2 DEF Covered, WorkerLagsDirty, StopSaves
<1>4. ASSUME NEW w \in Writers, ReplaceFile(w) PROVE Goal
  <2>1. Busy(w) /\ file'.text = writer[w].text /\ UNCHANGED <<memory, dirty, flusher>>
    BY <1>0, <1>4 DEF ReplaceFile, Busy
  <2>2. writer[w].text = memory \/ dirty \/ late' = "wrote"
    BY <1>4, <2>1 DEF IInv, LoopWritesMemory, WorkerLagsDirty, Writers, ReplaceFile
  <2>3. \A v \in Writers : /\ writer'[v].text = writer[v].text
                           /\ Busy(v)' => Busy(v)
    BY <1>0, <1>4 DEF ReplaceFile, Move, Busy
  <2>4. Covered' /\ WorkerLagsDirty'
    <3>1. Busy("worker")' => w # "worker"
      BY <1>0, <1>4 DEF ReplaceFile, Move, Busy
    <3>2. w # "worker" /\ late = "writing" => late' = "writing"
      BY <1>4 DEF ReplaceFile
    <3>3. QED BY <2>1, <2>2, <2>3, <3>1, <3>2 DEF Covered, WorkerLagsDirty
  <2>5. writer["loop"].stage = "failed" => writer'["loop"].stage = "failed"
    BY <1>0, <1>4 DEF ReplaceFile, Move
  <2>6. QED BY <2>1, <2>4, <2>5 DEF StopSaves
<1>5. ASSUME NEW w \in Writers, WriteFails(w) PROVE Goal
  <2>1. /\ Busy(w) /\ UNCHANGED <<memory, file, flusher>>
        /\ dirty' = (dirty \/ w = "loop")
        /\ writer'[w].stage = "failed"
        /\ late = "wrote" => late' = "wrote"
        /\ w = "loop" => late' = late
    BY <1>0, <1>5 DEF WriteFails, Move
  <2>2. \A v \in Writers : /\ writer'[v].text = writer[v].text
                           /\ v # w => writer'[v] = writer[v]
    BY <1>0, <1>5 DEF WriteFails, Move
  <2>3. \A v \in Writers : Busy(v)' => Busy(v) /\ v # w
    BY <2>1, <2>2 DEF Busy
  <2>4. CASE w = "loop"
    BY <2>1, <2>2, <2>3, <2>4 DEF Covered, WorkerLagsDirty, StopSaves
  <2>5. CASE w = "worker"
    <3>1. dirty' = dirty /\ writer'["loop"] = writer["loop"]
      BY <1>0, <2>1, <2>2, <2>5
    <3>2. ~Busy("worker")'
      BY <2>3, <2>5
    <3>3. QED BY <2>1, <2>2, <2>3, <2>5, <3>1, <3>2
          DEF Covered, WorkerLagsDirty, StopSaves, Writers, Busy
  <2>6. QED BY <2>4, <2>5 DEF Writers
<1>6. CASE FlushBegins
  <2>1. writer'["worker"] = [stage |-> "open", text |-> memory] /\ memory' = memory
    BY <1>0, <1>6 DEF FlushBegins
  <2>2. ~dirty' /\ Busy("worker")'
    BY <1>6, <2>1 DEF FlushBegins, Busy
  <2>3. QED BY <2>1, <2>2 DEF Covered, WorkerLagsDirty, StopSaves
<1>7. CASE FlushResumes
  <2>1. /\ UNCHANGED <<memory, file, late>> /\ flusher' = "sleeping" /\ ~Busy("worker") /\ ~Busy("loop")
        /\ dirty' = (dirty \/ writer["worker"].stage = "failed")
    BY <1>7 DEF FlushResumes, LoopFree, Busy
  <2>2. writer'["worker"].stage = "idle"
    BY <1>0, <1>7 DEF FlushResumes, Move
  <2>3. ~Busy("worker")'
    BY <2>2 DEF Busy
  <2>4. Covered'
    BY <2>1 DEF Covered, Writers
  <2>5. QED BY <2>1, <2>3, <2>4 DEF WorkerLagsDirty, StopSaves
<1>8. CASE Stop
  <2>1. CASE dirty
    BY <1>8, <2>1, SaveCovers DEF Stop
  <2>2. CASE ~dirty
    BY <1>8, <2>2 DEF Stop, Covered, WorkerLagsDirty, StopSaves, Busy
  <2>3. QED BY <2>1, <2>2
<1>9. CASE CleanExit \/ Crash
  <2>1. file'.text = memory' /\ ~dirty' /\ ~Busy("worker")'
    BY <1>9 DEF CleanExit, Crash, Starts, Busy
  <2>2. QED BY <2>1 DEF Covered, WorkerLagsDirty, StopSaves
<1>10. CASE UNCHANGED vars
  BY <1>10 DEF vars, Covered, WorkerLagsDirty, StopSaves, Busy
<1>11. QED
  BY <1>1, <1>2, <1>3, <1>4, <1>5, <1>6, <1>7, <1>8, <1>9, <1>10 DEF Next

THEOREM Coverage == Spec => [](Covered /\ WorkerLagsDirty /\ StopSaves)
<1>1. Init => Covered /\ WorkerLagsDirty /\ StopSaves
  BY CoverInit
<1>2. /\ IInv /\ [Next]_vars
      /\ Covered /\ WorkerLagsDirty /\ StopSaves
      => (Covered /\ WorkerLagsDirty /\ StopSaves)'
  BY CoverStep
<1>3. QED BY <1>1, <1>2, Invariance, PTL DEF Spec

(* While the registry runs, no change is dropped: it is on disk, dirty, or *)
(* being written, whatever fails and whenever it was made, unless a late   *)
(* worker's snapshot is on disk (PersistedRegistry.flush).                 *)
THEOREM NothingIsForgotten == Spec => []NothingForgotten
<1>1. Covered => NothingForgotten
  BY DEF Covered, NothingForgotten, Busy
<1>2. QED BY <1>1, Coverage, PTL

(* A stop that could write hands everything to the next process, even when *)
(* it abandoned a worker in the middle of an older snapshot, unless that   *)
(* worker had the last word (PersistedRegistry.stop).                      *)
THEOREM CleanRestarts == Spec => CleanRestart
<1>1. IInv /\ Covered /\ StopSaves
        => (CleanExit => \/ memory' = memory \/ late = "wrote"
                         \/ \E w \in Writers : writer[w].stage = "failed")
  <2> SUFFICES ASSUME IInv, Covered, StopSaves, CleanExit, late # "wrote",
                      \A w \in Writers : writer[w].stage # "failed"
               PROVE  memory' = memory
    OBVIOUS
  <2>1. \A w \in Writers : ~Busy(w)
    BY DEF CleanExit, LoopFree, Writers
  <2>2. file.text = memory
    BY <2>1, WriterFacts DEF Covered, StopSaves, CleanExit
  <2>3. QED BY <2>2 DEF CleanExit, Starts, IInv, Durable
<1>2. QED BY <1>1, Coverage, Invariance, PTL DEF Spec, CleanRestart
=============================================================================
