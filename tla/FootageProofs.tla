--------------------------- MODULE FootageProofs ---------------------------
(***************************************************************************)
(* For any number of chunks, in any seconds and of any streams, and any    *)
(* number of stops:                                                        *)
(*   ShownStayListed  the timeline keeps every chunk it has shown until    *)
(*                    its footage expires;                                 *)
(*   OneWriter        no two tasks write one file unless a name was        *)
(*                    unlinked that had been taken since it was looked up; *)
(*   FootageStays     what reached the disk stays there, staged, filed or  *)
(*                    in a clip, until it expires, unless the model counts *)
(*                    an upset other than a second clip for the visit;     *)
(*   ReadyRowsPlay    while it counts none, a ready row names a file that  *)
(*                    holds all the row stands for.                        *)
(* The last two rest on Settled, which holds through every upset: what the *)
(* pipeline, the stitcher and the sweeper believe of each other's rows.    *)
(***************************************************************************)
EXTENDS Footage, TLAPS

(* What the sweeper is about to forget has expired, and nobody else        *)
(* deletes the clip's row.                                                 *)
Forgettable ==
    /\ sweep.at = "unlinked" => Selected \subseteq expired
    /\ Clip \in DOMAIN sweep.rows => Clip \in DOMAIN media
    /\ shown \subseteq Chunks

IInv == Listed /\ Forgettable

LEMMA InvInit == Init => IInv
<1> SUFFICES ASSUME Init PROVE IInv
  OBVIOUS
<1>1. PICK joined \in Joined : InitDisk(joined)
  BY DEF Init
<1>2. joined \subseteq Stored /\ Stored \subseteq Chunks
  BY StoredAssumption
<1>3. /\ covers = joined
      /\ DOMAIN media = (Stored \ joined) \cup (IF joined = {} THEN {} ELSE {Clip})
  BY <1>1 DEF InitDisk
<1>4. Listed
  BY <1>2, <1>3 DEF Init, Listed
<1>5. Forgettable
  BY <1>2 DEF Init, Forgettable, IdleSweep
<1>6. QED BY <1>4, <1>5 DEF IInv

(* A step that forgets no row and shows no other chunk.                    *)
LEMMA KeptRows ==
    ASSUME IInv, DOMAIN media \subseteq DOMAIN media', sweep' \in {sweep, IdleSweep},
           UNCHANGED <<shown, covers, expired>>
    PROVE  IInv'
<1>1. Listed'
  BY DEF IInv, Listed
<1>2. CASE sweep' = sweep
  BY <1>1, <1>2 DEF IInv, Forgettable, Selected, StandsFor
<1>3. CASE sweep' = IdleSweep
  BY <1>1, <1>3 DEF IInv, Forgettable, IdleSweep
<1>4. QED BY <1>2, <1>3

LEMMA HeldRows == \A S : DOMAIN Held(S) = DOMAIN media
BY DEF Held

LEMMA PutRows == \A f, k, v : DOMAIN Put(f, k, v) = DOMAIN f \cup {k}
BY DEF Put

LEMMA WithoutRows == \A f, S : DOMAIN Without(f, S) = DOMAIN f \ S
BY DEF Without

LEMMA SwapStep == ASSUME IInv, Swap PROVE IInv'
<1> DEFINE out == DOMAIN stitch.rows \ stitch.job
<1>1. /\ Clip \notin DOMAIN media /\ covers' = covers \cup stitch.job
      /\ UNCHANGED <<sweep, shown, expired>>
  BY DEF Swap
<1>2. DOMAIN media' = (DOMAIN media \ stitch.job) \cup {Clip}
  <2>1. DOMAIN Without(Held(out), stitch.job) = DOMAIN media \ stitch.job
    BY HeldRows, WithoutRows
  <2>2. QED BY <2>1, PutRows DEF Swap
<1>3. Listed'
  BY <1>1, <1>2 DEF IInv, Listed
<1>4. Forgettable'
  BY <1>1, <1>2 DEF IInv, Forgettable, Selected, StandsFor
<1>5. QED BY <1>3, <1>4 DEF IInv

LEMMA UnlinkStep == ASSUME IInv, UnlinkExpired PROVE IInv'
<1>1. /\ expired' = expired \cup Selected /\ sweep' = [sweep EXCEPT !.at = "unlinked"]
      /\ UNCHANGED <<media, shown, covers>>
  BY DEF UnlinkExpired
<1>2. sweep'.rows = sweep.rows
  BY <1>1
<1>3. Listed' /\ Forgettable'
  BY <1>1, <1>2 DEF IInv, Listed, Forgettable, Selected, StandsFor
<1>4. QED BY <1>3 DEF IInv

LEMMA DeleteStep == ASSUME IInv, NEW r \in Rows, DeleteRow(r) PROVE IInv'
<1>1. /\ sweep.at = "unlinked" /\ r \in DOMAIN sweep.rows
      /\ DOMAIN media' = DOMAIN media \ {r}
      /\ UNCHANGED <<shown, covers, expired>>
  BY WithoutRows DEF DeleteRow
<1>2. DOMAIN sweep'.rows = DOMAIN sweep.rows \ {r}
  <2>1. CASE DOMAIN sweep.rows = {r}
    BY <2>1 DEF DeleteRow, IdleSweep
  <2>2. CASE DOMAIN sweep.rows # {r}
    <3>1. sweep' = [sweep EXCEPT !.rows = Without(sweep.rows, {r})]
      BY <2>2 DEF DeleteRow
    <3>2. DOMAIN Without(sweep.rows, {r}) = DOMAIN sweep.rows \ {r}
      BY WithoutRows
    <3>3. CASE sweep'.rows = Without(sweep.rows, {r})
      BY <3>2, <3>3
    <3>4. QED BY <3>1, <3>2, <3>3
  <2>3. QED BY <2>1, <2>2
<1>3. Selected \subseteq expired
  BY <1>1 DEF IInv, Forgettable
<1>4. Listed'
  <2> SUFFICES ASSUME NEW c \in shown \ expired
               PROVE  c \in DOMAIN media' \/ (Clip \in DOMAIN media' /\ c \in covers)
    BY <1>1 DEF Listed
  <2>1. c \in Chunks /\ c # Clip /\ c \notin Selected
    BY <1>3, ClipAssumption DEF IInv, Forgettable
  <2>2. CASE c \in DOMAIN media
    BY <1>1, <2>1, <2>2 DEF Selected, StandsFor
  <2>3. CASE Clip \in DOMAIN media /\ c \in covers
    BY <1>1, <2>1, <2>3 DEF Selected, StandsFor
  <2>4. QED BY <2>2, <2>3 DEF IInv, Listed
<1>5. Forgettable'
  <2>1. Selected' \subseteq Selected
    BY <1>1, <1>2 DEF Selected, StandsFor
  <2>2. QED BY <1>1, <1>2, <1>3, <2>1 DEF IInv, Forgettable
<1>6. QED BY <1>4, <1>5 DEF IInv

LEMMA RecordStep == ASSUME IInv, NEW c \in Chunks, Record(c) PROVE IInv'
<1>1. /\ DOMAIN media' = DOMAIN media \cup {c} /\ shown' = shown \cup {c}
      /\ UNCHANGED <<sweep, covers, expired>>
  BY PutRows DEF Record
<1>2. Listed'
  BY <1>1 DEF IInv, Listed
<1>3. Forgettable'
  BY <1>1 DEF IInv, Forgettable, Selected, StandsFor
<1>4. QED BY <1>2, <1>3 DEF IInv

LEMMA ChooseStep == ASSUME IInv, ChooseExpired PROVE IInv'
<1>1. PICK S \in SUBSET Ready : sweep' = [at |-> "chosen", rows |-> [r \in S |-> media[r]]]
  BY DEF ChooseExpired
<1>2. sweep'.at = "chosen" /\ DOMAIN sweep'.rows \subseteq DOMAIN media
  BY <1>1 DEF Ready
<1>3. UNCHANGED <<media, shown, covers, expired>>
  BY DEF ChooseExpired
<1>4. Listed' /\ Forgettable'
  BY <1>2, <1>3 DEF IInv, Listed, Forgettable
<1>5. QED BY <1>4 DEF IInv

LEMMA SweepRawStep == ASSUME IInv, NEW c \in Chunks, SweepRaw(c) PROVE IInv'
<1>1. expired' = expired \cup ({c} \ shown) /\ UNCHANGED <<media, sweep, shown, covers>>
  BY DEF SweepRaw
<1>2. Listed' /\ Forgettable'
  BY <1>1 DEF IInv, Listed, Forgettable, Selected, StandsFor
<1>3. QED BY <1>2 DEF IInv

LEMMA StopKeeps == ASSUME IInv, Stop PROVE IInv'
<1>1. expired \subseteq expired' /\ sweep' = IdleSweep /\ UNCHANGED <<media, shown, covers>>
  BY DEF Stop
<1>2. Listed' /\ Forgettable'
  BY <1>1 DEF IInv, Listed, Forgettable, IdleSweep
<1>3. QED BY <1>2 DEF IInv

(* The steps of the pipeline and the stitcher that keep every row.         *)
LEMMA PipelineKeeps ==
    ASSUME NEW c \in Chunks, Upload(c) \/ Report(c) \/ GivesUp(c) \/ Claim(c) \/ Remux(c)
                             \/ KeepTs(c) \/ DropRaw(c) \/ TaskFails(c)
    PROVE  DOMAIN media \subseteq DOMAIN media' /\ UNCHANGED <<sweep, shown, covers, expired>>
<1>1. CASE Upload(c)
  BY <1>1 DEF Upload
<1>2. CASE Report(c)
  <2>1. DOMAIN media' = DOMAIN media \cup {c}
    BY <1>2, PutRows DEF Report
  <2>2. UNCHANGED <<sweep, shown, covers, expired>>
    BY <1>2 DEF Report, history
  <2>3. QED BY <2>1, <2>2
<1>3. CASE GivesUp(c)
  BY <1>3 DEF GivesUp, history
<1>4. CASE Claim(c)
  BY <1>4 DEF Claim, history
<1>5. CASE Remux(c)
  BY <1>5 DEF Remux
<1>6. CASE KeepTs(c)
  BY <1>6 DEF KeepTs
<1>7. CASE DropRaw(c)
  BY <1>7 DEF DropRaw, history
<1>8. CASE TaskFails(c)
  BY <1>8 DEF TaskFails, history
<1>9. QED BY <1>1, <1>2, <1>3, <1>4, <1>5, <1>6, <1>7, <1>8

LEMMA JoinKeeps ==
    ASSUME Join
    PROVE  DOMAIN media' = DOMAIN media /\ UNCHANGED <<sweep, shown, covers, expired>>
<1>1. CASE \E S : GiveUpJoin(S)
  BY <1>1, HeldRows DEF GiveUpJoin, history
<1>2. CASE UNCHANGED <<raw, files, media, fresh, task, sweep, stops, history>>
  BY <1>2 DEF history
<1>3. QED BY <1>1, <1>2 DEF Join

LEMMA StitcherKeeps ==
    ASSUME Pick \/ Join \/ RemoveSources \/ MoveIntoPlace \/ MoveFails \/ SwapRefused
    PROVE  DOMAIN media' = DOMAIN media /\ UNCHANGED <<sweep, shown, covers, expired>>
<1>1. CASE Pick
  BY <1>1 DEF Pick, history
<1>2. CASE RemoveSources
  BY <1>2 DEF RemoveSources
<1>3. CASE MoveIntoPlace
  BY <1>3 DEF MoveIntoPlace
<1>4. CASE MoveFails
  BY <1>4, HeldRows DEF MoveFails
<1>5. CASE SwapRefused
  BY <1>5 DEF SwapRefused
<1>6. QED BY <1>1, <1>2, <1>3, <1>4, <1>5, JoinKeeps

LEMMA InvNext == ASSUME IInv, [Next]_vars PROVE IInv'
<1>1. CASE \E c \in Chunks : Upload(c) \/ Report(c) \/ Pipeline(c) \/ SweepRaw(c)
  BY <1>1, PipelineKeeps, KeptRows, RecordStep, SweepRawStep DEF Pipeline
<1>2. CASE Stitcher
  BY <1>2, StitcherKeeps, KeptRows, SwapStep DEF Stitcher
<1>3. CASE Retention
  BY <1>3, ChooseStep, UnlinkStep, DeleteStep DEF Retention
<1>4. CASE QuietPasses
  BY <1>4, KeptRows DEF QuietPasses, history
<1>5. CASE SweepWork
  BY <1>5, KeptRows DEF SweepWork, history
<1>6. CASE Stop
  BY <1>6, StopKeeps
<1>7. CASE UNCHANGED vars
  BY <1>7, KeptRows DEF vars, history
<1>8. QED BY <1>1, <1>2, <1>3, <1>4, <1>5, <1>6, <1>7 DEF Next

(* The timeline never loses a chunk it has shown, whatever stops, fails or *)
(* is joined twice, and however many chunks and stops there are            *)
(* (replace_chunks_with_stitched, _delete_media_files).                    *)
THEOREM ShownStayListed == Spec => []Listed
<1>1. IInv => Listed
  BY DEF IInv
<1>2. QED BY <1>1, InvInit, InvNext, PTL DEF Spec
-----------------------------------------------------------------------------
(* What keeps the writers apart: a name a task holds is the name of a      *)
(* file, so nobody can reserve it, until the task has written the file.    *)
Holds(c) == task[c].at = "claimed"
Claims ==
    "reused" \notin upset =>
        /\ \A c \in Chunks : Holds(c) => task[c].name \in DOMAIN files
        /\ \A c, d \in Chunks : Holds(c) /\ Holds(d) /\ c # d => task[c].name # task[d].name

Tasks == task = [c \in Chunks |-> [at |-> task[c].at, name |-> task[c].name]]

CInv == Tasks /\ Claims

LEMMA ClaimsInit == Init => CInv
<1> SUFFICES ASSUME Init PROVE CInv
  OBVIOUS
<1>1. PICK joined \in Joined : InitDisk(joined)
  BY DEF Init
<1>2. task = [c \in Chunks |-> IF c \in Stored THEN [at |-> "ended", name |-> Name(Second[c], 1, "mp4")]
                               ELSE [at |-> "unreported", name |-> NoName]]
  BY <1>1 DEF InitDisk
<1>3. \A c \in Chunks : ~Holds(c)
  BY <1>2 DEF Holds
<1>4. Tasks
  BY <1>2 DEF Tasks
<1>5. QED BY <1>3, <1>4 DEF CInv, Claims

(* A step after which no task holds a name it did not hold before, and     *)
(* every name still held is the name of a file.                            *)
LEMMA ClaimsKept ==
    ASSUME CInv, Tasks',
           upset \subseteq upset',
           \A c \in Chunks : Holds(c)' => Holds(c) /\ task'[c].name = task[c].name,
           "reused" \notin upset' =>
               \A c \in Chunks : Holds(c)' /\ task[c].name \in DOMAIN files
                                 => task[c].name \in DOMAIN files'
    PROVE  CInv'
<1>1. Claims'
  BY DEF CInv, Claims
<1>2. QED BY <1>1 DEF CInv

(* The task of c moves to another step, or takes a name.                   *)
LEMMA TaskSet ==
    ASSUME Tasks, NEW c \in Chunks, NEW a, NEW n,
           task' = [task EXCEPT ![c] = [at |-> a, name |-> n]]
    PROVE  /\ Tasks' /\ task'[c].at = a /\ task'[c].name = n
           /\ \A d \in Chunks \ {c} : task'[d] = task[d]
<1>1. DOMAIN task = Chunks /\ \A d \in Chunks : task[d] = [at |-> task[d].at, name |-> task[d].name]
  BY DEF Tasks
<1>2. task' = [d \in Chunks |-> IF d = c THEN [at |-> a, name |-> n] ELSE task[d]]
  BY <1>1
<1>3. Tasks'
  BY <1>1, <1>2 DEF Tasks
<1>4. QED BY <1>2, <1>3

LEMMA TaskAt ==
    ASSUME Tasks, NEW c \in Chunks, NEW a, task' = [task EXCEPT ![c].at = a]
    PROVE  /\ Tasks' /\ task'[c].at = a /\ task'[c].name = task[c].name
           /\ \A d \in Chunks \ {c} : task'[d] = task[d]
<1>1. DOMAIN task = Chunks /\ task[c] = [at |-> task[c].at, name |-> task[c].name]
  BY DEF Tasks
<1>2. [task[c] EXCEPT !.at = a] = [at |-> a, name |-> task[c].name]
  BY <1>1
<1>3. task' = [task EXCEPT ![c] = [at |-> a, name |-> task[c].name]]
  BY <1>1, <1>2
<1>4. QED BY <1>3, TaskSet

(* A task moves on to a step at which it holds no name, and files stay.    *)
LEMMA TaskMoves ==
    ASSUME CInv, NEW c \in Chunks, NEW a, a # "claimed", task' = [task EXCEPT ![c].at = a],
           UNCHANGED <<files, upset>>
    PROVE  CInv'
<1>1. Tasks' /\ ~Holds(c)' /\ \A d \in Chunks \ {c} : task'[d] = task[d]
  BY TaskAt DEF CInv, Holds
<1>2. \A d \in Chunks : Holds(d)' => Holds(d) /\ task'[d].name = task[d].name
  BY <1>1 DEF Holds
<1>3. QED BY <1>1, <1>2, ClaimsKept

LEMMA ClaimStep == ASSUME CInv, NEW c \in Chunks, Claim(c) PROVE CInv'
<1>1. PICK n : LET name == Name(Second[c], n, "mp4") IN
         /\ name \notin DOMAIN files
         /\ files' = Put(files, name, {})
         /\ task' = [task EXCEPT ![c] = [at |-> "claimed", name |-> name]]
  BY DEF Claim
<1> DEFINE name == Name(Second[c], n, "mp4")
<1> HIDE DEF name
<1>2. name \notin DOMAIN files /\ DOMAIN files' = DOMAIN files \cup {name}
  BY <1>1, PutRows DEF name
<1>3. task' = [task EXCEPT ![c] = [at |-> "claimed", name |-> name]]
  BY <1>1 DEF name
<1>4. Tasks' /\ task'[c].name = name /\ \A d \in Chunks \ {c} : task'[d] = task[d]
  BY <1>3, TaskSet DEF CInv
<1>5. upset' = upset
  BY DEF Claim, history
<1>6. Claims'
  BY <1>2, <1>4, <1>5 DEF CInv, Claims, Holds
<1>7. QED BY <1>4, <1>6 DEF CInv

(* Upsets are recorded and never forgotten.                                *)
LEMMA UpsetGrows ==
    ASSUME NEW what, NEW happened, Upset(what, happened)
    PROVE  upset \subseteq upset' /\ (happened => what \in upset')
BY DEF Upset

LEMMA RemuxStep == ASSUME CInv, NEW c \in Chunks, Remux(c) PROVE CInv'
<1>1. files' = Put(files, task[c].name, {c}) /\ task' = [task EXCEPT ![c].at = "written"]
  BY DEF Remux
<1>2. DOMAIN files \subseteq DOMAIN files'
  BY <1>1 DEF Put
<1>3. Tasks' /\ task'[c].at = "written" /\ \A d \in Chunks \ {c} : task'[d] = task[d]
  <2>1. Tasks
    BY DEF CInv
  <2>2. QED BY <1>1, <2>1, TaskAt
<1>4. \A d \in Chunks : Holds(d)' => Holds(d) /\ task'[d].name = task[d].name
  BY <1>3 DEF Holds
<1>5. upset \subseteq upset'
  BY UpsetGrows DEF Remux
<1>6. QED BY <1>2, <1>3, <1>4, <1>5, ClaimsKept

LEMMA KeepTsStep == ASSUME CInv, NEW c \in Chunks, KeepTs(c) PROVE CInv'
<1> DEFINE held == task[c].name
           ts == [held EXCEPT !.ext = "ts"]
<1>1. /\ Holds(c)
      /\ files' = Put(Without(files, {held}), ts, {c})
      /\ task' = [task EXCEPT ![c] = [at |-> "written", name |-> ts]]
  BY DEF KeepTs, Holds
<1>2. upset \subseteq upset'
  BY UpsetGrows DEF KeepTs
<1> HIDE DEF ts
<1>3. DOMAIN files \ {held} \subseteq DOMAIN files'
  BY <1>1 DEF Put, Without
<1>4. Tasks' /\ task'[c].at = "written" /\ \A d \in Chunks \ {c} : task'[d] = task[d]
  <2>1. Tasks
    BY DEF CInv
  <2>2. QED BY <1>1, <2>1, TaskSet
<1>5. ~Holds(c)' /\ \A d \in Chunks : Holds(d)' => d # c /\ Holds(d) /\ task'[d] = task[d]
  BY <1>4 DEF Holds
<1>6. Claims'
  <2> SUFFICES ASSUME "reused" \notin upset' PROVE
          /\ \A d \in Chunks : Holds(d)' => task'[d].name \in DOMAIN files'
          /\ \A d, e \in Chunks : Holds(d)' /\ Holds(e)' /\ d # e
                                  => task'[d].name # task'[e].name
    BY DEF Claims
  <2>1. /\ \A d \in Chunks : Holds(d) => task[d].name \in DOMAIN files
        /\ \A d, e \in Chunks : Holds(d) /\ Holds(e) /\ d # e => task[d].name # task[e].name
    BY <1>2 DEF CInv, Claims
  <2>2. QED BY <1>1, <1>3, <1>5, <2>1
<1>7. QED BY <1>4, <1>6 DEF CInv

(* Unlinking spares the names held, or is recorded as an upset.            *)
LEMMA UnlinkSpares ==
    ASSUME CInv, NEW S, files' = Without(files, S), UNCHANGED task,
           NEW footage, Upset("reused", \E name \in S : Taken(name, footage))
    PROVE  CInv'
<1>1. upset \subseteq upset'
  BY UpsetGrows
<1>2. ASSUME "reused" \notin upset', NEW c \in Chunks, Holds(c), task[c].name \in DOMAIN files
      PROVE  task[c].name \in DOMAIN files'
  <2>1. task[c].name \notin S
    BY <1>2, UpsetGrows DEF Taken, Holds
  <2>2. QED BY <1>2, <2>1, WithoutRows
<1>3. Tasks' /\ \A c \in Chunks : Holds(c)' => Holds(c) /\ task'[c].name = task[c].name
  BY DEF CInv, Tasks, Holds
<1>4. QED BY <1>1, <1>2, <1>3, ClaimsKept DEF Holds

LEMMA StopStep == ASSUME CInv, Stop PROVE CInv'
<1>1. task' = [c \in Chunks |-> IF task[c].at = "unreported" THEN task[c]
                                ELSE [task[c] EXCEPT !.at = "ended"]]
  BY DEF Stop
<1>2. \A c \in Chunks : task[c] = [at |-> task[c].at, name |-> task[c].name]
  BY DEF CInv, Tasks
<1>3. \A c \in Chunks : /\ task'[c] = [at |-> task'[c].at, name |-> task'[c].name]
                        /\ task'[c].at # "claimed"
  <2> TAKE c \in Chunks
  <2>1. task[c] = [at |-> task[c].at, name |-> task[c].name]
    BY <1>2
  <2>2. CASE task[c].at = "unreported"
    BY <1>1, <2>1, <2>2
  <2>3. CASE task[c].at # "unreported"
    <3>1. task'[c] = [task[c] EXCEPT !.at = "ended"]
      BY <1>1, <2>3
    <3>2. [task[c] EXCEPT !.at = "ended"] = [at |-> "ended", name |-> task[c].name]
      BY <2>1
    <3>3. task'[c] = [at |-> "ended", name |-> task[c].name]
      BY <3>1, <3>2
    <3>4. QED BY <3>3
  <2>4. QED BY <2>2, <2>3
<1>4. Tasks'
  BY <1>1, <1>3 DEF Tasks
<1>5. QED BY <1>3, <1>4 DEF CInv, Claims, Holds

(* A step that leaves the tasks, the files' names and the upsets.          *)
LEMMA ClaimsSame ==
    ASSUME CInv, UNCHANGED task, DOMAIN files \subseteq DOMAIN files', upset \subseteq upset'
    PROVE  CInv'
<1>1. Tasks' /\ \A c \in Chunks : Holds(c)' => Holds(c) /\ task'[c].name = task[c].name
  BY DEF CInv, Tasks, Holds
<1>2. QED BY <1>1, ClaimsKept

LEMMA PipelineClaims ==
    ASSUME CInv, NEW c \in Chunks, Upload(c) \/ Report(c) \/ Pipeline(c) \/ SweepRaw(c)
    PROVE  CInv'
<1>1. CASE Upload(c)
  BY <1>1, ClaimsSame DEF Upload
<1>2. CASE Report(c)
  BY <1>2, TaskMoves DEF Report, disk, history
<1>3. CASE GivesUp(c)
  BY <1>3, TaskMoves DEF GivesUp, disk, history
<1>4. CASE Record(c)
  BY <1>4, TaskMoves DEF Record, disk
<1>5. CASE DropRaw(c)
  BY <1>5, TaskMoves DEF DropRaw, history
<1>6. CASE SweepRaw(c)
  BY <1>6, ClaimsSame DEF SweepRaw
<1>7. CASE TaskFails(c)
  BY <1>7, TaskMoves DEF TaskFails, disk, history
<1>8. QED
  BY <1>1, <1>2, <1>3, <1>4, <1>5, <1>6, <1>7, ClaimStep, RemuxStep, KeepTsStep DEF Pipeline

LEMMA JoinClaims == ASSUME CInv, Join PROVE CInv'
<1>1. UNCHANGED <<files, task, upset>>
  <2>1. CASE \E S : GiveUpJoin(S)
    BY <2>1 DEF GiveUpJoin, history
  <2>2. CASE UNCHANGED <<raw, files, media, fresh, task, sweep, stops, history>>
    BY <2>2 DEF history
  <2>3. QED BY <2>1, <2>2 DEF Join
<1>2. QED BY <1>1, ClaimsSame

LEMMA StitcherClaims == ASSUME CInv, Stitcher PROVE CInv'
<1>1. CASE Pick
  BY <1>1, ClaimsSame DEF Pick, disk, history
<1>2. CASE RemoveSources
  BY <1>2, UnlinkSpares DEF RemoveSources
<1>3. CASE MoveIntoPlace
  <2>1. files' = Put(files, MergedName, work) /\ UNCHANGED task
    BY <1>3 DEF MoveIntoPlace
  <2>2. DOMAIN files \subseteq DOMAIN files'
    BY <2>1 DEF Put
  <2>3. upset \subseteq upset'
    BY <1>3, UpsetGrows DEF MoveIntoPlace
  <2>4. QED BY <2>1, <2>2, <2>3, ClaimsSame
<1>4. CASE MoveFails
  BY <1>4, ClaimsSame, UpsetGrows DEF MoveFails, disk
<1>5. CASE Swap
  BY <1>5, ClaimsSame DEF Swap, disk
<1>6. CASE SwapRefused
  BY <1>6, ClaimsSame, UpsetGrows DEF SwapRefused, disk
<1>7. QED BY <1>1, <1>2, <1>3, <1>4, <1>5, <1>6, JoinClaims DEF Stitcher

LEMMA RetentionClaims == ASSUME CInv, Retention PROVE CInv'
<1>1. CASE ChooseExpired
  BY <1>1, ClaimsSame DEF ChooseExpired, disk
<1>2. CASE UnlinkExpired
  BY <1>2, UnlinkSpares DEF UnlinkExpired
<1>3. CASE \E r \in Rows : DeleteRow(r)
  BY <1>3, ClaimsSame DEF DeleteRow, disk
<1>4. QED BY <1>1, <1>2, <1>3 DEF Retention

LEMMA ClaimsNext == ASSUME CInv, [Next]_vars PROVE CInv'
<1>1. CASE QuietPasses
  BY <1>1, ClaimsSame DEF QuietPasses, disk, history
<1>2. CASE SweepWork
  BY <1>2, ClaimsSame DEF SweepWork, history
<1>3. CASE UNCHANGED vars
  BY <1>3, ClaimsSame DEF vars, disk, history
<1>4. QED
  BY <1>1, <1>2, <1>3, PipelineClaims, StitcherClaims, RetentionClaims, StopStep DEF Next

(* Two tasks never write one file, however many chunks of however many     *)
(* seconds arrive at once, unless a file is unlinked by a name that was    *)
(* looked up earlier (_claim_unique_path).                                 *)
THEOREM OneWriter == Spec => []OneWriterPerFile
<1>1. CInv => OneWriterPerFile
  BY DEF CInv, Claims, Holds, OneWriterPerFile
<1>2. QED BY <1>1, ClaimsInit, ClaimsNext, PTL DEF Spec
-----------------------------------------------------------------------------
(* What holds of the rows whatever happens to the files.  A chunk whose    *)
(* row is ready, or is in the stitcher's snapshot, or was replaced by a    *)
(* clip, is one its pipeline task has done with; and a row the stitcher    *)
(* holds a copy of has not changed since, unless it has expired.           *)
Done(c) == task[c].at \in {"recorded", "ended"}
UnderWay(c) == task[c].at \in {"started", "claimed", "written"}
Whole(row) == row = Row(row.status, row.path, row.state, row.created)
WholeStitch == stitch = [at |-> stitch.at, rows |-> stitch.rows, job |-> stitch.job]

RowsSettled ==
    /\ \A r \in DOMAIN media : Whole(media[r])
    /\ \A c \in Chunks : UnderWay(c) => c \in DOMAIN media
    /\ \A c \in Ready \cap Chunks : Done(c) /\ c \notin covers
    /\ Ready \subseteq Rows
SweepSettled == \A c \in DOMAIN sweep.rows \cap Chunks : Done(c)
JoinSettled ==
    /\ WholeStitch /\ stitch.at \in {"idle", "picked", "verified", "removed", "moved"}
    /\ stitch.job \subseteq DOMAIN stitch.rows
    /\ stitch.at \in {"idle", "picked"} => stitch.job = {}
    /\ \A c \in DOMAIN stitch.rows :
          c \in Chunks /\ Done(c) /\ c \notin covers /\ stitch.rows[c].status = "ready"
CopySettled ==
    stitch.at # "idle" =>
        \A c \in DOMAIN stitch.rows \ expired : c \in DOMAIN media /\ media[c] = stitch.rows[c]
CoversSettled ==
    /\ \A c \in covers : c \in Chunks /\ Done(c)
    /\ Clip \notin DOMAIN media => covers \subseteq expired

Settled == RowsSettled /\ SweepSettled /\ JoinSettled /\ CopySettled /\ CoversSettled

SInv == IInv /\ CInv /\ Settled

(* Nothing has happened but, perhaps, a second clip for one visit.         *)
Calm == upset \subseteq {"rejoin"}

(* A step leaves the footage of a file where it is, or it has expired.     *)
Survives(p) ==
    \/ p \in DOMAIN files' /\ files[p] \subseteq files'[p]
    \/ files[p] \subseteq expired'
FilesSurvive == \A p \in DOMAIN files : Survives(p)

LEMMA PutAt == \A f, k, v : Put(f, k, v)[k] = v /\ \A x \in DOMAIN f \ {k} : Put(f, k, v)[x] = f[x]
BY DEF Put

LEMMA WithoutAt == \A f, S : \A x \in DOMAIN f \ S : Without(f, S)[x] = f[x]
BY DEF Without

LEMMA HistoryGrows ==
    ASSUME [Next]_vars
    PROVE  expired \subseteq expired' /\ upset \subseteq upset'
<1>1. CASE \E c \in Chunks : Upload(c) \/ Report(c) \/ Pipeline(c) \/ SweepRaw(c)
  BY <1>1, UpsetGrows DEF Upload, Report, Pipeline, SweepRaw, Claim, Remux, KeepTs, Record,
        DropRaw, GivesUp, TaskFails, history
<1>2. CASE QuietPasses \/ SweepWork \/ UNCHANGED vars
  BY <1>2 DEF QuietPasses, SweepWork, vars, history
<1>3. CASE Join
  BY <1>3 DEF Join, GiveUpJoin, history
<1>4. CASE Stitcher /\ ~Join
  BY <1>4, UpsetGrows DEF Stitcher, Pick, RemoveSources, MoveIntoPlace, MoveFails, Swap,
        SwapRefused, history
<1>5. CASE Retention
  BY <1>5, UpsetGrows DEF Retention, ChooseExpired, UnlinkExpired, DeleteRow, history
<1>6. CASE Stop
  BY <1>6 DEF Stop
<1>7. QED BY <1>1, <1>2, <1>3, <1>4, <1>5, <1>6 DEF Next

(* A name removed or replaced while nothing is recorded as upset.          *)
LEMMA Unlinked ==
    ASSUME NEW S, NEW footage, files' = Without(files, S), Calm',
           Upset("reused", \E name \in S : Taken(name, footage))
    PROVE  \A p \in DOMAIN files :
              (p \in DOMAIN files' /\ files'[p] = files[p]) \/ (p \in S /\ files[p] \subseteq footage)
<1>1. ~ \E name \in S : Taken(name, footage)
  <2>1. "reused" \notin upset'
    BY DEF Calm
  <2>2. (\E name \in S : Taken(name, footage)) => "reused" \in upset'
    BY DEF Upset
  <2>3. QED BY <2>1, <2>2
<1>2. DOMAIN files' = DOMAIN files \ S /\ \A p \in DOMAIN files \ S : files'[p] = files[p]
  BY DEF Without
<1>3. QED BY <1>1, <1>2 DEF Clobbers, Taken

LEMMA Written ==
    ASSUME NEW name, NEW footage, files' = Put(files, name, footage),
           name \notin DOMAIN files \/ files[name] \subseteq footage
    PROVE  FilesSurvive
<1>1. /\ DOMAIN files' = DOMAIN files \cup {name} /\ files'[name] = footage
      /\ \A p \in DOMAIN files \ {name} : files'[p] = files[p]
  BY DEF Put
<1>2. QED BY <1>1 DEF FilesSurvive, Survives

LEMMA PipelineSurvive ==
    ASSUME NEW c \in Chunks, Upload(c) \/ Report(c) \/ Pipeline(c) \/ SweepRaw(c), Calm'
    PROVE  FilesSurvive
<1>1. CASE Claim(c)
  <2>1. PICK n : LET name == Name(Second[c], n, "mp4") IN
                   name \notin DOMAIN files /\ files' = Put(files, name, {})
    BY <1>1 DEF Claim
  <2>2. QED BY <2>1, Written
<1>2. CASE Remux(c)
  <2>1. files' = Put(files, task[c].name, {c}) /\ ~Clobbers(task[c].name, {c})
    BY <1>2, UpsetGrows DEF Remux, Calm
  <2>2. QED BY <2>1, Written DEF Clobbers
<1>3. CASE KeepTs(c)
  <2> DEFINE held == task[c].name
             ts == [held EXCEPT !.ext = "ts"]
  <2>1. /\ files' = Put(Without(files, {held}), ts, {c})
        /\ Upset("overwrite", Clobbers(ts, {c}) \/ Clobbers(held, {}))
    BY <1>3 DEF KeepTs
  <2> HIDE DEF held, ts
  <2>2. ~Clobbers(ts, {c}) /\ ~Clobbers(held, {})
    <3>1. "overwrite" \notin upset'
      BY DEF Calm
    <3>2. Clobbers(ts, {c}) \/ Clobbers(held, {}) => "overwrite" \in upset'
      BY <2>1 DEF Upset
    <3>3. QED BY <3>1, <3>2
  <2>3. /\ DOMAIN files' = (DOMAIN files \ {held}) \cup {ts} /\ files'[ts] = {c}
        /\ \A p \in DOMAIN files \ {held, ts} : files'[p] = files[p]
    BY <2>1 DEF Put, Without
  <2>4. QED BY <2>2, <2>3 DEF Clobbers, FilesSurvive, Survives
<1>4. CASE files' = files
  BY <1>4 DEF FilesSurvive, Survives
<1>5. QED
  BY <1>1, <1>2, <1>3, <1>4 DEF Upload, Report, Pipeline, SweepRaw, Record, DropRaw, GivesUp,
        TaskFails, disk

LEMMA StopSurvive == ASSUME Stop, Calm' PROVE FilesSurvive /\ stitch.at \notin {"removed", "moved"}
<1>1. PICK gone, swept :
         /\ files' = Without(files, gone \cup {sweep.rows[r].path : r \in swept})
         /\ expired' = expired \cup StandsFor(swept)
         /\ upset' = upset
                \cup (IF gone # {} \/ stitch.at \in {"removed", "moved"} THEN {"stop"} ELSE {})
                \cup (IF \E name \in {sweep.rows[r].path : r \in swept} :
                             Taken(name, StandsFor(swept))
                        THEN {"reused"} ELSE {})
  BY DEF Stop
<1> DEFINE unlinked == {sweep.rows[r].path : r \in swept}
<1>2. gone = {} /\ stitch.at \notin {"removed", "moved"}
  BY <1>1 DEF Calm
<1>3. \A name \in unlinked : ~Taken(name, StandsFor(swept))
  BY <1>1 DEF Calm
<1>4. files' = Without(files, unlinked) /\ StandsFor(swept) \subseteq expired'
  BY <1>1, <1>2
<1> HIDE DEF unlinked
<1>5. \A p \in DOMAIN files : p \in unlinked => files[p] \subseteq StandsFor(swept)
  BY <1>3 DEF Taken, Clobbers
<1>6. FilesSurvive
  BY <1>4, <1>5, WithoutRows, WithoutAt DEF FilesSurvive, Survives
<1>7. QED BY <1>2, <1>6

(* As long as nothing upsets it, only the stitcher takes footage from the  *)
(* folder that has not expired, and only the footage of its sources.       *)
LEMMA FilesStep == ASSUME [Next]_vars, ~RemoveSources, Calm' PROVE FilesSurvive
<1>1. CASE files' = files
  BY <1>1 DEF FilesSurvive, Survives
<1>2. CASE MoveIntoPlace
  <2>1. files' = Put(files, MergedName, work) /\ ~Clobbers(MergedName, work)
    BY <1>2, UpsetGrows DEF MoveIntoPlace, Calm
  <2>2. QED BY <2>1, Written DEF Clobbers
<1>3. CASE UnlinkExpired
  <2>1. Selected \subseteq expired'
    BY <1>3 DEF UnlinkExpired
  <2>2. \A p \in DOMAIN files :
           (p \in DOMAIN files' /\ files'[p] = files[p]) \/ files[p] \subseteq Selected
    BY <1>3, Unlinked DEF UnlinkExpired
  <2>3. QED BY <2>1, <2>2 DEF FilesSurvive, Survives
<1>4. CASE Join
  BY <1>1, <1>4 DEF Join, GiveUpJoin
<1>5. CASE Stitcher /\ ~Join /\ ~MoveIntoPlace
  BY <1>1, <1>5 DEF Stitcher, Pick, RemoveSources, MoveFails, Swap, SwapRefused, disk
<1>6. CASE Retention /\ ~UnlinkExpired
  BY <1>1, <1>6 DEF Retention, ChooseExpired, DeleteRow, disk
<1>7. CASE QuietPasses \/ SweepWork \/ UNCHANGED vars
  BY <1>1, <1>7 DEF QuietPasses, SweepWork, vars, disk
<1>8. QED
  BY <1>2, <1>3, <1>4, <1>5, <1>6, <1>7, PipelineSurvive, StopSurvive DEF Next

LEMMA SourcesStep ==
    ASSUME RemoveSources, Calm'
    PROVE  \A p \in DOMAIN files :
              (p \in DOMAIN files' /\ files'[p] = files[p])
              \/ (p \in Sources /\ files[p] \subseteq stitch.job)
<1>1. files' = Without(files, Sources) /\ Upset("reused", \E name \in Sources : Taken(name, stitch.job))
  BY DEF RemoveSources
<1>2. QED BY <1>1, Unlinked

(* A task is moved on by its own steps and by the process stopping.        *)
OwnStep(c) == Report(c) \/ Pipeline(c)

LEMMA OthersTasks ==
    ASSUME Tasks, NEW d \in Chunks, OwnStep(d), NEW c \in Chunks, c # d
    PROVE  task'[c] = task[c]
<1>1. CASE \E a : task' = [task EXCEPT ![d].at = a]
  BY <1>1, TaskAt
<1>2. CASE \E a, n : task' = [task EXCEPT ![d] = [at |-> a, name |-> n]]
  BY <1>2, TaskSet
<1>3. CASE Report(d)
  BY <1>1, <1>3 DEF Report
<1>4. CASE Claim(d)
  BY <1>2, <1>4 DEF Claim
<1>5. CASE KeepTs(d)
  BY <1>2, <1>5 DEF KeepTs
<1>6. CASE Remux(d) \/ Record(d) \/ DropRaw(d)
  BY <1>1, <1>6 DEF Remux, Record, DropRaw
<1>7. CASE GivesUp(d) \/ TaskFails(d)
  BY <1>1, <1>7 DEF GivesUp, TaskFails
<1>8. QED BY <1>3, <1>4, <1>5, <1>6, <1>7 DEF OwnStep, Pipeline

LEMMA TasksStep ==
    ASSUME Tasks, [Next]_vars, NEW c \in Chunks
    PROVE  task'[c] = task[c] \/ OwnStep(c) \/ Stop
<1>1. CASE \E d \in Chunks : OwnStep(d)
  BY <1>1, OthersTasks
<1>2. CASE \E d \in Chunks : Upload(d) \/ SweepRaw(d)
  BY <1>2 DEF Upload, SweepRaw
<1>3. CASE Join
  BY <1>3 DEF Join, GiveUpJoin
<1>4. CASE Stitcher /\ ~Join
  BY <1>4 DEF Stitcher, Pick, RemoveSources, MoveIntoPlace, MoveFails, Swap, SwapRefused
<1>5. CASE Retention
  BY <1>5 DEF Retention, ChooseExpired, UnlinkExpired, DeleteRow
<1>6. CASE QuietPasses \/ SweepWork \/ UNCHANGED vars
  BY <1>6 DEF QuietPasses, SweepWork, vars
<1>7. QED BY <1>1, <1>2, <1>3, <1>4, <1>5, <1>6 DEF Next, OwnStep

(* What a task's own step does to it.                                      *)
LEMMA OwnStepAt ==
    ASSUME Tasks, NEW c \in Chunks, OwnStep(c)
    PROVE  /\ ~Done(c) \/ task[c].at = "recorded"
           /\ Done(c) => task'[c].at = "ended"
           /\ Report(c) \/ UnderWay(c) \/ Done(c)
           /\ Report(c) => task[c].at = "unreported"
<1>1. Report(c) => task[c].at = "unreported"
  BY DEF Report
<1>2. CASE Report(c)
  BY <1>1, <1>2 DEF Done
<1>3. CASE Claim(c) \/ GivesUp(c)
  <2>1. task[c].at = "started"
    BY <1>3 DEF Claim, GivesUp
  <2>2. QED BY <1>1, <2>1 DEF Done, UnderWay
<1>4. CASE KeepTs(c) \/ Remux(c)
  <2>1. task[c].at = "claimed"
    BY <1>4 DEF KeepTs, Remux
  <2>2. QED BY <1>1, <2>1 DEF Done, UnderWay
<1>5. CASE Record(c)
  <2>1. task[c].at = "written"
    BY <1>5 DEF Record
  <2>2. QED BY <1>1, <2>1 DEF Done, UnderWay
<1>6. CASE DropRaw(c) \/ TaskFails(c)
  <2>1. task[c].at \in {"started", "claimed", "written", "recorded"}
    BY <1>6 DEF DropRaw, TaskFails
  <2>2. task'[c].at = "ended"
    BY <1>6, TaskAt DEF DropRaw, TaskFails
  <2>3. QED BY <1>1, <2>1, <2>2 DEF Done, UnderWay
<1>7. QED BY <1>2, <1>3, <1>4, <1>5, <1>6 DEF OwnStep, Pipeline

LEMMA StopTasks ==
    ASSUME Tasks, Stop, NEW c \in Chunks
    PROVE  /\ task[c].at = "unreported" => task'[c] = task[c]
           /\ task[c].at # "unreported" => task'[c].at = "ended"
<1>1. task' = [d \in Chunks |-> IF task[d].at = "unreported" THEN task[d]
                                ELSE [task[d] EXCEPT !.at = "ended"]]
  BY DEF Stop
<1>2. task[c] = [at |-> task[c].at, name |-> task[c].name]
  BY DEF Tasks
<1>3. [task[c] EXCEPT !.at = "ended"] = [at |-> "ended", name |-> task[c].name]
  BY <1>2
<1>4. CASE task[c].at = "unreported"
  BY <1>1, <1>4
<1>5. CASE task[c].at # "unreported"
  BY <1>1, <1>3, <1>5
<1>6. QED BY <1>4, <1>5

(* A task that is done stays so, and only a report starts one.             *)
LEMMA DoneStays ==
    ASSUME Tasks, [Next]_vars, NEW c \in Chunks
    PROVE  /\ Done(c) => Done(c)'
           /\ UnderWay(c)' => UnderWay(c) \/ Report(c)
<1>1. CASE task'[c] = task[c]
  BY <1>1 DEF Done, UnderWay
<1>2. CASE OwnStep(c)
  BY <1>2, OwnStepAt DEF Done, UnderWay
<1>3. CASE Stop
  BY <1>3, StopTasks DEF Done, UnderWay
<1>4. QED BY <1>1, <1>2, <1>3, TasksStep

LEMMA SettledInit == Init => Settled
<1> SUFFICES ASSUME Init PROVE Settled
  OBVIOUS
<1>1. PICK joined \in Joined : InitDisk(joined)
  BY DEF Init
<1>2. joined \subseteq Stored /\ Stored \subseteq Chunks
  BY StoredAssumption
<1> DEFINE at(r) == Name(Second[IF r = Clip THEN First(joined) ELSE r], 1, "mp4")
           rows == (Stored \ joined) \cup (IF joined = {} THEN {} ELSE {Clip})
<1>3. /\ media = [r \in rows |-> Row("ready", at(r), IF r = Clip THEN "stitched" ELSE "free",
                                     at(r).second)]
      /\ covers = joined
      /\ \A c \in Chunks : task[c].at = IF c \in Stored THEN "ended" ELSE "unreported"
  BY <1>1 DEF InitDisk
<1> HIDE DEF at
<1>4. \A c \in Chunks : ~UnderWay(c) /\ (c \in Stored => Done(c))
  BY <1>3 DEF UnderWay, Done
<1>5. RowsSettled
  <2>1. \A r \in rows : Whole(media[r])
    BY <1>3 DEF Whole, Row
  <2>2. Ready \subseteq rows
    BY <1>3 DEF Ready
  <2>3. QED BY <1>2, <1>3, <1>4, <2>1, <2>2, ClipAssumption DEF RowsSettled, Rows
<1>6. SweepSettled /\ JoinSettled /\ CopySettled
  BY DEF Init, Idle, IdleSweep, SweepSettled, JoinSettled, CopySettled, WholeStitch
<1>7. CoversSettled
  BY <1>2, <1>3, <1>4 DEF CoversSettled
<1>8. QED BY <1>5, <1>6, <1>7 DEF Settled

LEMMA SweepSettledStep ==
    ASSUME Tasks, RowsSettled, SweepSettled, [Next]_vars
    PROVE  SweepSettled'
<1>1. \A c \in Chunks : Done(c) => Done(c)'
  BY DoneStays
<1>2. CASE DOMAIN sweep'.rows \subseteq DOMAIN sweep.rows
  BY <1>1, <1>2 DEF SweepSettled
<1>3. CASE sweep' = sweep \/ sweep' = IdleSweep
  BY <1>2, <1>3 DEF IdleSweep
<1>4. CASE ChooseExpired
  <2>1. PICK S \in SUBSET Ready : sweep' = [at |-> "chosen", rows |-> [r \in S |-> media[r]]]
    BY <1>4 DEF ChooseExpired
  <2>2. QED BY <1>1, <2>1 DEF SweepSettled, RowsSettled
<1>5. CASE UnlinkExpired
  <2>1. sweep'.rows = sweep.rows
    BY <1>5 DEF UnlinkExpired
  <2>2. QED BY <1>2, <2>1
<1>6. CASE \E r \in Rows : DeleteRow(r)
  <2>1. PICK r \in Rows : DeleteRow(r)
    BY <1>6
  <2>2. CASE DOMAIN sweep.rows # {r}
    <3>1. sweep' = [sweep EXCEPT !.rows = Without(sweep.rows, {r})]
      BY <2>1, <2>2 DEF DeleteRow
    <3>2. DOMAIN Without(sweep.rows, {r}) = DOMAIN sweep.rows \ {r}
      BY WithoutRows
    <3>3. CASE sweep'.rows = Without(sweep.rows, {r})
      BY <1>2, <3>2, <3>3
    <3>4. QED BY <3>1, <3>3
  <2>3. QED BY <1>3, <2>1, <2>2 DEF DeleteRow
<1>7. sweep' = sweep \/ sweep' = IdleSweep \/ Retention
  <2>1. CASE \E c \in Chunks : Upload(c) \/ Report(c) \/ Pipeline(c) \/ SweepRaw(c)
    BY <2>1 DEF Upload, Report, Pipeline, SweepRaw, Claim, Remux, KeepTs, Record, DropRaw,
          GivesUp, TaskFails
  <2>2. CASE Join
    BY <2>2 DEF Join, GiveUpJoin
  <2>3. CASE Stitcher /\ ~Join
    BY <2>3 DEF Stitcher, Pick, RemoveSources, MoveIntoPlace, MoveFails, Swap, SwapRefused
  <2>4. CASE QuietPasses \/ SweepWork \/ Stop \/ UNCHANGED vars
    BY <2>4 DEF QuietPasses, SweepWork, Stop, vars
  <2>5. QED BY <2>1, <2>2, <2>3, <2>4 DEF Next
<1>8. QED BY <1>3, <1>4, <1>5, <1>6, <1>7 DEF Retention

(* Which steps touch the rows, and how.                                    *)
LEMMA RowsTouched ==
    ASSUME [Next]_vars
    PROVE  \/ UNCHANGED media
           \/ \E c \in Chunks : Report(c) \/ GivesUp(c) \/ Record(c)
           \/ Join \/ MoveFails \/ Swap
           \/ \E r \in Rows : DeleteRow(r)
<1>1. CASE \E c \in Chunks : Upload(c) \/ Report(c) \/ Pipeline(c) \/ SweepRaw(c)
  BY <1>1 DEF Upload, Pipeline, SweepRaw, Claim, Remux, KeepTs, DropRaw, TaskFails
<1>2. CASE Stitcher
  BY <1>2 DEF Stitcher, Pick, RemoveSources, MoveIntoPlace, SwapRefused
<1>3. CASE Retention
  BY <1>3 DEF Retention, ChooseExpired, UnlinkExpired
<1>4. CASE QuietPasses \/ SweepWork \/ Stop \/ UNCHANGED vars
  BY <1>4 DEF QuietPasses, SweepWork, Stop, vars
<1>5. QED BY <1>1, <1>2, <1>3, <1>4 DEF Next

(* The clip's cover grows when rows are swapped for it.                    *)
LEMMA CoversTouched == ASSUME [Next]_vars, ~Swap PROVE covers' = covers
<1>1. CASE \E c \in Chunks : Upload(c) \/ Report(c) \/ Pipeline(c) \/ SweepRaw(c)
  BY <1>1 DEF Upload, Report, Pipeline, SweepRaw, Claim, Remux, KeepTs, Record, DropRaw,
        GivesUp, TaskFails, history
<1>2. CASE Join
  BY <1>2 DEF Join, GiveUpJoin, history
<1>3. CASE Stitcher /\ ~Join
  BY <1>3 DEF Stitcher, Pick, RemoveSources, MoveIntoPlace, MoveFails, SwapRefused, history
<1>4. CASE Retention
  BY <1>4 DEF Retention, ChooseExpired, UnlinkExpired, DeleteRow
<1>5. CASE QuietPasses \/ SweepWork \/ Stop \/ UNCHANGED vars
  BY <1>5 DEF QuietPasses, SweepWork, Stop, vars, history
<1>6. QED BY <1>1, <1>2, <1>3, <1>4, <1>5 DEF Next

LEMMA CoversSettledStep ==
    ASSUME SInv, [Next]_vars
    PROVE  CoversSettled'
<1>1. \A c \in Chunks : Done(c) => Done(c)'
  BY DoneStays DEF SInv, CInv
<1>2. expired \subseteq expired'
  BY HistoryGrows
<1>3. CASE Swap
  <2>1. Clip \in DOMAIN media' /\ covers' = covers \cup stitch.job
    BY <1>3 DEF Swap, Put
  <2>2. QED BY <1>1, <2>1 DEF CoversSettled, SInv, Settled, JoinSettled
<1>4. CASE ~Swap /\ Clip \notin DOMAIN media
  BY <1>1, <1>2, <1>4, CoversTouched DEF SInv, Settled, CoversSettled
<1>5. CASE ~Swap /\ Clip \in DOMAIN media
  <2>1. covers' = covers
    BY <1>5, CoversTouched
  <2>2. Clip \in DOMAIN media' \/ covers \subseteq expired'
    <3>1. CASE \E r \in Rows : DeleteRow(r)
      <4>1. PICK r \in Rows : DeleteRow(r)
        BY <3>1
      <4>2. /\ DOMAIN media' = DOMAIN media \ {r} /\ r \in DOMAIN sweep.rows
            /\ sweep.at = "unlinked"
        BY <4>1, WithoutRows DEF DeleteRow
      <4>3. Selected \subseteq expired
        BY <4>2 DEF SInv, IInv, Forgettable
      <4>4. QED BY <1>2, <1>5, <4>2, <4>3 DEF Selected, StandsFor
    <3>2. CASE \E c \in Chunks : Report(c) \/ GivesUp(c) \/ Record(c)
      <4>1. DOMAIN media \subseteq DOMAIN media'
        BY <3>2 DEF Report, GivesUp, Record, Put
      <4>2. QED BY <1>5, <4>1
    <3>3. CASE Join \/ MoveFails
      BY <1>5, <3>3, JoinKeeps, StitcherKeeps
    <3>4. CASE UNCHANGED media
      BY <1>5, <3>4
    <3>5. QED BY <1>5, <3>1, <3>2, <3>3, <3>4, RowsTouched
  <2>3. QED BY <1>1, <2>1, <2>2 DEF SInv, Settled, CoversSettled
<1>6. QED BY <1>3, <1>4, <1>5

(* A step that only makes ready the rows of chunks their tasks have done   *)
(* with.                                                                   *)
LEMMA RowsSettledKept ==
    ASSUME RowsSettled, UNCHANGED covers,
           \A c \in Chunks : Done(c) => Done(c)',
           \A r \in DOMAIN media' : Whole(media'[r]),
           \A r \in DOMAIN media' : media'[r].status = "ready" =>
               r \in Ready \/ (r \in Chunks \ covers /\ Done(r)'),
           \A c \in Chunks : UnderWay(c)' => c \in DOMAIN media'
    PROVE  RowsSettled'
<1>1. \A r \in DOMAIN media' : Whole(media[r])'
  BY DEF Whole, Row
<1>2. \A r \in Ready' : r \in Ready \/ (r \in Chunks \ covers /\ Done(r)')
  BY DEF Ready
<1>3. QED BY <1>1, <1>2 DEF RowsSettled, Rows

LEMMA HeldAt ==
    ASSUME NEW S, \A r \in DOMAIN media : Whole(media[r])
    PROVE  \A r \in DOMAIN media :
              /\ Whole(Held(S)[r]) /\ Held(S)[r].status = media[r].status
              /\ Held(S)[r].path = media[r].path
              /\ r \notin S => Held(S)[r] = media[r]
<1> TAKE r \in DOMAIN media
<1>1. media[r] = Row(media[r].status, media[r].path, media[r].state, media[r].created)
  BY DEF Whole
<1>2. [media[r] EXCEPT !.state = "failed"]
         = Row(media[r].status, media[r].path, "failed", media[r].created)
  BY <1>1 DEF Row
<1>3. CASE r \in S
  <2>1. Held(S)[r] = Row(media[r].status, media[r].path, "failed", media[r].created)
    BY <1>2, <1>3 DEF Held
  <2>2. QED BY <1>3, <2>1 DEF Whole, Row
<1>4. CASE r \notin S
  <2>1. Held(S)[r] = media[r]
    BY <1>4 DEF Held
  <2>2. QED BY <1>1, <2>1 DEF Whole
<1>5. QED BY <1>3, <1>4

LEMMA ReportedRow == ASSUME NEW c, Report(c) PROVE DOMAIN media' = DOMAIN media \cup {c}
<1>1. media' = Put(media, c, Row("pending", NoName, "free", Now))
  BY DEF Report
<1>2. QED BY <1>1, PutRows

(* The row of a chunk that becomes ready, or is given up.                  *)
LEMMA RowSet ==
    ASSUME NEW old, Whole(old), NEW path, NEW new
    PROVE  /\ new = [old EXCEPT !.status = "unfiled"]
                 => new = Row("unfiled", old.path, old.state, old.created)
           /\ new = [old EXCEPT !.status = "ready", !.path = path]
                 => new = Row("ready", path, old.state, old.created)
<1>1. old = [status |-> old.status, path |-> old.path, state |-> old.state,
             created |-> old.created]
  BY DEF Whole, Row
<1>2. ASSUME new = [old EXCEPT !.status = "unfiled"]
      PROVE  new = Row("unfiled", old.path, old.state, old.created)
  BY <1>1, <1>2 DEF Row
<1>3. ASSUME new = [old EXCEPT !.status = "ready", !.path = path]
      PROVE  new = Row("ready", path, old.state, old.created)
  BY <1>1, <1>3 DEF Row
<1>4. QED BY <1>2, <1>3

LEMMA RowsSettledStep ==
    ASSUME SInv, [Next]_vars
    PROVE  RowsSettled'
<1>1. \A c \in Chunks : (Done(c) => Done(c)') /\ (UnderWay(c)' => UnderWay(c) \/ Report(c))
  BY DoneStays DEF SInv, CInv
<1>2. RowsSettled /\ Tasks /\ JoinSettled /\ CoversSettled /\ SweepSettled
  BY DEF SInv, Settled, CInv
<1>3. \A r \in DOMAIN media : Whole(media[r])
  BY <1>2 DEF RowsSettled
<1>4. \A c \in Chunks : UnderWay(c)' /\ ~Report(c) => c \in DOMAIN media
  BY <1>1, <1>2 DEF RowsSettled
<1>5. CASE UNCHANGED media /\ ~Swap
  <2>1. \A c \in Chunks : Report(c) => c \in DOMAIN media'
    BY ReportedRow
  <2>2. \A c \in Chunks : UnderWay(c)' => c \in DOMAIN media'
    BY <1>4, <1>5, <2>1
  <2>3. covers' = covers
    BY <1>5, CoversTouched
  <2>4. QED BY <1>1, <1>2, <1>3, <1>5, <2>2, <2>3, RowsSettledKept DEF Ready
<1>6. ASSUME NEW c \in Chunks, Report(c) PROVE RowsSettled'
  <2>1. media' = Put(media, c, Row("pending", NoName, "free", Now)) /\ covers' = covers
    BY <1>6 DEF Report, history
  <2>2. \A r \in DOMAIN media' : Whole(media'[r]) /\ (media'[r].status = "ready" => r \in Ready)
    BY <1>3, <2>1 DEF Put, Whole, Row, Ready
  <2>3. \A d \in Chunks \ {c} : task'[d] = task[d]
    BY <1>2, <1>6, OthersTasks DEF OwnStep
  <2>4. \A d \in Chunks : UnderWay(d)' => d \in DOMAIN media'
    BY <1>2, <1>6, <2>3, ReportedRow DEF UnderWay, RowsSettled
  <2>5. QED BY <1>1, <1>2, <2>1, <2>2, <2>4, RowsSettledKept
<1>7. ASSUME NEW c \in Chunks, GivesUp(c) PROVE RowsSettled'
  <2>1. /\ media' = [media EXCEPT ![c].status = "unfiled"] /\ covers' = covers
        /\ task[c].at = "started"
    BY <1>7 DEF GivesUp, history
  <2>2. c \in DOMAIN media
    BY <1>2, <2>1 DEF RowsSettled, UnderWay
  <2>3. /\ DOMAIN media' = DOMAIN media
        /\ media'[c] = Row("unfiled", media[c].path, media[c].state, media[c].created)
        /\ \A r \in DOMAIN media \ {c} : media'[r] = media[r]
    BY <1>3, <2>1, <2>2, RowSet
  <2>4. \A r \in DOMAIN media' : Whole(media'[r]) /\ (media'[r].status = "ready" => r \in Ready)
    BY <1>3, <2>3 DEF Whole, Row, Ready
  <2>5. \A d \in Chunks : UnderWay(d)' => d \in DOMAIN media'
    <3>1. \A d \in Chunks : ~Report(d) \/ d \in DOMAIN media'
      BY ReportedRow
    <3>2. QED BY <1>4, <2>3, <3>1
  <2>6. QED BY <1>1, <1>2, <2>1, <2>4, <2>5, RowsSettledKept
<1>8. ASSUME NEW c \in Chunks, Record(c) PROVE RowsSettled'
  <2>1. /\ media' = Put(media, c, [media[c] EXCEPT !.status = "ready", !.path = task[c].name])
        /\ covers' = covers
        /\ task[c].at = "written"
        /\ task' = [task EXCEPT ![c].at = "recorded"]
    BY <1>8 DEF Record
  <2>2. c \in DOMAIN media /\ c \notin covers
    BY <1>2, <2>1 DEF RowsSettled, UnderWay, CoversSettled, Done
  <2>3. [media[c] EXCEPT !.status = "ready", !.path = task[c].name]
           = Row("ready", task[c].name, media[c].state, media[c].created)
    BY <1>3, <2>2, RowSet
  <2>4. /\ DOMAIN media' = DOMAIN media
        /\ media'[c] = Row("ready", task[c].name, media[c].state, media[c].created)
        /\ \A r \in DOMAIN media \ {c} : media'[r] = media[r]
    BY <2>1, <2>2, <2>3 DEF Put
  <2>5. Done(c)'
    BY <1>2, <2>1, TaskAt DEF Done
  <2>6. \A r \in DOMAIN media' : Whole(media'[r])
    BY <1>3, <2>4 DEF Whole, Row
  <2>7. \A r \in DOMAIN media' : media'[r].status = "ready" =>
               r \in Ready \/ (r \in Chunks \ covers /\ Done(r)')
    BY <2>2, <2>4, <2>5 DEF Ready
  <2>8. \A d \in Chunks : UnderWay(d)' => d \in DOMAIN media'
    <3>1. \A d \in Chunks : ~Report(d) \/ d \in DOMAIN media'
      BY ReportedRow
    <3>2. QED BY <1>4, <2>4, <3>1
  <2>9. QED BY <1>1, <1>2, <2>1, <2>6, <2>7, <2>8, RowsSettledKept
<1>9. CASE Join \/ MoveFails
  <2>1. UNCHANGED media \/ \E S : media' = Held(S)
    BY <1>9 DEF Join, GiveUpJoin, MoveFails
  <2>2. UNCHANGED <<covers, task>> /\ DOMAIN media' = DOMAIN media
    <3>1. CASE Join
      BY <3>1, JoinKeeps DEF Join, GiveUpJoin
    <3>2. CASE MoveFails
      BY <3>2, StitcherKeeps DEF MoveFails
    <3>3. QED BY <1>9, <3>1, <3>2
  <2>3. \A r \in DOMAIN media' : Whole(media'[r]) /\ media'[r].status = media[r].status
    BY <1>3, <2>1, <2>2, HeldAt
  <2>4. \A d \in Chunks : UnderWay(d)' => d \in DOMAIN media'
    BY <1>2, <2>2 DEF RowsSettled, UnderWay
  <2>5. QED BY <1>1, <1>2, <2>2, <2>3, <2>4, RowsSettledKept DEF Ready
<1>10. CASE Swap
  <2> DEFINE out == DOMAIN stitch.rows \ stitch.job
             row == Row("ready", MergedName, "stitched", Now)
  <2>1. /\ media' = Put(Without(Held(out), stitch.job), Clip, row)
        /\ covers' = covers \cup stitch.job /\ UNCHANGED task
    BY <1>10 DEF Swap
  <2>2. /\ DOMAIN media' = (DOMAIN media \ stitch.job) \cup {Clip}
        /\ media'[Clip] = row
        /\ \A r \in DOMAIN media \ stitch.job : r # Clip => media'[r] = Held(out)[r]
    <3>1. DOMAIN Held(out) = DOMAIN media
      BY HeldRows
    <3>2. QED BY <2>1, <3>1 DEF Put, Without
  <2> HIDE DEF out
  <2>3. \A r \in DOMAIN media' : Whole(media'[r])
    <3>1. Whole(row)
      BY DEF Whole, Row
    <3>2. QED BY <1>3, <2>2, <3>1, HeldAt
  <2>4. \A r \in Ready' : r = Clip \/ (r \in Ready /\ r \notin stitch.job)
    BY <1>3, <2>2, HeldAt DEF Ready
  <2>5. \A c \in stitch.job : Done(c)
    BY <1>2 DEF JoinSettled
  <2>6. \A c \in Chunks : UnderWay(c)' => c \in DOMAIN media'
    BY <1>2, <2>1, <2>2, <2>5 DEF RowsSettled, UnderWay, Done
  <2>7. \A r \in DOMAIN media' : Whole(media[r])'
    BY <2>3 DEF Whole, Row
  <2>8. \A c \in Ready' \cap Chunks : Done(c)' /\ c \notin covers'
    BY <1>1, <1>2, <2>1, <2>4, ClipAssumption DEF RowsSettled
  <2>9. Ready' \subseteq Rows
    BY <1>2, <2>4 DEF RowsSettled, Rows
  <2>10. QED BY <2>6, <2>7, <2>8, <2>9 DEF RowsSettled
<1>11. ASSUME NEW r \in Rows, DeleteRow(r) PROVE RowsSettled'
  <2>1. /\ media' = Without(media, {r}) /\ UNCHANGED <<covers, task>>
        /\ r \in DOMAIN sweep.rows
    BY <1>11 DEF DeleteRow
  <2>2. /\ DOMAIN media' = DOMAIN media \ {r}
        /\ \A q \in DOMAIN media' : media'[q] = media[q]
    BY <2>1 DEF Without
  <2>3. \A c \in Chunks : UnderWay(c)' => c # r /\ c \in DOMAIN media
    BY <1>2, <2>1 DEF SweepSettled, RowsSettled, UnderWay, Done
  <2>4. QED BY <1>1, <1>2, <1>3, <2>1, <2>2, <2>3, RowsSettledKept DEF Ready
<1>12. QED BY <1>5, <1>6, <1>7, <1>8, <1>9, <1>10, <1>11, RowsTouched

(* The stitcher moves on to another step of the same join.                 *)
LEMMA StitchAt ==
    ASSUME WholeStitch, NEW a, stitch' = [stitch EXCEPT !.at = a]
    PROVE  WholeStitch' /\ stitch'.at = a /\ stitch'.rows = stitch.rows /\ stitch'.job = stitch.job
<1>1. stitch = [at |-> stitch.at, rows |-> stitch.rows, job |-> stitch.job]
  BY DEF WholeStitch
<1>2. stitch' = [at |-> a, rows |-> stitch.rows, job |-> stitch.job]
  BY <1>1
<1>3. QED BY <1>2 DEF WholeStitch

(* What a step does to the stitcher: it looks for another visit, or goes   *)
(* on with the rows it has, once it has some.                              *)
SameJoin ==
    /\ WholeStitch'
    /\ stitch'.rows = stitch.rows /\ stitch'.job = stitch.job
    /\ \/ stitch'.at = stitch.at
       \/ RemoveSources /\ stitch.at = "verified" /\ stitch'.at = "removed"
       \/ MoveIntoPlace /\ stitch.at = "removed" /\ stitch'.at = "moved"

(* One success of a join: what is joined, and what comes of it.            *)
Joins(S) ==
    /\ stitch.at = "picked"
    /\ S \subseteq OnDisk /\ S \cap Damaged = {}
    /\ work' = Shows(S)
    /\ stitch' = [stitch EXCEPT !.at = "verified", !.job = S]
    /\ UNCHANGED <<raw, files, media, fresh, task, sweep, stops, history>>

LEMMA DominantPart == ASSUME NEW S, NEW g \in Dominant(S) PROVE Joinable(g) \subseteq S
<1>1. g \in Groups(S)
  BY DEF Dominant
<1>2. g \subseteq S
  BY <1>1 DEF Groups
<1>3. QED BY <1>2 DEF Joinable

LEMMA JoinCases ==
    ASSUME Join
    PROVE  \/ (\E S : GiveUpJoin(S)) /\ stitch.at = "picked" /\ work' \in {work, {}}
           \/ \E S : Joins(S)
<1>1. stitch.at = "picked"
  BY DEF Join
<1>2. CASE (\E S : GiveUpJoin(S)) /\ work' \in {work, {}}
  BY <1>1, <1>2
<1>3. ASSUME NEW unread \in SUBSET (OnDisk \cap Damaged), NEW main \in Dominant(OnDisk \ unread),
             Joinable(main) \cap Damaged = {},
             work' = Shows(Joinable(main)),
             stitch' = [stitch EXCEPT !.at = "verified", !.job = Joinable(main)],
             UNCHANGED <<raw, files, media, fresh, task, sweep, stops, history>>
      PROVE  Joins(Joinable(main))
  <2>1. Joinable(main) \subseteq OnDisk \ unread
    BY DominantPart
  <2>2. QED BY <1>1, <1>3, <2>1 DEF Joins
<1>4. QED BY <1>2, <1>3 DEF Join

LEMMA JoinsAt ==
    ASSUME WholeStitch, NEW S, Joins(S)
    PROVE  /\ WholeStitch' /\ stitch'.at = "verified" /\ stitch'.rows = stitch.rows
           /\ stitch'.job = S /\ S \subseteq DOMAIN stitch.rows
<1>1. stitch = [at |-> stitch.at, rows |-> stitch.rows, job |-> stitch.job]
  BY DEF WholeStitch
<1>2. stitch' = [stitch EXCEPT !.at = "verified", !.job = S] /\ S \subseteq DOMAIN stitch.rows
  BY DEF Joins, OnDisk
<1>3. stitch' = [at |-> "verified", rows |-> stitch.rows, job |-> S]
  BY <1>1, <1>2
<1>4. QED BY <1>2, <1>3 DEF WholeStitch

LEMMA StitchStep ==
    ASSUME WholeStitch, [Next]_vars
    PROVE  SameJoin \/ stitch' = Idle \/ Pick \/ \E S : Joins(S)
<1>1. CASE stitch' = stitch
  BY <1>1 DEF SameJoin, WholeStitch
<1>2. CASE RemoveSources \/ MoveIntoPlace
  <2>1. \/ stitch' = [stitch EXCEPT !.at = "removed"] /\ stitch.at = "verified"
        \/ stitch' = [stitch EXCEPT !.at = "moved"] /\ stitch.at = "removed"
    BY <1>2 DEF RemoveSources, MoveIntoPlace
  <2>2. stitch.at = (IF RemoveSources THEN "verified" ELSE "removed")
    BY <1>2 DEF RemoveSources, MoveIntoPlace
  <2>3. QED BY <1>2, <2>1, <2>2, StitchAt DEF SameJoin
<1>3. CASE Join
  BY <1>3, JoinCases DEF GiveUpJoin
<1>4. CASE MoveFails \/ Swap \/ SwapRefused \/ Stop
  BY <1>4 DEF MoveFails, Swap, SwapRefused, Stop
<1>5. CASE \E c \in Chunks : Upload(c) \/ Report(c) \/ Pipeline(c) \/ SweepRaw(c)
  BY <1>1, <1>5 DEF Upload, Report, Pipeline, SweepRaw, Claim, Remux, KeepTs, Record, DropRaw,
        GivesUp, TaskFails
<1>6. CASE Retention
  BY <1>1, <1>6 DEF Retention, ChooseExpired, UnlinkExpired, DeleteRow
<1>7. CASE QuietPasses \/ SweepWork \/ UNCHANGED vars
  BY <1>1, <1>7 DEF QuietPasses, SweepWork, vars
<1>8. QED BY <1>2, <1>3, <1>4, <1>5, <1>6, <1>7 DEF Next, Stitcher

LEMMA PickAt ==
    ASSUME Pick
    PROVE  /\ stitch.at = "idle"
           /\ WholeStitch' /\ stitch'.at = "picked" /\ stitch'.job = {}
           /\ DOMAIN stitch'.rows = Offered
           /\ \A c \in Offered : stitch'.rows[c] = media[c]
           /\ UNCHANGED <<media, task, covers, expired>>
<1>1. stitch' = [at |-> "picked", rows |-> [c \in Offered |-> media[c]], job |-> {}]
  BY DEF Pick
<1>2. UNCHANGED <<media, task, covers, expired>>
  BY DEF Pick, history
<1>3. stitch.at = "idle"
  BY DEF Pick
<1>4. QED BY <1>1, <1>2, <1>3 DEF WholeStitch

LEMMA IdleAt ==
    ASSUME stitch' = Idle
    PROVE  WholeStitch' /\ stitch'.at = "idle" /\ stitch'.job = {} /\ DOMAIN stitch'.rows = {}
BY DEF Idle, WholeStitch

LEMMA JoinSettledStep ==
    ASSUME SInv, [Next]_vars
    PROVE  JoinSettled'
<1>1. \A c \in Chunks : Done(c) => Done(c)'
  BY DoneStays DEF SInv, CInv
<1>2. JoinSettled /\ RowsSettled /\ WholeStitch
  BY DEF SInv, Settled, JoinSettled
<1>3. CASE stitch' = Idle
  BY <1>3, IdleAt DEF JoinSettled
<1>4. CASE Pick
  BY <1>2, <1>4, PickAt DEF JoinSettled, RowsSettled, Offered, Ready, Rows, Done
<1>5. CASE (SameJoin \/ \E S : Joins(S)) /\ stitch' # Idle
  <2>1. covers' = covers
    BY <1>5, CoversTouched DEF Swap
  <2>2. CASE SameJoin
    BY <1>1, <1>2, <2>1, <2>2 DEF JoinSettled, SameJoin
  <2>3. CASE \E S : Joins(S)
    BY <1>1, <1>2, <2>1, <2>3, JoinsAt DEF JoinSettled
  <2>4. QED BY <1>5, <2>2, <2>3
<1>6. QED BY <1>2, <1>3, <1>4, <1>5, StitchStep

(* Rows of chunks their tasks have done with change when the stitcher      *)
(* finishes with a visit, or when what they show has expired.              *)
LEMMA DoneRows ==
    ASSUME SInv, [Next]_vars, stitch' # Idle, NEW c \in Chunks, Done(c), c \in DOMAIN media
    PROVE  c \in expired' \/ (c \in DOMAIN media' /\ media'[c] = media[c])
<1>1. CASE UNCHANGED media
  BY <1>1
<1>2. ASSUME NEW d \in Chunks, Report(d) \/ GivesUp(d) \/ Record(d)
      PROVE  c \in DOMAIN media' /\ media'[c] = media[c]
  <2>1. ~Done(d)
    BY <1>2 DEF Report, GivesUp, Record, Done
  <2>2. CASE Report(d)
    BY <2>1, <2>2 DEF Report, Put
  <2>3. CASE GivesUp(d)
    BY <2>1, <2>3 DEF GivesUp
  <2>4. CASE Record(d)
    BY <2>1, <2>4 DEF Record, Put
  <2>5. QED BY <1>2, <2>2, <2>3, <2>4
<1>3. CASE Join
  BY <1>1, <1>3, JoinCases DEF Joins, GiveUpJoin
<1>4. ASSUME NEW r \in Rows, DeleteRow(r) PROVE c \in expired' \/ (c \in DOMAIN media' /\ media'[c] = media[c])
  <2>1. /\ sweep.at = "unlinked" /\ r \in DOMAIN sweep.rows
        /\ media' = Without(media, {r})
    BY <1>4 DEF DeleteRow
  <2>2. CASE c # r
    BY <2>1, <2>2 DEF Without
  <2>3. CASE c = r
    <3>1. c \in Selected
      BY <2>1, <2>3, ClipAssumption DEF Selected, StandsFor
    <3>2. Selected \subseteq expired
      BY <2>1 DEF SInv, IInv, Forgettable
    <3>3. QED BY <3>1, <3>2, HistoryGrows
  <2>4. QED BY <2>2, <2>3
<1>5. QED BY <1>1, <1>2, <1>3, <1>4, RowsTouched DEF MoveFails, Swap

LEMMA CopySettledStep ==
    ASSUME SInv, [Next]_vars
    PROVE  CopySettled'
<1>1. JoinSettled /\ CopySettled /\ WholeStitch
  BY DEF SInv, Settled, JoinSettled
<1>2. expired \subseteq expired'
  BY HistoryGrows
<1>3. CASE stitch' = Idle
  BY <1>3, IdleAt DEF CopySettled
<1>4. CASE Pick
  BY <1>4, PickAt DEF CopySettled, Offered, Ready
<1>5. CASE (SameJoin \/ \E S : Joins(S)) /\ stitch' # Idle
  <2>1. stitch'.rows = stitch.rows /\ (stitch'.at # "idle" => stitch.at # "idle")
    BY <1>1, <1>5, JoinsAt DEF SameJoin, Joins
  <2>2. ASSUME stitch.at # "idle", NEW c \in DOMAIN stitch.rows \ expired'
        PROVE  c \in DOMAIN media' /\ media'[c] = stitch.rows[c]
    <3>1. c \in Chunks /\ Done(c) /\ c \in DOMAIN media /\ media[c] = stitch.rows[c]
      BY <1>1, <1>2, <2>2 DEF JoinSettled, CopySettled
    <3>2. QED BY <1>5, <2>2, <3>1, DoneRows
  <2>3. QED BY <2>1, <2>2 DEF CopySettled
<1>6. QED BY <1>1, <1>3, <1>4, <1>5, StitchStep

LEMMA SettledStep == ASSUME SInv, [Next]_vars PROVE SInv'
<1>1. IInv' /\ CInv'
  BY InvNext, ClaimsNext DEF SInv
<1>2. SweepSettled'
  BY SweepSettledStep DEF SInv, Settled, CInv
<1>3. QED BY <1>1, <1>2, RowsSettledStep, JoinSettledStep, CopySettledStep,
             CoversSettledStep DEF SInv, Settled

(* While nothing but a second clip has happened, footage is where it       *)
(* should be: what the stitcher's file shows is still in the folder, until *)
(* the sources go, and by then the file shows what they did.               *)
InFiles(c) == \E p \in DOMAIN files : c \in files[p]
Filed(c) == c \in work \/ InFiles(c)

StagedOrFiled == \A c \in seen \ expired : c \in raw \/ Filed(c)
RecordedFiled ==
    \A c \in Chunks \ expired : c \in shown \/ task[c].at \in {"written", "recorded"} => Filed(c)
WorkIsCopy ==
    stitch.at \in {"idle", "picked", "verified"} => \A c \in work \ expired : InFiles(c)
SourcesCopied ==
    stitch.at = "verified" =>
        \A p \in Sources \cap DOMAIN files : files[p] \cap stitch.job \subseteq work
WorkMoved == stitch.at = "moved" => work = {}

Kept == StagedOrFiled /\ RecordedFiled /\ WorkIsCopy /\ SourcesCopied /\ WorkMoved

LEMMA CalmBefore == ASSUME [Next]_vars, Calm' PROVE Calm
BY HistoryGrows DEF Calm

(* What a step does to the stitcher's file.                                *)
LEMMA WorkStep ==
    ASSUME [Next]_vars
    PROVE  \/ work' = work
           \/ MoveIntoPlace /\ work' = {}
           \/ stitch.at \in {"idle", "picked"} /\ work' = {}
           \/ \E S : Joins(S)
<1>1. CASE \E c \in Chunks : Upload(c) \/ Report(c) \/ Pipeline(c) \/ SweepRaw(c)
  BY <1>1 DEF Upload, Report, Pipeline, SweepRaw, Claim, Remux, KeepTs, Record, DropRaw,
        GivesUp, TaskFails, disk
<1>2. CASE Join
  BY <1>2, JoinCases
<1>3. CASE Stitcher /\ ~Join
  BY <1>3 DEF Stitcher, Pick, RemoveSources, MoveIntoPlace, MoveFails, Swap, SwapRefused, disk
<1>4. CASE Retention
  BY <1>4 DEF Retention, ChooseExpired, UnlinkExpired, DeleteRow, disk
<1>5. CASE SweepWork
  BY <1>5 DEF SweepWork
<1>6. CASE Stop
  BY <1>6 DEF Stop
<1>7. CASE QuietPasses \/ UNCHANGED vars
  BY <1>7 DEF QuietPasses, vars, disk
<1>8. QED BY <1>1, <1>2, <1>3, <1>4, <1>5, <1>6, <1>7 DEF Next

(* What a step does to a file: it leaves it, or empties it, or it becomes  *)
(* that of a chunk under way.                                              *)
LEMMA FileAfter ==
    ASSUME [Next]_vars, ~MoveIntoPlace, NEW p \in DOMAIN files'
    PROVE  \/ p \in DOMAIN files /\ files'[p] = files[p]
           \/ files'[p] = {}
           \/ \E d \in Chunks : UnderWay(d) /\ files'[p] = {d}
<1>1. CASE files' = files
  BY <1>1
<1>2. CASE \E S : files' = Without(files, S)
  BY <1>2 DEF Without
<1>3. ASSUME NEW c \in Chunks, Upload(c) \/ Report(c) \/ Pipeline(c) \/ SweepRaw(c)
      PROVE  \/ p \in DOMAIN files /\ files'[p] = files[p]
             \/ files'[p] = {}
             \/ \E d \in Chunks : UnderWay(d) /\ files'[p] = {d}
  <2>1. CASE Claim(c)
    <3>1. \E name : files' = Put(files, name, {})
      BY <2>1 DEF Claim
    <3>2. QED BY <3>1 DEF Put
  <2>2. CASE Remux(c)
    <3>1. files' = Put(files, task[c].name, {c}) /\ UnderWay(c)
      BY <2>2 DEF Remux, UnderWay
    <3>2. QED BY <3>1 DEF Put
  <2>3. CASE KeepTs(c)
    <3> DEFINE held == task[c].name
               ts == [held EXCEPT !.ext = "ts"]
    <3>1. files' = Put(Without(files, {held}), ts, {c}) /\ UnderWay(c)
      BY <2>3 DEF KeepTs, UnderWay
    <3> HIDE DEF held, ts
    <3>2. QED BY <3>1 DEF Put, Without
  <2>4. CASE ~Claim(c) /\ ~Remux(c) /\ ~KeepTs(c)
    BY <1>1, <1>3, <2>4 DEF Upload, Report, Pipeline, SweepRaw, Record, DropRaw, GivesUp,
          TaskFails, disk
  <2>5. QED BY <2>1, <2>2, <2>3, <2>4
<1>4. CASE Join
  BY <1>1, <1>4 DEF Join, GiveUpJoin
<1>5. CASE RemoveSources \/ UnlinkExpired \/ Stop
  BY <1>2, <1>5 DEF RemoveSources, UnlinkExpired, Stop
<1>6. CASE Pick \/ MoveFails \/ Swap \/ SwapRefused
  BY <1>1, <1>6 DEF Pick, MoveFails, Swap, SwapRefused, disk
<1>7. CASE Retention /\ ~UnlinkExpired
  BY <1>1, <1>7 DEF Retention, ChooseExpired, DeleteRow, disk
<1>8. CASE QuietPasses \/ SweepWork \/ UNCHANGED vars
  BY <1>1, <1>8 DEF QuietPasses, SweepWork, vars, disk
<1>9. QED BY <1>3, <1>4, <1>5, <1>6, <1>7, <1>8 DEF Next, Stitcher

(* Footage in the folder or the stitcher's file is there after a step.     *)
LEMMA InFilesStay ==
    ASSUME [Next]_vars, Calm', ~RemoveSources, NEW c, InFiles(c)
    PROVE  InFiles(c)' \/ c \in expired'
<1>1. PICK p \in DOMAIN files : c \in files[p]
  BY DEF InFiles
<1>2. Survives(p)
  BY FilesStep DEF FilesSurvive
<1>3. QED BY <1>1, <1>2 DEF Survives, InFiles

LEMMA FiledStay ==
    ASSUME WorkIsCopy, SourcesCopied, [Next]_vars, Calm', NEW c, Filed(c)
    PROVE  Filed(c)' \/ c \in expired'
<1>1. CASE InFiles(c) /\ ~RemoveSources
  BY <1>1, InFilesStay DEF Filed
<1>2. CASE InFiles(c) /\ RemoveSources
  <2>1. PICK p \in DOMAIN files : c \in files[p]
    BY <1>2 DEF InFiles
  <2>2. (p \in DOMAIN files' /\ files'[p] = files[p]) \/ (p \in Sources /\ files[p] \subseteq stitch.job)
    BY <1>2, SourcesStep
  <2>3. stitch.at = "verified" /\ work' = work
    BY <1>2 DEF RemoveSources
  <2>4. QED BY <2>1, <2>2, <2>3 DEF SourcesCopied, Filed, InFiles
<1>3. CASE c \in work /\ work' = work
  BY <1>3 DEF Filed
<1>4. CASE c \in work /\ MoveIntoPlace
  <2>1. files' = Put(files, MergedName, work)
    BY <1>4 DEF MoveIntoPlace
  <2>2. MergedName \in DOMAIN files' /\ files'[MergedName] = work
    BY <2>1 DEF Put
  <2>3. QED BY <1>4, <2>2 DEF Filed, InFiles
<1>5. CASE c \in work /\ stitch.at \in {"idle", "picked"}
  <2>1. c \in expired \/ InFiles(c)
    BY <1>5 DEF WorkIsCopy
  <2>2. ~RemoveSources
    BY <1>5 DEF RemoveSources
  <2>3. QED BY <1>1, <2>1, <2>2, HistoryGrows
<1>6. CASE c \in work /\ \E S : Joins(S)
  <2>1. stitch.at = "picked"
    BY <1>6 DEF Joins
  <2>2. QED BY <1>5, <1>6, <2>1
<1>7. QED BY <1>1, <1>2, <1>3, <1>4, <1>5, <1>6, WorkStep DEF Filed

(* What is staged, stored and shown changes by the pipeline's steps.       *)
LEMMA StagedStep ==
    ASSUME [Next]_vars
    PROVE  /\ raw \subseteq raw' \/ \E c \in Chunks : DropRaw(c) \/ SweepRaw(c)
           /\ seen' = seen \/ \E c \in Chunks : Upload(c)
           /\ shown' = shown \/ \E c \in Chunks : Record(c)
<1>1. CASE \E c \in Chunks : Upload(c) \/ Report(c) \/ Pipeline(c) \/ SweepRaw(c)
  BY <1>1 DEF Upload, Report, Pipeline, SweepRaw, Claim, Remux, KeepTs, Record, DropRaw,
        GivesUp, TaskFails, disk, history
<1>2. CASE Join
  BY <1>2 DEF Join, GiveUpJoin, history
<1>3. CASE Stitcher /\ ~Join
  BY <1>3 DEF Stitcher, Pick, RemoveSources, MoveIntoPlace, MoveFails, Swap, SwapRefused, disk,
        history
<1>4. CASE Retention
  BY <1>4 DEF Retention, ChooseExpired, UnlinkExpired, DeleteRow, disk, history
<1>5. CASE QuietPasses \/ SweepWork \/ Stop \/ UNCHANGED vars
  BY <1>5 DEF QuietPasses, SweepWork, Stop, vars, disk, history
<1>6. QED BY <1>1, <1>2, <1>3, <1>4, <1>5 DEF Next

LEMMA StagedOrFiledStep ==
    ASSUME Kept, [Next]_vars, Calm'
    PROVE  StagedOrFiled'
<1> SUFFICES ASSUME NEW c \in seen' \ expired' PROVE c \in raw' \/ Filed(c)'
  BY DEF StagedOrFiled, Filed, InFiles
<1>1. c \notin expired /\ (Filed(c) => Filed(c)')
  BY HistoryGrows, FiledStay DEF Kept
<1>2. CASE c \notin seen
  <2>1. PICK d \in Chunks : Upload(d)
    BY <1>2, StagedStep
  <2>2. QED BY <1>2, <2>1 DEF Upload
<1>3. CASE c \in seen /\ c \in raw /\ c \notin raw'
  <2>1. PICK d \in Chunks : DropRaw(d) \/ SweepRaw(d)
    BY <1>3, StagedStep
  <2>2. CASE DropRaw(d)
    <3>1. c = d /\ task[c].at = "recorded"
      BY <1>3, <2>2 DEF DropRaw
    <3>2. Filed(c)
      BY <1>1, <3>1 DEF Kept, RecordedFiled
    <3>3. QED BY <1>1, <3>2
  <2>3. CASE SweepRaw(d)
    <3>1. c = d /\ c \in shown
      BY <1>3, <2>3 DEF SweepRaw
    <3>2. Filed(c)
      BY <1>1, <3>1 DEF Kept, RecordedFiled
    <3>3. QED BY <1>1, <3>2
  <2>4. QED BY <2>1, <2>2, <2>3
<1>4. QED BY <1>1, <1>2, <1>3 DEF Kept, StagedOrFiled

(* Writing its file is how a chunk comes to be written.                    *)
LEMMA WrittenFiled ==
    ASSUME Tasks, NEW c \in Chunks, Remux(c) \/ KeepTs(c)
    PROVE  /\ task'[c].at = "written" /\ task'[c].name \in DOMAIN files'
           /\ files'[task'[c].name] = {c}
<1>1. CASE Remux(c)
  <2>1. files' = Put(files, task[c].name, {c}) /\ task' = [task EXCEPT ![c].at = "written"]
    BY <1>1 DEF Remux
  <2>2. task'[c].at = "written" /\ task'[c].name = task[c].name
    BY <2>1, TaskAt
  <2>3. QED BY <2>1, <2>2 DEF Put
<1>2. CASE KeepTs(c)
  <2> DEFINE held == task[c].name
             ts == [held EXCEPT !.ext = "ts"]
  <2>1. /\ files' = Put(Without(files, {held}), ts, {c})
        /\ task' = [task EXCEPT ![c] = [at |-> "written", name |-> ts]]
    BY <1>2 DEF KeepTs
  <2> HIDE DEF ts
  <2>2. task'[c].at = "written" /\ task'[c].name = ts
    BY <2>1, TaskSet
  <2>3. QED BY <2>1, <2>2 DEF Put
<1>3. QED BY <1>1, <1>2

(* A task that is written or recorded was so before, or has just written.  *)
LEMMA WrittenBefore ==
    ASSUME Tasks, [Next]_vars, NEW c \in Chunks, task'[c].at \in {"written", "recorded"}
    PROVE  \/ task[c].at \in {"written", "recorded"} /\ task'[c].name = task[c].name
           \/ task'[c].at = "written" /\ (Remux(c) \/ KeepTs(c))
<1>1. CASE task'[c] = task[c]
  BY <1>1
<1>2. CASE Stop
  <2>1. task[c].at = "unreported" /\ task'[c] = task[c]
    BY <1>2, StopTasks
  <2>2. QED BY <1>1, <2>1
<1>3. CASE Report(c)
  <2>1. task'[c].at = "started"
    BY <1>3, TaskAt DEF Report
  <2>2. QED BY <2>1
<1>4. CASE Claim(c)
  <2>1. task'[c].at = "claimed"
    BY <1>4, TaskSet DEF Claim
  <2>2. QED BY <2>1
<1>5. CASE Record(c)
  <2>1. task[c].at = "written" /\ task'[c].name = task[c].name
    BY <1>5, TaskAt DEF Record
  <2>2. QED BY <2>1
<1>6. CASE DropRaw(c) \/ GivesUp(c) \/ TaskFails(c)
  <2>1. task' = [task EXCEPT ![c].at = "ended"]
    BY <1>6 DEF DropRaw, GivesUp, TaskFails
  <2>2. task'[c].at = "ended"
    BY <2>1, TaskAt
  <2>3. QED BY <2>2
<1>7. CASE Remux(c) \/ KeepTs(c)
  BY <1>7, WrittenFiled
<1>8. QED BY <1>1, <1>2, <1>3, <1>4, <1>5, <1>6, <1>7, TasksStep DEF OwnStep, Pipeline

LEMMA RecordedFiledStep ==
    ASSUME SInv, Kept, [Next]_vars, Calm'
    PROVE  RecordedFiled'
<1>1. Tasks
  BY DEF SInv, CInv
<1> SUFFICES ASSUME NEW c \in Chunks \ expired',
                    c \in shown' \/ task'[c].at \in {"written", "recorded"}
             PROVE  Filed(c)'
  BY DEF RecordedFiled, Filed, InFiles
<1>2. c \notin expired /\ (Filed(c) => Filed(c)')
  BY HistoryGrows, FiledStay DEF Kept
<1>3. CASE c \in shown \/ task[c].at \in {"written", "recorded"}
  BY <1>2, <1>3 DEF Kept, RecordedFiled
<1>4. CASE task'[c].at \in {"written", "recorded"} /\ task[c].at \notin {"written", "recorded"}
  <2>1. Remux(c) \/ KeepTs(c)
    BY <1>1, <1>4, WrittenBefore
  <2>2. InFiles(c)'
    BY <1>1, <2>1, WrittenFiled DEF InFiles
  <2>3. QED BY <2>2 DEF Filed
<1>5. CASE c \in shown' /\ c \notin shown
  <2>1. PICK d \in Chunks : Record(d)
    BY <1>5, StagedStep
  <2>2. c = d /\ task[c].at = "written"
    BY <1>5, <2>1 DEF Record
  <2>3. QED BY <1>3, <2>2
<1>6. QED BY <1>3, <1>4, <1>5

LEMMA KeptInit == Init => Kept
<1> SUFFICES ASSUME Init PROVE Kept
  OBVIOUS
<1>1. PICK joined \in Joined : InitDisk(joined)
  BY DEF Init
<1>2. joined \subseteq Stored /\ Stored \subseteq Chunks
  BY StoredAssumption
<1> DEFINE at(r) == Name(Second[IF r = Clip THEN First(joined) ELSE r], 1, "mp4")
           rows == (Stored \ joined) \cup (IF joined = {} THEN {} ELSE {Clip})
           shows(r) == IF r = Clip THEN joined ELSE {r}
           file(p) == UNION {shows(r) : r \in {x \in rows : at(x) = p}}
<1>3. /\ files = [p \in {at(r) : r \in rows} |-> file(p)]
      /\ \A c \in Chunks : task[c].at = IF c \in Stored THEN "ended" ELSE "unreported"
  BY <1>1 DEF InitDisk
<1>4. \A c \in Stored : \E r \in rows : c \in shows(r)
  BY <1>2, ClipAssumption
<1> HIDE DEF at, rows, shows
<1>5. \A r \in rows : at(r) \in DOMAIN files /\ shows(r) \subseteq files[at(r)]
  BY <1>3
<1>6. \A c \in Stored : InFiles(c)
  BY <1>4, <1>5 DEF InFiles
<1>7. work = {} /\ stitch.at = "idle" /\ seen = Stored /\ shown = Stored
  BY DEF Init, Idle
<1>8. StagedOrFiled /\ RecordedFiled
  BY <1>3, <1>6, <1>7 DEF StagedOrFiled, RecordedFiled, Filed
<1>9. WorkIsCopy /\ SourcesCopied /\ WorkMoved
  BY <1>7 DEF WorkIsCopy, SourcesCopied, WorkMoved
<1>10. QED BY <1>8, <1>9 DEF Kept

(* A join that is abandoned once its sources are gone leaves a mark.       *)
LEMMA IdleFrom ==
    ASSUME SInv, [Next]_vars, Calm', stitch' = Idle
    PROVE  stitch.at # "removed"
<1>1. CASE stitch' = stitch
  BY <1>1 DEF Idle
<1>2. CASE MoveFails
  <2>1. "move" \in upset'
    BY <1>2 DEF MoveFails, Upset
  <2>2. QED BY <2>1 DEF Calm
<1>3. CASE Stop
  BY <1>3, StopSurvive
<1>4. CASE Swap \/ SwapRefused
  BY <1>4 DEF Swap, SwapRefused
<1>5. CASE Pick \/ Join \/ RemoveSources
  BY <1>5 DEF Pick, Join, RemoveSources
<1>6. CASE MoveIntoPlace
  <2>1. stitch'.at = "moved"
    BY <1>6, StitchAt DEF MoveIntoPlace, SInv, Settled, JoinSettled
  <2>2. QED BY <2>1, IdleAt
<1>7. CASE \E c \in Chunks : Upload(c) \/ Report(c) \/ Pipeline(c) \/ SweepRaw(c)
  BY <1>1, <1>7 DEF Upload, Report, Pipeline, SweepRaw, Claim, Remux, KeepTs, Record, DropRaw,
        GivesUp, TaskFails
<1>8. CASE Retention
  BY <1>1, <1>8 DEF Retention, ChooseExpired, UnlinkExpired, DeleteRow
<1>9. CASE QuietPasses \/ SweepWork \/ UNCHANGED vars
  BY <1>1, <1>9 DEF QuietPasses, SweepWork, vars
<1>10. QED BY <1>2, <1>3, <1>4, <1>5, <1>6, <1>7, <1>8, <1>9 DEF Next, Stitcher

(* What the join shows is what its sources, all on disk, show.             *)
LEMMA JoinsShow ==
    ASSUME WholeStitch, NEW S, Joins(S)
    PROVE  /\ files' = files
           /\ \A c \in S : /\ stitch.rows[c].path \in DOMAIN files
                           /\ files[stitch.rows[c].path] \subseteq work'
           /\ \A x \in work' : \E c \in S : x \in files[stitch.rows[c].path]
<1>1. work' = Shows(S) /\ S \subseteq OnDisk /\ files' = files
  BY DEF Joins
<1>2. QED BY <1>1 DEF Shows, OnDisk

LEMMA WorkIsCopyStep ==
    ASSUME SInv, Kept, [Next]_vars, Calm'
    PROVE  WorkIsCopy'
<1>1. WholeStitch /\ expired \subseteq expired'
  BY HistoryGrows DEF SInv, Settled, JoinSettled
<1> SUFFICES ASSUME stitch'.at \in {"idle", "picked", "verified"}, NEW c \in work' \ expired'
             PROVE  InFiles(c)'
  BY DEF WorkIsCopy, InFiles
<1>2. CASE \E S : Joins(S)
  BY <1>1, <1>2, JoinsShow DEF InFiles
<1>3. CASE ~ \E S : Joins(S)
  <2>1. stitch.at \in {"idle", "picked", "verified", "moved"}
    <3>1. stitch.at \in {"idle", "picked", "verified", "removed", "moved"}
      BY DEF SInv, Settled, JoinSettled
    <3>2. CASE stitch' = Idle
      BY <3>1, <3>2, IdleFrom
    <3>3. CASE SameJoin
      BY <3>1, <3>3 DEF SameJoin
    <3>4. CASE Pick
      BY <3>4, PickAt
    <3>5. SameJoin \/ stitch' = Idle \/ Pick
      BY <1>1, <1>3, StitchStep
    <3>6. QED BY <3>2, <3>3, <3>4, <3>5
  <2>2. c \in work /\ ~MoveIntoPlace
    <3>1. ~MoveIntoPlace
      BY DEF MoveIntoPlace
    <3>2. QED BY <1>3, <3>1, WorkStep
  <2>3. InFiles(c)
    BY <1>1, <2>1, <2>2 DEF Kept, WorkIsCopy, WorkMoved
  <2>4. ~RemoveSources
    BY <1>1, StitchAt DEF RemoveSources
  <2>5. QED BY <2>3, <2>4, InFilesStay
<1>4. QED BY <1>2, <1>3

LEMMA SourcesCopiedStep ==
    ASSUME SInv, Kept, [Next]_vars, Calm'
    PROVE  SourcesCopied'
<1>1. WholeStitch /\ JoinSettled
  BY DEF SInv, Settled, JoinSettled
<1> SUFFICES ASSUME stitch'.at = "verified", NEW p \in Sources' \cap DOMAIN files'
             PROVE  files'[p] \cap stitch'.job \subseteq work'
  BY DEF SourcesCopied
<1>2. CASE \E S : Joins(S)
  <2>1. PICK S : Joins(S)
    BY <1>2
  <2>2. stitch'.job = S /\ stitch'.rows = stitch.rows
    BY <1>1, <2>1, JoinsAt
  <2>3. \E c \in S : p = stitch.rows[c].path
    BY <2>2 DEF Sources
  <2>4. QED BY <1>1, <2>1, <2>3, JoinsShow
<1>3. CASE ~ \E S : Joins(S)
  <2>1. SameJoin /\ stitch.at = "verified"
    BY <1>1, <1>3, StitchStep, PickAt, IdleAt DEF SameJoin
  <2>2. Sources' = Sources /\ stitch'.job = stitch.job
    BY <2>1 DEF SameJoin, Sources, MergedName
  <2>3. ~MoveIntoPlace
    BY <2>1 DEF MoveIntoPlace
  <2>4. work' = work
    BY <1>3, <2>1, <2>3, WorkStep
  <2>5. CASE p \in DOMAIN files /\ files'[p] = files[p]
    BY <2>1, <2>2, <2>4, <2>5 DEF Kept, SourcesCopied
  <2>6. ASSUME NEW d \in Chunks, UnderWay(d), files'[p] = {d} PROVE d \notin stitch.job
    BY <1>1, <2>6 DEF JoinSettled, UnderWay, Done
  <2>7. QED BY <2>2, <2>3, <2>5, <2>6, FileAfter
<1>4. QED BY <1>2, <1>3

LEMMA WorkMovedStep ==
    ASSUME SInv, Kept, [Next]_vars
    PROVE  WorkMoved'
<1>1. WholeStitch
  BY DEF SInv, Settled, JoinSettled
<1> SUFFICES ASSUME stitch'.at = "moved" PROVE work' = {}
  BY DEF WorkMoved
<1>2. CASE MoveIntoPlace
  BY <1>2 DEF MoveIntoPlace
<1>3. CASE ~MoveIntoPlace
  <2>1. ~RemoveSources
    BY <1>1, StitchAt DEF RemoveSources
  <2>2. stitch.at = "moved"
    BY <1>1, <1>3, <2>1, StitchStep, PickAt, IdleAt, JoinsAt DEF SameJoin
  <2>3. ~ \E S : Joins(S)
    BY <2>2 DEF Joins
  <2>4. QED BY <1>3, <2>2, <2>3, WorkStep DEF Kept, WorkMoved
<1>4. QED BY <1>2, <1>3

LEMMA KeptStep == ASSUME SInv, Calm => Kept, [Next]_vars PROVE (Calm => Kept)'
<1> SUFFICES ASSUME Calm' PROVE Kept'
  OBVIOUS
<1>1. Kept
  BY CalmBefore
<1>2. QED BY <1>1, StagedOrFiledStep, RecordedFiledStep, WorkIsCopyStep, SourcesCopiedStep,
             WorkMovedStep DEF Kept

(* Footage that reached the disk stays there, staged, filed or in a clip,  *)
(* until it expires: whatever order the pipeline, the stitcher and the     *)
(* sweepers take their steps in, however many chunks fall into one second, *)
(* and wherever the process stops, but for the upsets the model names      *)
(* (stitch_episode, process_file_info, sweep_directory).                   *)
THEOREM FootageStays == Spec => []NothingLost
<1>1. Init => SInv /\ (Calm => Kept)
  BY InvInit, ClaimsInit, SettledInit, KeptInit DEF SInv
<1>2. SInv /\ (Calm => Kept) /\ [Next]_vars => SInv' /\ (Calm => Kept)'
  BY SettledStep, KeptStep
<1>3. (Calm => Kept) => NothingLost
  BY DEF Calm, Kept, StagedOrFiled, Filed, InFiles, NothingLost
<1>4. QED BY <1>1, <1>2, <1>3, PTL DEF Spec

(* While nothing at all has upset it, what a row stands for is in the file *)
(* it names; so is what a task has written, and, until the swap, what the  *)
(* stitcher has joined.                                                    *)
Untroubled == upset = {}
Stands(r) == IF r = Clip THEN covers ELSE {r}
Plays(S, name) ==
    S \ expired # {} => name \in DOMAIN files /\ S \ expired \subseteq files[name]
PlaysNext(S, name) ==
    S \ expired' # {} => name \in DOMAIN files' /\ S \ expired' \subseteq files'[name]
Replaced(r) == r \in stitch.job /\ stitch.at \in {"removed", "moved"}

RowsPlay == \A r \in Ready : Replaced(r) \/ Plays(Stands(r), media[r].path)
WrittenPlay == \A c \in Chunks : task[c].at = "written" => Plays({c}, task[c].name)
JobInWork == stitch.at \in {"verified", "removed"} => stitch.job \ expired \subseteq work
ClipPlays == stitch.at = "moved" => Plays(stitch.job, MergedName)

AllPlay == RowsPlay /\ WrittenPlay /\ JobInWork /\ ClipPlays

LEMMA UntroubledBefore == ASSUME [Next]_vars, Untroubled' PROVE Untroubled /\ Calm'
BY HistoryGrows DEF Untroubled, Calm

LEMMA PlaysStay ==
    ASSUME [Next]_vars, Calm', NEW S, NEW name, Plays(S, name)
    PROVE  PlaysNext(S, name) \/ (RemoveSources /\ S \ expired \subseteq stitch.job)
<1>1. expired \subseteq expired'
  BY HistoryGrows
<1>2. CASE S \ expired' = {}
  BY <1>2 DEF PlaysNext
<1>3. CASE S \ expired' # {} /\ ~RemoveSources
  <2>1. name \in DOMAIN files /\ S \ expired \subseteq files[name]
    BY <1>1, <1>3 DEF Plays
  <2>2. Survives(name)
    BY <1>3, <2>1, FilesStep DEF FilesSurvive
  <2>3. QED BY <1>1, <2>1, <2>2 DEF Survives, PlaysNext
<1>4. CASE S \ expired' # {} /\ RemoveSources
  <2>1. name \in DOMAIN files /\ S \ expired \subseteq files[name]
    BY <1>1, <1>4 DEF Plays
  <2>2. (name \in DOMAIN files' /\ files'[name] = files[name]) \/ files[name] \subseteq stitch.job
    BY <1>4, <2>1, SourcesStep
  <2>3. QED BY <1>1, <1>4, <2>1, <2>2 DEF PlaysNext
<1>5. QED BY <1>2, <1>3, <1>4

LEMMA AllPlayInit == Init => AllPlay
<1> SUFFICES ASSUME Init PROVE AllPlay
  OBVIOUS
<1>1. PICK joined \in Joined : InitDisk(joined)
  BY DEF Init
<1>2. joined \subseteq Stored /\ Stored \subseteq Chunks
  BY StoredAssumption
<1> DEFINE at(r) == Name(Second[IF r = Clip THEN First(joined) ELSE r], 1, "mp4")
           rows == (Stored \ joined) \cup (IF joined = {} THEN {} ELSE {Clip})
           shows(r) == IF r = Clip THEN joined ELSE {r}
           file(p) == UNION {shows(r) : r \in {x \in rows : at(x) = p}}
<1>3. /\ files = [p \in {at(r) : r \in rows} |-> file(p)]
      /\ media = [r \in rows |-> Row("ready", at(r), IF r = Clip THEN "stitched" ELSE "free",
                                     at(r).second)]
      /\ covers = joined
      /\ \A c \in Chunks : task[c].at = IF c \in Stored THEN "ended" ELSE "unreported"
  BY <1>1 DEF InitDisk
<1>4. \A r : shows(r) = Stands(r)
  BY <1>3 DEF Stands
<1> HIDE DEF at, rows, shows
<1>5. \A r \in rows : at(r) \in DOMAIN files /\ shows(r) \subseteq files[at(r)]
  BY <1>3
<1>6. \A r \in Ready : r \in rows /\ media[r].path = at(r)
  BY <1>3 DEF Ready, Row
<1>7. RowsPlay
  BY <1>4, <1>5, <1>6 DEF RowsPlay, Plays
<1>8. WrittenPlay
  BY <1>3 DEF WrittenPlay
<1>9. JobInWork /\ ClipPlays
  BY DEF Init, Idle, JobInWork, ClipPlays
<1>10. QED BY <1>7, <1>8, <1>9 DEF AllPlay

(* A row that is ready after a step was so before, with the file it has,   *)
(* or has just been recorded, or is the clip's.                            *)
LEMMA ReadyBefore ==
    ASSUME SInv, [Next]_vars, NEW r \in Ready'
    PROVE  \/ r \in Ready /\ media'[r].path = media[r].path /\ (Swap => r # Clip /\ r \notin stitch.job)
           \/ r \in Chunks /\ Record(r) /\ media'[r].path = task[r].name
           \/ Swap /\ r = Clip /\ media'[r].path = MergedName
<1>1. \A q \in DOMAIN media : Whole(media[q])
  BY DEF SInv, Settled, RowsSettled
<1>2. r \in DOMAIN media' /\ media'[r].status = "ready"
  BY DEF Ready
<1>3. CASE UNCHANGED media /\ ~Swap
  BY <1>3 DEF Ready
<1>4. ASSUME NEW c \in Chunks, Report(c)
      PROVE  r \in Ready /\ media'[r].path = media[r].path /\ ~Swap
  <2>1. media' = Put(media, c, Row("pending", NoName, "free", Now)) /\ stitch' = stitch
    BY <1>4 DEF Report
  <2>2. r # c
    BY <1>2, <2>1 DEF Put, Row
  <2>3. r \in DOMAIN media /\ media'[r] = media[r]
    BY <1>2, <2>1, <2>2 DEF Put
  <2>4. ~Swap
    BY <2>1 DEF Swap, Idle
  <2>5. QED BY <1>2, <2>3, <2>4 DEF Ready
<1>5. ASSUME NEW c \in Chunks, GivesUp(c)
      PROVE  r \in Ready /\ media'[r].path = media[r].path /\ ~Swap
  <2>1. media' = [media EXCEPT ![c].status = "unfiled"] /\ stitch' = stitch
    BY <1>5 DEF GivesUp
  <2>2. c \in DOMAIN media => media'[c] = Row("unfiled", media[c].path, media[c].state, media[c].created)
    BY <1>1, <2>1, RowSet
  <2>3. r # c
    BY <1>2, <2>1, <2>2 DEF Row
  <2>4. r \in DOMAIN media /\ media'[r] = media[r]
    BY <1>2, <2>1, <2>3
  <2>5. ~Swap
    BY <2>1 DEF Swap, Idle
  <2>6. QED BY <1>2, <2>4, <2>5 DEF Ready
<1>6. ASSUME NEW c \in Chunks, Record(c)
      PROVE  \/ r \in Ready /\ media'[r].path = media[r].path /\ ~Swap
             \/ r = c /\ media'[r].path = task[r].name
  <2>1. /\ media' = Put(media, c, [media[c] EXCEPT !.status = "ready", !.path = task[c].name])
        /\ stitch' = stitch /\ task[c].at = "written"
    BY <1>6 DEF Record
  <2>2. c \in DOMAIN media
    BY <2>1 DEF SInv, Settled, RowsSettled, UnderWay
  <2>3. media'[c] = Row("ready", task[c].name, media[c].state, media[c].created)
    <3>1. media'[c] = [media[c] EXCEPT !.status = "ready", !.path = task[c].name]
      BY <2>1 DEF Put
    <3>2. QED BY <1>1, <2>2, <3>1, RowSet
  <2>4. r # c => r \in DOMAIN media /\ media'[r] = media[r]
    BY <1>2, <2>1 DEF Put
  <2>5. ~Swap
    BY <2>1 DEF Swap, Idle
  <2>6. QED BY <1>2, <2>3, <2>4, <2>5 DEF Ready, Row
<1>7. CASE Join \/ MoveFails
  <2>1. UNCHANGED media \/ \E S : media' = Held(S)
    BY <1>7 DEF Join, GiveUpJoin, MoveFails
  <2>2. DOMAIN media' = DOMAIN media
    BY <1>7, JoinKeeps, StitcherKeeps
  <2>3. media'[r].status = media[r].status /\ media'[r].path = media[r].path
    BY <1>1, <1>2, <2>1, <2>2, HeldAt
  <2>4. ~Swap
    BY <1>7 DEF Swap, Join, MoveFails
  <2>5. QED BY <1>2, <2>2, <2>3, <2>4 DEF Ready
<1>8. CASE Swap
  <2> DEFINE out == DOMAIN stitch.rows \ stitch.job
             row == Row("ready", MergedName, "stitched", Now)
  <2>1. media' = Put(Without(Held(out), stitch.job), Clip, row)
    BY <1>8 DEF Swap
  <2>2. /\ DOMAIN media' = (DOMAIN media \ stitch.job) \cup {Clip}
        /\ media'[Clip] = row
        /\ \A q \in DOMAIN media \ stitch.job : q # Clip => media'[q] = Held(out)[q]
    <3>1. DOMAIN Held(out) = DOMAIN media
      BY HeldRows
    <3>2. QED BY <2>1, <3>1 DEF Put, Without
  <2>3. row.path = MergedName
    BY DEF Row
  <2> HIDE DEF out, row
  <2>4. CASE r = Clip
    BY <1>8, <2>2, <2>3, <2>4
  <2>5. CASE r # Clip
    <3>1. r \in DOMAIN media \ stitch.job /\ media'[r] = Held(out)[r]
      BY <1>2, <2>2, <2>5
    <3>2. media'[r].status = media[r].status /\ media'[r].path = media[r].path
      BY <1>1, <3>1, HeldAt
    <3>3. QED BY <1>2, <2>5, <3>1, <3>2 DEF Ready
  <2>6. QED BY <2>4, <2>5
<1>9. ASSUME NEW q \in Rows, DeleteRow(q)
      PROVE  r \in Ready /\ media'[r].path = media[r].path /\ ~Swap
  <2>1. media' = Without(media, {q}) /\ stitch' = stitch
    BY <1>9 DEF DeleteRow
  <2>2. r \in DOMAIN media /\ media'[r] = media[r]
    BY <1>2, <2>1 DEF Without
  <2>3. ~Swap
    BY <2>1 DEF Swap, Idle
  <2>4. QED BY <1>2, <2>2, <2>3 DEF Ready
<1>10. QED BY <1>3, <1>4, <1>5, <1>6, <1>7, <1>8, <1>9, RowsTouched

(* The rows about to be replaced stay so until they are.                   *)
LEMMA ReplacedStay ==
    ASSUME SInv, [Next]_vars, Untroubled', ~Swap, NEW r, Replaced(r)
    PROVE  Replaced(r)'
<1>1. WholeStitch /\ Calm'
  BY UntroubledBefore DEF SInv, Settled, JoinSettled
<1>2. stitch.at \in {"removed", "moved"} /\ r \in stitch.job
  BY DEF Replaced
<1>3. CASE SameJoin
  BY <1>2, <1>3 DEF SameJoin, Replaced
<1>4. CASE stitch' = Idle
  <2>1. stitch.at = "moved"
    BY <1>1, <1>2, <1>4, IdleFrom
  <2>2. CASE SwapRefused
    <3>1. "rejoin" \in upset'
      BY <2>2 DEF SwapRefused, Upset
    <3>2. QED BY <3>1 DEF Untroubled
  <2>3. CASE stitch' = stitch
    BY <1>4, <2>1, <2>3 DEF Idle
  <2>4. CASE Stop
    BY <1>1, <2>1, <2>4, StopSurvive
  <2>5. CASE Stitcher /\ ~SwapRefused
    BY <2>1, <2>5 DEF Stitcher, Pick, Join, RemoveSources, MoveIntoPlace, MoveFails
  <2>6. CASE \E c \in Chunks : Upload(c) \/ Report(c) \/ Pipeline(c) \/ SweepRaw(c)
    BY <2>3, <2>6 DEF Upload, Report, Pipeline, SweepRaw, Claim, Remux, KeepTs, Record, DropRaw,
          GivesUp, TaskFails
  <2>7. CASE Retention
    BY <2>3, <2>7 DEF Retention, ChooseExpired, UnlinkExpired, DeleteRow
  <2>8. CASE QuietPasses \/ SweepWork \/ UNCHANGED vars
    BY <2>3, <2>8 DEF QuietPasses, SweepWork, vars
  <2>9. QED BY <2>2, <2>4, <2>5, <2>6, <2>7, <2>8 DEF Next
<1>5. CASE Pick
  BY <1>2, <1>5, PickAt
<1>6. ASSUME NEW S, Joins(S) PROVE FALSE
  BY <1>2, <1>6 DEF Joins
<1>7. QED BY <1>1, <1>3, <1>4, <1>5, <1>6, StitchStep

LEMMA RowsPlayStep ==
    ASSUME SInv, AllPlay, [Next]_vars, Untroubled'
    PROVE  RowsPlay'
<1>1. Calm' /\ WholeStitch /\ expired \subseteq expired'
  BY UntroubledBefore, HistoryGrows DEF SInv, Settled, JoinSettled
<1> SUFFICES ASSUME NEW r \in Ready', ~Replaced(r)'
             PROVE  PlaysNext(Stands(r)', media'[r].path)
  BY DEF RowsPlay, Plays, PlaysNext
<1>2. ASSUME r \in Ready, media'[r].path = media[r].path, Swap => r # Clip /\ r \notin stitch.job
      PROVE  PlaysNext(Stands(r)', media'[r].path)
  <2>1. Stands(r)' = Stands(r)
    BY <1>2, CoversTouched DEF Stands
  <2>2. ~Replaced(r)
    BY <1>2, ReplacedStay DEF Replaced
  <2>3. Plays(Stands(r), media[r].path)
    BY <1>2, <2>2 DEF AllPlay, RowsPlay
  <2>4. CASE RemoveSources /\ Stands(r) \ expired \subseteq stitch.job
    <3>1. stitch'.at = "removed" /\ stitch'.job = stitch.job
      BY <1>1, <2>4, StitchAt DEF RemoveSources
    <3>2. r \notin stitch.job
      BY <3>1 DEF Replaced
    <3>3. stitch.job \cap covers = {}
      BY DEF SInv, Settled, JoinSettled
    <3>4. Stands(r) \ expired = {}
      BY <2>4, <3>2, <3>3 DEF Stands
    <3>5. Stands(r) \ expired' = {}
      BY <1>1, <3>4
    <3>6. QED BY <2>1, <3>5 DEF PlaysNext
  <2>5. PlaysNext(Stands(r), media[r].path)
           \/ (RemoveSources /\ Stands(r) \ expired \subseteq stitch.job)
    BY <1>1, <2>3, PlaysStay
  <2>6. QED BY <1>2, <2>1, <2>4, <2>5
<1>3. ASSUME r \in Chunks, Record(r), media'[r].path = task[r].name
      PROVE  PlaysNext(Stands(r)', media'[r].path)
  <2>1. task[r].at = "written" /\ files' = files /\ expired' = expired
    BY <1>3 DEF Record, disk
  <2>2. Plays({r}, task[r].name)
    BY <1>3, <2>1 DEF AllPlay, WrittenPlay
  <2>3. Stands(r)' = {r}
    BY <1>3, ClipAssumption DEF Stands
  <2>4. QED BY <1>3, <2>1, <2>2, <2>3 DEF Plays, PlaysNext
<1>4. ASSUME Swap, r = Clip, media'[r].path = MergedName
      PROVE  PlaysNext(Stands(r)', media'[r].path)
  <2>1. /\ stitch.at = "moved" /\ Clip \notin DOMAIN media
        /\ covers' = covers \cup stitch.job /\ files' = files /\ expired' = expired
    BY <1>4 DEF Swap, disk
  <2>2. covers \subseteq expired
    BY <2>1 DEF SInv, Settled, CoversSettled
  <2>3. Stands(r)' \ expired' = stitch.job \ expired
    BY <1>4, <2>1, <2>2 DEF Stands
  <2>4. Plays(stitch.job, MergedName)
    BY <2>1 DEF AllPlay, ClipPlays
  <2>5. QED BY <1>4, <2>1, <2>3, <2>4 DEF Plays, PlaysNext
<1>5. QED BY <1>2, <1>3, <1>4, ReadyBefore

LEMMA WrittenPlayStep ==
    ASSUME SInv, AllPlay, [Next]_vars, Untroubled'
    PROVE  WrittenPlay'
<1>1. Calm' /\ Tasks
  BY UntroubledBefore DEF SInv, CInv
<1> SUFFICES ASSUME NEW c \in Chunks, task'[c].at = "written"
             PROVE  PlaysNext({c}, task'[c].name)
  BY DEF WrittenPlay, Plays, PlaysNext
<1>2. CASE Remux(c) \/ KeepTs(c)
  BY <1>1, <1>2, WrittenFiled DEF PlaysNext
<1>3. CASE task[c].at \in {"written", "recorded"} /\ task'[c].name = task[c].name
  <2>1. task[c].at = "written"
    <3>1. CASE task'[c] = task[c]
      BY <3>1
    <3>2. CASE Done(c)
      BY <1>1, <3>2, DoneStays DEF Done
    <3>3. QED BY <1>3, <3>2 DEF Done
  <2>2. Plays({c}, task[c].name) /\ ~Done(c)
    BY <2>1 DEF AllPlay, WrittenPlay, Done
  <2>3. CASE {c} \ expired \subseteq stitch.job
    <3>1. c \in expired \/ c \in stitch.job
      BY <2>3
    <3>2. c \in expired
      BY <2>2, <3>1 DEF SInv, Settled, JoinSettled
    <3>3. {c} \ expired' = {}
      BY <3>2, HistoryGrows
    <3>4. QED BY <3>3 DEF PlaysNext
  <2>4. QED BY <1>1, <1>3, <2>2, <2>3, PlaysStay
<1>4. QED BY <1>1, <1>2, <1>3, WrittenBefore

LEMMA JobInWorkStep ==
    ASSUME SInv, AllPlay, [Next]_vars, Untroubled'
    PROVE  JobInWork'
<1>1. WholeStitch /\ expired \subseteq expired'
  BY HistoryGrows DEF SInv, Settled, JoinSettled
<1> SUFFICES ASSUME stitch'.at \in {"verified", "removed"}, NEW c \in stitch'.job, c \notin expired'
             PROVE  c \in work'
  BY DEF JobInWork
<1>2. ASSUME NEW S, Joins(S) PROVE c \in work'
  <2>1. c \in S /\ stitch.at = "picked" /\ S \subseteq DOMAIN stitch.rows
    BY <1>1, <1>2, JoinsAt DEF Joins
  <2>2. /\ c \in Chunks /\ c \in DOMAIN media /\ media[c] = stitch.rows[c]
        /\ stitch.rows[c].status = "ready"
    BY <1>1, <2>1 DEF SInv, Settled, JoinSettled, CopySettled
  <2>3. c \in Ready /\ ~Replaced(c) /\ Stands(c) = {c}
    BY <2>1, <2>2, ClipAssumption DEF Ready, Replaced, Stands
  <2>4. Plays({c}, stitch.rows[c].path)
    BY <2>2, <2>3 DEF AllPlay, RowsPlay
  <2>5. c \in files[stitch.rows[c].path]
    BY <1>1, <2>4 DEF Plays
  <2>6. QED BY <1>1, <1>2, <2>1, <2>5, JoinsShow
<1>3. CASE ~ \E S : Joins(S)
  <2>1. SameJoin
    BY <1>1, <1>3, StitchStep, PickAt, IdleAt
  <2>2. stitch.at \in {"verified", "removed"} /\ stitch'.job = stitch.job
    BY <2>1 DEF SameJoin
  <2>3. c \in work
    BY <1>1, <2>2 DEF AllPlay, JobInWork
  <2>4. ~MoveIntoPlace
    BY <1>1, StitchAt DEF MoveIntoPlace
  <2>5. QED BY <1>3, <2>2, <2>3, <2>4, WorkStep
<1>4. QED BY <1>2, <1>3

LEMMA ClipPlaysStep ==
    ASSUME SInv, AllPlay, [Next]_vars, Untroubled'
    PROVE  ClipPlays'
<1>1. WholeStitch /\ Calm' /\ expired \subseteq expired'
  BY UntroubledBefore, HistoryGrows DEF SInv, Settled, JoinSettled
<1> SUFFICES ASSUME stitch'.at = "moved" PROVE PlaysNext(stitch'.job, MergedName')
  BY DEF ClipPlays, Plays, PlaysNext
<1>2. SameJoin
  BY <1>1, StitchStep, PickAt, IdleAt, JoinsAt
<1>3. MergedName' = MergedName /\ stitch'.job = stitch.job
  BY <1>2 DEF SameJoin, MergedName
<1>4. CASE MoveIntoPlace
  <2>1. stitch.at = "removed" /\ files' = Put(files, MergedName, work)
    BY <1>4 DEF MoveIntoPlace
  <2>2. MergedName \in DOMAIN files' /\ files'[MergedName] = work
    BY <2>1 DEF Put
  <2>3. stitch.job \ expired \subseteq work
    BY <2>1 DEF AllPlay, JobInWork
  <2>4. QED BY <1>1, <1>3, <2>2, <2>3 DEF PlaysNext
<1>5. CASE ~MoveIntoPlace
  <2>1. stitch.at = "moved"
    BY <1>2, <1>5 DEF SameJoin
  <2>2. ~RemoveSources
    BY <2>1 DEF RemoveSources
  <2>3. Plays(stitch.job, MergedName)
    BY <2>1 DEF AllPlay, ClipPlays
  <2>4. QED BY <1>1, <1>3, <2>2, <2>3, PlaysStay
<1>6. QED BY <1>4, <1>5

LEMMA AllPlayStep ==
    ASSUME SInv, Untroubled => AllPlay, [Next]_vars
    PROVE  (Untroubled => AllPlay)'
<1> SUFFICES ASSUME Untroubled' PROVE AllPlay'
  OBVIOUS
<1>1. AllPlay
  BY UntroubledBefore
<1>2. QED BY <1>1, RowsPlayStep, WrittenPlayStep, JobInWorkStep, ClipPlaysStep DEF AllPlay

(* A row that is ready plays the footage it stands for, until that expires *)
(* or the stitcher is about to replace the row, as long as nothing the     *)
(* model calls an upset has happened (process_file_info,                   *)
(* replace_chunks_with_stitched).                                          *)
THEOREM ReadyRowsPlay == Spec => []Playable
<1>1. Init => SInv /\ (Untroubled => AllPlay)
  BY InvInit, ClaimsInit, SettledInit, AllPlayInit DEF SInv
<1>2. SInv /\ (Untroubled => AllPlay) /\ [Next]_vars => SInv' /\ (Untroubled => AllPlay)'
  BY SettledStep, AllPlayStep
<1>3. (Untroubled => AllPlay) => Playable
  BY DEF Untroubled, AllPlay, RowsPlay, Replaced, Plays, Stands, Footage, Playable
<1>4. QED BY <1>1, <1>2, <1>3, PTL DEF Spec
=============================================================================
