------------------------------ MODULE Footage ------------------------------
(***************************************************************************)
(* The chunks of one visit's video, on their way through the bucket        *)
(* (http/bucket.py), the pipeline (media/pipeline.py), the stitcher        *)
(* (media/stitch.py) and the retention sweeper (media/retention.py): one   *)
(* staging directory, one folder of playable files and one table of rows,  *)
(* with four writers and a process that may stop between any two steps.    *)
(*                                                                         *)
(* A file is what it shows: the set of chunks whose footage it holds, {}   *)
(* for the empty file that reserves a name.  A name is the second of the   *)
(* recording, the number _claim_unique_path appends and the extension.     *)
(*                                                                         *)
(* `upset' records what has happened that the code does not protect        *)
(* footage from; the invariants name the members they depend on:           *)
(*   "overwrite"  a file was replaced, or removed for its name, by one     *)
(*                that lacks its footage                                   *)
(*   "stop"       the process stopped between removing the sources of a    *)
(*                clip and recording the clip                              *)
(*   "move"       the clip could not be moved into place                   *)
(*   "rejoin"     a second clip was made for a visit that had one          *)
(*   "reused"     a file was unlinked whose name had been taken, since it  *)
(*                was looked up, for other footage                         *)
(*                                                                         *)
(* Limits: one visit and category; photos, names that carry a pet's name   *)
(* (they collide less), reclassified categories and repeated reports of    *)
(* one upload are left out; so are the pipeline's `.raw.ts' beside a file  *)
(* that is being remuxed and the concat list.                              *)
(***************************************************************************)
EXTENDS Integers, FiniteSets, FiniteSetsExt

CONSTANTS
    Chunks,
    Clip,            \* the row of the merged clip, `stitched:<event>:<category>'
    Second,          \* the second each chunk starts in: its name, and its place
    Stream,          \* the shape of each chunk's video stream
    Damaged,         \* chunks that do not decode, and may not even probe
    Stored,          \* chunks already filed when the model starts ...
    Joined,          \* ... and the choices of those already in a clip
    MaxStops         \* bound: how often the process stops

ASSUME SecondAssumption == Second \in [Chunks -> Nat]
ASSUME ClipAssumption == Clip \notin Chunks
ASSUME DamagedAssumption == Damaged \subseteq Chunks
ASSUME StoredAssumption ==
    /\ Stored \subseteq Chunks
    /\ \A c, d \in Stored : Second[c] = Second[d] => c = d
    /\ Joined \subseteq SUBSET Stored
ASSUME StopsAssumption == MaxStops \in Nat

Name(s, n, ext) == [second |-> s, n |-> n, ext |-> ext]
Names == [second : Nat, n : Nat \ {0}, ext : {"mp4", "ts"}]
Rows == Chunks \cup {Clip}
NoName == Name(0, 1, "ts")     \* the media_path of a row that has none

VARIABLES
    raw,       \* uploads staged in .raw
    work,      \* the stitcher's file in .raw: what it shows, {} if there is none
    files,     \* the media folder: what each file there shows
    media,     \* the rows: status, media_path, stitch_state and, as an order,
               \* created_at
    fresh,     \* rows inserted less than QUIET_SECONDS ago
    task,      \* per chunk: how far its pipeline task is, and the name it holds
    stitch,    \* the stitcher: its step, the candidate rows, those in the join
    sweep,     \* the sweeper: its step, and the rows it has yet to finish
    stops,     \* how often the process has stopped
    seen,      \* history: chunks whose upload was stored
    shown,     \* history: chunks that became ready
    covers,    \* history: chunks whose rows a clip has replaced
    overdue,   \* history: rows selected by a sweep and not deleted yet
    expired,   \* history: chunks whose footage was swept
    upset      \* history: see above

disk == <<raw, work, files>>
history == <<seen, shown, covers, overdue, expired, upset>>
vars == <<disk, media, fresh, task, stitch, sweep, stops, history>>

Put(f, k, v) == [x \in DOMAIN f \cup {k} |-> IF x = k THEN v ELSE f[x]]
Without(f, S) == [x \in DOMAIN f \ S |-> f[x]]
Paths(rows) == {rows[r].path : r \in DOMAIN rows}

Row(status, path, state, age) ==
    [status |-> status, path |-> path, state |-> state, created |-> age]
Ready == {r \in DOMAIN media : media[r].status = "ready"}

(* A new row was created after those there are.                            *)
Now == 1 + Max({0} \cup {media[r].created : r \in DOMAIN media})

(* Replacing or removing the file of that name, for one that shows this.   *)
Clobbers(name, footage) ==
    name \in DOMAIN files /\ ~(files[name] \subseteq footage)
(* Unlinking a name that is somebody else's by now.                        *)
Taken(name, footage) ==
    \/ Clobbers(name, footage)
    \/ \E c \in Chunks : task[c].at = "claimed" /\ task[c].name = name
Upset(what, happened) == upset' = IF happened THEN upset \cup {what} ELSE upset

Idle == [at |-> "idle", rows |-> [r \in {} |-> NoName], job |-> {}]
IdleSweep == [at |-> "idle", rows |-> [r \in {} |-> NoName]]
-----------------------------------------------------------------------------
First(S) == CHOOSE c \in S : \A d \in S : Second[c] <= Second[d]

InitDisk(joined) ==
    LET own(c) == Name(Second[c], 1, "mp4")
        alone == Stored \ joined
        clip == IF joined = {} THEN {} ELSE {Clip}
        at(r) == own(IF r = Clip THEN First(joined) ELSE r)
    IN
    /\ media = [r \in alone \cup clip |->
                   Row("ready", at(r), IF r = Clip THEN "stitched" ELSE "free",
                       at(r).second)]
    /\ files = [p \in {at(r) : r \in alone \cup clip} |->
                   UNION {IF r = Clip THEN joined ELSE {r} :
                             r \in {x \in alone \cup clip : at(x) = p}}]
    /\ covers = joined
    /\ task = [c \in Chunks |-> IF c \in Stored THEN [at |-> "ended", name |-> own(c)]
                               ELSE [at |-> "unreported", name |-> NoName]]

Init ==
    /\ \E joined \in Joined : InitDisk(joined)
    /\ raw = {} /\ work = {} /\ fresh = {}
    /\ stitch = Idle /\ sweep = IdleSweep
    /\ stops = 0
    /\ seen = Stored /\ shown = Stored
    /\ overdue = {} /\ expired = {} /\ upset = {}
-----------------------------------------------------------------------------
(* The bucket: a PUT writes the object, encrypted, under its own name.     *)
Upload(c) ==
    /\ c \notin seen
    /\ raw' = raw \cup {c}
    /\ seen' = seen \cup {c}
    /\ UNCHANGED <<work, files, media, fresh, task, stitch, sweep, stops,
                   shown, covers, overdue, expired, upset>>

(* dev_upload_file_info_v2: a pending row, and a task to process the file. *)
Report(c) ==
    /\ task[c].at = "unreported"
    /\ media' = Put(media, c, Row("pending", NoName, "free", Now))
    /\ fresh' = fresh \cup {c}
    /\ task' = [task EXCEPT ![c].at = "started"]
    /\ UNCHANGED <<disk, stitch, sweep, stops, history>>

(* The capability is disabled, the upload is not there, or unreadable: the *)
(* row says so (skipped, missing or error; here, unfiled), and what is     *)
(* staged stays staged.                                                    *)
GivesUp(c) ==
    /\ task[c].at = "started"
    /\ media' = [media EXCEPT ![c].status = "unfiled"]
    /\ task' = [task EXCEPT ![c].at = "ended"]
    /\ UNCHANGED <<disk, fresh, stitch, sweep, stops, history>>

(* Faulty variant: the name is taken whether it is in use or not.          *)
ClaimFirst(c) ==
    /\ task[c].at = "started" /\ c \in raw
    /\ LET name == Name(Second[c], 1, "mp4") IN
       /\ files' = Put(files, name, IF name \in DOMAIN files THEN files[name] ELSE {})
       /\ task' = [task EXCEPT ![c] = [at |-> "claimed", name |-> name]]
    /\ UNCHANGED <<raw, work, media, fresh, stitch, sweep, stops, history>>

(* Read and decrypt the upload, and reserve the first unused name.         *)
Claim(c) ==
    /\ task[c].at = "started" /\ c \in raw
    /\ \E n \in 1..(Cardinality(DOMAIN files) + 1) :
           LET name == Name(Second[c], n, "mp4") IN
           /\ name \notin DOMAIN files
           /\ \A k \in 1..(n - 1) : Name(Second[c], k, "mp4") \in DOMAIN files
           /\ files' = Put(files, name, {})
           /\ task' = [task EXCEPT ![c] = [at |-> "claimed", name |-> name]]
    /\ UNCHANGED <<raw, work, media, fresh, stitch, sweep, stops, history>>

(* ffmpeg remuxes over the empty file (-y) ...                             *)
Remux(c) ==
    /\ task[c].at = "claimed"
    /\ files' = Put(files, task[c].name, {c})
    /\ task' = [task EXCEPT ![c].at = "written"]
    /\ Upset("overwrite", Clobbers(task[c].name, {c}))
    /\ UNCHANGED <<raw, work, media, fresh, stitch, sweep, stops,
                   seen, shown, covers, overdue, expired>>

(* ... or fails, and the stream is kept as .ts, a name nobody reserved.    *)
KeepTs(c) ==
    LET ts == [task[c].name EXCEPT !.ext = "ts"] IN
    /\ task[c].at = "claimed"
    /\ files' = Put(Without(files, {task[c].name}), ts, {c})
    /\ task' = [task EXCEPT ![c] = [at |-> "written", name |-> ts]]
    /\ Upset("overwrite", Clobbers(ts, {c}) \/ Clobbers(task[c].name, {}))
    /\ UNCHANGED <<raw, work, media, fresh, stitch, sweep, stops,
                   seen, shown, covers, overdue, expired>>

(* Faulty variant: the row becomes ready as soon as the name is reserved.  *)
RecordClaimed(c) ==
    /\ task[c].at = "claimed" /\ task[c].name \in DOMAIN files
    /\ media' = Put(media, c, [media[c] EXCEPT !.status = "ready", !.path = task[c].name])
    /\ UNCHANGED <<disk, fresh, task, stitch, sweep, stops, history>>

(* The row becomes ready; getsize raises if the file has gone.             *)
Record(c) ==
    /\ task[c].at = "written" /\ task[c].name \in DOMAIN files
    /\ media' = Put(media, c, [media[c] EXCEPT !.status = "ready", !.path = task[c].name])
    /\ shown' = shown \cup {c}
    /\ task' = [task EXCEPT ![c].at = "recorded"]
    /\ UNCHANGED <<disk, fresh, stitch, sweep, stops,
                   seen, covers, overdue, expired, upset>>

(* Faulty variant: the upload is dropped as soon as it is decrypted.       *)
DropRawEarly(c) ==
    /\ task[c].at = "claimed" /\ c \in raw
    /\ raw' = raw \ {c}
    /\ UNCHANGED <<work, files, media, fresh, task, stitch, sweep, stops, history>>

(* The staged upload is removed last.                                      *)
DropRaw(c) ==
    /\ task[c].at = "recorded"
    /\ raw' = raw \ {c}
    /\ task' = [task EXCEPT ![c].at = "ended"]
    /\ UNCHANGED <<work, files, media, fresh, stitch, sweep, stops, history>>

(* An exception ends the task where it is: the file has gone, the disk is  *)
(* full.                                                                   *)
TaskFails(c) ==
    /\ task[c].at \in {"started", "claimed", "written", "recorded"}
    /\ task' = [task EXCEPT ![c].at = "ended"]
    /\ UNCHANGED <<disk, media, fresh, stitch, sweep, stops, history>>

QuietPasses ==
    /\ fresh # {}
    /\ fresh' = {}
    /\ UNCHANGED <<disk, media, task, stitch, sweep, stops, history>>
-----------------------------------------------------------------------------
(* The stitcher.  Its snapshot of the candidate rows is taken before, and  *)
(* used after, everything else it awaits.                                  *)
Offered == {c \in Ready \ {Clip} : media[c].state = "free"}

Held(S) == [r \in DOMAIN media |->
               IF r \in S THEN [media[r] EXCEPT !.state = "failed"] ELSE media[r]]

Pick ==
    /\ stitch.at = "idle"
    /\ Cardinality(Offered) >= 2 /\ Offered \cap fresh = {}
    /\ stitch' = [at |-> "picked", rows |-> [c \in Offered |-> media[c]], job |-> {}]
    /\ UNCHANGED <<disk, media, fresh, task, sweep, stops, history>>

(* split_by_stream: a largest group of chunks with one stream; ties fall   *)
(* to either here.                                                         *)
Groups(S) == {{c \in S : Stream[c] = s} : s \in {Stream[c] : c \in S}} \cup {{}}
Dominant(S) == {g \in Groups(S) : \A h \in Groups(S) : Cardinality(g) >= Cardinality(h)}

(* What the join is left with: a bad result has the chunks decoded one by  *)
(* one, and tried again without the bad ones if two good ones are left.    *)
Joinable(S) ==
    IF Cardinality(S) > 2 /\ S \cap Damaged # {} /\ Cardinality(S \ Damaged) >= 2
      THEN S \ Damaged ELSE S

Shows(S) == UNION {files[stitch.rows[c].path] : c \in S}
OnDisk == {c \in DOMAIN stitch.rows : stitch.rows[c].path \in DOMAIN files}

(* Faulty variant: the chunks are not marked, and will be tried again.     *)
GiveUpJoinUnmarked(S) ==
    /\ stitch' = Idle
    /\ UNCHANGED <<raw, files, media, fresh, task, sweep, stops, history>>

GiveUpJoin(S) ==
    /\ media' = Held(S)
    /\ stitch' = Idle
    /\ UNCHANGED <<raw, files, fresh, task, sweep, stops, history>>

(* Concatenate into the work directory and verify; on failure mark the     *)
(* chunks that were joined, on success nothing else has changed yet.       *)
Join ==
    /\ stitch.at = "picked"
    /\ \/ /\ Cardinality(OnDisk) < 2
          /\ GiveUpJoin(DOMAIN stitch.rows) /\ UNCHANGED work
       \/ /\ Cardinality(OnDisk) >= 2
          /\ \E unread \in SUBSET (OnDisk \cap Damaged) :
             \E main \in Dominant(OnDisk \ unread) :
                \/ /\ Cardinality(main) < 2
                   /\ GiveUpJoin(DOMAIN stitch.rows) /\ UNCHANGED work
                \/ /\ Cardinality(main) >= 2
                   /\ GiveUpJoin(Joinable(main)) /\ work' = {}
                \/ /\ Cardinality(main) >= 2 /\ Joinable(main) \cap Damaged = {}
                   /\ work' = Shows(Joinable(main))
                   /\ stitch' = [stitch EXCEPT !.at = "verified", !.job = Joinable(main)]
                   /\ UNCHANGED <<raw, files, media, fresh, task, sweep, stops, history>>

(* _merged_path: the clip takes the name of the visit's first chunk.       *)
MergedName == Name(Second[First(DOMAIN stitch.rows)], 1, "mp4")
Sources == {stitch.rows[c].path : c \in stitch.job} \ {MergedName}

RemoveSources ==
    /\ stitch.at = "verified"
    /\ files' = Without(files, Sources)
    /\ stitch' = [stitch EXCEPT !.at = "removed"]
    /\ Upset("reused", \E name \in Sources : Taken(name, stitch.job))
    /\ UNCHANGED <<raw, work, media, fresh, task, sweep, stops,
                   seen, shown, covers, overdue, expired>>

MoveIntoPlace ==
    /\ stitch.at = "removed"
    /\ files' = Put(files, MergedName, work)
    /\ work' = {}
    /\ stitch' = [stitch EXCEPT !.at = "moved"]
    /\ Upset("overwrite", Clobbers(MergedName, work))
    /\ UNCHANGED <<raw, media, fresh, task, sweep, stops,
                   seen, shown, covers, overdue, expired>>

MoveFails ==
    /\ stitch.at = "removed"
    /\ media' = Held(stitch.job)
    /\ stitch' = Idle
    /\ Upset("move", TRUE)
    /\ UNCHANGED <<disk, fresh, task, sweep, stops,
                   seen, shown, covers, overdue, expired>>

(* replace_chunks_with_stitched, one transaction, then the mark on the     *)
(* chunks that were left out.                                              *)
Swap ==
    LET out == DOMAIN stitch.rows \ stitch.job
        row == Row("ready", MergedName, "stitched", Now)
    IN
    /\ stitch.at = "moved" /\ Clip \notin DOMAIN media
    /\ media' = Put(Without(Held(out), stitch.job), Clip, row)
    /\ covers' = covers \cup stitch.job
    /\ stitch' = Idle
    /\ UNCHANGED <<disk, fresh, task, sweep, stops, seen, shown, overdue, expired, upset>>

(* Faulty variant: the rows are deleted before the insert fails.           *)
SwapRefusedAfterDelete ==
    /\ stitch.at = "moved" /\ Clip \in DOMAIN media
    /\ media' = Without(media, stitch.job)
    /\ stitch' = Idle
    /\ UNCHANGED <<disk, fresh, task, sweep, stops, history>>

(* file_id is unique: the insert fails, and the deletes are rolled back.   *)
SwapRefused ==
    /\ stitch.at = "moved" /\ Clip \in DOMAIN media
    /\ stitch' = Idle
    /\ Upset("rejoin", TRUE)
    /\ UNCHANGED <<disk, media, fresh, task, sweep, stops,
                   seen, shown, covers, overdue, expired>>
-----------------------------------------------------------------------------
(* Faulty variant: rows whose file has gone are passed over.               *)
ChooseExpiredOnDisk ==
    /\ sweep.at = "idle"
    /\ \E last \in Ready :
          LET S == {r \in Ready : /\ media[r].created <= media[last].created
                                  /\ media[r].path \in DOMAIN files}
          IN /\ S # {}
             /\ sweep' = [at |-> "chosen", rows |-> [r \in S |-> media[r]]]
             /\ overdue' = overdue \cup S
    /\ UNCHANGED <<disk, media, fresh, task, stitch, stops,
                   seen, shown, covers, expired, upset>>

(* Retention: the oldest ready rows go.  How many is left open, but a row  *)
(* that was over a cap once stays so.                                      *)
ChooseExpired ==
    /\ sweep.at = "idle"
    /\ \E last \in Ready :
          LET S == {r \in Ready : media[r].created <= media[last].created} IN
          /\ overdue \cap DOMAIN media \subseteq S
          /\ sweep' = [at |-> "chosen", rows |-> [r \in S |-> media[r]]]
          /\ overdue' = overdue \cup S
    /\ UNCHANGED <<disk, media, fresh, task, stitch, stops,
                   seen, shown, covers, expired, upset>>

(* The chunks that rows stand for.                                         *)
StandsFor(S) == (S \ {Clip}) \cup (IF Clip \in S THEN covers ELSE {})
Selected == StandsFor(DOMAIN sweep.rows)

UnlinkExpired ==
    /\ sweep.at = "chosen"
    /\ files' = Without(files, Paths(sweep.rows))
    /\ expired' = expired \cup Selected
    /\ sweep' = [sweep EXCEPT !.at = "unlinked"]
    /\ Upset("reused", \E name \in Paths(sweep.rows) : Taken(name, Selected))
    /\ UNCHANGED <<raw, work, media, fresh, task, stitch, stops,
                   seen, shown, covers, overdue>>

DeleteRow(r) ==
    /\ sweep.at = "unlinked" /\ r \in DOMAIN sweep.rows
    /\ \A q \in DOMAIN sweep.rows : sweep.rows[r].created <= sweep.rows[q].created
    /\ media' = Without(media, {r})
    /\ overdue' = overdue \ {r}
    /\ sweep' = IF DOMAIN sweep.rows = {r} THEN IdleSweep
                ELSE [sweep EXCEPT !.rows = Without(sweep.rows, {r})]
    /\ UNCHANGED <<disk, fresh, task, stitch, stops,
                   seen, shown, covers, expired, upset>>

(* The sweep of .raw leaves alone what is younger than an hour, which is   *)
(* longer than a join lives.  That it takes an upload which a task has     *)
(* read but not finished with is left out.                                 *)
SweepRaw(c) ==
    /\ c \in raw /\ task[c].at \in {"unreported", "started", "ended"}
    /\ raw' = raw \ {c}
    /\ expired' = expired \cup ({c} \ shown)
    /\ UNCHANGED <<work, files, media, fresh, task, stitch, sweep, stops,
                   seen, shown, covers, overdue, upset>>

(* What a join that failed or was cut short left in .raw goes in time; the *)
(* age floor keeps the sweep from the file of a join under way.            *)
SweepWork ==
    /\ work # {} /\ stitch.at \in {"idle", "picked"}
    /\ work' = {}
    /\ UNCHANGED <<raw, files, media, fresh, task, stitch, sweep, stops, history>>

(* The process stops and starts: tasks are not resumed.  A removal that    *)
(* was under way, of the stitcher or of the sweeper, got as far as any of  *)
(* its files.                                                              *)
Stop ==
    /\ stops < MaxStops
    /\ stops' = stops + 1
    /\ task' = [c \in Chunks |-> IF task[c].at = "unreported" THEN task[c]
                                 ELSE [task[c] EXCEPT !.at = "ended"]]
    /\ \E gone \in SUBSET (IF stitch.at = "verified" THEN Sources ELSE {}),
          swept \in SUBSET (IF sweep.at = "chosen" THEN DOMAIN sweep.rows ELSE {}) :
          LET unlinked == {sweep.rows[r].path : r \in swept} IN
          /\ files' = Without(files, gone \cup unlinked)
          /\ expired' = expired \cup StandsFor(swept)
          /\ upset' = upset
                \cup (IF gone # {} \/ stitch.at \in {"removed", "moved"} THEN {"stop"} ELSE {})
                \cup (IF \E name \in unlinked : Taken(name, StandsFor(swept))
                        THEN {"reused"} ELSE {})
    /\ work' \in IF stitch.at = "picked" THEN {work, {}} ELSE {work}
    /\ stitch' = Idle /\ sweep' = IdleSweep
    /\ UNCHANGED <<raw, media, fresh, seen, shown, covers, overdue>>
-----------------------------------------------------------------------------
Pipeline(c) == Claim(c) \/ Remux(c) \/ KeepTs(c) \/ Record(c) \/ DropRaw(c) \/ GivesUp(c)
               \/ TaskFails(c)
Stitcher == Pick \/ Join \/ RemoveSources \/ MoveIntoPlace \/ MoveFails \/ Swap \/ SwapRefused
Retention == ChooseExpired \/ UnlinkExpired \/ \E r \in Rows : DeleteRow(r)

Next ==
    \/ \E c \in Chunks : Upload(c) \/ Report(c) \/ Pipeline(c) \/ SweepRaw(c)
    \/ QuietPasses
    \/ Stitcher
    \/ Retention
    \/ SweepWork
    \/ Stop

Fairness ==
    /\ WF_vars(QuietPasses)
    /\ WF_vars(Stitcher)
    /\ WF_vars(Retention /\ (sweep.at = "idle" => overdue \cap DOMAIN media # {}))

Spec == Init /\ [][Next]_vars
FairSpec == Spec /\ Fairness
-----------------------------------------------------------------------------
TypeOK ==
    /\ raw \subseteq Chunks /\ work \subseteq Chunks
    /\ DOMAIN files \subseteq Names /\ \A p \in DOMAIN files : files[p] \subseteq Chunks
    /\ DOMAIN media \subseteq Rows
    /\ \A r \in DOMAIN media :
          media[r] \in [status : {"pending", "ready", "unfiled"},
                        path : Names, state : {"free", "failed", "stitched"}, created : Nat]
    /\ fresh \subseteq Chunks
    /\ task \in [Chunks -> [at : {"unreported", "started", "claimed", "written",
                                  "recorded", "ended"}, name : Names]]
    /\ stitch.at \in {"idle", "picked", "verified", "removed", "moved"}
    /\ DOMAIN stitch.rows \subseteq Chunks /\ stitch.job \subseteq DOMAIN stitch.rows
    /\ sweep.at \in {"idle", "chosen", "unlinked"} /\ DOMAIN sweep.rows \subseteq Rows
    /\ stops \in 0..MaxStops
    /\ seen \subseteq Chunks /\ shown \subseteq Chunks /\ covers \subseteq Chunks
    /\ overdue \subseteq Rows /\ expired \subseteq Chunks

(* The timeline never loses a chunk it has shown: its own row, or the row  *)
(* of the clip it went into, is there until its footage expires -- whatever *)
(* stops, fails or is joined twice (replace_chunks_with_stitched,          *)
(* _delete_media_files).                                                   *)
Listed == \A c \in shown \ expired :
    c \in DOMAIN media \/ (Clip \in DOMAIN media /\ c \in covers)

(* Footage that reached the disk stays there, staged, filed or in a clip,  *)
(* until it expires (stitch_episode, process_file_info).                   *)
NothingLost ==
    upset \subseteq {"rejoin"} => \A c \in seen \ expired :
        c \in raw \/ c \in work \/ \E p \in DOMAIN files : c \in files[p]

(* A row that is ready plays its footage, unless that has expired or the   *)
(* stitcher is about to replace the row.                                   *)
Footage(r) == (IF r = Clip THEN covers ELSE {r}) \ expired
Playable ==
    upset = {} => \A r \in Ready \ stitch.job :
        Footage(r) # {} => /\ media[r].path \in DOMAIN files
                           /\ Footage(r) \subseteq files[media[r].path]

(* Two tasks never write one file (_claim_unique_path).                    *)
OneWriterPerFile ==
    "reused" \notin upset =>
        \A c, d \in Chunks : task[c].at = "claimed" /\ task[d].at = "claimed" /\ c # d
                            => task[c].name # task[d].name

(* A visit is not tried for ever: in the end no chunks wait to be joined.  *)
Converges == <>[](Cardinality(Offered) < 2)

(* A sweep cut short is finished by a later one (_delete_media_files).     *)
SweepsFinish == overdue # {} ~> overdue \cap DOMAIN media = {}

(* The files of rows that a failed swap keeps are kept too                 *)
(* (replace_chunks_with_stitched).                                         *)
RefusedSwapKeepsFiles ==
    [][SwapRefused => \A c \in stitch.job \cap DOMAIN media : media[c].path \in DOMAIN files]_vars
=============================================================================
