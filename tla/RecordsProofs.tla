---------------------------- MODULE RecordsProofs ----------------------------
(***************************************************************************)
(* For any number of pets, identities, reports, photos and requests at     *)
(* once: a photo the device was told to fetch is there, or its deletion is *)
(* on its way; and stored attributions follow the aliases (Pets).          *)
(*                                                                         *)
(* For any household, any visits in any order and any thresholds: Insights *)
(* and the Timeline never name different pets, unless only a step of the   *)
(* visit was recognised, neither gives a visit whose weight is its own     *)
(* pet's to another, a settled weight that matches no other pet's visit is *)
(* put on none, and one odd weight among the confirmed ones takes no       *)
(* profile's grade away (Weighing).                                        *)
(*                                                                         *)
(* For any reports that keep to what the grouping takes for granted of a   *)
(* device (Told), in any order and number: follow-ups are on the card of   *)
(* what they follow, media is shown once, and the order the rows are read  *)
(* in changes nothing (Timeline).                                          *)
(*                                                                         *)
(* For any schedules, weeks and days: a feeder that goes by what it was    *)
(* last given dispenses what is stored (Feeding).                          *)
(***************************************************************************)
EXTENDS Pets, Timeline, Weighing, Feeding, FiniteSetTheorems, WellFoundedInduction, TLAPS

-----------------------------------------------------------------------------
(* Pets: photos.  A row gets its file's name once, by the request that wrote the *)
(* file, which nobody can delete before that.                              *)
Adding(q) == task[q].at \in {"write", "point", "drop"}

PhotoRowsInv ==
    /\ lastFace \in Nat /\ IsFiniteSet(DOMAIN faces)
    /\ DOMAIN faces \subseteq 1 .. lastFace /\ offered \subseteq 1 .. lastFace
    /\ \A f \in DOMAIN faces : faces[f] \in [pet : PetIds, path : BOOLEAN]

TasksInv ==
    /\ task \in [PhotoRequests -> [at : {"idle", "resize", "write", "point", "drop", "forget", "delete"},
                                   pet : Nat, face : Nat]]
    /\ \A q \in PhotoRequests :
          /\ task[q].at \in {"resize", "delete"} => task[q].pet \in PetIds
          /\ Adding(q) => /\ task[q].face \in 1 .. lastFace
                          /\ task[q].face \in DOMAIN faces => ~faces[task[q].face].path
          /\ task[q].at = "point" => task[q].face \in files
    /\ \A q, r \in PhotoRequests : Adding(q) /\ Adding(r) /\ q # r => task[q].face # task[r].face

FilesInv ==
    /\ \A f \in DOMAIN faces : faces[f].path => f \in files \/ Deleting(f)
    /\ \A f \in offered \cap DOMAIN faces : faces[f].path

LimitInv == \A p \in PetIds : Cardinality(FacesOf(p)) <= MaxFaces

PhotoInv == PhotoRowsInv /\ TasksInv /\ FilesInv /\ LimitInv

LEMMA FacesFinite == ASSUME PhotoRowsInv, NEW p PROVE IsFiniteSet(FacesOf(p))
BY FS_Subset DEF PhotoRowsInv, FacesOf

LEMMA PhotoInit == PetsInit => PhotoInv
<1> SUFFICES ASSUME PetsInit PROVE PhotoInv
  OBVIOUS
<1>1. DOMAIN faces = {} /\ offered = {} /\ lastFace = 0
  BY DEF PetsInit
<1>2. PhotoRowsInv
  BY <1>1, FS_EmptySet DEF PhotoRowsInv
<1>3. TasksInv
  BY DEF PetsInit, TasksInv, NoTask, Adding
<1>4. FilesInv
  BY <1>1 DEF FilesInv
<1>5. LimitInv
  <2>1. \A p : FacesOf(p) = {}
    BY <1>1 DEF FacesOf
  <2>2. QED BY <2>1, FS_EmptySet, PetsAssumption DEF LimitInv
<1>6. QED BY <1>2, <1>3, <1>4, <1>5 DEF PhotoInv

(* A step that adds no row: limits stay.                                   *)
LEMMA NoMoreRows ==
    ASSUME PhotoRowsInv, LimitInv, DOMAIN faces' \subseteq DOMAIN faces,
           \A f \in DOMAIN faces' : faces'[f].pet = faces[f].pet
    PROVE  LimitInv' /\ IsFiniteSet(DOMAIN faces')
<1>1. \A p : FacesOf(p)' \subseteq FacesOf(p)
  BY DEF FacesOf
<1>2. \A p \in PetIds : Cardinality(FacesOf(p)') <= MaxFaces
  <2> SUFFICES ASSUME NEW p \in PetIds PROVE Cardinality(FacesOf(p)') <= MaxFaces
    OBVIOUS
  <2>1. IsFiniteSet(FacesOf(p)) /\ FacesOf(p)' \in SUBSET FacesOf(p)
    BY <1>1, FacesFinite
  <2>2. Cardinality(FacesOf(p)') <= Cardinality(FacesOf(p)) /\ IsFiniteSet(FacesOf(p)')
    BY <2>1, FS_Subset
  <2>3. Cardinality(FacesOf(p)') \in Nat /\ Cardinality(FacesOf(p)) \in Nat
    BY <2>1, <2>2, FS_CardinalityType
  <2>4. Cardinality(FacesOf(p)) <= MaxFaces /\ MaxFaces \in Nat
    BY PetsAssumption DEF LimitInv
  <2>5. QED BY <2>2, <2>3, <2>4
<1>3. IsFiniteSet(DOMAIN faces')
  BY FS_Subset DEF PhotoRowsInv
<1>4. QED BY <1>2, <1>3 DEF LimitInv

LEMMA PhotosUntouched ==
    ASSUME PhotoInv, UNCHANGED <<task, photoVars>> PROVE PhotoInv'
BY DEF PhotoInv, photoVars, PhotoRowsInv, TasksInv, Adding, FilesInv, Deleting, LimitInv, FacesOf

LEMMA AddBeginsStep == ASSUME PhotoInv, NEW q \in PhotoRequests, NEW p \in PetIds, AddBegins(q, p) PROVE PhotoInv'
<1> USE DEF PhotoInv
<1>1. /\ UNCHANGED <<faces, lastFace, files, offered>> /\ task[q].at = "idle"
      /\ task' = [task EXCEPT ![q] = [at |-> "resize", pet |-> p, face |-> 0]]
  BY DEF AddBegins, TaskGoes, photoVars
<1>2. p \in Nat
  BY PetsAssumption DEF PetIds
<1>3. PhotoRowsInv' /\ LimitInv'
  BY <1>1 DEF PhotoRowsInv, LimitInv, FacesOf
<1>4. TasksInv'
  BY <1>1, <1>2 DEF TasksInv, Adding
<1>5. FilesInv'
  BY <1>1 DEF FilesInv, Deleting, TasksInv
<1>6. QED BY <1>3, <1>4, <1>5

LEMMA AddTakesIdStep == ASSUME PhotoInv, NEW q \in PhotoRequests, AddTakesId(q) PROVE PhotoInv'
<1> USE DEF PhotoInv
<1>1. CASE /\ task' = [task EXCEPT ![q] = NoTask] /\ UNCHANGED <<faces, lastFace, files, offered>>
           /\ task[q].at = "resize"
  <2>1. PhotoRowsInv' /\ LimitInv'
    BY <1>1 DEF PhotoRowsInv, LimitInv, FacesOf
  <2>2. TasksInv'
    BY <1>1 DEF TasksInv, Adding, NoTask
  <2>3. FilesInv'
    BY <1>1 DEF FilesInv, Deleting, TasksInv
  <2>4. QED BY <2>1, <2>2, <2>3
<1>2. CASE Cardinality(FacesOf(task[q].pet)) < MaxFaces /\ lastFace < NumFaces
  <2>0. PICK new, p : new = lastFace + 1 /\ p = task[q].pet
    OBVIOUS
  <2>1. /\ lastFace' = new /\ UNCHANGED <<files, offered>> /\ task[q].at = "resize"
        /\ faces' = [f \in DOMAIN faces \cup {new} |-> IF f = new THEN [pet |-> p, path |-> FALSE] ELSE faces[f]]
        /\ task' = [task EXCEPT ![q] = [at |-> "write", pet |-> p, face |-> new]]
    BY <1>2, <2>0 DEF AddTakesId, TaskGoes
  <2>2. /\ lastFace \in Nat /\ new \in Nat /\ new \notin DOMAIN faces /\ new \notin offered
        /\ \A r \in PhotoRequests : Adding(r) => task[r].face # new
    BY <2>0 DEF PhotoRowsInv, TasksInv
  <2>3. p \in PetIds
    BY <2>0, <2>1 DEF TasksInv
  <2>4. /\ DOMAIN faces' = DOMAIN faces \cup {new} /\ faces'[new] = [pet |-> p, path |-> FALSE]
        /\ \A f \in DOMAIN faces : faces'[f] = faces[f]
    BY <2>1, <2>2
  <2>5. PhotoRowsInv'
    <3>1. IsFiniteSet(DOMAIN faces')
      BY <2>4, FS_AddElement DEF PhotoRowsInv
    <3>2. lastFace' \in Nat /\ 1 .. lastFace \subseteq 1 .. lastFace' /\ new \in 1 .. lastFace'
      BY <2>0, <2>1, <2>2
    <3>3. QED BY <2>1, <2>3, <2>4, <3>1, <3>2 DEF PhotoRowsInv
  <2>6. LimitInv'
    <3>1. FacesOf(p)' = FacesOf(p) \cup {new} /\ \A x \in PetIds \ {p} : FacesOf(x)' = FacesOf(x)
      BY <2>2, <2>4 DEF FacesOf
    <3>2. Cardinality(FacesOf(p)') <= MaxFaces
      <4>1. IsFiniteSet(FacesOf(p)) /\ new \notin FacesOf(p)
        BY <2>2, FacesFinite DEF FacesOf
      <4>2. Cardinality(FacesOf(p) \cup {new}) = Cardinality(FacesOf(p)) + 1 /\ Cardinality(FacesOf(p)) \in Nat
        BY <4>1, FS_AddElement, FS_CardinalityType
      <4>3. QED BY <1>2, <2>0, <3>1, <4>2, PetsAssumption
    <3>3. QED BY <3>1, <3>2 DEF LimitInv
  <2>7. /\ task'[q] = [at |-> "write", pet |-> p, face |-> new]
        /\ \A r \in PhotoRequests \ {q} : task'[r] = task[r]
        /\ DOMAIN task' = PhotoRequests
    BY <2>0, <2>1 DEF TasksInv
  <2>8. TasksInv'
    <3>1. task' \in [PhotoRequests -> [at : {"idle", "resize", "write", "point", "drop", "forget", "delete"},
                                       pet : Nat, face : Nat]]
      <4>1. new \in Nat /\ p \in Nat
        BY <2>1, <2>2, <2>3 DEF PetIds
      <4>2. task' = [r \in PhotoRequests |-> task'[r]]
        BY <2>1, <2>7 DEF TasksInv
      <4>3. \A r \in PhotoRequests : task'[r] \in [at : {"idle", "resize", "write", "point", "drop", "forget", "delete"},
                                                   pet : Nat, face : Nat]
        BY <2>7, <4>1 DEF TasksInv
      <4>4. QED BY <4>2, <4>3
    <3>2. \A r \in PhotoRequests \ {q} : Adding(r) => task[r].face \in 1 .. lastFace' /\ task[r].face # new
      BY <2>0, <2>1, <2>2 DEF TasksInv
    <3>3. new \in 1 .. lastFace' /\ ~faces'[new].path
      BY <2>0, <2>1, <2>2, <2>4
    <3>4. QED BY <2>1, <2>4, <2>7, <3>1, <3>2, <3>3 DEF TasksInv, Adding
  <2>9. FilesInv'
    <3>1. \A f \in DOMAIN faces : Deleting(f) => Deleting(f)'
      BY <2>1, <2>4, <2>7 DEF Deleting
    <3>2. QED BY <2>1, <2>2, <2>4, <3>1 DEF FilesInv
  <2>10. QED BY <2>5, <2>6, <2>8, <2>9
<1>3. QED BY <1>1, <1>2 DEF AddTakesId, TaskGoes

LEMMA AddWritesStep == ASSUME PhotoInv, NEW q \in PhotoRequests, AddWrites(q) PROVE PhotoInv'
<1> USE DEF PhotoInv
<1>1. /\ UNCHANGED <<faces, lastFace, offered>> /\ task[q].at = "write"
      /\ \/ files' = files \cup {task[q].face} /\ task' = [task EXCEPT ![q] = [task[q] EXCEPT !.at = "point"]]
         \/ files' = files /\ task' = [task EXCEPT ![q] = [task[q] EXCEPT !.at = "drop"]]
  BY DEF AddWrites, TaskGoes
<1>2. PhotoRowsInv' /\ LimitInv'
  BY <1>1 DEF PhotoRowsInv, LimitInv, FacesOf
<1>3. /\ task'[q].at \in {"point", "drop"} /\ task'[q].face = task[q].face /\ task'[q].pet = task[q].pet
      /\ \A r \in PhotoRequests \ {q} : task'[r] = task[r]
      /\ task'[q].at = "point" => task[q].face \in files'
  BY <1>1 DEF TasksInv
<1>4. TasksInv'
  <2>1. task' \in [PhotoRequests -> [at : {"idle", "resize", "write", "point", "drop", "forget", "delete"},
                                     pet : Nat, face : Nat]]
    BY <1>1 DEF TasksInv
  <2>2. QED BY <1>1, <1>3, <2>1 DEF TasksInv, Adding
<1>5. FilesInv'
  <2>1. \A f \in DOMAIN faces : Deleting(f) => Deleting(f)'
    BY <1>1, <1>3 DEF Deleting
  <2>2. QED BY <1>1, <2>1 DEF FilesInv
<1>6. QED BY <1>2, <1>4, <1>5

LEMMA AddEndsStep == ASSUME PhotoInv, NEW q \in PhotoRequests, AddEnds(q) PROVE PhotoInv'
<1> USE DEF PhotoInv
<1>0. PICK g : g = task[q].face
  OBVIOUS
<1>1. /\ UNCHANGED <<files, lastFace, offered>> /\ task[q].at \in {"point", "drop"}
      /\ task' = [task EXCEPT ![q] = NoTask]
  BY DEF AddEnds, TaskGoes
<1>2. /\ task'[q] = NoTask /\ NoTask.at = "idle" /\ task[q].face = g
      /\ \A r \in PhotoRequests \ {q} : task'[r] = task[r] /\ (Adding(r) => task[r].face # g)
  BY <1>0, <1>1 DEF TasksInv, NoTask, Adding
<1>3. /\ DOMAIN faces' \subseteq DOMAIN faces
      /\ \A f \in DOMAIN faces' : faces'[f].pet = faces[f].pet
      /\ \A f \in DOMAIN faces' \ {g} : faces'[f] = faces[f]
      /\ g \in DOMAIN faces' => faces'[g].path /\ g \in files /\ faces'[g] \in [pet : PetIds, path : BOOLEAN]
  <2>1. CASE task[q].at = "point"
    <3>1. g \in files /\ faces' = IF g \in DOMAIN faces THEN [faces EXCEPT ![g].path = TRUE] ELSE faces
      BY <1>0, <2>1 DEF AddEnds, TasksInv
    <3>2. \A f \in DOMAIN faces : faces[f] \in [pet : PetIds, path : BOOLEAN]
      BY DEF PhotoRowsInv
    <3>3. QED BY <3>1, <3>2
  <2>2. CASE task[q].at = "drop"
    <3>1. faces' = [f \in DOMAIN faces \ {g} |-> faces[f]]
      BY <1>0, <2>2 DEF AddEnds, Without
    <3>2. QED BY <3>1
  <2>3. QED BY <1>1, <2>1, <2>2
<1>4. LimitInv' /\ IsFiniteSet(DOMAIN faces')
  BY <1>3, NoMoreRows
<1>5. PhotoRowsInv'
  BY <1>1, <1>3, <1>4 DEF PhotoRowsInv
<1>6. TasksInv'
  <2>1. task' \in [PhotoRequests -> [at : {"idle", "resize", "write", "point", "drop", "forget", "delete"},
                                     pet : Nat, face : Nat]]
    BY <1>1 DEF TasksInv, NoTask
  <2>2. \A r \in PhotoRequests : Adding(r)' => r # q /\ Adding(r)
    BY <1>2 DEF Adding
  <2>3. QED BY <1>1, <1>2, <1>3, <2>1, <2>2 DEF TasksInv
<1>7. FilesInv'
  <2>1. \A f \in DOMAIN faces' : Deleting(f) => Deleting(f)'
    BY <1>1, <1>2, <1>3 DEF Deleting
  <2>2. QED BY <1>1, <1>3, <2>1 DEF FilesInv
<1>8. QED BY <1>4, <1>5, <1>6, <1>7

(* A deletion: it takes an idle request, unlinks files and says so.        *)
LEMMA Unlinks ==
    ASSUME PhotoInv, NEW q \in PhotoRequests, NEW t,
           task[q].at = "idle", task' = [task EXCEPT ![q] = t],
           t \in [at : {"forget", "delete"}, pet : Nat, face : Nat], t.at = "delete" => t.pet \in PetIds,
           UNCHANGED <<faces, lastFace, offered>>, files' \subseteq files,
           \A f \in files \ files' : f \in DOMAIN faces /\ faces[f].path /\ Deleting(f)'
    PROVE  PhotoInv'
<1> USE DEF PhotoInv
<1>1. PhotoRowsInv' /\ LimitInv'
  BY DEF PhotoRowsInv, LimitInv, FacesOf
<1>2. task'[q] = t /\ \A r \in PhotoRequests \ {q} : task'[r] = task[r]
  BY DEF TasksInv
<1>3. TasksInv'
  <2>1. task' \in [PhotoRequests -> [at : {"idle", "resize", "write", "point", "drop", "forget", "delete"},
                                     pet : Nat, face : Nat]]
    BY DEF TasksInv
  <2>2. t.at \in {"forget", "delete"}
    OBVIOUS
  <2>3. \A r \in PhotoRequests : Adding(r)' => r # q /\ Adding(r)
    BY <1>2, <2>2 DEF Adding
  <2>4. \A r \in PhotoRequests : task[r].at = "point" => task[r].face \in files'
    <3> SUFFICES ASSUME NEW r \in PhotoRequests, task[r].at = "point" PROVE task[r].face \in files'
      OBVIOUS
    <3>1. /\ task[r].face \in files
          /\ task[r].face \in DOMAIN faces => ~faces[task[r].face].path
      BY DEF TasksInv, Adding
    <3>2. QED BY <3>1
  <2>5. QED BY <1>2, <2>1, <2>2, <2>3, <2>4 DEF TasksInv
<1>4. FilesInv'
  <2>1. \A f \in DOMAIN faces : Deleting(f) => Deleting(f)'
    BY <1>2 DEF Deleting
  <2>2. QED BY <2>1 DEF FilesInv
<1>5. QED BY <1>1, <1>3, <1>4

LEMMA DeleteFaceUnlinksStep ==
    ASSUME PhotoInv, NEW q \in PhotoRequests, NEW f, DeleteFaceUnlinks(q, f) PROVE PhotoInv'
<1>0. PICK t : t = [at |-> "forget", pet |-> 0, face |-> f]
  OBVIOUS
<1>1. /\ task[q].at = "idle" /\ task' = [task EXCEPT ![q] = t] /\ UNCHANGED <<faces, lastFace, offered>>
      /\ f \in DOMAIN faces /\ files' = IF faces[f].path THEN files \ {f} ELSE files
  BY <1>0 DEF DeleteFaceUnlinks, TaskGoes
<1>2. f \in Nat
  BY <1>1 DEF PhotoInv, PhotoRowsInv
<1>3. t \in [at : {"forget", "delete"}, pet : Nat, face : Nat] /\ t.at = "forget" /\ t.face = f
  BY <1>0, <1>2
<1>4. task'[q] = t
  BY <1>1 DEF PhotoInv, TasksInv
<1>5. Deleting(f)'
  BY <1>3, <1>4 DEF Deleting
<1>6. \A g \in files \ files' : g = f /\ faces[g].path
  BY <1>1
<1>7. files' \subseteq files
  BY <1>1
<1>8. QED BY <1>1, <1>3, <1>5, <1>6, <1>7, Unlinks

LEMMA DeletePetUnlinksStep ==
    ASSUME PhotoInv, NEW q \in PhotoRequests, NEW p \in PetIds, DeletePetUnlinks(q, p) PROVE PhotoInv'
<1>0. PICK t : t = [at |-> "delete", pet |-> p, face |-> 0]
  OBVIOUS
<1>1. /\ task[q].at = "idle" /\ task' = [task EXCEPT ![q] = t] /\ UNCHANGED <<faces, lastFace, offered>>
      /\ files' = files \ {f \in FacesOf(p) : faces[f].path}
  BY <1>0 DEF DeletePetUnlinks, TaskGoes
<1>2. p \in Nat
  BY DEF PetIds
<1>3. t \in [at : {"forget", "delete"}, pet : Nat, face : Nat] /\ t.at = "delete" /\ t.pet = p
  BY <1>0, <1>2
<1>4. task'[q] = t
  BY <1>1 DEF PhotoInv, TasksInv
<1>5. \A g \in files \ files' : g \in DOMAIN faces /\ faces[g].path /\ faces[g].pet = p
  BY <1>1 DEF FacesOf
<1>6. \A g \in files \ files' : Deleting(g)'
  BY <1>1, <1>3, <1>4, <1>5 DEF Deleting
<1>7. files' \subseteq files
  BY <1>1
<1>8. QED BY <1>1, <1>3, <1>5, <1>6, <1>7, Unlinks

(* The rows a finished deletion takes with it are those it announced.      *)
LEMMA Forgets ==
    ASSUME PhotoInv, NEW q \in PhotoRequests, NEW gone, faces' = Without(gone),
           task[q].at \in {"forget", "delete"}, task' = [task EXCEPT ![q] = NoTask],
           UNCHANGED <<lastFace, files, offered>>,
           \A f \in DOMAIN faces : task[q].at = "forget" /\ task[q].face = f => f \in gone,
           \A f \in DOMAIN faces : task[q].at = "delete" /\ task[q].pet = faces[f].pet => f \in gone
    PROVE  PhotoInv'
<1> USE DEF PhotoInv
<1>1. /\ DOMAIN faces' = DOMAIN faces \ gone
      /\ \A f \in DOMAIN faces' : faces'[f] = faces[f]
  BY DEF Without
<1>2. LimitInv' /\ IsFiniteSet(DOMAIN faces')
  BY <1>1, NoMoreRows
<1>3. PhotoRowsInv'
  BY <1>1, <1>2 DEF PhotoRowsInv
<1>4. /\ task'[q] = NoTask /\ NoTask.at = "idle"
      /\ \A r \in PhotoRequests \ {q} : task'[r] = task[r]
  BY DEF TasksInv, NoTask
<1>5. TasksInv'
  <2>1. task' \in [PhotoRequests -> [at : {"idle", "resize", "write", "point", "drop", "forget", "delete"},
                                     pet : Nat, face : Nat]]
    BY DEF TasksInv, NoTask
  <2>2. \A r \in PhotoRequests : Adding(r)' => r # q /\ Adding(r)
    BY <1>4 DEF Adding
  <2>3. QED BY <1>1, <1>4, <2>1, <2>2 DEF TasksInv
<1>6. FilesInv'
  <2>1. \A f \in DOMAIN faces' : Deleting(f) => Deleting(f)'
    <3> SUFFICES ASSUME NEW f \in DOMAIN faces', Deleting(f) PROVE Deleting(f)'
      OBVIOUS
    <3>1. PICK r \in PhotoRequests : \/ task[r].at = "forget" /\ task[r].face = f
                                     \/ task[r].at = "delete" /\ task[r].pet = faces[f].pet
      BY DEF Deleting
    <3>2. r # q /\ f \in DOMAIN faces
      BY <1>1, <3>1
    <3>3. QED BY <1>1, <1>4, <3>1, <3>2 DEF Deleting
  <2>2. QED BY <1>1, <2>1 DEF FilesInv
<1>7. QED BY <1>2, <1>3, <1>5, <1>6

LEMMA DeleteFaceForgetsStep ==
    ASSUME PhotoInv, NEW q \in PhotoRequests, DeleteFaceForgets(q) PROVE PhotoInv'
<1>0. PICK gone : gone = {task[q].face}
  OBVIOUS
<1>1. /\ faces' = Without(gone) /\ task[q].at = "forget" /\ task' = [task EXCEPT ![q] = NoTask]
      /\ UNCHANGED <<lastFace, files, offered>>
  BY <1>0 DEF DeleteFaceForgets, TaskGoes
<1>2. /\ \A f \in DOMAIN faces : task[q].at = "forget" /\ task[q].face = f => f \in gone
      /\ \A f \in DOMAIN faces : task[q].at = "delete" /\ task[q].pet = faces[f].pet => f \in gone
  BY <1>0, <1>1
<1>3. QED BY <1>1, <1>2, Forgets

LEMMA DeletePetForgetsStep ==
    ASSUME PhotoInv, NEW q \in PhotoRequests, DeletePetForgets(q) PROVE PhotoInv'
<1>0. PICK gone : gone = FacesOf(task[q].pet)
  OBVIOUS
<1>1. /\ faces' = Without(gone) /\ task[q].at = "delete" /\ task' = [task EXCEPT ![q] = NoTask]
      /\ UNCHANGED <<lastFace, files, offered>>
  BY <1>0 DEF DeletePetForgets, TaskGoes
<1>2. /\ \A f \in DOMAIN faces : task[q].at = "forget" /\ task[q].face = f => f \in gone
      /\ \A f \in DOMAIN faces : task[q].at = "delete" /\ task[q].pet = faces[f].pet => f \in gone
  BY <1>0, <1>1 DEF FacesOf
<1>3. QED BY <1>1, <1>2, Forgets

LEMMA DiscernPicStep == ASSUME PhotoInv, DiscernPic PROVE PhotoInv'
<1>1. /\ UNCHANGED <<task, faces, lastFace, files>> /\ offered' \subseteq DOMAIN faces
      /\ \A f \in offered' : faces[f].path
  BY DEF DiscernPic
<1>2. QED BY <1>1 DEF PhotoInv, PhotoRowsInv, TasksInv, Adding, FilesInv, Deleting, LimitInv, FacesOf

LEMMA AttributionStep ==
    ASSUME PhotoInv, AttributionNext, ~\E q \in PhotoRequests : DeletePet(q)
    PROVE  PhotoInv'
<1>1. UNCHANGED <<task, photoVars>>
  <2>1. CASE \E e \in Reports : ReportArrives(e) \/ ReportStored(e)
    BY <2>1 DEF ReportArrives, ReportStored
  <2>2. CASE \/ CreatePet \/ EditWritesAliases \/ EditClears \/ EditClaims \/ EditStrips \/ ImportBinds
             \/ \E p \in PetIds, wanted \in SUBSET Foreign : EditBegins(p, wanted)
             \/ \E r \in Foreign : ImportCreates(r)
    BY <2>2 DEF CreatePet, EditBegins, EditWritesAliases, EditClears, EditClaims, EditStrips,
                ImportCreates, ImportBinds, EditGoes
  <2>3. QED BY <2>1, <2>2 DEF AttributionNext
<1>2. QED BY <1>1, PhotosUntouched

LEMMA PhotoStep == PhotoInv /\ [PetsNext]_petsVars => PhotoInv'
<1> SUFFICES ASSUME PhotoInv, [PetsNext]_petsVars PROVE PhotoInv'
  OBVIOUS
<1>1. ASSUME NEW q \in PhotoRequests, DeletePet(q) PROVE PhotoInv'
  BY <1>1, DeletePetForgetsStep, DeletePetUnlinksStep DEF DeletePet
<1>2. CASE AttributionNext
  BY <1>1, <1>2, AttributionStep
<1>3. CASE PhotosNext
  <2>1. CASE CreatePet
    BY <2>1, PhotosUntouched DEF CreatePet, EditGoes
  <2>2. CASE DiscernPic
    BY <2>2, DiscernPicStep
  <2>3. ASSUME NEW q \in PhotoRequests,
               \/ \E p \in PetIds : AddBegins(q, p)
               \/ \E f \in FaceIds : DeleteFaceUnlinks(q, f)
               \/ AddTakesId(q) \/ AddWrites(q) \/ AddEnds(q) \/ DeleteFaceForgets(q)
        PROVE  PhotoInv'
    BY <2>3, AddBeginsStep, DeleteFaceUnlinksStep, AddTakesIdStep, AddWritesStep, AddEndsStep,
       DeleteFaceForgetsStep
  <2>4. QED BY <1>1, <1>3, <2>1, <2>2, <2>3 DEF PhotosNext
<1>4. CASE UNCHANGED petsVars
  BY <1>4, PhotosUntouched DEF petsVars, photoVars
<1>5. QED BY <1>2, <1>3, <1>4 DEF PetsNext

(* A photo a device was told to fetch stays on disk as long as its row     *)
(* does, or its deletion is on its way, and no pet has more photos than    *)
(* the limit, whatever uploads and deletions interleave.                   *)
THEOREM PhotosThere == PetsSpec => []PhotosServable
<1>1. PhotoInv => PhotosServable
  BY DEF PhotoInv, FilesInv, LimitInv, PhotosServable
<1>2. QED BY PhotoInit, PhotoStep, <1>1, PTL DEF PetsSpec

-----------------------------------------------------------------------------
(* Attributions.  The pets an identity resolves to; one at most, unless an *)
(* edit is about to see to it.                                             *)
Known(r) == {p \in pets : p = r \/ r \in aliases[p]}

(* The identities whose stored rows an edit or an import has yet to move.  *)
UnderEdit ==
    {r \in Foreign : \/ edit.at = "clear" /\ r \in edit.had
                     \/ edit.at \in {"clear", "claim", "strip"} /\ r \in edit.wanted
                     \/ edit.at = "bind" /\ r \in edit.found}

(* A row or an answer on its way is about an identity the device can have. *)
IdsInv ==
    /\ lastPet \in 0 .. NumPets /\ pets \subseteq 1 .. lastPet
    /\ aliases \in [PetIds -> SUBSET Foreign] /\ \A p \in PetIds \ pets : aliases[p] = {}
    /\ ref \in [Reports -> Refs]
    /\ DOMAIN attributed = Reports /\ DOMAIN resolving = Reports
    /\ \A e \in Reports : attributed[e] # Absent \/ resolving[e] # Absent =>
           ref[e] \in Foreign \cup 1 .. lastPet

Edits == [at : {"idle", "read", "clear", "claim", "strip", "name", "bind"}, pet : 0 .. NumPets,
          wanted : SUBSET Foreign, had : SUBSET Foreign, others : SUBSET PetIds, found : SUBSET Foreign]

(* What the request knows: what it read is still so, what it removed is    *)
(* nobody's, what it wants is its pet's, and no other pet it has not       *)
(* listed claims what it is about to bind.                                 *)
EditInv ==
    /\ edit \in Edits
    /\ edit.at # "idle" => edit.pet \in 1 .. lastPet
    /\ edit.at = "read" /\ edit.pet \in pets => edit.had = aliases[edit.pet]
    /\ edit.at = "clear" => /\ edit.had \cap edit.wanted = {}
                            /\ \A p \in PetIds : edit.had \cap aliases[p] = {}
    /\ edit.at \in {"clear", "claim", "strip"} /\ edit.pet \in pets => edit.wanted \subseteq aliases[edit.pet]
    /\ edit.at = "strip" => /\ edit.found \subseteq edit.wanted /\ edit.pet \notin edit.others
                            /\ \A p \in PetIds \ {edit.pet} : edit.found \cap aliases[p] # {} => p \in edit.others
    /\ edit.at \in {"strip", "name", "bind"} => \E r \in Foreign : edit.found = {r}
    /\ edit.at = "name" => aliases[edit.pet] = {} /\ \A p \in PetIds : edit.found \cap aliases[p] = {}
    /\ edit.at = "bind" => /\ \A p \in PetIds \ {edit.pet} : edit.found \cap aliases[p] = {}
                           /\ edit.pet \in pets => edit.found \subseteq aliases[edit.pet]

(* The row's pet is the one its identity is known as, or a deleted one.    *)
RowGood(e) ==
    attributed[e] # Absent /\ e \notin stale =>
        \/ Known(ref[e]) = {attributed[e]}
        \/ Known(ref[e]) = {} /\ attributed[e] \in 0 .. lastPet /\ attributed[e] \notin pets

HistoryInv ==
    /\ \A r \in Refs \ UnderEdit : \A p, q \in Known(r) : p = q
    /\ \A e \in Reports : ref[e] \notin UnderEdit => RowGood(e)

AttrInv == IdsInv /\ EditInv /\ HistoryInv

LEMMA PetsInRange == IdsInv => pets \subseteq PetIds
BY PetsAssumption DEF IdsInv, PetIds

(* A foreign identity is known through aliases alone.                      *)
LEMMA ForeignKnown ==
    ASSUME IdsInv, NEW r \in Foreign, NEW p, \A q \in PetIds \ {p} : r \notin aliases[q],
           p \in pets => r \in aliases[p]
    PROVE  Known(r) = {p} \/ (Known(r) = {} /\ p \notin pets)
<1>1. r \notin PetIds
  BY PetsAssumption DEF PetIds
<1>2. Known(r) = IF p \in pets THEN {p} ELSE {}
  BY <1>1, PetsInRange DEF Known
<1>3. QED BY <1>2

LEMMA ResolveKnown ==
    ASSUME NEW r PROVE /\ Known(r) = {} => Resolve(r) = Nobody
                       /\ \A p \in Int : Known(r) = {p} => Resolve(r) = p
<1>1. Known(r) = {} => Resolve(r) = Nobody
  BY DEF Resolve, Known
<1>2. ASSUME NEW p \in Int, Known(r) = {p} PROVE Resolve(r) = p
  <2>1. Resolve(r) = Min({p})
    BY <1>2 DEF Resolve, Known
  <2>2. Min({p}) = p
    BY DEF Min
  <2>3. QED BY <2>1, <2>2
<1>3. QED BY <1>1, <1>2

LEMMA AttrInit == PetsInit => AttrInv
<1> SUFFICES ASSUME PetsInit PROVE AttrInv
  OBVIOUS
<1>1. edit = [at |-> "idle", pet |-> 0, wanted |-> {}, had |-> {}, others |-> {}, found |-> {}]
  BY DEF PetsInit, NoEdit
<1>2. IdsInv
  BY PetsAssumption DEF PetsInit, IdsInv
<1>3. EditInv
  BY <1>1, PetsAssumption DEF EditInv, Edits
<1>4. HistoryInv
  BY DEF PetsInit, HistoryInv, Known, RowGood
<1>5. QED BY <1>2, <1>3, <1>4 DEF AttrInv

(* Once no edit is under way nothing is pending.                           *)
LEMMA AttrImplies == AttrInv => HistoryFollowsAliases
<1> SUFFICES ASSUME AttrInv, edit.at = "idle", NEW e \in Reports \ stale, attributed[e] # Absent
             PROVE  \/ attributed[e] = Resolve(ref[e])
                    \/ Resolve(ref[e]) = Nobody /\ attributed[e] \notin pets
  BY DEF HistoryFollowsAliases
<1>1. UnderEdit = {}
  BY DEF UnderEdit
<1>2. RowGood(e)
  BY <1>1 DEF AttrInv, HistoryInv
<1>3. 0 .. lastPet \subseteq Int /\ pets \subseteq Int
  BY PetsAssumption DEF AttrInv, IdsInv
<1>4. Known(ref[e]) \subseteq pets
  BY DEF Known
<1>6. CASE Known(ref[e]) = {attributed[e]}
  <2>1. attributed[e] \in Int
    BY <1>3, <1>4, <1>6
  <2>2. QED BY <2>1, <1>6, ResolveKnown
<1>7. CASE Known(ref[e]) = {} /\ attributed[e] \notin pets
  BY <1>7, ResolveKnown
<1>8. QED BY <1>2, <1>6, <1>7 DEF RowGood

-----------------------------------------------------------------------------
LEMMA AttrUntouched ==
    ASSUME AttrInv, UNCHANGED <<tableVars, historyVars, edit>> PROVE AttrInv'
BY DEF AttrInv, tableVars, historyVars, IdsInv, EditInv, HistoryInv, UnderEdit, Known, RowGood

LEMMA ReportArrivesStep == ASSUME AttrInv, NEW e \in Reports, ReportArrives(e) PROVE AttrInv'
<1> USE DEF AttrInv
<1>1. /\ UNCHANGED <<pets, lastPet, aliases, ref, attributed, stale, edit>>
      /\ ref[e] \in Foreign \cup 1 .. lastPet
      /\ resolving' = [resolving EXCEPT ![e] = Resolve(ref[e])]
  BY DEF ReportArrives, tableVars
<1>2. IdsInv'
  BY <1>1 DEF IdsInv
<1>3. EditInv' /\ HistoryInv'
  BY <1>1 DEF EditInv, HistoryInv, UnderEdit, Known, RowGood
<1>4. QED BY <1>2, <1>3

LEMMA ReportStoredStep == ASSUME AttrInv, NEW e \in Reports, ReportStored(e) PROVE AttrInv'
<1> USE DEF AttrInv
<1>1. /\ UNCHANGED <<pets, lastPet, aliases, ref, edit>> /\ resolving[e] # Absent
      /\ attributed' = [attributed EXCEPT ![e] = resolving[e]]
      /\ stale' = IF resolving[e] = Resolve(ref[e]) THEN stale \ {e} ELSE stale \cup {e}
      /\ resolving' = [resolving EXCEPT ![e] = Absent]
  BY DEF ReportStored, tableVars
<1>2. IdsInv'
  BY <1>1 DEF IdsInv
<1>3. EditInv' /\ UnderEdit' = UnderEdit /\ \A r : Known(r)' = Known(r)
  BY <1>1 DEF EditInv, UnderEdit, Known
<1>4. ASSUME ref[e] \notin UnderEdit PROVE RowGood(e)'
  <2>1. CASE resolving[e] = Resolve(ref[e])
    <3>1. ref[e] \in Refs /\ \A p, q \in Known(ref[e]) : p = q
      BY <1>4 DEF IdsInv, HistoryInv
    <3>2. attributed'[e] = Resolve(ref[e])
      BY <1>1, <2>1 DEF IdsInv
    <3>3. CASE Known(ref[e]) = {}
      <4>1. attributed'[e] = 0
        BY <3>2, <3>3, ResolveKnown DEF Nobody
      <4>2. 0 \in 0 .. lastPet /\ 0 \notin pets
        BY DEF IdsInv
      <4>3. QED BY <1>1, <1>3, <3>3, <4>1, <4>2 DEF RowGood
    <3>4. ASSUME NEW p \in Known(ref[e]) PROVE RowGood(e)'
      <4>0. p \in pets /\ pets \subseteq Int /\ Known(ref[e]) = {p}
        <5>1. p \in pets
          BY <3>4 DEF Known
        <5>2. pets \subseteq Int
          BY PetsAssumption DEF IdsInv
        <5>3. Known(ref[e]) = {p}
          BY <3>1, <3>4
        <5>4. QED BY <5>1, <5>2, <5>3
      <4>1. Known(ref[e]) = {p} /\ p \in Int
        BY <4>0
      <4>2. attributed'[e] = p
        BY <3>2, <4>1, ResolveKnown
      <4>3. QED BY <1>1, <1>3, <4>1, <4>2 DEF RowGood
    <3>5. QED BY <3>3, <3>4
  <2>2. CASE resolving[e] # Resolve(ref[e])
    BY <1>1, <2>2 DEF RowGood
  <2>3. QED BY <2>1, <2>2
<1>5. \A x \in Reports \ {e} : RowGood(x) => RowGood(x)'
  BY <1>1, <1>3 DEF RowGood, IdsInv
<1>6. HistoryInv'
  BY <1>1, <1>3, <1>4, <1>5 DEF HistoryInv
<1>7. QED BY <1>2, <1>3, <1>6

(* What Rebind leaves right: the rows of the identity, and all others.     *)
LEMMA Rebinds ==
    ASSUME IdsInv, NEW r \in Foreign, NEW p, Rebind(r, p), UNCHANGED tableVars,
           Known(r) = {p} \/ (Known(r) = {} /\ p \in 0 .. lastPet /\ p \notin pets)
    PROVE  /\ IdsInv' /\ \A x : Known(x)' = Known(x)
           /\ \A e \in Reports : ref'[e] = ref[e]
           /\ \A e \in Reports : ref[e] = r \/ RowGood(e) => RowGood(e)'
<1> DEFINE theirs == {e \in Reports : ref[e] = r /\ attributed[e] # Absent}
<1>1. /\ attributed' = [e \in Reports |-> IF e \in theirs THEN p ELSE attributed[e]]
      /\ stale' = stale \ theirs
      /\ UNCHANGED <<ref, resolving, pets, lastPet, aliases>>
  BY DEF Rebind, tableVars
<1>2. IdsInv'
  BY <1>1 DEF IdsInv
<1>3. \A x : Known(x)' = Known(x)
  BY <1>1 DEF Known
<1>4. ASSUME NEW e \in Reports, ref[e] = r \/ RowGood(e) PROVE RowGood(e)'
  <2>1. CASE e \in theirs
    BY <1>1, <1>3, <2>1 DEF RowGood
  <2>2. CASE e \notin theirs
    <3>1. attributed'[e] = attributed[e] /\ (e \in stale' <=> e \in stale)
      BY <1>1, <2>2
    <3>2. CASE attributed[e] = Absent
      BY <3>1, <3>2 DEF RowGood
    <3>3. CASE attributed[e] # Absent
      BY <1>1, <1>3, <1>4, <2>2, <3>1, <3>3 DEF RowGood
    <3>4. QED BY <3>2, <3>3
  <2>3. QED BY <2>1, <2>2
<1>5. QED BY <1>1, <1>2, <1>3, <1>4

(* A step of an edit that rebinds nothing and touches no alias.            *)
LEMMA HistoryStays ==
    ASSUME IdsInv, HistoryInv, UNCHANGED <<tableVars, historyVars>>, UnderEdit \subseteq UnderEdit'
    PROVE  IdsInv' /\ HistoryInv'
<1>1. UNCHANGED <<pets, lastPet, aliases, ref, attributed, resolving, stale>>
  BY DEF tableVars, historyVars
<1>2. QED BY <1>1 DEF IdsInv, HistoryInv, Known, RowGood

(* A new pet: no report names it yet, and nobody's alias is its.           *)
NewPet ==
    /\ lastPet < NumPets /\ lastPet' = lastPet + 1 /\ pets' = pets \cup {lastPet + 1}
    /\ UNCHANGED <<aliases, ref, attributed, resolving, stale>>

LEMMA NewPetKeeps ==
    ASSUME IdsInv, HistoryInv, NewPet, UnderEdit = {}, UnderEdit' = {} PROVE IdsInv' /\ HistoryInv'
<1>0. PICK new : new = lastPet + 1
  OBVIOUS
<1>1. /\ lastPet' = new /\ pets' = pets \cup {new} /\ UNCHANGED <<aliases, ref, attributed, resolving, stale>>
      /\ new \in PetIds /\ new \in 1 .. new /\ 1 .. lastPet \subseteq 1 .. new
      /\ 0 .. lastPet \subseteq 0 .. new /\ new \notin 0 .. lastPet /\ new \notin 1 .. lastPet /\ new \in 0 .. NumPets
  BY <1>0, PetsAssumption DEF NewPet, IdsInv, PetIds
<1>2. new \notin pets /\ aliases[new] = {} /\ new \notin Foreign
  BY <1>1, PetsAssumption DEF IdsInv
<1>3. IdsInv'
  BY <1>1 DEF IdsInv
<1>4. \A r : r # new => Known(r)' = Known(r)
  BY <1>1, <1>2 DEF Known
<1>5. Known(new)' = {new}
  <2>1. \A p \in pets : new \notin aliases[p]
    BY <1>2, PetsInRange DEF IdsInv
  <2>2. QED BY <1>1, <1>2, <2>1 DEF Known
<1>6. \A e \in Reports : attributed[e] # Absent => ref[e] # new
  BY <1>1, <1>2 DEF IdsInv
<1>7. ASSUME NEW e \in Reports PROVE RowGood(e)'
  <2>1. RowGood(e)
    BY DEF HistoryInv
  <2>2. CASE attributed[e] = Absent
    BY <1>1, <2>2 DEF RowGood
  <2>3. CASE attributed[e] # Absent
    <3>1. Known(ref[e])' = Known(ref[e])
      BY <1>1, <1>4, <1>6, <2>3
    <3>2. QED BY <1>1, <2>1, <2>3, <3>1 DEF RowGood
  <2>4. QED BY <2>2, <2>3
<1>8. \A r \in Refs : \A p, q \in Known(r)' : p = q
  BY <1>4, <1>5 DEF HistoryInv
<1>9. HistoryInv'
  BY <1>7, <1>8 DEF HistoryInv
<1>10. QED BY <1>3, <1>9

LEMMA CreatePetStep == ASSUME AttrInv, CreatePet PROVE AttrInv'
<1> USE DEF AttrInv
<1>1. /\ edit.at = "idle" /\ edit' = NoEdit /\ lastPet' = lastPet + 1 /\ pets' = pets \cup {lastPet + 1}
      /\ lastPet < NumPets /\ UNCHANGED <<aliases, ref, attributed, resolving, stale>>
  BY DEF CreatePet, EditGoes, historyVars
<1>2. NewPet
  BY <1>1 DEF NewPet
<1>3. IdsInv' /\ HistoryInv'
  <2>1. UnderEdit = {} /\ UnderEdit' = {}
    BY <1>1 DEF UnderEdit, NoEdit
  <2>2. QED BY <1>2, <2>1, NewPetKeeps
<1>4. EditInv'
  BY <1>1, PetsAssumption DEF EditInv, NoEdit, Edits
<1>5. QED BY <1>3, <1>4

LEMMA EditBeginsStep ==
    ASSUME AttrInv, NEW p \in PetIds, NEW wanted \in SUBSET Foreign, EditBegins(p, wanted) PROVE AttrInv'
<1> USE DEF AttrInv
<1>1. /\ edit.at = "idle" /\ p \in pets /\ UNCHANGED <<tableVars, historyVars>>
      /\ edit' = [at |-> "read", pet |-> p, wanted |-> wanted, had |-> aliases[p], others |-> {}, found |-> {}]
  BY DEF EditBegins, EditGoes, NoEdit
<1>2. UnderEdit = {}
  BY <1>1 DEF UnderEdit
<1>3. IdsInv' /\ HistoryInv'
  BY <1>1, <1>2, HistoryStays
<1>4. EditInv'
  <2>1. p \in 1 .. lastPet /\ p \in 0 .. NumPets /\ aliases[p] \in SUBSET Foreign
    BY <1>1, PetsAssumption DEF IdsInv, PetIds
  <2>2. edit' \in Edits
    BY <1>1, <2>1 DEF Edits
  <2>3. QED BY <1>1, <2>1, <2>2 DEF EditInv, tableVars
<1>5. QED BY <1>3, <1>4

LEMMA EditWritesAliasesStep == ASSUME AttrInv, EditWritesAliases PROVE AttrInv'
<1> USE DEF AttrInv
<1>1. CASE edit.pet \notin pets
  <2>1. edit' = NoEdit /\ edit.at = "read" /\ UNCHANGED <<tableVars, historyVars>>
    BY <1>1 DEF EditWritesAliases, EditGoes, tableVars
  <2>2. UnderEdit = {}
    BY <2>1 DEF UnderEdit
  <2>3. IdsInv' /\ HistoryInv'
    BY <2>1, <2>2, HistoryStays
  <2>4. EditInv'
    BY <2>1, PetsAssumption DEF EditInv, NoEdit, Edits
  <2>5. QED BY <2>3, <2>4
<1>2. CASE edit.pet \in pets
  <2>0. PICK p, had, wanted : p = edit.pet /\ had = edit.had /\ wanted = edit.wanted
    OBVIOUS
  <2>1. /\ edit.at = "read" /\ p \in pets /\ UNCHANGED <<pets, lastPet, historyVars>>
        /\ aliases' = [aliases EXCEPT ![p] = wanted]
        /\ edit' = [edit EXCEPT !.at = "clear", !.had = had \ wanted]
    BY <1>2, <2>0 DEF EditWritesAliases, EditGoes
  <2>2. /\ p \in PetIds /\ p \in 1 .. lastPet /\ had \in SUBSET Foreign /\ wanted \in SUBSET Foreign
        /\ had = aliases[p]
    BY <2>0, <2>1, PetsAssumption DEF EditInv, Edits, IdsInv, PetIds
  <2>3. aliases'[p] = wanted /\ \A q \in PetIds \ {p} : aliases'[q] = aliases[q]
    BY <2>1, <2>2 DEF IdsInv
  <2>4. /\ edit'.at = "clear" /\ edit'.pet = p /\ edit'.had = had \ wanted /\ edit'.wanted = wanted
        /\ edit' \in Edits
    BY <2>0, <2>1, <2>2 DEF EditInv, Edits
  <2>5. IdsInv'
    BY <2>1, <2>2, <2>3 DEF IdsInv, historyVars
  <2>6. UnderEdit = {} /\ UnderEdit' = had \cup wanted
    <3>1. UnderEdit = {}
      BY <2>1 DEF UnderEdit
    <3>2. \A r : r \in UnderEdit' <=> r \in had \cup wanted
      BY <2>2, <2>4 DEF UnderEdit
    <3>3. QED BY <3>1, <3>2
  <2>7. \A q \in PetIds : (had \ wanted) \cap aliases'[q] = {}
    <3> SUFFICES ASSUME NEW q \in PetIds \ {p}, NEW r \in had, r \in aliases[q] PROVE FALSE
      BY <2>3
    <3>1. q \in pets
      BY DEF IdsInv
    <3>2. p \in Known(r) /\ q \in Known(r)
      BY <2>1, <2>2, <3>1 DEF Known
    <3>3. r \in Refs \ UnderEdit
      BY <2>2, <2>6 DEF Refs
    <3>4. QED BY <3>2, <3>3 DEF HistoryInv
  <2>8. EditInv'
    BY <2>1, <2>2, <2>3, <2>4, <2>7 DEF EditInv
  <2>9. HistoryInv'
    <3>1. \A r : r \notin UnderEdit' => Known(r)' = Known(r)
      <4> SUFFICES ASSUME NEW r, r \notin had \cup wanted PROVE Known(r)' = Known(r)
        BY <2>6
      <4>1. \A q \in pets : r \in aliases'[q] <=> r \in aliases[q]
        BY <2>2, <2>3, PetsInRange
      <4>2. QED BY <2>1, <4>1 DEF Known
    <3>2. QED BY <2>1, <2>6, <3>1 DEF HistoryInv, RowGood, historyVars, IdsInv
  <2>10. QED BY <2>5, <2>8, <2>9
<1>3. QED BY <1>1, <1>2

(* An identity that lost its pet's claim, or is not taken by its new pet   *)
(* yet, is not under edit any more once its rows are moved.                *)
LEMMA RebindEnds ==
    ASSUME IdsInv, HistoryInv, NEW r \in Foreign, NEW p, Rebind(r, p), UNCHANGED tableVars,
           UnderEdit \subseteq UnderEdit' \cup {r},
           Known(r) = {p} \/ (Known(r) = {} /\ p \in 0 .. lastPet /\ p \notin pets)
    PROVE  IdsInv' /\ HistoryInv'
<1>1. /\ IdsInv' /\ \A x : Known(x)' = Known(x)
      /\ \A e \in Reports : ref'[e] = ref[e]
      /\ \A e \in Reports : ref[e] = r \/ RowGood(e) => RowGood(e)'
  BY Rebinds
<1>2. \A x \in Refs \ UnderEdit' : \A q, s \in Known(x) : q = s
  BY DEF HistoryInv
<1>3. \A e \in Reports : ref[e] \notin UnderEdit' => RowGood(e)'
  BY <1>1 DEF HistoryInv
<1>4. QED BY <1>1, <1>2, <1>3 DEF HistoryInv

LEMMA EditClearsStep == ASSUME AttrInv, EditClears PROVE AttrInv'
<1> USE DEF AttrInv
<1>1. edit.at = "clear" /\ UNCHANGED tableVars /\ edit \in Edits
  BY DEF EditClears, EditInv
<1>2. ASSUME NEW r \in edit.had, Rebind(r, Nobody), EditGoes([edit EXCEPT !.had = @ \ {r}]) PROVE AttrInv'
  <2>1. /\ edit'.at = "clear" /\ edit'.had = edit.had \ {r} /\ edit'.wanted = edit.wanted
        /\ edit'.pet = edit.pet /\ edit' \in Edits /\ r \in Foreign
    BY <1>1, <1>2 DEF EditGoes, Edits
  <2>2. UnderEdit \subseteq UnderEdit' \cup {r}
    BY <1>1, <2>1 DEF UnderEdit
  <2>3. Known(r) = {}
    <3>1. r \notin PetIds /\ \A q \in PetIds : r \notin aliases[q]
      BY <1>1, <2>1, PetsAssumption DEF EditInv, PetIds
    <3>2. QED BY <3>1, PetsInRange DEF Known
  <2>4. Nobody \in 0 .. lastPet /\ Nobody \notin pets
    BY PetsAssumption DEF Nobody, IdsInv
  <2>5. IdsInv' /\ HistoryInv'
    BY <1>1, <1>2, <2>1, <2>2, <2>3, <2>4, RebindEnds
  <2>6. EditInv'
    BY <1>1, <2>1 DEF EditInv, tableVars
  <2>7. QED BY <2>5, <2>6
<1>3. CASE edit.had = {} /\ EditGoes([edit EXCEPT !.at = "claim"]) /\ UNCHANGED historyVars
  <2>1. /\ edit'.at = "claim" /\ edit'.wanted = edit.wanted /\ edit'.pet = edit.pet /\ edit' \in Edits
    BY <1>1, <1>3 DEF EditGoes, Edits
  <2>2. UnderEdit \subseteq UnderEdit'
    BY <1>1, <1>3, <2>1 DEF UnderEdit
  <2>3. IdsInv' /\ HistoryInv'
    BY <1>1, <1>3, <2>2, HistoryStays
  <2>4. EditInv'
    BY <1>1, <2>1 DEF EditInv, tableVars
  <2>5. QED BY <2>3, <2>4
<1>4. QED BY <1>2, <1>3 DEF EditClears

LEMMA EditClaimsStep == ASSUME AttrInv, EditClaims PROVE AttrInv'
<1> USE DEF AttrInv
<1>1. edit.at = "claim" /\ UNCHANGED <<tableVars, historyVars>> /\ edit \in Edits
  BY DEF EditClaims, EditInv
<1>2. ASSUME NEW r \in edit.wanted,
             EditGoes([edit EXCEPT !.at = "strip", !.found = {r},
                                   !.others = {p \in pets : r \in aliases[p]} \ {edit.pet}])
      PROVE  AttrInv'
  <2>0. PICK others : others = {p \in pets : r \in aliases[p]} \ {edit.pet}
    OBVIOUS
  <2>1. /\ edit'.at = "strip" /\ edit'.wanted = edit.wanted /\ edit'.pet = edit.pet
        /\ edit'.found = {r} /\ edit'.others = others /\ r \in Foreign /\ edit' \in Edits
    <3>1. others \in SUBSET PetIds /\ r \in Foreign
      BY <1>1, <2>0, PetsInRange DEF Edits
    <3>2. edit' = [edit EXCEPT !.at = "strip", !.found = {r}, !.others = others]
      BY <1>2, <2>0 DEF EditGoes
    <3>3. QED BY <1>1, <3>1, <3>2 DEF Edits
  <2>2. UnderEdit \subseteq UnderEdit'
    BY <1>1, <2>1 DEF UnderEdit
  <2>3. IdsInv' /\ HistoryInv'
    BY <1>1, <2>2, HistoryStays
  <2>4. EditInv'
    <3>1. \A q \in PetIds : r \in aliases[q] => q \in pets
      BY DEF IdsInv
    <3>2. QED BY <1>1, <2>0, <2>1, <3>1 DEF EditInv, tableVars
  <2>5. QED BY <2>3, <2>4
<1>3. CASE edit.wanted = {} /\ EditGoes(NoEdit)
  <2>1. edit' = NoEdit /\ UnderEdit = {}
    BY <1>1, <1>3 DEF UnderEdit, EditGoes
  <2>2. IdsInv' /\ HistoryInv'
    BY <1>1, <2>1, HistoryStays
  <2>3. EditInv'
    BY <2>1, PetsAssumption DEF EditInv, NoEdit, Edits
  <2>4. QED BY <2>2, <2>3
<1>4. QED BY <1>2, <1>3 DEF EditClaims

(* Aliases that lose identities under edit, or all of a pet's.             *)
LEMMA AliasesShrink ==
    ASSUME IdsInv, HistoryInv, UNCHANGED <<lastPet, historyVars>>, pets' \subseteq pets,
           aliases' \in [PetIds -> SUBSET Foreign], \A q \in PetIds \ pets' : aliases'[q] = {},
           UnderEdit \subseteq UnderEdit',
           \A q \in PetIds : aliases'[q] \subseteq aliases[q],
           \A q \in pets' : aliases[q] \subseteq aliases'[q] \cup UnderEdit'
    PROVE  IdsInv' /\ HistoryInv'
<1>1. IdsInv'
  BY DEF IdsInv, historyVars
<1>2. ASSUME NEW r \in Refs \ UnderEdit' PROVE Known(r)' = Known(r) \cap pets'
  BY PetsInRange DEF Known
<1>3. \A r \in Refs \ UnderEdit' : \A p, q \in Known(r)' : p = q
  BY <1>2 DEF HistoryInv
<1>4. ASSUME NEW e \in Reports, ref[e] \notin UnderEdit' PROVE RowGood(e)'
  <2>1. UNCHANGED <<ref, attributed, stale, lastPet>> /\ ref[e] \in Refs
    BY DEF historyVars, IdsInv
  <2>2. Known(ref[e])' = Known(ref[e]) \cap pets' /\ RowGood(e)
    BY <1>2, <1>4, <2>1 DEF HistoryInv
  <2>3. ASSUME NEW p, Known(ref[e]) = {p} PROVE p \in pets /\ p \in 0 .. lastPet
    <3>1. p \in pets
      BY <2>3 DEF Known
    <3>2. 1 .. lastPet \subseteq 0 .. lastPet
      BY PetsAssumption DEF IdsInv
    <3>3. QED BY <3>1, <3>2 DEF IdsInv
  <2>4. QED BY <2>1, <2>2, <2>3 DEF RowGood
<1>5. \A e \in Reports : ref'[e] = ref[e]
  BY DEF historyVars
<1>6. QED BY <1>1, <1>3, <1>4, <1>5 DEF HistoryInv

LEMMA EditStripsStep == ASSUME AttrInv, EditStrips PROVE AttrInv'
<1> USE DEF AttrInv
<1>1. edit.at = "strip" /\ UNCHANGED <<pets, lastPet>> /\ edit \in Edits
  BY DEF EditStrips, EditInv
<1>2. PICK r \in Foreign : edit.found = {r}
  BY <1>1 DEF EditInv
<1>3. r \in edit.wanted /\ r \in UnderEdit
  BY <1>1, <1>2 DEF EditInv, UnderEdit
<1>4. ASSUME NEW p \in edit.others, UNCHANGED historyVars,
             aliases' = IF p \in pets THEN [aliases EXCEPT ![p] = @ \ edit.found] ELSE aliases,
             EditGoes([edit EXCEPT !.others = @ \ {p}])
      PROVE  AttrInv'
  <2>1. /\ edit'.at = "strip" /\ edit'.wanted = edit.wanted /\ edit'.pet = edit.pet
        /\ edit'.found = {r} /\ edit'.others = edit.others \ {p} /\ edit' \in Edits
    BY <1>1, <1>2, <1>4 DEF EditGoes, Edits
  <2>2. UnderEdit' = UnderEdit
    BY <1>1, <2>1 DEF UnderEdit
  <2>3. /\ aliases' \in [PetIds -> SUBSET Foreign] /\ p \in PetIds
        /\ \A q \in PetIds \ {p} : aliases'[q] = aliases[q]
        /\ aliases'[p] = aliases[p] \ {r}
    <3>1. p \in PetIds /\ aliases \in [PetIds -> SUBSET Foreign]
      BY <1>1, <1>4 DEF Edits, IdsInv
    <3>2. CASE p \in pets
      BY <1>2, <1>4, <3>1, <3>2
    <3>3. CASE p \notin pets
      BY <1>4, <3>1, <3>3 DEF IdsInv
    <3>4. QED BY <3>2, <3>3
  <2>4. IdsInv' /\ HistoryInv'
    <3>1. \A q \in PetIds : aliases'[q] \subseteq aliases[q]
      BY <2>3
    <3>2. \A q \in pets' : aliases[q] \subseteq aliases'[q] \cup UnderEdit'
      BY <1>1, <1>3, <2>2, <2>3, PetsInRange
    <3>3. \A q \in PetIds \ pets' : aliases'[q] = {}
      BY <1>1, <3>1 DEF IdsInv
    <3>4. QED BY <1>1, <1>4, <2>2, <2>3, <3>1, <3>2, <3>3, AliasesShrink
  <2>5. EditInv'
    <3>1. edit.pet # p /\ edit.pet \in 1 .. lastPet
      BY <1>1, <1>4 DEF EditInv
    <3>2. edit'.pet \in pets' => edit'.wanted \subseteq aliases'[edit'.pet]
      BY <1>1, <2>1, <2>3, <3>1, PetsInRange DEF EditInv
    <3>3. \A q \in PetIds \ {edit'.pet} : edit'.found \cap aliases'[q] # {} => q \in edit'.others
      <4> SUFFICES ASSUME NEW q \in PetIds \ {edit'.pet}, {r} \cap aliases'[q] # {} PROVE q \in edit.others \ {p}
        BY <2>1
      <4>1. q # p /\ r \in aliases[q]
        BY <2>3
      <4>2. QED BY <1>1, <1>2, <2>1, <4>1 DEF EditInv
    <3>4. edit'.found \subseteq edit'.wanted /\ edit'.pet \notin edit'.others
      BY <1>1, <1>2, <1>3, <2>1 DEF EditInv
    <3>5. QED BY <1>1, <2>1, <3>1, <3>2, <3>3, <3>4 DEF EditInv
  <2>6. QED BY <2>4, <2>5
<1>5. CASE /\ edit.others = {} /\ UNCHANGED aliases /\ \E x \in edit.found : Rebind(x, edit.pet)
           /\ EditGoes([edit EXCEPT !.at = "claim", !.wanted = @ \ edit.found])
  <2>1. /\ edit'.at = "claim" /\ edit'.wanted = edit.wanted \ {r} /\ edit'.pet = edit.pet /\ edit' \in Edits
    BY <1>1, <1>2, <1>5 DEF EditGoes, Edits
  <2>2. UnderEdit \subseteq UnderEdit' \cup {r}
    BY <1>1, <2>1 DEF UnderEdit
  <2>3. Rebind(r, edit.pet) /\ UNCHANGED tableVars
    BY <1>1, <1>2, <1>5 DEF tableVars
  <2>4. \A q \in PetIds \ {edit.pet} : r \notin aliases[q]
    BY <1>1, <1>2, <1>5 DEF EditInv
  <2>5. edit.pet \in pets => r \in aliases[edit.pet]
    BY <1>1, <1>3 DEF EditInv
  <2>6. edit.pet \in 0 .. lastPet
    BY <1>1, PetsAssumption DEF EditInv, IdsInv
  <2>7. Known(r) = {edit.pet} \/ (Known(r) = {} /\ edit.pet \notin pets)
    BY <2>4, <2>5, ForeignKnown
  <2>8. IdsInv' /\ HistoryInv'
    BY <2>2, <2>3, <2>6, <2>7, RebindEnds
  <2>9. EditInv'
    BY <1>1, <2>1, <2>3 DEF EditInv, tableVars
  <2>10. QED BY <2>8, <2>9
<1>6. QED BY <1>4, <1>5 DEF EditStrips

LEMMA ImportCreatesStep == ASSUME AttrInv, NEW r \in Foreign, ImportCreates(r) PROVE AttrInv'
<1> USE DEF AttrInv
<1>0. PICK new : new = lastPet + 1
  OBVIOUS
<1>1. /\ edit.at = "idle" /\ NewPet /\ Resolve(r) = Nobody
      /\ edit' = [at |-> "name", pet |-> new, wanted |-> {}, had |-> {}, others |-> {}, found |-> {r}]
  BY <1>0 DEF ImportCreates, EditGoes, NoEdit, NewPet, historyVars
<1>2. UnderEdit = {} /\ UnderEdit' = {}
  BY <1>1 DEF UnderEdit
<1>3. IdsInv' /\ HistoryInv'
  BY <1>1, <1>2, NewPetKeeps
<1>4. new \in 1 .. lastPet' /\ new \in 0 .. NumPets /\ new \in PetIds /\ new \notin pets
  BY <1>0, <1>1, PetsAssumption DEF NewPet, IdsInv, PetIds
<1>5. Known(r) = {}
  <2> SUFFICES ASSUME NEW p \in Known(r) PROVE FALSE
    OBVIOUS
  <2>1. p \in pets /\ r \in Refs
    BY DEF Known, Refs
  <2>2. p \in PetIds
    BY <2>1, PetsInRange
  <2>3. p \in Int /\ p # Nobody
    BY <2>2, PetsAssumption DEF PetIds, Nobody
  <2>4. Known(r) = {p}
    BY <1>2, <2>1 DEF HistoryInv
  <2>5. Resolve(r) = p
    BY <2>3, <2>4, ResolveKnown
  <2>6. QED BY <1>1, <2>3, <2>5
<1>6. \A q \in PetIds : r \notin aliases[q]
  <2>1. \A q \in pets : r \notin aliases[q]
    BY <1>5 DEF Known
  <2>2. QED BY <2>1 DEF IdsInv
<1>7. aliases' = aliases /\ aliases[new] = {}
  BY <1>1, <1>4 DEF NewPet, IdsInv
<1>8. EditInv'
  BY <1>1, <1>4, <1>6, <1>7 DEF EditInv, Edits
<1>9. QED BY <1>3, <1>8

LEMMA ImportBindsStep == ASSUME AttrInv, ImportBinds PROVE AttrInv'
<1> USE DEF AttrInv
<1>1. /\ edit.at \in {"name", "bind"} /\ UNCHANGED <<pets, lastPet>> /\ edit \in Edits
      /\ edit.pet \in 1 .. lastPet
  BY DEF ImportBinds, EditInv
<1>2. PICK r \in Foreign : edit.found = {r}
  BY <1>1 DEF EditInv
<1>3. edit.pet \in 0 .. lastPet /\ edit.pet \in PetIds
  BY <1>1, PetsAssumption DEF IdsInv, PetIds
<1>4. CASE /\ edit.at = "name" /\ EditGoes([edit EXCEPT !.at = "bind"]) /\ UNCHANGED historyVars
           /\ aliases' = IF edit.pet \in pets THEN [aliases EXCEPT ![edit.pet] = edit.found] ELSE aliases
  <2>1. /\ edit'.at = "bind" /\ edit'.pet = edit.pet /\ edit'.found = {r} /\ edit' \in Edits
    BY <1>1, <1>2, <1>4 DEF EditGoes, Edits
  <2>2. UnderEdit = {} /\ UnderEdit' = {r}
    <3>1. UnderEdit = {}
      BY <1>4 DEF UnderEdit
    <3>2. \A x : x \in UnderEdit' <=> x = r
      BY <2>1 DEF UnderEdit
    <3>3. QED BY <3>1, <3>2
  <2>3. /\ aliases' \in [PetIds -> SUBSET Foreign] /\ aliases[edit.pet] = {}
        /\ \A q \in PetIds \ {edit.pet} : aliases'[q] = aliases[q] /\ r \notin aliases[q]
        /\ edit.pet \in pets => aliases'[edit.pet] = {r}
        /\ edit.pet \notin pets => aliases'[edit.pet] = {}
    <3>1. /\ aliases \in [PetIds -> SUBSET Foreign] /\ aliases[edit.pet] = {}
          /\ \A q \in PetIds : r \notin aliases[q]
      BY <1>2, <1>4 DEF EditInv, IdsInv
    <3>2. CASE edit.pet \in pets
      BY <1>2, <1>3, <1>4, <3>1, <3>2
    <3>3. CASE edit.pet \notin pets
      BY <1>3, <1>4, <3>1, <3>3
    <3>4. QED BY <3>2, <3>3
  <2>4. IdsInv'
    BY <1>1, <1>4, <2>3 DEF IdsInv, historyVars
  <2>5. \A x : x # r => Known(x)' = Known(x)
    <3> SUFFICES ASSUME NEW x, x # r PROVE Known(x)' = Known(x)
      OBVIOUS
    <3>1. \A q \in pets : x \in aliases'[q] <=> x \in aliases[q]
      BY <2>3, PetsInRange
    <3>2. QED BY <1>1, <3>1 DEF Known
  <2>6. HistoryInv'
    BY <1>1, <1>4, <2>2, <2>5 DEF HistoryInv, RowGood, historyVars
  <2>7. EditInv'
    BY <1>1, <2>1, <2>3 DEF EditInv
  <2>8. QED BY <2>4, <2>6, <2>7
<1>5. CASE /\ edit.at = "bind" /\ UNCHANGED aliases /\ EditGoes(NoEdit)
           /\ \E x \in edit.found : Rebind(x, edit.pet)
  <2>1. edit' = NoEdit /\ UNCHANGED tableVars /\ Rebind(r, edit.pet)
    BY <1>1, <1>2, <1>5 DEF EditGoes, tableVars
  <2>2. UnderEdit \subseteq {r}
    BY <1>2, <1>5 DEF UnderEdit
  <2>3. /\ \A q \in PetIds \ {edit.pet} : r \notin aliases[q]
        /\ edit.pet \in pets => r \in aliases[edit.pet]
    BY <1>2, <1>5 DEF EditInv
  <2>4. Known(r) = {edit.pet} \/ (Known(r) = {} /\ edit.pet \notin pets)
    BY <2>3, ForeignKnown
  <2>5. IdsInv' /\ HistoryInv'
    BY <1>3, <2>1, <2>2, <2>4, RebindEnds
  <2>6. EditInv'
    BY <2>1, PetsAssumption DEF EditInv, NoEdit, Edits
  <2>7. QED BY <2>5, <2>6
<1>6. QED BY <1>4, <1>5 DEF ImportBinds

LEMMA PetForgottenStep == ASSUME AttrInv, NEW q \in PhotoRequests, DeletePetForgets(q) PROVE AttrInv'
<1> USE DEF AttrInv
<1>0. PICK p : p = task[q].pet
  OBVIOUS
<1>1. /\ pets' = pets \ {p} /\ aliases' = [aliases EXCEPT ![p] = {}]
      /\ UNCHANGED <<lastPet, historyVars, edit>>
  BY <1>0 DEF DeletePetForgets, TaskGoes
<1>2. /\ aliases' \in [PetIds -> SUBSET Foreign]
      /\ \A x \in PetIds : aliases'[x] = IF x = p THEN {} ELSE aliases[x]
  BY <1>1 DEF IdsInv
<1>3. UnderEdit' = UnderEdit
  BY <1>1 DEF UnderEdit
<1>4. IdsInv' /\ HistoryInv'
  <2>1. \A x \in PetIds \ pets' : aliases'[x] = {}
    BY <1>1, <1>2 DEF IdsInv
  <2>2. \A x \in PetIds : aliases'[x] \subseteq aliases[x]
    BY <1>2
  <2>3. \A x \in pets' : aliases[x] \subseteq aliases'[x] \cup UnderEdit'
    BY <1>1, <1>2, PetsInRange
  <2>4. QED BY <1>1, <1>2, <1>3, <2>1, <2>2, <2>3, AliasesShrink
<1>5. EditInv'
  <2>1. pets' \subseteq pets /\ \A x \in pets' : aliases'[x] = aliases[x]
    BY <1>1, <1>2, PetsInRange
  <2>2. \A x \in PetIds : aliases'[x] \subseteq aliases[x]
    BY <1>2
  <2>3. edit.at = "name" => aliases'[edit.pet] = {}
    BY <1>1, <1>2 DEF EditInv, IdsInv
  <2>4. QED BY <1>1, <2>1, <2>2, <2>3 DEF EditInv
<1>6. QED BY <1>4, <1>5

LEMMA AttrStep == ASSUME AttrInv, [PetsNext]_petsVars PROVE AttrInv'
<1>1. CASE UNCHANGED petsVars
  BY <1>1, AttrUntouched DEF petsVars, tableVars, historyVars
<1>2. CASE AttributionNext
  <2>1. ASSUME NEW q \in PhotoRequests, DeletePet(q) PROVE AttrInv'
    BY <2>1, PetForgottenStep, AttrUntouched DEF DeletePet, DeletePetUnlinks, TaskGoes
  <2>2. QED BY <1>2, <2>1, ReportArrivesStep, ReportStoredStep, CreatePetStep, EditBeginsStep,
               EditWritesAliasesStep, EditClearsStep, EditClaimsStep, EditStripsStep,
               ImportCreatesStep, ImportBindsStep DEF AttributionNext
<1>3. CASE PhotosNext
  <2>1. ASSUME NEW q \in PhotoRequests, DeletePet(q) PROVE AttrInv'
    BY <2>1, PetForgottenStep, AttrUntouched DEF DeletePet, DeletePetUnlinks, TaskGoes
  <2>2. ASSUME NEW q \in PhotoRequests, NEW p \in PetIds, AddBegins(q, p) PROVE AttrInv'
    BY <2>2, AttrUntouched DEF AddBegins, TaskGoes
  <2>3. ASSUME NEW q \in PhotoRequests, NEW f \in FaceIds, DeleteFaceUnlinks(q, f) PROVE AttrInv'
    BY <2>3, AttrUntouched DEF DeleteFaceUnlinks, TaskGoes
  <2>4. ASSUME NEW q \in PhotoRequests, AddTakesId(q) PROVE AttrInv'
    BY <2>4, AttrUntouched DEF AddTakesId, TaskGoes
  <2>5. ASSUME NEW q \in PhotoRequests, AddWrites(q) PROVE AttrInv'
    BY <2>5, AttrUntouched DEF AddWrites, TaskGoes
  <2>6. ASSUME NEW q \in PhotoRequests, AddEnds(q) PROVE AttrInv'
    BY <2>6, AttrUntouched DEF AddEnds, TaskGoes
  <2>7. ASSUME NEW q \in PhotoRequests, DeleteFaceForgets(q) PROVE AttrInv'
    BY <2>7, AttrUntouched DEF DeleteFaceForgets, TaskGoes
  <2>8. CASE DiscernPic
    BY <2>8, AttrUntouched DEF DiscernPic
  <2>9. QED BY <1>3, <2>1, <2>2, <2>3, <2>4, <2>5, <2>6, <2>7, <2>8, CreatePetStep DEF PhotosNext
<1>4. QED BY <1>1, <1>2, <1>3 DEF PetsNext

(* Once no edit is under way, the stored rows of an identity belong to the *)
(* pet its next report would go to, however many edits, imports, reports   *)
(* and deletions of pets interleaved (HistoryFollowsAliases).              *)
THEOREM HistoryFollows == PetsSpec => []HistoryFollowsAliases
<1>1. PetsSpec => []AttrInv
  BY AttrInit, AttrStep, PTL DEF PetsSpec
<1>2. QED BY <1>1, AttrImplies, PTL
-----------------------------------------------------------------------------
(* Weighing: medians.                                                      *)
(* Every set of naturals has a least member.                               *)
LEMMA LeastThere ==
    ASSUME NEW T, T \subseteq Nat, T # {}
    PROVE  \E t \in T : \A y \in T : t <= y
<1> DEFINE R == {ss \in Nat \X Nat : ss[1] < ss[2]}
<1>1. IsWellFoundedOn(R, Nat)
  BY NatLessThanWellFounded DEF OpToRel
<1>2. \A a, b \in Nat : a < b => <<a, b>> \in R
  OBVIOUS
<1> HIDE DEF R
<1>3. PICK t \in T : \A y \in T : ~(<<y, t>> \in R)
  BY <1>1, WFMin
<1>4. \A y \in T : ~(y < t)
  BY <1>2, <1>3
<1>5. QED BY <1>4

(* And every bounded one a greatest.                                       *)
LEMMA GreatestThere ==
    ASSUME NEW n \in Nat, NEW S, S \subseteq 0 .. n, S # {}
    PROVE  \E x \in S : \A y \in S : y <= x
<1> DEFINE T == {n - x : x \in S}
<1>1. T \subseteq Nat /\ T # {}
  <2>1. \A x \in S : n - x \in Nat
    OBVIOUS
  <2>2. QED BY <2>1
<1>2. PICK t \in T : \A y \in T : t <= y
  BY <1>1, LeastThere
<1>3. PICK x \in S : t = n - x
  BY <1>2
<1>4. \A y \in S : n - x <= n - y
  BY <1>2, <1>3
<1> HIDE DEF T
<1>5. ASSUME NEW y \in S PROVE y <= x
  <2>1. x \in 0 .. n /\ y \in 0 .. n /\ n - x <= n - y
    BY <1>4
  <2>2. QED BY <2>1
<1>6. QED BY <1>5

(* A sample: the weights of finitely many visits.                          *)
IsSample(s, D) == IsFiniteSet(D) /\ \A i \in D : s[i] \in Nat

(* A bound of all of its values; grown over a numbering of its visits.     *)
LEMMA SampleBounded == ASSUME NEW s, NEW D, IsSample(s, D) PROVE \E b \in Nat : \A i \in D : s[i] <= b
<1> DEFINE n == Cardinality(D)
<1>1. IsFiniteSet(D) /\ n \in Nat /\ ExistsBijection(1 .. n, D)
  BY FS_CardinalityType DEF IsSample
<1>2. PICK f \in [1 .. n -> D] : \A i \in D : \E j \in 1 .. n : f[j] = i
  BY <1>1 DEF ExistsBijection, Bijection, Surjection
<1> HIDE DEF n
<1> DEFINE Good(m) == \E b \in Nat : \A j \in 1 .. m : s[f[j]] <= b
           bad == {m \in 0 .. n : ~Good(m)}
<1>3. ASSUME bad # {} PROVE FALSE
  <2>1. bad \subseteq Nat
    BY <1>1
  <2>2. PICK m \in bad : \A k \in bad : m <= k
    BY <1>3, <2>1, LeastThere
  <2>3. m \in 0 .. n /\ ~Good(m)
    BY <2>2
  <2>4. m # 0
    BY <2>3
  <2>5. m - 1 \in 0 .. n /\ m \in 1 .. n /\ ~(m <= m - 1)
    BY <1>1, <2>3, <2>4
  <2>6. Good(m - 1)
    BY <2>2, <2>5
  <2>7. PICK b \in Nat : \A j \in 1 .. (m - 1) : s[f[j]] <= b
    BY <2>6
  <2>8. \A j \in 1 .. n : s[f[j]] \in Nat
    BY <1>2 DEF IsSample
  <2> DEFINE g == s[f[m]]
  <2>9. g \in Nat
    BY <2>5, <2>8
  <2>10. b \in Nat
    BY <2>7
  <2> DEFINE c == b + g
  <2> HIDE DEF g, bad, Good
  <2>11. b \in Nat /\ g \in Nat /\ c \in Nat /\ b <= c /\ g <= c
    BY <2>9, <2>10
  <2> HIDE DEF c
  <2>12. ASSUME NEW j \in 1 .. m PROVE s[f[j]] <= c
    <3>1. CASE j = m
      BY <3>1, <2>11 DEF g
    <3>2. CASE j # m
      <4>1. j \in 1 .. (m - 1) /\ j \in 1 .. n
        BY <3>2, <1>1, <2>3
      <4>2. s[f[j]] <= b /\ s[f[j]] \in Nat
        BY <4>1, <2>7, <2>8
      <4>3. QED BY <4>2, <2>11
    <3>3. QED BY <3>1, <3>2
  <2>13. Good(m)
    BY <2>11, <2>12 DEF Good
  <2>14. QED BY <2>3, <2>13 DEF Good
<1>4. Good(n)
  <2>1. n \in 0 .. n
    BY <1>1
  <2> HIDE DEF Good
  <2>2. bad = {}
    BY <1>3
  <2>3. QED BY <2>1, <2>2
<1>5. PICK b \in Nat : \A j \in 1 .. n : s[f[j]] <= b
  BY <1>4
<1>6. \A i \in D : s[i] <= b
  BY <1>2, <1>5
<1>7. QED BY <1>6

Below(s, D, x) == {i \in D : s[i] < x}
UpTo(s, D, x) == {i \in D : s[i] <= x}

(* The k-th smallest is there, for every k up to the size of the sample.   *)
LEMMA NthThere ==
    ASSUME NEW s, NEW D, IsSample(s, D), NEW k \in Nat, 1 <= k, k <= Cardinality(D)
    PROVE  /\ \E i \in D : s[i] = Nth(s, D, k)
           /\ Cardinality(Below(s, D, Nth(s, D, k))) < k
           /\ k <= Cardinality(UpTo(s, D, Nth(s, D, k)))
<1> DEFINE T == {x \in Nat : k <= Cardinality(UpTo(s, D, x))}
<1>1. PICK b \in Nat : \A i \in D : s[i] <= b
  BY SampleBounded
<1>2. UpTo(s, D, b) = D
  BY <1>1 DEF UpTo
<1>3. b \in T
  BY <1>2
<1>4. PICK x \in T : \A y \in T : x <= y
  BY <1>3, LeastThere
<1>5. x \in Nat /\ k <= Cardinality(UpTo(s, D, x))
  BY <1>4
<1>6. Cardinality(Below(s, D, x)) < k
  <2>1. CASE x = 0
    <3>1. Below(s, D, x) = {}
      BY <2>1 DEF Below, IsSample
    <3>2. QED BY <3>1, FS_EmptySet
  <2>2. CASE x # 0
    <3>1. x - 1 \in Nat /\ ~(x <= x - 1)
      BY <1>5, <2>2
    <3>2. ~(k <= Cardinality(UpTo(s, D, x - 1)))
      BY <1>4, <3>1
    <3>3. Below(s, D, x) = UpTo(s, D, x - 1)
      <4>1. \A i \in D : s[i] < x <=> s[i] <= x - 1
        BY <1>5 DEF IsSample
      <4>2. QED BY <4>1 DEF Below, UpTo
    <3>4. UpTo(s, D, x - 1) \in SUBSET D /\ IsFiniteSet(D)
      BY DEF UpTo, IsSample
    <3>5. Cardinality(UpTo(s, D, x - 1)) \in Nat
      BY <3>4, FS_Subset, FS_CardinalityType
    <3> HIDE DEF T
    <3>6. QED BY <3>2, <3>3, <3>5
  <2>3. QED BY <2>1, <2>2
<1>7. \E i \in D : s[i] = x
  <2> SUFFICES ASSUME \A i \in D : s[i] # x PROVE FALSE
    OBVIOUS
  <2>1. \A i \in D : s[i] < x <=> s[i] <= x
    BY <1>5 DEF IsSample
  <2>2. Below(s, D, x) = UpTo(s, D, x)
    BY <2>1 DEF Below, UpTo
  <2>3. UpTo(s, D, x) \in SUBSET D /\ IsFiniteSet(D)
    BY DEF UpTo, IsSample
  <2>4. Cardinality(UpTo(s, D, x)) \in Nat
    BY <2>3, FS_Subset, FS_CardinalityType
  <2>5. QED BY <1>5, <1>6, <2>2, <2>4
<1> DEFINE Good(y) == Cardinality({i \in D : s[i] < y}) < k /\ k <= Cardinality({i \in D : s[i] <= y})
<1>8. x \in {s[i] : i \in D} /\ Good(x)
  BY <1>5, <1>6, <1>7 DEF Below, UpTo
<1>9. Nth(s, D, k) = CHOOSE y \in {s[i] : i \in D} : Good(y)
  BY DEF Nth
<1> HIDE DEF Good
<1>10. Nth(s, D, k) \in {s[i] : i \in D} /\ Good(Nth(s, D, k))
  BY <1>8, <1>9
<1>11. QED BY <1>10 DEF Good, Below, UpTo
-----------------------------------------------------------------------------
(* A band is an interval around its weight: whatever lies between two      *)
(* members, or between the weight and a member, is one.                    *)
LEMMA BandConvex ==
    ASSUME NEW w \in Nat, NEW a \in Nat, NEW b \in Nat
    PROVE  /\ InBand(w, w)
           /\ InBand(a, w) /\ a <= b /\ b <= w => InBand(b, w)
           /\ InBand(a, w) /\ w <= b /\ b <= a => InBand(b, w)
<1> DEFINE r == Larger(AbsFloor, (RelTolerance * w) \div 100)
<1>1. r \in Int /\ r >= 0
  <2>1. AbsFloor \in Nat
    BY WeighingAssumption
  <2>2. RelTolerance * w \in Nat
    BY WeighingAssumption
  <2> DEFINE q == RelTolerance * w
  <2>3. q \in Nat
    BY <2>2
  <2> HIDE DEF q
  <2>4. q \div 100 \in Int
    BY <2>3
  <2>5. Larger(AbsFloor, q \div 100) \in Int /\ Larger(AbsFloor, q \div 100) >= 0
    BY <2>1, <2>4 DEF Larger
  <2>6. QED BY <2>5 DEF q
<1>2. \A x : InBand(x, w) <=> Distance(x, w) <= r
  BY DEF InBand
<1> HIDE DEF r
<1>3. QED BY <1>1, <1>2 DEF Distance

(* The k-th smallest of a sample with at most one odd value is in band,    *)
(* for every k but the first and the last.                                 *)
LEMMA NthInBand ==
    ASSUME NEW s, NEW D, IsSample(s, D), NEW w \in Nat,
           NEW odd, odd \in D, \A i \in D \ {odd} : InBand(s[i], w),
           NEW k \in Nat, 2 <= k, k < Cardinality(D)
    PROVE  Nth(s, D, k) \in Nat /\ InBand(Nth(s, D, k), w)
<1> DEFINE x == Nth(s, D, k)
<1>0. IsFiniteSet(D) /\ Cardinality(D) \in Nat
  BY FS_CardinalityType DEF IsSample
<1>1. /\ \E i \in D : s[i] = x
      /\ Cardinality(Below(s, D, x)) < k
      /\ k <= Cardinality(UpTo(s, D, x))
  BY <1>0, NthThere
<1>2. x \in Nat /\ \A i \in D : s[i] \in Nat
  BY <1>1 DEF IsSample
<1> HIDE DEF x
<1>3. ASSUME ~InBand(x, w) PROVE FALSE
  <2>1. s[odd] = x
    BY <1>1, <1>3
  <2>2. CASE x < w
    <3>1. \A i \in D \ {odd} : ~(s[i] <= x)
      <4> SUFFICES ASSUME NEW i \in D \ {odd}, s[i] <= x PROVE FALSE
        OBVIOUS
      <4>1. s[i] \in Nat /\ InBand(s[i], w) /\ x <= w
        BY <1>2, <2>2
      <4>2. QED BY <1>2, <1>3, <4>1, BandConvex
    <3>2. UpTo(s, D, x) \subseteq {odd}
      BY <3>1 DEF UpTo
    <3>3. IsFiniteSet({odd}) /\ Cardinality({odd}) = 1
      BY FS_Singleton
    <3>4. UpTo(s, D, x) \in SUBSET {odd}
      BY <3>2
    <3>5. IsFiniteSet(UpTo(s, D, x)) /\ Cardinality(UpTo(s, D, x)) <= 1
      BY <3>3, <3>4, FS_Subset
    <3>6. Cardinality(UpTo(s, D, x)) \in Nat
      BY <3>5, FS_CardinalityType
    <3>7. QED BY <1>1, <3>5, <3>6
  <2>3. CASE w < x
    <3>1. \A i \in D \ {odd} : s[i] < x
      <4> SUFFICES ASSUME NEW i \in D \ {odd}, ~(s[i] < x) PROVE FALSE
        OBVIOUS
      <4>1. s[i] \in Nat /\ InBand(s[i], w) /\ w <= x /\ x <= s[i]
        BY <1>2, <2>3
      <4>2. QED BY <1>2, <1>3, <4>1, BandConvex
    <3>2. D \ {odd} \in SUBSET Below(s, D, x)
      BY <3>1 DEF Below
    <3>3. Below(s, D, x) \in SUBSET D
      BY DEF Below
    <3>4. IsFiniteSet(Below(s, D, x))
      BY <1>0, <3>3, FS_Subset
    <3>5. Cardinality(D \ {odd}) <= Cardinality(Below(s, D, x)) /\ Cardinality(Below(s, D, x)) \in Nat
      BY <3>2, <3>4, FS_Subset, FS_CardinalityType
    <3>6. Cardinality(D \ {odd}) = Cardinality(D) - 1
      BY <1>0, FS_RemoveElement
    <3>7. QED BY <1>0, <1>1, <3>5, <3>6
  <2>4. CASE x = w
    BY <1>3, <2>4, BandConvex
  <2>5. QED BY <1>2, <2>2, <2>3, <2>4
<1>4. QED BY <1>2, <1>3 DEF x

(* So is the median, of three or more.                                     *)
LEMMA MedianInBand ==
    ASSUME NEW s, NEW D, IsSample(s, D), NEW w \in Nat,
           NEW odd, odd \in D, \A i \in D \ {odd} : InBand(s[i], w), Cardinality(D) >= 3
    PROVE  InBand(Median(s, D), w)
<1> DEFINE n == Cardinality(D)
           half == n \div 2
<1>1. n \in Nat /\ n >= 3
  BY FS_CardinalityType DEF IsSample
<1>2. Median(s, D) = IF n % 2 = 1 THEN Nth(s, D, half + 1) ELSE (Nth(s, D, half) + Nth(s, D, half + 1)) \div 2
  BY DEF Median
<1>3. half \in Nat /\ half >= 1 /\ half + 1 < n /\ (n % 2 # 1 => half >= 2)
  BY <1>1
<1>4. Nth(s, D, half + 1) \in Nat /\ InBand(Nth(s, D, half + 1), w)
  <2> HIDE DEF half
  <2>1. half + 1 \in Nat /\ 2 <= half + 1 /\ half + 1 < Cardinality(D)
    BY <1>1, <1>3
  <2>2. QED BY <2>1, NthInBand
<1>5. CASE n % 2 = 1
  BY <1>2, <1>4, <1>5
<1>6. CASE n % 2 # 1
  <2>1. half \in Nat /\ 2 <= half /\ half < Cardinality(D)
    BY <1>1, <1>3, <1>6
  <2> DEFINE a == Nth(s, D, half)
             b == Nth(s, D, half + 1)
  <2>2. a \in Nat /\ InBand(a, w)
    <3> HIDE DEF half
    <3>1. QED BY <2>1, NthInBand
  <2>3. b \in Nat /\ InBand(b, w)
    BY <1>4
  <2>4. Median(s, D) = (a + b) \div 2
    BY <1>2, <1>6
  <2> HIDE DEF a, b
  <2> DEFINE m == (a + b) \div 2
  <2>5. m \in Nat /\ ((a <= m /\ m <= b) \/ (b <= m /\ m <= a))
    BY <2>2, <2>3
  <2>6. Median(s, D) = m
    BY <2>4
  <2> HIDE DEF m
  <2>7. InBand(m, w)
    BY <2>2, <2>3, <2>5, BandConvex
  <2>8. QED BY <2>6, <2>7
<1>7. QED BY <1>5, <1>6

(* Trimmed or not: what is trimmed has three values or more.               *)
LEMMA StatsInBand ==
    ASSUME NEW s, IsSample(s, DOMAIN s), NEW w \in Nat, Cardinality(DOMAIN s) >= 3,
           NEW odd, \A i \in DOMAIN s \ {odd} : InBand(s[i], w)
    PROVE  InBand(WeightStats(s), w)
<1> DEFINE all == DOMAIN s
           Some(D) == D \in SUBSET all /\ Cardinality(D) >= 3
<1>1. ASSUME NEW D, Some(D) PROVE InBand(Median(s, D), w)
  <2>1. IsFiniteSet(D) /\ IsSample(s, D)
    BY <1>1, FS_Subset DEF IsSample
  <2>2. \E o \in D : \A i \in D \ {o} : InBand(s[i], w)
    <3>1. CASE odd \in D
      BY <1>1, <3>1
    <3>2. CASE odd \notin D
      <4>1. D # {}
        <5>1. Cardinality({}) = 0
          BY FS_EmptySet
        <5>2. QED BY <1>1, <5>1
      <4>2. \A i \in D : InBand(s[i], w)
        BY <1>1, <3>2
      <4>3. QED BY <4>1, <4>2
    <3>3. QED BY <3>1, <3>2
  <2>3. PICK o \in D : \A i \in D \ {o} : InBand(s[i], w)
    BY <2>2
  <2>4. QED BY <1>1, <2>1, <2>3, MedianInBand
<1>2. Some(all)
  OBVIOUS
<1> DEFINE middle == Median(s, all)
           mad    == Median([i \in all |-> Distance(s[i], middle)], all)
           near   == {i \in all : Distance(s[i], middle) <= Larger(OutlierFloor, OutlierMultiple * mad)}
           half   == Cardinality(all) \div 2
<1>3. CASE Cardinality(all) >= MinToTrim /\ Cardinality(near) >= Larger(3, half)
  <2>1. WeightStats(s) = Median(s, near)
    BY <1>3 DEF WeightStats
  <2>2. near \in SUBSET all /\ IsFiniteSet(all)
    BY DEF IsSample
  <2> HIDE DEF near
  <2>3. IsFiniteSet(near) /\ Cardinality(near) \in Nat /\ Cardinality(all) \in Nat
    BY <2>2, FS_Subset, FS_CardinalityType
  <2>4. half \in Int
    BY <2>3
  <2> HIDE DEF half
  <2>5. Cardinality(near) >= 3
    BY <1>3, <2>3, <2>4 DEF Larger
  <2>6. QED BY <1>1, <2>1, <2>2, <2>5
<1>4. CASE ~(Cardinality(all) >= MinToTrim /\ Cardinality(near) >= Larger(3, half))
  <2>1. WeightStats(s) = middle
    BY <1>4 DEF WeightStats
  <2>2. QED BY <1>1, <1>2, <2>1
<1>5. QED BY <1>3, <1>4
-----------------------------------------------------------------------------
(* Weighing.  The types that do not speak of time.                         *)
VisitRows == [ts : Int, weight : Nat, recalc : Nat, pet : Animals \cup {0}, seen : Animals \cup {0}]

VisitsInv ==
    /\ PlanOK(plan)
    /\ DOMAIN visitRow = Visits
    /\ \A v \in Visits : visitRow[v] \in VisitRows
    /\ entered \in [Animals -> Nat]
    /\ pushed \subseteq Visits

(* A reported weight is what the box made of the visit, and a settled one  *)
(* came from a visit to the same box that it is not far from.              *)
Near(v, u) ==
    /\ plan.visits[u].settled_g = visitRow[v].recalc /\ plan.visits[u].box = plan.visits[v].box
    /\ Distance(plan.visits[v].box_g, plan.visits[u].settled_g) <= MaxValueDelta

WeightsInv ==
    \A v \in Visits :
        /\ visitRow[v].weight \in {0, plan.visits[v].box_g}
        /\ visitRow[v].ts = 0 => visitRow[v].recalc = 0
        /\ visitRow[v].recalc # 0 => \E u \in pushed : Near(v, u)

WInv == VisitsInv /\ WeightsInv

LEMMA WInvInit == ASSUME WeighingInit PROVE WInv
<1>1. \A v \in Visits : visitRow[v] = NoRow
  BY DEF WeighingInit
<1>2. VisitsInv
  BY <1>1 DEF WeighingInit, VisitsInv, VisitRows, NoRow
<1>3. WeightsInv
  BY <1>1 DEF WeightsInv, NoRow
<1>4. QED BY <1>2, <1>3 DEF WInv
-----------------------------------------------------------------------------
(* A step of the rows of one visit; time, people and the rest are free.    *)
LEMMA RowsKept ==
    ASSUME WInv, UNCHANGED <<plan, visitRow>>, pushed \subseteq pushed', pushed' \subseteq Visits,
           entered' \in [Animals -> Nat]
    PROVE  WInv'
<1>1. VisitsInv'
  BY DEF WInv, VisitsInv, Visits
<1>2. WeightsInv'
  BY DEF WInv, WeightsInv, Near, Visits
<1>3. QED BY <1>1, <1>2 DEF WInv

LEMMA ReportStep == ASSUME WInv, NEW v \in Visits, weighClock \in Nat \ {0}, ReportVisit(v) PROVE WInv'
<1>1. /\ UNCHANGED <<plan, entered, pushed>>
      /\ visitRow' = [visitRow EXCEPT ![v] = [@ EXCEPT !.ts = weighClock, !.weight = plan.visits[v].box_g, !.recalc = 0]]
  BY DEF ReportVisit
<1>2. plan.visits[v].box_g \in Nat
  BY DEF WInv, VisitsInv, PlanOK, Visits
<1>3. visitRow'[v] = [ts |-> weighClock, weight |-> plan.visits[v].box_g, recalc |-> 0,
                      pet |-> visitRow[v].pet, seen |-> visitRow[v].seen]
  <2>1. visitRow'[v] = [visitRow[v] EXCEPT !.ts = weighClock, !.weight = plan.visits[v].box_g, !.recalc = 0]
    BY <1>1 DEF WInv, VisitsInv
  <2>2. visitRow[v] \in VisitRows
    BY DEF WInv, VisitsInv
  <2>3. QED BY <2>1, <2>2 DEF VisitRows
<1>4. \A u \in Visits \ {v} : visitRow'[u] = visitRow[u]
  BY <1>1 DEF WInv, VisitsInv
<1>5. VisitsInv'
  <2>1. visitRow[v].pet \in Animals \cup {0} /\ visitRow[v].seen \in Animals \cup {0}
    BY DEF WInv, VisitsInv, VisitRows
  <2>2. visitRow'[v] \in VisitRows
    BY <1>2, <1>3, <2>1 DEF VisitRows
  <2>3. DOMAIN visitRow' = Visits
    BY <1>1 DEF WInv, VisitsInv
  <2>4. QED BY <1>1, <1>4, <2>2, <2>3 DEF WInv, VisitsInv, Visits
<1>6. WeightsInv'
  <2>1. visitRow'[v].weight = plan.visits[v].box_g /\ visitRow'[v].recalc = 0
    BY <1>3
  <2>2. \A u \in Visits \ {v}, s \in pushed : Near(u, s) => Near(u, s)'
    BY <1>1, <1>4 DEF Near
  <2>3. \A u \in Visits \ {v} : visitRow'[u].recalc # 0 => \E s \in pushed : Near(u, s)'
    BY <1>4, <2>2 DEF WInv, WeightsInv
  <2>4. QED BY <1>1, <1>4, <2>1, <2>3 DEF WInv, WeightsInv, Visits
<1>7. QED BY <1>5, <1>6 DEF WInv

LEMMA LinkStep == ASSUME WInv, NEW v \in Visits, LinkFace(v) PROVE WInv'
<1>1. /\ UNCHANGED <<plan, entered, pushed>>
      /\ \/ visitRow' = [visitRow EXCEPT ![v].pet = plan.visits[v].cat]
         \/ visitRow' = [visitRow EXCEPT ![v].seen = plan.visits[v].cat]
  BY DEF LinkFace
<1>2. plan.visits[v].cat \in Animals
  BY DEF WInv, VisitsInv, PlanOK, Visits
<1>3. \A u \in Visits : /\ visitRow'[u] \in VisitRows
                        /\ visitRow'[u].ts = visitRow[u].ts /\ visitRow'[u].weight = visitRow[u].weight
                        /\ visitRow'[u].recalc = visitRow[u].recalc
  BY <1>1, <1>2 DEF WInv, VisitsInv, VisitRows
<1>4. VisitsInv'
  BY <1>1, <1>3 DEF WInv, VisitsInv, Visits
<1>5. WeightsInv'
  BY <1>1, <1>3 DEF WInv, WeightsInv, Near, Visits
<1>6. QED BY <1>4, <1>5 DEF WInv

LEMMA PushStep == ASSUME WInv, NEW v \in Visits, PushRecalc(v) PROVE WInv'
<1>1. UNCHANGED <<plan, entered>> /\ pushed' = pushed \cup {v}
  BY DEF PushRecalc
<1>2. CASE UNCHANGED visitRow
  BY <1>1, <1>2, RowsKept DEF WInv, VisitsInv
<1>3. CASE \E u \in MatchVisit(v) : MergeContent(u, plan.visits[v].settled_g)
  <2>1. PICK u \in MatchVisit(v) : MergeContent(u, plan.visits[v].settled_g)
    BY <1>3
  <2>2. /\ u \in Visits /\ visitRow[u].ts # 0 /\ visitRow[u].weight # 0
        /\ plan.visits[u].box = plan.visits[v].box
        /\ Distance(visitRow[u].weight, plan.visits[v].settled_g) <= MaxValueDelta
    BY <2>1 DEF MatchVisit, InWindow
  <2>3. visitRow' = [visitRow EXCEPT ![u].recalc = plan.visits[v].settled_g]
    BY <2>1 DEF MergeContent
  <2>4. plan.visits[v].settled_g \in Nat
    BY DEF WInv, VisitsInv, PlanOK, Visits
  <2>5. visitRow'[u] = [visitRow[u] EXCEPT !.recalc = plan.visits[v].settled_g]
        /\ \A t \in Visits \ {u} : visitRow'[t] = visitRow[t]
    BY <2>2, <2>3 DEF WInv, VisitsInv
  <2>6. visitRow'[u] \in VisitRows
        /\ visitRow'[u].ts = visitRow[u].ts /\ visitRow'[u].weight = visitRow[u].weight
        /\ visitRow'[u].recalc = plan.visits[v].settled_g
    BY <2>2, <2>4, <2>5 DEF WInv, VisitsInv, VisitRows
  <2>7. VisitsInv'
    BY <1>1, <2>2, <2>3, <2>5, <2>6 DEF WInv, VisitsInv, Visits
  <2>8. Near(u, v)'
    BY <1>1, <2>2, <2>6 DEF Near, WInv, WeightsInv
  <2>9. \A t \in Visits \ {u}, s \in pushed : Near(t, s) => Near(t, s)'
    BY <1>1, <2>5 DEF Near
  <2>10. WeightsInv'
    BY <1>1, <2>2, <2>5, <2>6, <2>8, <2>9 DEF WInv, WeightsInv, Visits
  <2>11. QED BY <2>7, <2>10 DEF WInv
<1>4. QED BY <1>2, <1>3 DEF PushRecalc

LEMMA EnterStep == ASSUME WInv, NEW p \in Animals, EnterWeight(p) PROVE WInv'
<1>1. \A w \in plan.weights[p] \cup {0} : w \in Nat
  BY DEF WInv, VisitsInv, PlanOK
<1>2. entered' \in [Animals -> Nat]
  BY <1>1 DEF EnterWeight, WInv, VisitsInv
<1>3. QED BY <1>2, RowsKept DEF EnterWeight, WInv, VisitsInv

ClockInv == weighClock \in Nat \ {0}

LEMMA WInvStep == ASSUME WInv, ClockInv, [WeighingNext]_weighingVars PROVE WInv' /\ ClockInv'
<1>1. ClockInv'
  <2>1. CASE UNCHANGED weighClock
    BY <2>1 DEF ClockInv
  <2>2. CASE WeighTick
    BY <2>2 DEF ClockInv, WeighTick
  <2>3. CASE \E v \in Visits : Leave(v) \/ ReportVisit(v) \/ LinkFace(v) \/ PushRecalc(v)
    BY <2>1, <2>3, Zenon DEF Leave, ReportVisit, LinkFace, PushRecalc
  <2>4. CASE \E p \in Animals : EnterWeight(p)
    BY <2>1, <2>4, Zenon DEF EnterWeight
  <2>5. CASE UNCHANGED weighingVars
    BY <2>1, <2>5 DEF weighingVars
  <2>6. QED BY <2>2, <2>3, <2>4, <2>5 DEF WeighingNext
<1> SUFFICES WInv'
  BY <1>1
<1>2. CASE \E v \in Visits : ReportVisit(v) \/ LinkFace(v) \/ PushRecalc(v)
  BY <1>2, ReportStep, LinkStep, PushStep DEF ClockInv
<1>3. CASE \E p \in Animals : EnterWeight(p)
  BY <1>3, EnterStep
<1>4. CASE (\E v \in Visits : Leave(v)) \/ WeighTick \/ UNCHANGED weighingVars
  BY <1>4, RowsKept DEF Leave, WeighTick, weighingVars, WInv, VisitsInv
<1>5. QED BY <1>2, <1>3, <1>4 DEF WeighingNext
-----------------------------------------------------------------------------
(* What a guess depends on: the weights entered and the boxes assigned, in *)
(* no way on how well a profile is corroborated.                           *)

LEMMA SeveralMembers ==
    ASSUME NEW S, IsFiniteSet(S)
    PROVE  Cardinality(S) > 1 <=> \E a, b \in S : a # b
<1>1. Cardinality(S) \in Nat
  BY FS_CardinalityType
<1>2. Cardinality(S) = 0 <=> S = {}
  BY FS_EmptySet
<1>3. Cardinality(S) = 1 <=> \E a : S = {a}
  BY FS_Singleton
<1>4. (\E a, b \in S : a # b) => S # {} /\ ~(\E a : S = {a})
  OBVIOUS
<1>5. S # {} /\ (\A a, b \in S : a = b) => \E a : S = {a}
  <2>1. ASSUME NEW a \in S, \A b, d \in S : b = d PROVE S = {a}
    BY <2>1
  <2>2. QED BY <2>1
<1>6. Cardinality(S) > 1 <=> Cardinality(S) # 0 /\ Cardinality(S) # 1
  BY <1>1
<1>7. QED BY <1>2, <1>3, <1>4, <1>5, <1>6

Profile(p, c) == [pet |-> p, weight |-> entered[p], boxes |-> plan.boxes[p], corroborated |-> c[p]]
Weighed == {p \in Animals : entered[p] # 0}
AtBox(box) ==
    LET scoped == {p \in Weighed : plan.boxes[p] = {} \/ box \in plan.boxes[p]}
    IN IF scoped = {} THEN Weighed ELSE scoped
Fits(x, box) == {p \in AtBox(box) : InBand(x, entered[p])}

(* One that fits is the guess; of several, none is.                        *)
Guessed(guess, fits) ==
    /\ (\A p, q \in fits : p = q) => /\ guess.rivals = {}
                                     /\ fits # {} => guess.pet \in fits
                                     /\ fits = {} => guess.pet = 0
    /\ (\E p, q \in fits : p # q) => guess.rivals = fits /\ guess.pet = 0

LEMMA GuessByWeight ==
    ASSUME NEW c, NEW x, NEW box, x # 0
    PROVE  Guessed(Attribute(x, {Profile(p, c) : p \in Weighed}, box), Fits(x, box))
<1> DEFINE profiles == {Profile(p, c) : p \in Weighed}
           candidates == {f \in ScopedProfiles(profiles, box) : InBand(x, f.weight)}
           fits == Fits(x, box)
<1>1. \A p \in Weighed : Profile(p, c).pet = p /\ Profile(p, c).weight = entered[p] /\ Profile(p, c).boxes = plan.boxes[p]
  BY DEF Profile
<1>2. ScopedProfiles(profiles, box) = {Profile(p, c) : p \in AtBox(box)}
  BY <1>1 DEF ScopedProfiles, AtBox
<1>3. AtBox(box) \subseteq Weighed
  BY DEF AtBox
<1>4. candidates = {Profile(p, c) : p \in fits}
  BY <1>1, <1>2, <1>3 DEF Fits
<1>5. fits \subseteq Weighed /\ \A p \in fits : Profile(p, c).pet = p
  BY <1>1, <1>3 DEF Fits
<1>6. IsFiniteSet(candidates)
  <2>1. IsFiniteSet(fits)
    BY <1>5, FS_Subset, WeighingAssumption DEF Weighed
  <2>2. [p \in fits |-> Profile(p, c)] \in Surjection(fits, candidates)
    BY <1>4 DEF Surjection
  <2>3. QED BY <2>1, <2>2, FS_Surjection
<1> HIDE DEF profiles, candidates, fits
<1>7. Attribute(x, profiles, box) =
        IF candidates = {} THEN NoGuess
        ELSE IF Cardinality(candidates) > 1
             THEN [NoGuess EXCEPT !.grade = "CONFLICTED", !.rivals = {f.pet : f \in candidates}]
             ELSE LET winner == CHOOSE f \in candidates : TRUE
                  IN [pet |-> winner.pet, basis |-> "weight",
                      grade |-> IF winner.corroborated THEN "INFERRED" ELSE "UNVERIFIED", rivals |-> {}]
  BY DEF Attribute, candidates
<1>8. CASE fits = {}
  BY <1>4, <1>7, <1>8 DEF NoGuess, profiles, fits, Guessed
<1>9. CASE fits # {} /\ \A p, q \in fits : p = q
  <2>1. PICK p \in fits : fits = {p}
    BY <1>9
  <2>2. candidates = {Profile(p, c)}
    BY <1>4, <2>1
  <2>3. ~(Cardinality(candidates) > 1) /\ candidates # {}
    BY <1>6, <2>2, SeveralMembers
  <2>4. (CHOOSE f \in candidates : TRUE) = Profile(p, c)
    BY <2>2
  <2>5. Attribute(x, profiles, box).pet = p /\ Attribute(x, profiles, box).rivals = {}
    <3>1. Profile(p, c).pet = p
      BY <1>5
    <3>2. Attribute(x, profiles, box) =
            [pet |-> p, basis |-> "weight",
             grade |-> IF Profile(p, c).corroborated THEN "INFERRED" ELSE "UNVERIFIED", rivals |-> {}]
      BY <1>7, <2>3, <2>4, <3>1, Zenon
    <3>3. QED BY <3>2
  <2>6. QED BY <1>9, <2>1, <2>5 DEF profiles, fits, Guessed
<1>10. CASE \E p, q \in fits : p # q
  <2>1. \E f, g \in candidates : f # g
    BY <1>4, <1>5, <1>10
  <2>2. Cardinality(candidates) > 1 /\ candidates # {}
    BY <1>6, <2>1, SeveralMembers
  <2>3. {f.pet : f \in candidates} = fits
    BY <1>4, <1>5
  <2>4. Attribute(x, profiles, box).pet = 0 /\ Attribute(x, profiles, box).rivals = fits
    BY <1>7, <2>2, <2>3 DEF NoGuess
  <2>5. QED BY <1>10, <2>4 DEF profiles, fits, Guessed
<1>11. QED BY <1>8, <1>9, <1>10 DEF profiles, fits
-----------------------------------------------------------------------------
LEMMA ProfilesByPet ==
    ASSUME NEW vs, NEW earlier
    PROVE  \E c : BuildProfiles(vs, earlier) = {Profile(p, c) : p \in Weighed}
<1> DEFINE c == [p \in Animals |-> Corroborated(entered[p], ConfirmedWeights(p, vs, earlier))]
<1>1. BuildProfiles(vs, earlier) = {Profile(p, c) : p \in Weighed}
  BY DEF BuildProfiles, Profile, Weighed
<1>2. QED BY <1>1

(* Two guesses of one visit, from whatever each was trained on.            *)
LEMMA OneName ==
    ASSUME NEW x, NEW box, NEW c, NEW d
    PROVE  /\ Attribute(x, {Profile(p, c) : p \in Weighed}, box).pet
              = Attribute(x, {Profile(p, d) : p \in Weighed}, box).pet
           /\ Attribute(x, {Profile(p, c) : p \in Weighed}, box).rivals
              = Attribute(x, {Profile(p, d) : p \in Weighed}, box).rivals
<1>1. CASE x = 0
  BY <1>1 DEF Attribute, NoGuess
<1>2. CASE x # 0
  <2>1. /\ Guessed(Attribute(x, {Profile(p, c) : p \in Weighed}, box), Fits(x, box))
        /\ Guessed(Attribute(x, {Profile(p, d) : p \in Weighed}, box), Fits(x, box))
    BY <1>2, GuessByWeight
  <2>2. QED BY <2>1 DEF Guessed
<1>3. QED BY <1>1, <1>2

LEMMA ViewsAgreement == ASSUME VisitsInv PROVE ViewsAgree
<1> SUFFICES ASSUME NEW v \in Visits, Seen(v), NEW vs \in {{v}, Visits}
             PROVE  /\ CardPet(v) # 0 => Badge(v) = NoGuess
                    /\ visitRow[v].pet # 0 => Insight(v, vs).pet = CardPet(v)
                    /\ CardPet(v) = 0 => /\ Insight(v, vs).pet = Badge(v).pet
                                         /\ Insight(v, vs).rivals = Badge(v).rivals
  BY DEF ViewsAgree, CardPet
<1>1. CardPet(v) # 0 => Badge(v) = NoGuess
  BY DEF Badge
<1>2. CASE visitRow[v].pet # 0
  <2>1. Insight(v, vs).pet = CardPet(v) /\ CardPet(v) # 0
    BY <1>2 DEF Insight, AttributeVisit, CardPet
  <2>2. QED BY <1>1, <1>2, <2>1
<1>3. CASE visitRow[v].pet = 0 /\ CardPet(v) = 0
  <2>1. /\ Insight(v, vs) = Attribute(VisitWeight(visitRow[v]), BuildProfiles(vs, FALSE), plan.visits[v].box)
        /\ Badge(v) = Attribute(VisitWeight(visitRow[v]), BuildProfiles(Visits, TRUE), plan.visits[v].box)
    BY <1>3 DEF Insight, Badge, AttributeVisit
  <2>2. PICK c : BuildProfiles(vs, FALSE) = {Profile(p, c) : p \in Weighed}
    BY ProfilesByPet
  <2>3. PICK d : BuildProfiles(Visits, TRUE) = {Profile(p, d) : p \in Weighed}
    BY ProfilesByPet
  <2>4. /\ Insight(v, vs) = Attribute(VisitWeight(visitRow[v]), {Profile(p, c) : p \in Weighed}, plan.visits[v].box)
        /\ Badge(v) = Attribute(VisitWeight(visitRow[v]), {Profile(p, d) : p \in Weighed}, plan.visits[v].box)
    BY <2>1, <2>2, <2>3
  <2>5. Insight(v, vs).pet = Badge(v).pet /\ Insight(v, vs).rivals = Badge(v).rivals
    BY <2>4, OneName
  <2>6. QED BY <1>3, <2>5
<1>4. QED BY <1>1, <1>2, <1>3

LEMMA OwnName == ASSUME VisitsInv PROVE NamedRight
<1> SUFFICES ASSUME NEW v \in Visits, NEW cat, cat = plan.visits[v].cat, Seen(v), visitRow[v].pet = 0,
                    entered[cat] # 0, InBand(VisitWeight(visitRow[v]), entered[cat]),
                    plan.boxes[cat] = {} \/ plan.visits[v].box \in plan.boxes[cat]
             PROVE  Badge(v).pet \in {0, cat} /\ \A vs \in {{v}, Visits} : Insight(v, vs).pet \in {0, cat}
  BY DEF NamedRight
<1> DEFINE x == VisitWeight(visitRow[v])
           box == plan.visits[v].box
<1>1. cat \in Animals
  BY DEF VisitsInv, PlanOK, Visits
<1>2. cat \in Fits(x, box)
  BY <1>1 DEF Fits, AtBox, Weighed
<1>3. ASSUME NEW vs, NEW earlier
      PROVE  Attribute(x, BuildProfiles(vs, earlier), box).pet \in {0, cat}
  <2>1. PICK c : BuildProfiles(vs, earlier) = {Profile(p, c) : p \in Weighed}
    BY ProfilesByPet
  <2>2. CASE x = 0
    BY <2>2 DEF Attribute, NoGuess
  <2>3. CASE x # 0
    <3>1. Guessed(Attribute(x, BuildProfiles(vs, earlier), box), Fits(x, box))
      BY <2>1, <2>3, GuessByWeight
    <3>2. QED BY <1>2, <3>1 DEF Guessed
  <2>4. QED BY <2>2, <2>3
<1>4. Badge(v) = NoGuess \/ Badge(v) = Attribute(x, BuildProfiles(Visits, TRUE), box)
  BY DEF Badge
<1>5. \A vs \in {{v}, Visits} : Insight(v, vs) = Attribute(x, BuildProfiles(vs, FALSE), box)
  BY DEF Insight, AttributeVisit
<1>6. Badge(v).pet \in {0, cat}
  <2>1. Attribute(x, BuildProfiles(Visits, TRUE), box).pet \in {0, cat}
    BY <1>3
  <2>2. NoGuess.pet = 0
    BY DEF NoGuess
  <2>3. QED BY <1>4, <2>1, <2>2
<1>7. QED BY <1>3, <1>5, <1>6

LEMMA OwnWeight == ASSUME WInv PROVE SettledOnItsOwn
<1> SUFFICES ASSUME \A u, v \in Visits : plan.visits[u].cat # plan.visits[v].cat =>
                        Distance(plan.visits[u].box_g, plan.visits[v].settled_g) > MaxValueDelta,
                    NEW v \in Visits, visitRow[v].recalc # 0
             PROVE  \E u \in pushed : /\ plan.visits[u].settled_g = visitRow[v].recalc
                                      /\ plan.visits[u].cat = plan.visits[v].cat
                                      /\ plan.visits[u].box = plan.visits[v].box
  BY DEF SettledOnItsOwn
<1>1. PICK u \in pushed : Near(v, u)
  BY DEF WInv, WeightsInv
<1>2. u \in Visits /\ plan.visits[v].box_g \in Nat /\ plan.visits[u].settled_g \in Nat
  BY DEF WInv, VisitsInv, PlanOK, Visits
<1>3. Distance(plan.visits[v].box_g, plan.visits[u].settled_g) \in Int
  BY <1>2 DEF Distance
<1>4. plan.visits[u].cat = plan.visits[v].cat
  BY <1>1, <1>2, <1>3, WeighingAssumption DEF Near
<1>5. QED BY <1>1, <1>4 DEF Near

(* One odd weight among enough confirmed ones leaves the median in band.   *)
LEMMA OddOneOut == ASSUME VisitsInv PROVE OneOddWeightHarmless
<1> SUFFICES ASSUME NEW p \in Animals,
                    Cardinality(DOMAIN ConfirmedWeights(p, Visits, TRUE)) >= MinCorroborating,
                    Cardinality({i \in DOMAIN ConfirmedWeights(p, Visits, TRUE) :
                        ~InBand(ConfirmedWeights(p, Visits, TRUE)[i], entered[p])}) <= 1
             PROVE  Corroborated(entered[p], ConfirmedWeights(p, Visits, TRUE))
  BY DEF OneOddWeightHarmless
<1> DEFINE s     == ConfirmedWeights(p, Visits, TRUE)
           named == {v \in Visits : visitRow[v].ts # 0 /\ visitRow[v].pet = p}
           past  == plan.earlier[p]
           w     == entered[p]
           odds  == {i \in DOMAIN s : ~InBand(s[i], w)}
<1>1. /\ DOMAIN s = named \cup DOMAIN past
      /\ \A i \in named : s[i] = VisitWeight(visitRow[i])
      /\ \A i \in DOMAIN s \ named : s[i] = past[i]
  <2>1. s = [v \in named \cup DOMAIN past |-> IF v \in named THEN VisitWeight(visitRow[v]) ELSE past[v]]
    BY DEF ConfirmedWeights
  <2> HIDE DEF s, named, past
  <2>2. QED BY <2>1
<1>2. IsSample(s, DOMAIN s)
  <2>1. IsFiniteSet(Visits) /\ IsFiniteSet(DOMAIN past) /\ \A v \in DOMAIN past : past[v] \in Nat
    BY DEF VisitsInv, PlanOK, Visits
  <2>2. IsFiniteSet(named)
    BY <2>1, FS_Subset
  <2>3. \A v \in named : VisitWeight(visitRow[v]) \in Nat
    BY DEF VisitsInv, VisitRows, VisitWeight
  <2>4. IsFiniteSet(DOMAIN s)
    <3> HIDE DEF s, named, past
    <3>1. QED BY <1>1, <2>1, <2>2, FS_Union
  <2>5. QED BY <1>1, <2>1, <2>3, <2>4 DEF IsSample
<1>3. w \in Nat
  BY DEF VisitsInv
<1>4. IsFiniteSet(DOMAIN s) /\ Cardinality(DOMAIN s) \in Nat /\ Cardinality(DOMAIN s) >= 3
  <2>1. Cardinality(DOMAIN s) >= MinCorroborating
    OBVIOUS
  <2> HIDE DEF s
  <2>2. IsFiniteSet(DOMAIN s) /\ Cardinality(DOMAIN s) \in Nat
    BY <1>2, FS_CardinalityType DEF IsSample
  <2>3. QED BY <2>1, <2>2, WeighingAssumption
<1> HIDE DEF s
<1>5. \E odd : \A i \in DOMAIN s \ {odd} : InBand(s[i], w)
  <2>1. odds \in SUBSET DOMAIN s
    OBVIOUS
  <2>2. IsFiniteSet(odds) /\ Cardinality(odds) \in Nat /\ Cardinality(odds) <= 1
    BY <1>4, <2>1, FS_Subset, FS_CardinalityType DEF s
  <2>3. Cardinality(odds) = 0 \/ Cardinality(odds) = 1
    BY <2>2
  <2>4. odds = {} \/ \E odd : odds = {odd}
    BY <2>2, <2>3, FS_EmptySet, FS_Singleton
  <2>5. QED BY <2>4
<1>6. InBand(WeightStats(s), w)
  BY <1>2, <1>3, <1>4, <1>5, StatsInBand
<1>7. QED BY <1>6 DEF Corroborated, s
-----------------------------------------------------------------------------
LEMMA InvHolds == WeighingSpec => [](WInv /\ ClockInv)
<1>1. WeighingInit => WInv /\ ClockInv
  BY WInvInit DEF WeighingInit, ClockInv
<1>2. WInv /\ ClockInv /\ [WeighingNext]_weighingVars => (WInv /\ ClockInv)'
  BY WInvStep
<1>3. QED BY <1>1, <1>2, PTL DEF WeighingSpec

(* However much of the past each was trained on, Insights and the Timeline *)
(* name one pet, or the same rivals, for a visit, unless only a step of    *)
(* its episode was recognised; and no badge is put beside a face           *)
(* (attribute, attribute_visit, _attach).                                  *)
THEOREM OneStory == WeighingSpec => []ViewsAgree
<1>1. WInv => ViewsAgree
  BY ViewsAgreement DEF WInv
<1>2. QED BY <1>1, InvHolds, PTL

(* A visit that weighs what its pet does, at a box the pet may use, is     *)
(* never given to another pet by weight, in either view (attribute,        *)
(* scoped_profiles).                                                       *)
THEOREM NeverAnothersVisit == WeighingSpec => []NamedRight
<1>1. WInv => NamedRight
  BY OwnName DEF WInv
<1>2. QED BY <1>1, InvHolds, PTL

(* A settled weight is put on a visit of its own pet and box, whenever it  *)
(* comes and whatever was reported meanwhile, if no other pet's visit      *)
(* weighs that much (match_visit).                                         *)
THEOREM NeverAnothersWeight == WeighingSpec => []SettledOnItsOwn
<1>1. WInv => SettledOnItsOwn
  BY OwnWeight
<1>2. QED BY <1>1, InvHolds, PTL

(* "One outlier ... must not drag a whole profile's grade down": whatever  *)
(* the number of confirmed visits, if at most one is out of the band of    *)
(* the entered weight, the profile is corroborated (weight_stats: medians, *)
(* of all or of what is left after trimming).                              *)
THEOREM OddWeightForgiven == WeighingSpec => []OneOddWeightHarmless
<1>1. WInv => OneOddWeightHarmless
  BY OddOneOut DEF WInv
<1>2. QED BY <1>1, InvHolds, PTL

(* The weights serve: for any household, visits and thresholds, the four   *)
(* together.                                                               *)
THEOREM WeightsServe == WeighingSpec => []WeighedRight
<1>1. NamedRight /\ ViewsAgree /\ OneOddWeightHarmless /\ SettledOnItsOwn => WeighedRight
  BY DEF WeighedRight
<1>2. QED BY <1>1, NeverAnothersVisit, OneStory, OddWeightForgiven, NeverAnothersWeight, PTL
-----------------------------------------------------------------------------
(* Feeding.  As long as the feeder goes by a list made of what is stored,  *)
(* each entry is a feed that is stored, at most a second early, and every  *)
(* feed up to the time it asks again is among them, or dispensed already.  *)
Kinds == {"meal", "oneOff"}
ListedRight(l, m, d) ==
    \A e \in l : /\ e.of \in Nat \X Kinds /\ IsStored(m, d, e.of)
                 /\ e.at \in Nat /\ now <= e.at /\ now < e.of[1]
                 /\ e.at <= e.of[1] /\ e.of[1] < e.at + Second
InTime(l, s, m, d, next) ==
    \A f \in Nat \X Kinds : now < f[1] /\ f[1] <= next /\ IsStored(m, d, f) =>
        f \in s \/ \E e \in l : e.of = f /\ e.at <= f[1]

FeedInv ==
    /\ now \in Nat
    /\ ~untold => /\ nextPoll \in Nat /\ followed = meals
                  /\ ListedRight(listed, meals, deferred)
                  /\ InTime(listed, served, meals, deferred, nextPoll)

(* Max of bounded naturals.                                                *)
LEMMA MaxThere ==
    ASSUME NEW n \in Nat, NEW S \in SUBSET (0 .. n), S # {}
    PROVE  Max(S) \in S /\ \A y \in S : y <= Max(S)
<1>1. PICK x \in S : \A y \in S : y <= x
  BY GreatestThere
<1>2. x \in S /\ \A y \in S : x >= y
  BY <1>1
<1>3. Max(S) \in S /\ \A y \in S : Max(S) >= y
  BY <1>2 DEF Max
<1>4. QED BY <1>3

(* Tomorrow ends more than a day from now.                                 *)
LEMMA CutoffFar == ASSUME now \in Nat PROVE Cutoff(now) \in Nat /\ now + Ticks < Cutoff(now)
<1> DEFINE q == now \div Ticks
<1>1. Ticks \in Nat /\ Ticks > 0
  BY FeedingAssumption
<1>2. q \in Nat /\ now % Ticks \in 0 .. Ticks - 1 /\ now = (Ticks * q) + (now % Ticks)
  BY <1>1
<1> HIDE DEF q
<1>3. (q + 2) * Ticks = (Ticks * q) + (2 * Ticks)
  BY <1>1, <1>2
<1>4. Ticks * q \in Nat /\ 2 * Ticks = Ticks + Ticks
  BY <1>1, <1>2
<1>5. Cutoff(now) = (Ticks * q) + (Ticks + Ticks)
  BY <1>3, <1>4 DEF Cutoff, q
<1>6. QED BY <1>1, <1>2, <1>4, <1>5

(* A countdown falls short of the time that is left by less than a second. *)
LEMMA CountdownShort ==
    ASSUME now \in Nat, NEW t \in Nat, now < t
    PROVE  /\ Countdown(t) \in Nat /\ now + Countdown(t) <= t /\ t < now + Countdown(t) + Second
           /\ Second \in Nat
<1> DEFINE rest == (t - now) % Second
           left == t - now
<1>1. Second \in Nat /\ Second > 0 /\ left \in Nat
  BY FeedingAssumption
<1>2. rest \in 0 .. Second - 1 /\ left \div Second \in Nat
      /\ left = (Second * (left \div Second)) + rest
  BY <1>1
<1>3. Second * (left \div Second) \in Nat
  BY <1>1, <1>2
<1> HIDE DEF rest
<1>4. rest <= left /\ rest < Second /\ rest \in Nat
  BY <1>1, <1>2, <1>3
<1>5. Countdown(t) = left - rest
  BY DEF Countdown, rest
<1>6. QED BY <1>1, <1>4, <1>5

(* A list covers the time up to its last feed, or, if it is empty, the     *)
(* time up to a day from now.                                              *)
LEMMA GivenInTime ==
    ASSUME now \in Nat, NEW m, NEW d, NEW l, NEW next,
           l = {[of |-> e.of, at |-> now + e.in] : e \in LatestFeeds(m, d)},
           next = now + Max({1, NextTick(LatestFeeds(m, d))})
    PROVE  next \in Nat /\ ListedRight(l, m, d) /\ \A s : InTime(l, s, m, d, next)
<1> DEFINE latest == LatestFeeds(m, d)
           last == Cutoff(now) - 1
           times == {e.in : e \in latest}
           F == FeedsIn(m, d, now + 1 .. last)
<1>1. last \in Nat /\ now + Ticks <= last /\ Ticks \in Nat /\ Ticks > 0
  BY CutoffFar, FeedingAssumption
<1>2. /\ \A f \in F : f \in Nat \X Kinds /\ now < f[1] /\ f[1] <= last /\ IsStored(m, d, f)
      /\ \A f \in Nat \X Kinds : now < f[1] /\ f[1] <= last /\ IsStored(m, d, f) => f \in F
  <2>1. \A f : f \in F <=> f \in (now + 1 .. last) \X Kinds /\ IsStored(m, d, f)
    BY DEF FeedsIn, Kinds
  <2>2. \A t : t \in now + 1 .. last <=> t \in Nat /\ now < t /\ t <= last
    BY <1>1
  <2>3. \A f : f \in (now + 1 .. last) \X Kinds <=> f \in Nat \X Kinds /\ now < f[1] /\ f[1] <= last
    BY <2>2
  <2> HIDE DEF F
  <2>4. QED BY <2>1, <2>3
<1>3. latest = {[of |-> f, in |-> Countdown(f[1])] : f \in F}
  BY DEF LatestFeeds
<1> HIDE DEF F, latest
<1>4. \A f \in F : /\ Countdown(f[1]) \in Nat /\ now + Countdown(f[1]) <= f[1]
                   /\ f[1] < now + Countdown(f[1]) + Second
  <2>1. \A f \in F : f[1] \in Nat /\ now < f[1]
    BY <1>2
  <2>2. QED BY <2>1, CountdownShort
<1>5. l = {[of |-> f, at |-> now + Countdown(f[1])] : f \in F}
  <2> DEFINE Entry(f) == [of |-> f, in |-> Countdown(f[1])]
             Heard(e) == [of |-> e.of, at |-> now + e.in]
  <2>1. l = {Heard(e) : e \in latest} /\ latest = {Entry(f) : f \in F}
    BY <1>3 DEF latest
  <2>2. \A f : Heard(Entry(f)) = [of |-> f, at |-> now + Countdown(f[1])]
    OBVIOUS
  <2> HIDE DEF Entry, Heard
  <2>3. l = {Heard(Entry(f)) : f \in F}
    BY <2>1
  <2>4. QED BY <2>2, <2>3
<1>6. NextTick(latest) \in Nat /\ now + NextTick(latest) <= last
  <2>1. CASE latest = {}
    <3>1. NextTick(latest) = EmptyTick
      BY <2>1 DEF NextTick
    <3>2. EmptyTick \in Nat /\ EmptyTick <= Ticks
      BY FeedingAssumption
    <3>3. QED BY <1>1, <3>1, <3>2
  <2>2. CASE latest # {}
    <3>1. \A x \in times : x \in Nat /\ now + x <= last
      <4>1. \A e \in latest : e.in \in Nat /\ now + e.in <= last
        <5> SUFFICES ASSUME NEW f \in F PROVE Countdown(f[1]) \in Nat /\ now + Countdown(f[1]) <= last
          BY <1>3
        <5>1. f[1] \in Nat /\ f[1] <= last
          BY <1>2
        <5>2. QED BY <1>1, <1>4, <5>1
      <4>2. QED BY <4>1
    <3>2. times \in SUBSET (0 .. last) /\ times # {}
      BY <1>1, <2>2, <3>1
    <3>3. Max(times) \in times
      BY <1>1, <3>2, MaxThere
    <3>4. NextTick(latest) = Max(times)
      BY <2>2 DEF NextTick
    <3>5. QED BY <3>1, <3>3, <3>4
  <2>3. QED BY <2>1, <2>2
<1>7. next \in Nat /\ next <= last
  <2> DEFINE n == NextTick(latest)
             S == {1, n}
  <2>1. n \in Nat /\ now + n <= last /\ next = now + Max(S)
    BY <1>6 DEF latest
  <2> HIDE DEF n
  <2>2. S \in SUBSET (0 .. n + 1) /\ S # {} /\ n + 1 \in Nat
    BY <2>1
  <2>3. Max(S) \in S
    BY <2>2, MaxThere
  <2> HIDE DEF S
  <2>4. Max(S) = 1 \/ Max(S) = n
    BY <2>3 DEF S
  <2>5. QED BY <1>1, <2>1, <2>4
<1>8. ListedRight(l, m, d)
  <2> SUFFICES ASSUME NEW f \in F
               PROVE  /\ f \in Nat \X Kinds /\ IsStored(m, d, f)
                      /\ now + Countdown(f[1]) \in Nat /\ now <= now + Countdown(f[1]) /\ now < f[1]
                      /\ now + Countdown(f[1]) <= f[1] /\ f[1] < now + Countdown(f[1]) + Second
    BY <1>5 DEF ListedRight
  <2>1. QED BY <1>2, <1>4
<1>9. ASSUME NEW s PROVE InTime(l, s, m, d, next)
  <2> SUFFICES ASSUME NEW f \in Nat \X Kinds, now < f[1], f[1] <= next, IsStored(m, d, f)
               PROVE  \E e \in l : e.of = f /\ e.at <= f[1]
    BY DEF InTime
  <2>1. f \in F
    <3>1. f[1] \in Nat
      OBVIOUS
    <3>2. f[1] <= last
      BY <1>1, <1>7, <3>1
    <3>3. QED BY <1>2, <3>2
  <2>2. [of |-> f, at |-> now + Countdown(f[1])] \in l
    BY <1>5, <2>1
  <2>3. QED BY <1>4, <2>1, <2>2
<1>10. QED BY <1>7, <1>8, <1>9

LEMMA FeedInit == FeedingInit => FeedInv
<1> SUFFICES ASSUME FeedingInit PROVE FeedInv
  OBVIOUS
<1>1. now \in Nat /\ followed = meals /\ deferred = {}
  BY DEF FeedingInit
<1>2. /\ listed = {[of |-> e.of, at |-> now + e.in] : e \in LatestFeeds(meals, deferred)}
      /\ nextPoll = now + Max({1, NextTick(LatestFeeds(meals, deferred))})
  BY <1>1 DEF FeedingInit
<1>3. /\ nextPoll \in Nat /\ ListedRight(listed, meals, deferred)
      /\ InTime(listed, served, meals, deferred, nextPoll)
  BY <1>1, <1>2, GivenInTime
<1>4. QED BY <1>1, <1>3 DEF FeedInv

(* What the server sent of what is stored now; one-off feeds gone by may   *)
(* be pruned.                                                              *)
LEMMA FollowsInTime ==
    ASSUME FeedInv, UNCHANGED now, NEW m, NEW d, Follows(Sent(m, d)), meals' = m,
           \A t \in Nat : now < t => (t \in deferred' <=> t \in d)
    PROVE  FeedInv'
<1>1. now' = now /\ now \in Nat
  BY DEF FeedInv
<1>2. /\ followed' = m
      /\ listed' = {[of |-> e.of, at |-> now + e.in] : e \in LatestFeeds(m, d)}
      /\ nextPoll' = now + Max({1, NextTick(LatestFeeds(m, d))})
  BY DEF Follows, Sent
<1>3. /\ nextPoll' \in Nat /\ ListedRight(listed', m, d)
      /\ InTime(listed', served', m, d, nextPoll')
  BY <1>1, <1>2, GivenInTime
<1>4. \A f \in Nat \X Kinds : now < f[1] => (IsStored(m, deferred', f) <=> IsStored(m, d, f))
  <2>1. \A f \in Nat \X Kinds : f[1] \in Nat
    OBVIOUS
  <2>2. QED BY <2>1 DEF IsStored
<1>5. ListedRight(listed, meals, deferred)'
  <2>1. \A e \in listed' : /\ e.of \in Nat \X Kinds /\ IsStored(m, deferred', e.of)
                           /\ e.at \in Nat /\ now <= e.at /\ now < e.of[1]
                           /\ e.at <= e.of[1] /\ e.of[1] < e.at + Second
    BY <1>3, <1>4 DEF ListedRight
  <2>2. QED BY <1>1, <2>1 DEF ListedRight
<1>6. InTime(listed, served, meals, deferred, nextPoll)'
  <2>1. \A f \in Nat \X Kinds : now < f[1] /\ f[1] <= nextPoll' /\ IsStored(m, deferred', f) =>
            f \in served' \/ \E e \in listed' : e.of = f /\ e.at <= f[1]
    BY <1>3, <1>4 DEF InTime
  <2>2. QED BY <1>1, <2>1 DEF InTime
<1>7. QED BY <1>1, <1>2, <1>3, <1>5, <1>6 DEF FeedInv

LEMMA StoreStep ==
    ASSUME FeedInv, UNCHANGED now, NEW m, NEW d, Store(m, d) PROVE FeedInv'
<1>1. now' = now /\ now \in Nat /\ meals' = m /\ deferred' = d
  BY DEF FeedInv, Store
<1>2. CASE Given(m, d)
  BY <1>1, <1>2, FollowsInTime DEF Given
<1>3. CASE untold' = TRUE
  BY <1>1, <1>3 DEF FeedInv
<1>4. QED BY <1>2, <1>3 DEF Store

LEMMA FetchStep == ASSUME FeedInv, UNCHANGED <<now, meals>>, FeedsAnswered PROVE FeedInv'
<1>1. /\ Follows(Sent(meals, deferred)) /\ deferred' = {u \in deferred : u > now}
  BY DEF FeedsAnswered, Given
<1>2. now' = now /\ now \in Nat /\ meals' = meals
  BY DEF FeedInv
<1>3. \A t \in Nat : now < t => (t \in deferred' <=> t \in deferred)
  BY <1>1, <1>2
<1>4. QED BY <1>1, <1>2, <1>3, FollowsInTime

LEMMA QueueStep == ASSUME FeedInv, TakesFeedQueue PROVE FeedInv'
<1>1. UNCHANGED <<now, meals>> /\ now \in Nat
  BY DEF FeedInv, TakesFeedQueue
<1>2. CASE FeedsAnswered
  BY <1>1, <1>2, FetchStep
<1>3. CASE \E u \in unsent :
              /\ Follows(u) /\ untold' = (u # Sent(meals, deferred))
              /\ deferred' = IF feedGet THEN {t \in deferred : t > now} ELSE deferred
  <2>1. PICK u \in unsent :
              /\ Follows(u) /\ untold' = (u # Sent(meals, deferred))
              /\ deferred' = IF feedGet THEN {t \in deferred : t > now} ELSE deferred
    BY <1>3
  <2>2. CASE u = Sent(meals, deferred)
    <3>1. \A t \in Nat : now < t => (t \in deferred' <=> t \in deferred)
      BY <1>1, <2>1
    <3>2. QED BY <1>1, <2>1, <2>2, <3>1, FollowsInTime
  <2>3. CASE u # Sent(meals, deferred)
    BY <1>1, <2>1, <2>3 DEF FeedInv
  <2>4. QED BY <2>2, <2>3
<1>4. QED BY <1>2, <1>3 DEF TakesFeedQueue

(* What a tick dispenses.                                                  *)
LEMMA TickCases ==
    ASSUME FeedInv, TickPasses
    PROVE  /\ now' = now + 1 /\ now \in Nat /\ UNCHANGED <<meals, deferred, followed, nextPoll, untold>>
           /\ \A e : e \in listed' <=> e \in listed /\ ~(e.at <= now')
           /\ \A f : f \in dispensed' <=> f \notin served /\ \E e \in listed : e.at <= now' /\ e.of = f
           /\ \A f : f \in served' <=> (f \in served \/ f \in dispensed') /\ f[1] >= now'
BY DEF FeedInv, TickPasses, stored

LEMMA TickStep == ASSUME FeedInv, TickPasses PROVE FeedInv'
<1>1. now' = now + 1 /\ now \in Nat /\ UNCHANGED <<meals, deferred, followed, nextPoll, untold>>
  BY TickCases
<1>2. ASSUME ~untold PROVE ListedRight(listed, meals, deferred)'
  <2> SUFFICES ASSUME NEW e \in listed'
               PROVE  /\ e.of \in Nat \X Kinds /\ IsStored(meals, deferred, e.of)
                      /\ e.at \in Nat /\ now' <= e.at /\ now' < e.of[1]
                      /\ e.at <= e.of[1] /\ e.of[1] < e.at + Second
    BY <1>1 DEF ListedRight
  <2>1. e \in listed /\ ~(e.at <= now')
    BY TickCases
  <2>2. /\ e.of \in Nat \X Kinds /\ IsStored(meals, deferred, e.of)
        /\ e.at \in Nat /\ e.at <= e.of[1] /\ e.of[1] < e.at + Second
    BY <1>2, <2>1 DEF FeedInv, ListedRight
  <2>3. e.of[1] \in Nat
    BY <2>2
  <2>4. QED BY <1>1, <2>1, <2>2, <2>3
<1>3. ASSUME ~untold PROVE InTime(listed, served, meals, deferred, nextPoll)'
  <2> SUFFICES ASSUME NEW f \in Nat \X Kinds, now' < f[1], f[1] <= nextPoll, IsStored(meals, deferred, f)
               PROVE  f \in served' \/ \E e \in listed' : e.of = f /\ e.at <= f[1]
    BY <1>1 DEF InTime
  <2>1. f[1] \in Nat /\ now < f[1] /\ f[1] >= now'
    BY <1>1
  <2>2. CASE f \in served
    BY <2>1, <2>2, TickCases
  <2>3. CASE f \notin served
    <3>1. PICK e \in listed : e.of = f /\ e.at <= f[1]
      BY <1>3, <2>1, <2>3 DEF FeedInv, InTime
    <3>2. CASE e.at <= now'
      <4>1. f \in dispensed'
        BY <2>3, <3>1, <3>2, TickCases
      <4>2. QED BY <2>1, <4>1, TickCases
    <3>3. CASE ~(e.at <= now')
      <4>1. e \in listed'
        BY <3>3, TickCases
      <4>2. QED BY <3>1, <4>1
    <3>4. QED BY <3>2, <3>3
  <2>4. QED BY <2>2, <2>3
<1>4. QED BY <1>1, <1>2, <1>3 DEF FeedInv

LEMMA FeedStep == ASSUME FeedInv, [FeedingNext]_feedingVars PROVE FeedInv'
<1>1. CASE Fetches
  BY <1>1, FetchStep DEF Fetches
<1>2. CASE TickPasses
  BY <1>2, TickStep
<1>3. CASE TakesFeedQueue
  BY <1>3, QueueStep
<1>4. CASE SavesSchedule
  <2>1. PICK m \in Schedules : Store(m, draft.oneOff)
    BY <1>4 DEF SavesSchedule
  <2>2. UNCHANGED now
    BY <1>4 DEF SavesSchedule
  <2>3. QED BY <2>1, <2>2, StoreStep
<1>5. CASE HomeAssistantSaves
  <2>1. PICK m \in Schedules : Store(m, {})
    BY <1>5 DEF HomeAssistantSaves
  <2>2. UNCHANGED now
    BY <1>5 DEF HomeAssistantSaves
  <2>3. QED BY <2>1, <2>2, StoreStep
<1>6. CASE ChangesDeferred
  BY <1>6 DEF FeedInv, ChangesDeferred
<1>7. CASE ReportsSchedule
  <2>1. /\ UNCHANGED <<now, followed, listed, served, nextPoll>>
        /\ meals' = followed /\ deferred' = {} /\ untold' = (untold \/ deferred # {})
    BY <1>7 DEF ReportsSchedule, feeder
  <2>2. ASSUME ~untold'
        PROVE  UNCHANGED <<meals, deferred>> /\ ~untold
    BY <2>1, <2>2 DEF FeedInv
  <2>3. QED BY <2>1, <2>2 DEF FeedInv, ListedRight, InTime
<1>8. CASE OpensEditor \/ ChangesTransport \/ FeedServerRestarts \/ UNCHANGED feedingVars
  <2>1. UNCHANGED <<now, meals, deferred, followed, listed, served, nextPoll, untold>>
    BY <1>8 DEF OpensEditor, ChangesTransport, FeedServerRestarts, feedingVars, stored, feeder
  <2>2. QED BY <2>1 DEF FeedInv, ListedRight, InTime
<1>9. QED BY <1>1, <1>2, <1>3, <1>4, <1>5, <1>6, <1>7, <1>8 DEF FeedingNext

(* Nothing stored is missed, by more than a second, and nothing is         *)
(* dispensed that is not stored, while the feeder goes by a list made of   *)
(* what is stored (_build_latest, _compute_next_tick).                     *)
THEOREM MealsAsStored == FeedingSpec => FedAsStored
<1>1. FeedInv /\ [FeedingNext]_feedingVars =>
        [now' # now /\ ~untold =>
          /\ due' \subseteq served'
          /\ \A f \in dispensed' :
               /\ f[1] \in now' .. now' + Second - 1
               /\ IsStored(meals, deferred, f)]_feedingVars
  <2> SUFFICES ASSUME FeedInv, FeedingNext, now' # now, ~untold
               PROVE  /\ due' \subseteq served'
                      /\ \A f \in dispensed' :
                           f[1] \in now' .. now' + Second - 1 /\ IsStored(meals, deferred, f)
    BY DEF feedingVars
  <2>1. TickPasses
    BY DEF FeedingNext, Fetches, TakesFeedQueue, OpensEditor, SavesSchedule, HomeAssistantSaves, ChangesDeferred,
           ReportsSchedule, ChangesTransport, FeedServerRestarts
  <2>2. /\ now' = now + 1 /\ now \in Nat /\ nextPoll > now /\ nextPoll \in Nat
        /\ due' = FeedsIn(meals, deferred, {now'})
    BY <2>1 DEF FeedInv, TickPasses
  <2>3. ASSUME NEW f \in due' PROVE f \in served'
    <3>1. f \in {now'} \X Kinds /\ IsStored(meals, deferred, f)
      BY <2>2 DEF FeedsIn, Kinds
    <3>2. f \in Nat \X Kinds /\ f[1] = now'
      BY <2>2, <3>1
    <3>3. now < f[1] /\ f[1] <= nextPoll /\ f[1] >= now'
      BY <2>2, <3>2
    <3>4. CASE f \in served
      BY <2>1, <3>3, <3>4, TickCases
    <3>5. CASE f \notin served
      <4>1. PICK e \in listed : e.of = f /\ e.at <= f[1]
        BY <3>1, <3>2, <3>3, <3>5 DEF FeedInv, InTime
      <4>2. f \in dispensed'
        BY <2>1, <3>2, <3>5, <4>1, TickCases
      <4>3. QED BY <2>1, <3>3, <4>2, TickCases
    <3>6. QED BY <3>4, <3>5
  <2>4. ASSUME NEW f \in dispensed'
        PROVE  f[1] \in now' .. now' + Second - 1 /\ IsStored(meals, deferred, f)
    <3>1. PICK e \in listed : e.at <= now' /\ e.of = f
      BY <2>1, TickCases
    <3>2. /\ f \in Nat \X Kinds /\ IsStored(meals, deferred, f) /\ e.at \in Nat
          /\ now < f[1] /\ f[1] < e.at + Second
      BY <3>1 DEF FeedInv, ListedRight
    <3>3. f[1] \in Nat /\ Second \in Nat
      BY <3>2, FeedingAssumption
    <3>4. QED BY <2>2, <3>1, <3>2, <3>3
  <2>5. QED BY <2>3, <2>4
<1>2. QED BY <1>1, FeedInit, FeedStep, PTL DEF FeedingSpec, FedAsStored
-----------------------------------------------------------------------------
(* Timeline.  A page: rows in some order, each with its time.              *)
IsPage(p) == p \in Seq(rows) /\ \A i \in DOMAIN p : p[i].ts \in 0 .. MaxTime

LEMMA PageOf == ASSUME NEW p, IsPage(p) PROVE \E n \in Nat : Len(p) = n /\ DOMAIN p = 1 .. n
BY DEF IsPage

(* Of a set of rows of a page, by time and then by place.                  *)
LEMMA SoonestThere ==
    ASSUME NEW p, IsPage(p), NEW S, S \subseteq DOMAIN p, S # {}
    PROVE  Soonest(p, S) \in S /\ \A j \in S \ {Soonest(p, S)} : Sooner(p, Soonest(p, S), j)
<1>1. S \subseteq Nat /\ \A i \in S : p[i].ts \in Nat
  BY PageOf DEF IsPage
<1> DEFINE times == {p[i].ts : i \in S}
<1>2. times \subseteq Nat /\ times # {}
  BY <1>1
<1>3. PICK t \in times : \A u \in times : t <= u
  BY <1>2, LeastThere
<1> DEFINE first == {i \in S : p[i].ts = t}
<1>4. first \subseteq Nat /\ first # {}
  BY <1>1, <1>3
<1>5. PICK x \in first : \A y \in first : x <= y
  BY <1>4, LeastThere
<1>6. x \in S /\ p[x].ts = t /\ \A j \in S : t <= p[j].ts
  BY <1>3, <1>5
<1>7. ASSUME NEW j \in S \ {x} PROVE Sooner(p, x, j)
  <2>1. x \in Nat /\ j \in Nat /\ x # j /\ t \in Nat /\ p[j].ts \in Nat /\ t <= p[j].ts
    BY <1>1, <1>2, <1>3, <1>6
  <2>2. p[j].ts = t => x <= j
    BY <1>5
  <2>3. QED BY <1>6, <2>1, <2>2 DEF Sooner
<1>8. \E i \in S : \A j \in S \ {i} : Sooner(p, i, j)
  BY <1>6, <1>7
<1>9. QED BY <1>8 DEF Soonest

LEMMA LatestThere ==
    ASSUME NEW p, IsPage(p), NEW S, S \subseteq DOMAIN p, S # {}
    PROVE  Latest(p, S) \in S /\ \A j \in S \ {Latest(p, S)} : Sooner(p, j, Latest(p, S))
<1>0. PICK n \in Nat : DOMAIN p = 1 .. n
  BY PageOf
<1>1. S \subseteq 0 .. n /\ MaxTime \in Nat /\ \A i \in S : p[i].ts \in 0 .. MaxTime
  BY <1>0, TimelineAssumption DEF IsPage
<1> DEFINE times == {p[i].ts : i \in S}
<1>2. times \subseteq 0 .. MaxTime /\ times # {}
  BY <1>1
<1>3. PICK t \in times : \A u \in times : u <= t
  <2> HIDE DEF times
  <2>1. QED BY <1>1, <1>2, GreatestThere
<1> DEFINE last == {i \in S : p[i].ts = t}
<1>4. last \subseteq 0 .. n /\ last # {}
  BY <1>1, <1>3
<1>5. PICK x \in last : \A y \in last : y <= x
  BY <1>4, GreatestThere
<1>6. x \in S /\ p[x].ts = t /\ \A j \in S : p[j].ts <= t
  BY <1>3, <1>5
<1>7. ASSUME NEW j \in S \ {x} PROVE Sooner(p, j, x)
  <2>1. x \in Nat /\ j \in Nat /\ x # j /\ t \in Nat /\ p[j].ts \in Nat /\ p[j].ts <= t
    BY <1>1, <1>2, <1>3, <1>6
  <2>2. p[j].ts = t => j <= x
    BY <1>5
  <2>3. QED BY <1>6, <2>1, <2>2 DEF Sooner
<1>8. \E i \in S : \A j \in S \ {i} : Sooner(p, j, i)
  BY <1>6, <1>7
<1>9. QED BY <1>8 DEF Latest

LEMMA FirstThere == ASSUME NEW S, S \subseteq Nat, S # {} PROVE First(S) \in S
BY LeastThere DEF First

LEMMA FirstWithThere ==
    ASSUME NEW p, IsPage(p), NEW S, S \subseteq DOMAIN p, NEW codes, NEW other, other \in S
    PROVE  /\ FirstWith(p, S, codes, other) \in S
           /\ (\E i \in S : p[i].code \in codes) => p[FirstWith(p, S, codes, other)].code \in codes
<1> DEFINE having == {i \in S : p[i].code \in codes}
<1>1. FirstWith(p, S, codes, other) = IF having # {} THEN Soonest(p, having) ELSE other
  BY DEF FirstWith
<1>2. having # {} => Soonest(p, having) \in having
  BY SoonestThere
<1>3. QED BY <1>1, <1>2

(* Gaps and places are naturals, so that a nearest card is one of them.    *)
LEMMA NearestThere ==
    ASSUME NEW p, IsPage(p), NEW i \in DOMAIN p, NEW cards, cards \subseteq DOMAIN p, cards # {}
    PROVE  /\ Nearest(p, i, cards) \in cards
           /\ \A g \in cards : Gap(p, i, Nearest(p, i, cards)) <= Gap(p, i, g)
<1>1. ASSUME NEW h \in cards PROVE Gap(p, i, h) \in Nat
  <2>1. p[h].ts \in Nat /\ p[i].ts \in Nat
    BY DEF IsPage
  <2>2. QED BY <2>1 DEF Gap
<1>2. ASSUME NEW h \in cards PROVE Place(p, h) \in Nat
  <2>1. PICK n \in Nat : Len(p) = n /\ DOMAIN p = 1 .. n
    BY PageOf
  <2>2. h \in Nat /\ h \in DOMAIN p
    BY <2>1
  <2>3. CASE p[h].rel = NoEpisode
    <3>1. Len(p) \in Nat
      BY <2>1
    <3>2. QED BY <2>2, <2>3, <3>1 DEF Place
  <2>4. CASE p[h].rel # NoEpisode
    <3> DEFINE same == {j \in DOMAIN p : p[j].rel = p[h].rel}
    <3>1. same \subseteq Nat /\ same # {}
      BY <2>1, <2>2
    <3>2. First(same) \in Nat
      BY <3>1, FirstThere
    <3>3. QED BY <2>4, <3>2 DEF Place
  <2>5. QED BY <2>3, <2>4
<1> DEFINE gaps == {Gap(p, i, h) : h \in cards}
<1>3. gaps \subseteq Nat /\ gaps # {}
  BY <1>1
<1>4. PICK d \in gaps : \A e \in gaps : d <= e
  BY <1>3, LeastThere
<1> DEFINE close == {h \in cards : Gap(p, i, h) = d}
           places == {Place(p, h) : h \in close}
<1>5. places \subseteq Nat /\ places # {}
  BY <1>2, <1>4
<1>6. PICK q \in places : \A e \in places : q <= e
  BY <1>5, LeastThere
<1>7. PICK x \in close : Place(p, x) = q
  BY <1>6
<1>8. x \in cards /\ Gap(p, i, x) = d /\ \A g \in cards : d <= Gap(p, i, g)
  BY <1>4, <1>7
<1>9. ASSUME NEW g \in cards
      PROVE  Gap(p, i, x) < Gap(p, i, g) \/ (Gap(p, i, x) = Gap(p, i, g) /\ Place(p, x) <= Place(p, g))
  <2>1. Gap(p, i, g) = d => Place(p, x) <= Place(p, g)
    BY <1>6, <1>7
  <2>2. QED BY <1>1, <1>8, <2>1
<1> DEFINE Best(h) == \A g \in cards :
               Gap(p, i, h) < Gap(p, i, g) \/ (Gap(p, i, h) = Gap(p, i, g) /\ Place(p, h) <= Place(p, g))
<1>10. Best(x)
  BY <1>9
<1>11. Nearest(p, i, cards) = CHOOSE h \in cards : Best(h)
  BY DEF Nearest
<1> HIDE DEF Best
<1>12. Nearest(p, i, cards) \in cards /\ Best(Nearest(p, i, cards))
  BY <1>8, <1>10, <1>11
<1>13. QED BY <1>1, <1>12 DEF Best
-----------------------------------------------------------------------------
(* The passes.  Each puts rows that are on no card yet under a row that    *)
(* heads one, or under one of the new rows that heads itself.              *)
Carded(p, of) ==
    /\ DOMAIN of \subseteq DOMAIN p
    /\ \A i \in DOMAIN of : of[i] \in DOMAIN of /\ of[of[i]] = of[i]

LEMMA CardedJoined ==
    ASSUME NEW p, NEW of, Carded(p, of), NEW new,
           DOMAIN new \subseteq DOMAIN p \ DOMAIN of,
           \A i \in DOMAIN new : \/ new[i] \in Heads(of)
                                 \/ new[i] \in DOMAIN new /\ new[new[i]] = new[i]
    PROVE  /\ Carded(p, Joined(new, of))
           /\ DOMAIN Joined(new, of) = DOMAIN new \cup DOMAIN of
           /\ \A i \in DOMAIN of : Joined(new, of)[i] = of[i]
           /\ \A i \in DOMAIN new : Joined(new, of)[i] = new[i]
<1> DEFINE joined == Joined(new, of)
<1>1. /\ DOMAIN joined = DOMAIN new \cup DOMAIN of
      /\ \A i \in DOMAIN new : joined[i] = new[i]
      /\ \A i \in DOMAIN of : joined[i] = of[i]
  BY DEF Joined
<1> HIDE DEF joined
<1>2. ASSUME NEW i \in DOMAIN joined PROVE joined[i] \in DOMAIN joined /\ joined[joined[i]] = joined[i]
  <2>1. CASE i \in DOMAIN of
    BY <1>1, <2>1 DEF Carded
  <2>2. CASE i \in DOMAIN new
    <3>1. CASE new[i] \in Heads(of)
      BY <1>1, <2>2, <3>1 DEF Heads
    <3>2. CASE new[i] \in DOMAIN new /\ new[new[i]] = new[i]
      BY <1>1, <2>2, <3>2
    <3>3. QED BY <2>2, <3>1, <3>2
  <2>3. QED BY <1>1, <2>1, <2>2
<1>3. QED BY <1>1, <1>2 DEF Carded, joined

Extends(p, of, more) ==
    /\ Carded(p, more)
    /\ DOMAIN of \subseteq DOMAIN more
    /\ \A i \in DOMAIN of : more[i] = of[i]

LEMMA JoinedExtends ==
    ASSUME NEW p, NEW of, Carded(p, of), NEW new,
           DOMAIN new \subseteq DOMAIN p \ DOMAIN of,
           \A i \in DOMAIN new : new[i] \in Heads(of) \/ (new[i] \in DOMAIN new /\ new[new[i]] = new[i])
    PROVE  Extends(p, of, Joined(new, of))
<1>1. Carded(p, Joined(new, of))
  BY CardedJoined
<1>2. DOMAIN Joined(new, of) = DOMAIN new \cup DOMAIN of /\ \A i \in DOMAIN of : Joined(new, of)[i] = of[i]
  BY CardedJoined
<1>3. QED BY <1>1, <1>2 DEF Extends

LEMMA HeadThere ==
    ASSUME NEW p, IsPage(p), NEW i \in Anchors(p)
    PROVE  /\ HeadOf(p, p[i].rel) \in Episode(p, p[i].rel)
           /\ (\E j \in Episode(p, p[i].rel) : p[j].code \in AnchorCodes)
                => p[HeadOf(p, p[i].rel)].code \in AnchorCodes
<1> DEFINE ep == Episode(p, p[i].rel)
<1>1. ep \subseteq DOMAIN p /\ ep # {}
  BY DEF Episode, Anchors
<1> HIDE DEF ep
<1>2. Latest(p, ep) \in ep
  BY <1>1, LatestThere
<1>3. /\ FirstWith(p, ep, AnchorCodes, Latest(p, ep)) \in ep
      /\ (\E j \in ep : p[j].code \in AnchorCodes) => p[FirstWith(p, ep, AnchorCodes, Latest(p, ep))].code \in AnchorCodes
  BY <1>1, <1>2, FirstWithThere
<1>4. QED BY <1>3 DEF HeadOf, ep

(* An episode's anchors are on one card, which one of them heads.          *)
LEMMA EpisodeCardsCarded ==
    ASSUME NEW p, IsPage(p)
    PROVE  /\ Carded(p, EpisodeCards(p))
           /\ \A i \in DOMAIN EpisodeCards(p) : EpisodeCards(p)[i] \in Anchors(p) /\ p[EpisodeCards(p)[i]].rel = p[i].rel
<1> DEFINE of == EpisodeCards(p)
           all == {j \in Anchors(p) : p[j].rel # NoEpisode \/ Kind(p, j) = "toilet_visit"}
<1>1. DOMAIN of = all /\ \A i \in all : of[i] = IF p[i].rel = NoEpisode THEN i ELSE HeadOf(p, p[i].rel)
  BY DEF EpisodeCards
<1>2. all \subseteq Anchors(p) /\ Anchors(p) \subseteq DOMAIN p
  BY DEF Anchors
<1>3. ASSUME NEW i \in all PROVE of[i] \in all /\ of[of[i]] = of[i] /\ p[of[i]].rel = p[i].rel
  <2>1. CASE p[i].rel = NoEpisode
    BY <1>1, <2>1
  <2>2. CASE p[i].rel # NoEpisode
    <3>1. of[i] = HeadOf(p, p[i].rel)
      BY <1>1, <2>2
    <3>2. of[i] \in Anchors(p) /\ p[of[i]].rel = p[i].rel
      BY <1>2, <3>1, HeadThere DEF Episode
    <3>3. of[i] \in all
      BY <2>2, <3>2
    <3>4. of[of[i]] = HeadOf(p, p[i].rel)
      BY <1>1, <2>2, <3>2, <3>3
    <3>5. QED BY <3>1, <3>2, <3>3, <3>4
  <2>3. QED BY <2>1, <2>2
<1>4. QED BY <1>1, <1>2, <1>3 DEF Carded

LEMMA LinkedExtends == ASSUME NEW p, IsPage(p), NEW of, Carded(p, of) PROVE Extends(p, of, Linked(p, of))
<1> DEFINE cards(i) == {h \in Heads(of) : /\ ParentOf(p, i) # NoEpisode
                                          /\ p[h].rel = ParentOf(p, i) /\ p[h].dev = p[i].dev}
           late == {j \in Left(p, of, {"cleaning", "pet", "motion", "error"}) : cards(j) # {}}
           new == [i \in late |-> First(cards(i))]
<1>1. late \subseteq DOMAIN p \ DOMAIN of
  BY DEF Left
<1>2. Linked(p, of) = Joined(new, of)
  BY DEF Linked
<1>3. ASSUME NEW i \in late PROVE First(cards(i)) \in Heads(of)
  <2>1. cards(i) \subseteq Nat /\ cards(i) # {}
    BY PageOf DEF Heads, Carded
  <2>2. QED BY <2>1, FirstThere
<1>4. DOMAIN new = late /\ \A i \in late : new[i] = First(cards(i))
  OBVIOUS
<1> HIDE DEF new, late, cards
<1>5. \A i \in DOMAIN new : new[i] \in Heads(of) \/ (new[i] \in DOMAIN new /\ new[new[i]] = new[i])
  BY <1>3, <1>4
<1>6. Extends(p, of, Joined(new, of))
  BY <1>1, <1>4, <1>5, JoinedExtends
<1>7. QED BY <1>2, <1>6

LEMMA NearbyExtends == ASSUME NEW p, IsPage(p), NEW of, Carded(p, of) PROVE Extends(p, of, Nearby(p, of))
<1> DEFINE cards(i) == {h \in Heads(of) : /\ IsVisit(p, h) /\ p[h].dev = p[i].dev
                                          /\ p[h].ts <= p[i].ts /\ Gap(p, i, h) <= VisitWindow}
           late == {j \in Left(p, of, {"cleaning"}) : cards(j) # {}}
           new == [i \in late |-> Nearest(p, i, cards(i))]
<1>1. late \subseteq DOMAIN p \ DOMAIN of
  BY DEF Left
<1>2. Nearby(p, of) = Joined(new, of)
  BY DEF Nearby
<1>3. ASSUME NEW i \in late PROVE Nearest(p, i, cards(i)) \in Heads(of)
  <2>1. cards(i) \subseteq DOMAIN p /\ cards(i) # {} /\ i \in DOMAIN p
    BY <1>1 DEF Heads, Carded
  <2>2. QED BY <2>1, NearestThere
<1>4. DOMAIN new = late /\ \A i \in late : new[i] = Nearest(p, i, cards(i))
  OBVIOUS
<1> HIDE DEF new, late, cards
<1>5. \A i \in DOMAIN new : new[i] \in Heads(of) \/ (new[i] \in DOMAIN new /\ new[new[i]] = new[i])
  BY <1>3, <1>4
<1>6. Extends(p, of, Joined(new, of))
  BY <1>1, <1>4, <1>5, JoinedExtends
<1>7. QED BY <1>2, <1>6

LEMMA OrphansExtends == ASSUME NEW p, IsPage(p), NEW of, Carded(p, of) PROVE Extends(p, of, Orphans(p, of))
<1> DEFINE cycle(i) == {j \in Left(p, of, {"cleaning"}) : p[j].rel = p[i].rel}
           done(i) == {j \in cycle(i) : p[j].code \in PrimaryDoneCodes}
           late == {j \in Left(p, of, {"cleaning"}) : p[j].rel # NoEpisode /\ done(j) # {}}
           new == [i \in late |-> Soonest(p, done(i))]
<1>1. late \subseteq DOMAIN p \ DOMAIN of
  BY DEF Left
<1>2. Orphans(p, of) = Joined(new, of)
  BY DEF Orphans
<1>3. ASSUME NEW i \in late
      PROVE  Soonest(p, done(i)) \in late /\ Soonest(p, done(Soonest(p, done(i)))) = Soonest(p, done(i))
  <2>1. done(i) \subseteq DOMAIN p /\ done(i) # {}
    BY DEF Left
  <2>2. Soonest(p, done(i)) \in done(i)
    BY <2>1, SoonestThere
  <2> DEFINE x == Soonest(p, done(i))
  <2>3. x \in Left(p, of, {"cleaning"}) /\ p[x].rel = p[i].rel
    BY <2>2
  <2>4. done(x) = done(i)
    BY <2>3
  <2>5. x \in late
    BY <2>1, <2>3, <2>4
  <2>6. QED BY <2>4, <2>5
<1>4. DOMAIN new = late /\ \A i \in late : new[i] = Soonest(p, done(i))
  OBVIOUS
<1> HIDE DEF new, late, cycle, done
<1>5. \A i \in DOMAIN new : new[i] \in Heads(of) \/ (new[i] \in DOMAIN new /\ new[new[i]] = new[i])
  BY <1>3, <1>4
<1>6. Extends(p, of, Joined(new, of))
  BY <1>1, <1>4, <1>5, JoinedExtends
<1>7. QED BY <1>2, <1>6

LEMMA TailsExtends == ASSUME NEW p, IsPage(p), NEW of, Carded(p, of) PROVE Extends(p, of, Tails(p, of))
<1> DEFINE late == {j \in Left(p, of, {"cleaning"}) : TailCards(p, of, j) # {}}
           new == [i \in late |-> Nearest(p, i, TailCards(p, of, i))]
<1>1. late \subseteq DOMAIN p \ DOMAIN of
  BY DEF Left
<1>2. Tails(p, of) = Joined(new, of)
  BY DEF Tails
<1>3. ASSUME NEW i \in late PROVE Nearest(p, i, TailCards(p, of, i)) \in Heads(of)
  <2>1. /\ TailCards(p, of, i) \subseteq Heads(of) /\ TailCards(p, of, i) # {} /\ i \in DOMAIN p
        /\ TailCards(p, of, i) \subseteq DOMAIN p
    BY <1>1 DEF TailCards, Heads, Carded
  <2>2. QED BY <2>1, NearestThere
<1>4. DOMAIN new = late /\ \A i \in late : new[i] = Nearest(p, i, TailCards(p, of, i))
  OBVIOUS
<1> HIDE DEF new, late
<1>5. \A i \in DOMAIN new : new[i] \in Heads(of) \/ (new[i] \in DOMAIN new /\ new[new[i]] = new[i])
  BY <1>3, <1>4
<1>6. Extends(p, of, Joined(new, of))
  BY <1>1, <1>4, <1>5, JoinedExtends
<1>7. QED BY <1>2, <1>6

LEMMA GroupedExtends ==
    ASSUME NEW p, IsPage(p)
    PROVE  /\ Extends(p, EpisodeCards(p), Linked(p, EpisodeCards(p)))
           /\ Extends(p, Linked(p, EpisodeCards(p)), Grouped(p))
           /\ DOMAIN Grouped(p) = DOMAIN p
<1> DEFINE e == EpisodeCards(p)
           l == Linked(p, e)
           n == Nearby(p, l)
           o == Orphans(p, n)
           t == Tails(p, o)
<1>1. Carded(p, e)
  BY EpisodeCardsCarded
<1> HIDE DEF e
<1>2. Extends(p, e, l)
  BY <1>1, LinkedExtends
<1> HIDE DEF l
<1>3. Extends(p, l, n)
  BY <1>2, NearbyExtends DEF Extends
<1> HIDE DEF n
<1>4. Extends(p, n, o)
  BY <1>3, OrphansExtends DEF Extends
<1> HIDE DEF o
<1>5. Extends(p, o, t)
  BY <1>4, TailsExtends DEF Extends
<1> HIDE DEF t
<1>6. Grouped(p) = Joined(t, [i \in DOMAIN p |-> i])
  BY DEF Grouped, Standalone, Claimed, t, o, n, l, e
<1>7. Carded(p, t)
  BY <1>5 DEF Extends
<1>8. /\ DOMAIN Grouped(p) = DOMAIN p
      /\ \A i \in DOMAIN t : Grouped(p)[i] = t[i]
      /\ \A i \in DOMAIN p \ DOMAIN t : Grouped(p)[i] = i
  BY <1>6, <1>7 DEF Joined, Carded
<1>9. Carded(p, Grouped(p))
  BY <1>7, <1>8 DEF Carded
<1>10. DOMAIN l \subseteq DOMAIN t /\ \A i \in DOMAIN l : t[i] = l[i]
  BY <1>3, <1>4, <1>5 DEF Extends
<1>11. DOMAIN t \subseteq DOMAIN p
  BY <1>7 DEF Carded
<1>12. Extends(p, l, Grouped(p))
  BY <1>8, <1>9, <1>10, <1>11 DEF Extends
<1>13. QED BY <1>2, <1>8, <1>12 DEF e, l
-----------------------------------------------------------------------------
(* The rows: of the reports of one story, one row to an id.                *)
RowsInv ==
    /\ story \in Stories
    /\ \A row \in rows : /\ row.ts \in 0 .. MaxTime /\ row.id \in 1 .. MaxRows
                         /\ \E r \in story : /\ row.dev = r.dev /\ row.category = r.category /\ row.code = r.code
                                             /\ row.rel = r.rel /\ row.parent = r.parent
    /\ \A r, s \in rows : r.id = s.id => r = s
    /\ NoEpisode \notin filmed
    /\ clock \in 0 .. MaxTime

(* What Told says of reports, of rows.                                     *)
LEMMA RowsTold ==
    ASSUME RowsInv, NEW r \in rows, NEW s \in rows, r.rel = s.rel, r.rel # NoEpisode
    PROVE  /\ r.dev = s.dev
           /\ r.parent \notin {NoEpisode, r.rel} /\ s.parent \notin {NoEpisode, r.rel} => r.parent = s.parent
           /\ r.code \in VisitSummaryCodes /\ s.code \in AnchorCodes => s.code \in VisitSummaryCodes
<1>1. PICK a \in story : r.dev = a.dev /\ r.code = a.code /\ r.rel = a.rel /\ r.parent = a.parent
  BY DEF RowsInv
<1>2. PICK b \in story : s.dev = b.dev /\ s.code = b.code /\ s.rel = b.rel /\ s.parent = b.parent
  BY DEF RowsInv
<1>3. Told(story)
  BY TimelineAssumption DEF RowsInv
<1>4. a.rel = b.rel /\ a.rel # NoEpisode
  BY <1>1, <1>2
<1>5. /\ a.dev = b.dev
      /\ {a.parent, b.parent} \cap {NoEpisode, a.rel} = {} => a.parent = b.parent
      /\ a.code \in VisitSummaryCodes /\ b.code \in AnchorCodes => b.code \in VisitSummaryCodes
  BY <1>3, <1>4 DEF Told
<1>6. QED BY <1>1, <1>2, <1>5

LEMMA PageRows == ASSUME NEW p, IsPage(p), NEW i \in DOMAIN p PROVE p[i] \in rows
BY DEF IsPage

(* The parent of an episode is the one that any of its rows names.         *)
LEMMA ParentNamed ==
    ASSUME RowsInv, NEW p, IsPage(p), NEW i \in DOMAIN p, p[i].rel # NoEpisode,
           NEW k \in DOMAIN p, p[k].rel = p[i].rel, p[k].parent \notin {NoEpisode, p[k].rel}
    PROVE  ParentOf(p, i) = p[k].parent
<1> DEFINE named == {j \in DOMAIN p : /\ p[j].rel = p[i].rel /\ p[i].rel # NoEpisode
                                      /\ p[j].parent \notin {NoEpisode, p[j].rel}}
<1>1. ParentOf(p, i) = IF named # {} THEN p[First(named)].parent ELSE p[i].parent
  BY DEF ParentOf
<1>2. named \subseteq Nat /\ named # {}
  BY PageOf
<1>3. First(named) \in named
  BY <1>2, FirstThere
<1> DEFINE x == First(named)
<1>4. x \in DOMAIN p /\ p[x].rel = p[i].rel /\ p[x].parent \notin {NoEpisode, p[x].rel}
  BY <1>3
<1> HIDE DEF x
<1>5. p[x] \in rows /\ p[k] \in rows
  BY <1>4, PageRows
<1>6. p[x].parent = p[k].parent
  BY <1>4, <1>5, RowsTold
<1>7. QED BY <1>1, <1>2, <1>6 DEF x

(* What follows an episode is on its card.                                 *)
LEMMA FollowsEpisode ==
    ASSUME RowsInv, NEW p, IsPage(p), NEW i \in DOMAIN p, NEW j \in Anchors(p), NEW k \in DOMAIN p,
           Kind(p, i) \in {"cleaning", "pet", "motion", "error"}, i \notin Anchors(p), p[i].rel # NoEpisode,
           p[j].rel # NoEpisode, p[i].dev = p[j].dev,
           p[k].rel = p[i].rel, p[k].parent = p[j].rel, p[k].parent # p[k].rel
    PROVE  Grouped(p)[i] = Grouped(p)[j]
<1> DEFINE e == EpisodeCards(p)
           l == Linked(p, e)
           h == HeadOf(p, p[j].rel)
           cards(n) == {g \in Heads(e) : /\ ParentOf(p, n) # NoEpisode
                                         /\ p[g].rel = ParentOf(p, n) /\ p[g].dev = p[n].dev}
           late == {n \in Left(p, e, {"cleaning", "pet", "motion", "error"}) : cards(n) # {}}
           new == [n \in late |-> First(cards(n))]
<1>1. ParentOf(p, i) = p[j].rel
  BY ParentNamed
<1>2. \A g \in DOMAIN e : g \in Anchors(p) /\ (p[g].rel # NoEpisode => e[g] = HeadOf(p, p[g].rel))
  BY DEF EpisodeCards
<1>3. j \in DOMAIN e /\ e[j] = h
  BY DEF EpisodeCards
<1>4. Carded(p, e) /\ p[h].rel = p[j].rel
  BY <1>3, EpisodeCardsCarded
<1>5. h \in Heads(e) /\ h \in DOMAIN p
  BY <1>3, <1>4 DEF Carded, Heads
<1>6. p[h].dev = p[i].dev
  <2>1. p[h] \in rows /\ p[j] \in rows /\ j \in DOMAIN p
    BY <1>5, PageRows DEF Anchors
  <2>2. QED BY <1>4, <2>1, RowsTold
<1>7. cards(i) = {h}
  <2>1. h \in cards(i)
    BY <1>1, <1>4, <1>5, <1>6
  <2>2. ASSUME NEW g \in cards(i) PROVE g = h
    <3>1. g \in DOMAIN e /\ e[g] = g /\ p[g].rel = p[j].rel
      BY <1>1, <2>2 DEF Heads
    <3>2. QED BY <1>2, <3>1
  <2>3. QED BY <2>1, <2>2
<1>8. First(cards(i)) = h
  <2>1. h \in Nat
    BY <1>5, PageOf
  <2>2. First({h}) \in {h}
    BY <2>1, FirstThere
  <2>3. QED BY <1>7, <2>2
<1>9. i \in late
  <2>1. i \notin DOMAIN e
    BY <1>2
  <2>2. QED BY <1>7, <2>1 DEF Left
<1>10. l[i] = h /\ i \in DOMAIN l
  <2>1. l = Joined(new, e)
    BY DEF Linked
  <2>2. DOMAIN new = late /\ new[i] = h
    BY <1>8, <1>9
  <2> HIDE DEF new, late
  <2>3. QED BY <1>9, <2>1, <2>2 DEF Joined
<1>11. Extends(p, e, l) /\ Extends(p, l, Grouped(p))
  BY GroupedExtends
<1> HIDE DEF e, l, h
<1>12. Grouped(p)[i] = h
  BY <1>10, <1>11 DEF Extends
<1>13. Grouped(p)[j] = h
  BY <1>3, <1>11 DEF Extends
<1>14. QED BY <1>12, <1>13

(* Once its summary is known, a visit is headed by it.                     *)
LEMMA SummaryHeads ==
    ASSUME RowsInv, NEW p, IsPage(p), NEW i \in Anchors(p), NEW j \in Anchors(p),
           p[j].code \in VisitSummaryCodes, p[i].rel = p[j].rel, p[i].rel # NoEpisode
    PROVE  p[Grouped(p)[i]].code \in VisitSummaryCodes
<1> DEFINE e == EpisodeCards(p)
           h == HeadOf(p, p[i].rel)
<1>1. i \in DOMAIN e /\ e[i] = h
  BY DEF EpisodeCards
<1>2. h \in Episode(p, p[i].rel) /\ p[h].code \in AnchorCodes
  <2>1. j \in Episode(p, p[i].rel) /\ p[j].code \in AnchorCodes
    BY TimelineAssumption DEF Episode
  <2>2. QED BY <2>1, HeadThere
<1> HIDE DEF h
<1>3. h \in DOMAIN p /\ j \in DOMAIN p /\ p[h].rel = p[j].rel
  BY <1>2 DEF Episode, Anchors
<1>4. p[h].code \in VisitSummaryCodes
  <2>1. p[h] \in rows /\ p[j] \in rows
    BY <1>3, PageRows
  <2>2. QED BY <1>2, <1>3, <2>1, RowsTold
<1>5. Grouped(p)[i] = h
  BY <1>1, GroupedExtends DEF Extends
<1>6. QED BY <1>4, <1>5
-----------------------------------------------------------------------------
(* A card's rows of an episode: its head shows what the head's own episode *)
(* recorded, and one line of every other episode shows that one's.         *)
LEMMA LinesCarried ==
    ASSUME NEW p, IsPage(p), NEW lines, lines \subseteq DOMAIN p, lines # {}
    PROVE  Carrier(p, lines) \in lines
BY LatestThere, FirstWithThere DEF Carrier

LEMMA ShownOnce ==
    ASSUME NEW p, IsPage(p), NEW i \in DOMAIN p, p[i].rel # NoEpisode
    PROVE  \E x : {s \in Showing(p, Grouped(p)) : p[s].rel = p[i].rel /\ Grouped(p)[s] = Grouped(p)[i]} = {x}
<1> DEFINE of == Grouped(p)
           h == of[i]
           rel == p[i].rel
           Line(j) == Carrier(p, LinesOf(p, of, of[j], p[j].rel))
           far == {j \in DOMAIN p : p[j].rel \notin {NoEpisode, p[of[j]].rel}}
           shows == {s \in Showing(p, of) : p[s].rel = rel /\ of[s] = h}
<1>1. DOMAIN of = DOMAIN p /\ Carded(p, of)
  BY GroupedExtends DEF Extends
<1> HIDE DEF of
<1>2. h \in DOMAIN p /\ of[h] = h /\ h \in Heads(of)
  BY <1>1 DEF Carded, Heads
<1>3. Showing(p, of) = Heads(of) \cup {Line(j) : j \in far}
  BY DEF Showing
<1>4. ASSUME NEW j \in far
      PROVE  Line(j) \in DOMAIN p /\ of[Line(j)] = of[j] /\ p[Line(j)].rel = p[j].rel
  <2> DEFINE lines == LinesOf(p, of, of[j], p[j].rel)
  <2>1. lines \subseteq DOMAIN p /\ j \in lines
    BY <1>1 DEF LinesOf
  <2>2. Line(j) \in lines
    BY <2>1, LinesCarried
  <2>3. QED BY <2>2 DEF LinesOf
<1>5. \A s \in Heads(of) : of[s] = s
  BY DEF Heads
<1>6. CASE p[h].rel = rel
  <2>1. h \in shows
    BY <1>2, <1>3, <1>6
  <2>2. ASSUME NEW s \in shows PROVE s = h
    <3>1. CASE s \in Heads(of)
      BY <1>5, <3>1
    <3>2. CASE s \notin Heads(of)
      <4>1. PICK j \in far : s = Line(j)
        BY <1>3, <3>2
      <4>2. of[j] = h /\ p[j].rel = rel
        BY <1>4, <4>1
      <4>3. QED BY <1>6, <4>2
    <3>3. QED BY <3>1, <3>2
  <2> HIDE DEF shows
  <2>3. shows = {h}
    BY <2>1, <2>2
  <2>4. QED BY <2>3 DEF shows, of
<1>7. CASE p[h].rel # rel
  <2>1. i \in far
    BY <1>7
  <2>2. Line(i) \in shows
    BY <1>3, <1>4, <2>1
  <2>3. ASSUME NEW s \in shows PROVE s = Line(i)
    <3>1. s \notin Heads(of)
      BY <1>5, <1>7
    <3>2. PICK j \in far : s = Line(j)
      BY <1>3, <3>1
    <3>3. of[j] = h /\ p[j].rel = rel
      BY <1>4, <3>2
    <3>4. QED BY <3>2, <3>3
  <2> HIDE DEF shows, Line
  <2>4. shows = {Line(i)}
    BY <2>2, <2>3
  <2>5. QED BY <2>4 DEF shows, of
<1>8. QED BY <1>6, <1>7
-----------------------------------------------------------------------------
(* Sorting by counting: if what is before what is a total order of a       *)
(* finite set, every place is taken by one member.                         *)
TotalBefore(S, B) ==
    /\ \A r \in S : B[r] \in SUBSET S /\ r \notin B[r]
    /\ \A r, s \in S : r # s => r \in B[s] \/ s \in B[r]
    /\ \A r, s \in S : r \in B[s] => B[r] \subseteq B[s]

LEMMA Ranked ==
    ASSUME NEW S, IsFiniteSet(S), NEW B, TotalBefore(S, B)
    PROVE  \A i \in 1 .. Cardinality(S) :
               \E r \in S : Cardinality(B[r]) = i - 1 /\ \A s \in S : Cardinality(B[s]) = i - 1 => s = r
<1> DEFINE n == Cardinality(S)
           rank == [r \in S |-> Cardinality(B[r])]
<1>1. n \in Nat
  BY FS_CardinalityType
<1>2. ASSUME NEW r \in S PROVE IsFiniteSet(B[r]) /\ Cardinality(B[r]) \in Nat /\ Cardinality(B[r]) < n
  <2>1. B[r] \in SUBSET S /\ r \notin B[r]
    BY DEF TotalBefore
  <2>2. IsFiniteSet(B[r]) /\ Cardinality(B[r]) <= n /\ (n = Cardinality(B[r]) => S = B[r])
    BY <2>1, FS_Subset
  <2>3. Cardinality(B[r]) \in Nat
    BY <2>2, FS_CardinalityType
  <2>4. QED BY <1>1, <2>1, <2>2, <2>3
<1>3. ASSUME NEW r \in S, NEW s \in S, r \in B[s] PROVE Cardinality(B[r]) < Cardinality(B[s])
  <2>1. B[r] \in SUBSET B[s] /\ r \notin B[r]
    BY <1>3 DEF TotalBefore
  <2>2. Cardinality(B[r]) <= Cardinality(B[s]) /\ (Cardinality(B[s]) = Cardinality(B[r]) => B[s] = B[r])
    BY <1>2, <2>1, FS_Subset
  <2>3. Cardinality(B[r]) # Cardinality(B[s])
    BY <1>3, <2>1, <2>2
  <2>4. QED BY <1>2, <2>2, <2>3
<1>4. ASSUME NEW r \in S, NEW s \in S, r # s PROVE Cardinality(B[r]) # Cardinality(B[s])
  <2>1. r \in B[s] \/ s \in B[r]
    BY <1>4 DEF TotalBefore
  <2>2. QED BY <1>2, <1>3, <2>1
<1>5. rank \in Injection(S, 0 .. n - 1)
  <2>1. \A r \in S : rank[r] \in 0 .. n - 1
    BY <1>1, <1>2
  <2>2. \A r, s \in S : rank[r] = rank[s] => r = s
    BY <1>4
  <2>3. QED BY <2>1, <2>2 DEF Injection, IsInjective
<1>6. IsFiniteSet(0 .. n - 1) /\ Cardinality(0 .. n - 1) = n
  BY <1>1, FS_Interval
<1>7. rank \in Surjection(S, 0 .. n - 1)
  <2> HIDE DEF rank
  <2>1. QED BY <1>5, <1>6, FS_Injection
<1>8. ASSUME NEW i \in 1 .. n
      PROVE  \E r \in S : Cardinality(B[r]) = i - 1 /\ \A s \in S : Cardinality(B[s]) = i - 1 => s = r
  <2>1. i - 1 \in 0 .. n - 1
    BY <1>1
  <2>2. PICK r \in S : rank[r] = i - 1
    BY <1>7, <2>1 DEF Surjection
  <2>3. QED BY <1>4, <2>2
<1>9. QED BY <1>8

(* A sorted set, then, is a page that has each of its rows once.           *)
Lists(p, S) ==
    /\ p \in Seq(S) /\ DOMAIN p = 1 .. Cardinality(S)
    /\ \A r \in S : \E i \in DOMAIN p : p[i] = r
    /\ \A i, j \in DOMAIN p : p[i] = p[j] => i = j

LEMMA InSeq == ASSUME NEW S, NEW p \in Seq(S), NEW i \in DOMAIN p PROVE p[i] \in S
OBVIOUS

LEMMA SortedLists ==
    ASSUME NEW S, IsFiniteSet(S), NEW B, TotalBefore(S, B), NEW p \in Seq(S), DOMAIN p = 1 .. Cardinality(S),
           \A i \in DOMAIN p : Cardinality(B[p[i]]) = i - 1
    PROVE  Lists(p, S)
<1> DEFINE n == Cardinality(S)
<1>1. n \in Nat
  BY FS_CardinalityType
<1>2. ASSUME NEW i \in 1 .. n PROVE p[i] \in S /\ Cardinality(B[p[i]]) = i - 1
  <2>1. i \in DOMAIN p
    OBVIOUS
  <2>2. p[i] \in S
    BY <2>1, InSeq
  <2>3. QED BY <2>1, <2>2
<1>3. ASSUME NEW r \in S PROVE \E i \in 1 .. n : p[i] = r
  <2>1. B[r] \in SUBSET S /\ r \notin B[r]
    BY DEF TotalBefore
  <2>2. IsFiniteSet(B[r]) /\ Cardinality(B[r]) <= n /\ (n = Cardinality(B[r]) => S = B[r])
    BY <2>1, FS_Subset
  <2>3. Cardinality(B[r]) \in Nat
    BY <2>2, FS_CardinalityType
  <2> DEFINE i == Cardinality(B[r]) + 1
  <2>4. i \in 1 .. n /\ Cardinality(B[r]) = i - 1
    BY <1>1, <2>1, <2>2, <2>3
  <2> HIDE DEF i
  <2>5. p[i] = r
    BY <1>2, <2>4, Ranked
  <2>6. QED BY <2>4, <2>5
<1>4. \A i, j \in 1 .. n : p[i] = p[j] => i = j
  <2>1. ASSUME NEW i \in 1 .. n, NEW j \in 1 .. n, p[i] = p[j] PROVE i = j
    <3>1. i - 1 = j - 1
      BY <1>2, <2>1
    <3>2. QED BY <1>1, <3>1
  <2>2. QED BY <2>1
<1>5. QED BY <1>3, <1>4 DEF Lists

LEMMA RowsFinite == ASSUME RowsInv PROVE IsFiniteSet(rows)
<1> DEFINE ids == [row \in rows |-> row.id]
<1>1. ids \in [rows -> 1 .. MaxRows] /\ \A r, s \in rows : ids[r] = ids[s] => r = s
  BY DEF RowsInv
<1>2. ids \in Injection(rows, 1 .. MaxRows)
  BY <1>1 DEF Injection, IsInjective
<1>3. IsFiniteSet(1 .. MaxRows)
  BY TimelineAssumption, FS_Interval
<1>4. QED BY <1>2, <1>3, FS_Injection

LEMMA NewestLists == ASSUME RowsInv PROVE Lists(Sorted(rows, Newest), rows)
<1> DEFINE B == [r \in rows |-> {s \in rows : Newest(s, r)}]
           n == Cardinality(rows)
           At(i) == CHOOSE r \in rows : Cardinality({s \in rows : Newest(s, r)}) = i - 1
           p == Sorted(rows, Newest)
<1>1. IsFiniteSet(rows) /\ \A r \in rows : r.ts \in Nat /\ r.id \in Nat
  BY RowsFinite, TimelineAssumption DEF RowsInv
<1>2. \A r, s \in rows : r # s => r.id # s.id
  BY DEF RowsInv
<1>3. TotalBefore(rows, B)
  BY <1>1, <1>2 DEF TotalBefore, Newest
<1>4. \A r \in rows : B[r] = {s \in rows : Newest(s, r)}
  OBVIOUS
<1>5. p = [i \in 1 .. n |-> At(i)]
  BY DEF Sorted
<1> HIDE DEF B, p
<1>6. ASSUME NEW i \in 1 .. n PROVE At(i) \in rows /\ Cardinality(B[At(i)]) = i - 1
  <2>1. \E r \in rows : Cardinality(B[r]) = i - 1
    BY <1>1, <1>3, Ranked
  <2>2. \E r \in rows : Cardinality({s \in rows : Newest(s, r)}) = i - 1
    BY <1>4, <2>1
  <2>3. At(i) \in rows /\ Cardinality({s \in rows : Newest(s, At(i))}) = i - 1
    BY <2>2
  <2>4. QED BY <1>4, <2>3
<1> HIDE DEF At
<1>7. n \in Nat
  BY <1>1, FS_CardinalityType
<1>8. p \in Seq(rows) /\ DOMAIN p = 1 .. n /\ \A i \in DOMAIN p : Cardinality(B[p[i]]) = i - 1
  BY <1>5, <1>6, <1>7
<1>9. QED BY <1>1, <1>3, <1>8, SortedLists DEF p

LEMMA OldestLists == ASSUME RowsInv PROVE Lists(Sorted(rows, Oldest), rows)
<1> DEFINE B == [r \in rows |-> {s \in rows : Oldest(s, r)}]
           n == Cardinality(rows)
           At(i) == CHOOSE r \in rows : Cardinality({s \in rows : Oldest(s, r)}) = i - 1
           p == Sorted(rows, Oldest)
<1>1. IsFiniteSet(rows) /\ \A r \in rows : r.ts \in Nat /\ r.id \in Nat
  BY RowsFinite, TimelineAssumption DEF RowsInv
<1>2. \A r, s \in rows : r # s => r.id # s.id
  BY DEF RowsInv
<1>3. TotalBefore(rows, B)
  BY <1>1, <1>2 DEF TotalBefore, Oldest
<1>4. \A r \in rows : B[r] = {s \in rows : Oldest(s, r)}
  OBVIOUS
<1>5. p = [i \in 1 .. n |-> At(i)]
  BY DEF Sorted
<1> HIDE DEF B, p
<1>6. ASSUME NEW i \in 1 .. n PROVE At(i) \in rows /\ Cardinality(B[At(i)]) = i - 1
  <2>1. \E r \in rows : Cardinality(B[r]) = i - 1
    BY <1>1, <1>3, Ranked
  <2>2. \E r \in rows : Cardinality({s \in rows : Oldest(s, r)}) = i - 1
    BY <1>4, <2>1
  <2>3. At(i) \in rows /\ Cardinality({s \in rows : Oldest(s, At(i))}) = i - 1
    BY <2>2
  <2>4. QED BY <1>4, <2>3
<1> HIDE DEF At
<1>7. n \in Nat
  BY <1>1, FS_CardinalityType
<1>8. p \in Seq(rows) /\ DOMAIN p = 1 .. n /\ \A i \in DOMAIN p : Cardinality(B[p[i]]) = i - 1
  BY <1>5, <1>6, <1>7
<1>9. QED BY <1>1, <1>3, <1>8, SortedLists DEF p

LEMMA AsStoredLists == ASSUME RowsInv PROVE Lists(Sorted(rows, AsStored), rows)
<1> DEFINE B == [r \in rows |-> {s \in rows : AsStored(s, r)}]
           n == Cardinality(rows)
           At(i) == CHOOSE r \in rows : Cardinality({s \in rows : AsStored(s, r)}) = i - 1
           p == Sorted(rows, AsStored)
<1>1. IsFiniteSet(rows) /\ \A r \in rows : r.ts \in Nat /\ r.id \in Nat
  BY RowsFinite, TimelineAssumption DEF RowsInv
<1>2. \A r, s \in rows : r # s => r.id # s.id
  BY DEF RowsInv
<1>3. TotalBefore(rows, B)
  BY <1>1, <1>2 DEF TotalBefore, AsStored
<1>4. \A r \in rows : B[r] = {s \in rows : AsStored(s, r)}
  OBVIOUS
<1>5. p = [i \in 1 .. n |-> At(i)]
  BY DEF Sorted
<1> HIDE DEF B, p
<1>6. ASSUME NEW i \in 1 .. n PROVE At(i) \in rows /\ Cardinality(B[At(i)]) = i - 1
  <2>1. \E r \in rows : Cardinality(B[r]) = i - 1
    BY <1>1, <1>3, Ranked
  <2>2. \E r \in rows : Cardinality({s \in rows : AsStored(s, r)}) = i - 1
    BY <1>4, <2>1
  <2>3. At(i) \in rows /\ Cardinality({s \in rows : AsStored(s, At(i))}) = i - 1
    BY <2>2
  <2>4. QED BY <1>4, <2>3
<1> HIDE DEF At
<1>7. n \in Nat
  BY <1>1, FS_CardinalityType
<1>8. p \in Seq(rows) /\ DOMAIN p = 1 .. n /\ \A i \in DOMAIN p : Cardinality(B[p[i]]) = i - 1
  BY <1>5, <1>6, <1>7
<1>9. QED BY <1>1, <1>3, <1>8, SortedLists DEF p

LEMMA ListIsPage == ASSUME RowsInv, NEW p, Lists(p, rows) PROVE IsPage(p)
<1>1. p \in Seq(rows)
  BY DEF Lists
<1>2. \A i \in DOMAIN p : p[i] \in rows
  BY <1>1
<1>3. QED BY <1>1, <1>2 DEF RowsInv, IsPage
-----------------------------------------------------------------------------
(* Stored, repeated, filmed, pruned: what is known of rows stays.          *)
LEMMA RowsInvInit == TimelineInit => RowsInv
BY TimelineAssumption DEF TimelineInit, RowsInv

LEMMA StoredStep == ASSUME RowsInv, NEW r \in story, RowStored(r), UNCHANGED <<story, clock, filmed>> PROVE RowsInv'
<1> DEFINE row(n) == [dev |-> r.dev, category |-> r.category, code |-> r.code, rel |-> r.rel,
                      parent |-> r.parent, id |-> n, ts |-> clock]
<1>1. clock \in 0 .. MaxTime
  BY DEF RowsInv
<1>2. ASSUME NEW old \in rows, rows' = (rows \ {old}) \cup {row(old.id)} PROVE RowsInv'
  <2>1. old.id \in 1 .. MaxRows /\ \A s \in rows \ {old} : s.id # old.id
    BY DEF RowsInv
  <2>2. QED BY <1>1, <1>2, <2>1 DEF RowsInv
<1>3. ASSUME NEW n \in 1 .. MaxRows, {s.id : s \in rows} \subseteq 1 .. n - 1, rows' = rows \cup {row(n)} PROVE RowsInv'
  <2>1. \A s \in rows : s.id # n
    BY <1>3, TimelineAssumption
  <2>2. QED BY <1>1, <1>3, <2>1 DEF RowsInv
<1>4. QED BY <1>2, <1>3 DEF RowStored

LEMMA RowsInvStep == ASSUME RowsInv, [TimelineNext]_timelineVars PROVE RowsInv'
<1>1. ASSUME NEW r \in story, Reported(r) PROVE RowsInv'
  BY <1>1, StoredStep DEF Reported
<1>2. ASSUME NEW r \in story, MediaReady(r.rel) PROVE RowsInv'
  BY <1>2 DEF MediaReady, RowsInv
<1>3. CASE TimePasses
  <2>1. clock' \in 0 .. MaxTime
    BY <1>3, TimelineAssumption DEF TimePasses, RowsInv
  <2>2. QED BY <1>3, <2>1 DEF TimePasses, RowsInv
<1>4. ASSUME NEW b \in 1 .. MaxTime, Pruned(b) PROVE RowsInv'
  BY <1>4 DEF Pruned, RowsInv
<1>5. CASE UNCHANGED timelineVars
  BY <1>5 DEF timelineVars, RowsInv
<1>6. QED BY <1>1, <1>2, <1>3, <1>4, <1>5 DEF TimelineNext

LEMMA RowsInvHolds == TimelineSpec => []RowsInv
<1>1. TimelineInit => RowsInv
  BY RowsInvInit
<1>2. RowsInv /\ [TimelineNext]_timelineVars => RowsInv'
  BY RowsInvStep
<1>3. QED BY <1>1, <1>2, PTL DEF TimelineSpec

(* The page the Timeline shows.                                            *)
LEMMA FollowUps == RowsInv => FollowUpsFound
<1> SUFFICES ASSUME RowsInv PROVE FollowUpsFound
  OBVIOUS
<1> DEFINE p == Page
<1>1. IsPage(p)
  BY NewestLists, ListIsPage DEF Page
<1>2. \A i \in DOMAIN p : i \in Anchors(p) => i \in DOMAIN p
  OBVIOUS
<1> HIDE DEF p
<1>3. ASSUME NEW i \in DOMAIN p, NEW j \in Anchors(p),
             Kind(p, i) \in {"cleaning", "pet", "motion", "error"}, i \notin Anchors(p), p[i].rel # NoEpisode,
             p[j].rel # NoEpisode, p[i].dev = p[j].dev,
             \E k \in DOMAIN p : p[k].rel = p[i].rel /\ p[k].parent = p[j].rel /\ p[k].parent # p[k].rel
      PROVE  Grouped(p)[i] = Grouped(p)[j]
  BY <1>1, <1>3, FollowsEpisode
<1>4. ASSUME NEW i \in Anchors(p), NEW j \in Anchors(p),
             p[j].code \in VisitSummaryCodes, p[i].rel = p[j].rel, p[i].rel # NoEpisode
      PROVE  p[Grouped(p)[i]].code \in VisitSummaryCodes
  BY <1>1, <1>4, SummaryHeads
<1>5. QED BY <1>3, <1>4 DEF FollowUpsFound, p

LEMMA Media == RowsInv => MediaShown
<1> SUFFICES ASSUME RowsInv, NEW i \in DOMAIN Page, Page[i].rel \in filmed
             PROVE  Cardinality({s \in Showing(Page, Grouped(Page)) :
                        Page[s].rel = Page[i].rel /\ Grouped(Page)[s] = Grouped(Page)[i]}) = 1
  BY DEF MediaShown
<1>1. IsPage(Page) /\ Page[i].rel # NoEpisode
  BY NewestLists, ListIsPage DEF RowsInv, Page
<1> DEFINE shows == {s \in Showing(Page, Grouped(Page)) :
                        Page[s].rel = Page[i].rel /\ Grouped(Page)[s] = Grouped(Page)[i]}
<1>2. \E x : shows = {x}
  BY <1>1, ShownOnce
<1> HIDE DEF shows
<1>3. Cardinality(shows) = 1
  BY <1>2, FS_Singleton
<1>4. QED BY <1>3 DEF shows
-----------------------------------------------------------------------------
(* Two pages of the same rows, no two of one time: moves takes a place on  *)
(* the one to the row's place on the other.                                *)
Moved(p, q, moves) ==
    /\ IsPage(p) /\ IsPage(q)
    /\ moves \in [DOMAIN p -> DOMAIN q]
    /\ \A j \in DOMAIN q : \E i \in DOMAIN p : moves[i] = j
    /\ \A i, k \in DOMAIN p : moves[i] = moves[k] => i = k
    /\ \A i \in DOMAIN p : q[moves[i]] = p[i]
    /\ \A i, k \in DOMAIN p : p[i].ts = p[k].ts => i = k

(* The same rows, on either page; and the same cards.                      *)
SameRows(p, q, moves, S, T) ==
    /\ S \subseteq DOMAIN p /\ T \subseteq DOMAIN q
    /\ \A i \in DOMAIN p : moves[i] \in T <=> i \in S

SameCards(p, q, moves, of, og) ==
    /\ SameRows(p, q, moves, DOMAIN of, DOMAIN og)
    /\ \A i \in DOMAIN of : of[i] \in DOMAIN p /\ og[moves[i]] = moves[of[i]]

LEMMA SoonestMoved ==
    ASSUME NEW p, NEW q, NEW moves, Moved(p, q, moves), NEW S, NEW T, SameRows(p, q, moves, S, T), S # {}
    PROVE  Soonest(q, T) = moves[Soonest(p, S)]
<1> DEFINE x == Soonest(p, S)
           y == Soonest(q, T)
<1>1. x \in S /\ \A j \in S \ {x} : Sooner(p, x, j)
  BY SoonestThere DEF SameRows, Moved
<1>2. x \in DOMAIN p /\ moves[x] \in T
  BY <1>1 DEF SameRows
<1>3. y \in T /\ \A j \in T \ {y} : Sooner(q, y, j)
  BY <1>2, SoonestThere DEF SameRows, Moved
<1> HIDE DEF x, y
<1>4. PICK k \in DOMAIN p : moves[k] = y
  BY <1>3 DEF SameRows, Moved
<1>5. k \in S
  BY <1>3, <1>4 DEF SameRows
<1>6. ASSUME k # x PROVE FALSE
  <2>1. moves[x] # y
    BY <1>2, <1>4, <1>6 DEF Moved
  <2>2. Sooner(p, x, k) /\ Sooner(q, y, moves[x])
    BY <1>1, <1>2, <1>3, <1>5, <1>6, <2>1
  <2>3. q[y] = p[k] /\ q[moves[x]] = p[x] /\ p[x].ts # p[k].ts
    BY <1>2, <1>4, <1>6 DEF Moved
  <2>4. p[x].ts \in Nat /\ p[k].ts \in Nat
    BY <1>2 DEF Moved, IsPage
  <2>5. QED BY <2>2, <2>3, <2>4 DEF Sooner
<1>7. QED BY <1>4, <1>6 DEF x, y

LEMMA LatestMoved ==
    ASSUME NEW p, NEW q, NEW moves, Moved(p, q, moves), NEW S, NEW T, SameRows(p, q, moves, S, T), S # {}
    PROVE  Latest(q, T) = moves[Latest(p, S)]
<1> DEFINE x == Latest(p, S)
           y == Latest(q, T)
<1>1. x \in S /\ \A j \in S \ {x} : Sooner(p, j, x)
  BY LatestThere DEF SameRows, Moved
<1>2. x \in DOMAIN p /\ moves[x] \in T
  BY <1>1 DEF SameRows
<1>3. y \in T /\ \A j \in T \ {y} : Sooner(q, j, y)
  BY <1>2, LatestThere DEF SameRows, Moved
<1> HIDE DEF x, y
<1>4. PICK k \in DOMAIN p : moves[k] = y
  BY <1>3 DEF SameRows, Moved
<1>5. k \in S
  BY <1>3, <1>4 DEF SameRows
<1>6. ASSUME k # x PROVE FALSE
  <2>1. moves[x] # y
    BY <1>2, <1>4, <1>6 DEF Moved
  <2>2. Sooner(p, k, x) /\ Sooner(q, moves[x], y)
    BY <1>1, <1>2, <1>3, <1>5, <1>6, <2>1
  <2>3. q[y] = p[k] /\ q[moves[x]] = p[x] /\ p[x].ts # p[k].ts
    BY <1>2, <1>4, <1>6 DEF Moved
  <2>4. p[x].ts \in Nat /\ p[k].ts \in Nat
    BY <1>2 DEF Moved, IsPage
  <2>5. QED BY <2>2, <2>3, <2>4 DEF Sooner
<1>7. QED BY <1>4, <1>6 DEF x, y

LEMMA FirstWithMoved ==
    ASSUME NEW p, NEW q, NEW moves, Moved(p, q, moves), NEW S, NEW T, SameRows(p, q, moves, S, T),
           NEW codes, NEW other
    PROVE  FirstWith(q, T, codes, moves[other]) = moves[FirstWith(p, S, codes, other)]
<1> DEFINE hs == {i \in S : p[i].code \in codes}
           ht == {i \in T : q[i].code \in codes}
<1>1. SameRows(p, q, moves, hs, ht)
  BY DEF SameRows, Moved
<1>2. hs = {} <=> ht = {}
  <2>1. \A j \in ht : \E i \in hs : moves[i] = j
    BY DEF SameRows, Moved
  <2>2. \A i \in hs : moves[i] \in ht
    BY <1>1 DEF SameRows
  <2>3. QED BY <2>1, <2>2
<1>3. FirstWith(p, S, codes, other) = IF hs # {} THEN Soonest(p, hs) ELSE other
  BY DEF FirstWith
<1>4. FirstWith(q, T, codes, moves[other]) = IF ht # {} THEN Soonest(q, ht) ELSE moves[other]
  BY DEF FirstWith
<1> HIDE DEF hs, ht
<1>5. hs # {} => Soonest(q, ht) = moves[Soonest(p, hs)]
  BY <1>1, SoonestMoved
<1>6. QED BY <1>2, <1>3, <1>4, <1>5

LEMMA NearestMoved ==
    ASSUME NEW p, NEW q, NEW moves, Moved(p, q, moves), NEW i \in DOMAIN p,
           NEW S, NEW T, SameRows(p, q, moves, S, T), S # {},
           \A g, h \in S : g # h => Gap(p, i, g) # Gap(p, i, h)
    PROVE  Nearest(q, moves[i], T) = moves[Nearest(p, i, S)]
<1> DEFINE x == Nearest(p, i, S)
           y == Nearest(q, moves[i], T)
<1>1. x \in S /\ \A g \in S : Gap(p, i, x) <= Gap(p, i, g)
  BY NearestThere DEF SameRows, Moved
<1>2. x \in DOMAIN p /\ moves[x] \in T /\ moves[i] \in DOMAIN q
  BY <1>1 DEF SameRows, Moved
<1>3. y \in T /\ \A g \in T : Gap(q, moves[i], y) <= Gap(q, moves[i], g)
  BY <1>2, NearestThere DEF SameRows, Moved
<1> HIDE DEF x, y
<1>4. PICK k \in DOMAIN p : moves[k] = y
  BY <1>3 DEF SameRows, Moved
<1>5. k \in S
  BY <1>3, <1>4 DEF SameRows
<1>6. \A h \in DOMAIN p : Gap(q, moves[i], moves[h]) = Gap(p, i, h)
  BY DEF Moved, Gap
<1>7. Gap(p, i, k) <= Gap(p, i, x) /\ Gap(p, i, x) <= Gap(p, i, k)
  BY <1>1, <1>2, <1>3, <1>4, <1>5, <1>6
<1>8. Gap(p, i, k) \in Nat /\ Gap(p, i, x) \in Nat
  <2>1. p[i].ts \in Nat /\ p[k].ts \in Nat /\ p[x].ts \in Nat
    BY <1>2 DEF Moved, IsPage
  <2>2. QED BY <2>1 DEF Gap
<1>9. k = x
  BY <1>1, <1>5, <1>7, <1>8
<1>10. QED BY <1>4, <1>9 DEF x, y

LEMMA AnchorsMoved ==
    ASSUME NEW p, NEW q, NEW moves, Moved(p, q, moves)
    PROVE  /\ SameRows(p, q, moves, Anchors(p), Anchors(q))
           /\ \A i \in DOMAIN p : Kind(q, moves[i]) = Kind(p, i)
           /\ \A rel : SameRows(p, q, moves, Episode(p, rel), Episode(q, rel))
<1>1. \A i \in DOMAIN p : q[moves[i]] = p[i] /\ moves[i] \in DOMAIN q
  BY DEF Moved
<1>2. \A i \in DOMAIN p : Kind(q, moves[i]) = Kind(p, i)
  BY <1>1 DEF Kind
<1>3. SameRows(p, q, moves, Anchors(p), Anchors(q))
  BY <1>1, <1>2 DEF Anchors, SameRows
<1>4. QED BY <1>1, <1>2, <1>3 DEF Episode, SameRows

LEMMA EpisodeCardsMoved ==
    ASSUME NEW p, NEW q, NEW moves, Moved(p, q, moves)
    PROVE  SameCards(p, q, moves, EpisodeCards(p), EpisodeCards(q))
<1> DEFINE e == EpisodeCards(p)
           f == EpisodeCards(q)
<1>1. DOMAIN e = {j \in Anchors(p) : p[j].rel # NoEpisode \/ Kind(p, j) = "toilet_visit"}
  BY DEF EpisodeCards
<1>2. DOMAIN f = {j \in Anchors(q) : q[j].rel # NoEpisode \/ Kind(q, j) = "toilet_visit"}
  BY DEF EpisodeCards
<1>3. \A i \in DOMAIN e : e[i] = IF p[i].rel = NoEpisode THEN i ELSE HeadOf(p, p[i].rel)
  BY DEF EpisodeCards
<1>4. \A i \in DOMAIN f : f[i] = IF q[i].rel = NoEpisode THEN i ELSE HeadOf(q, q[i].rel)
  BY DEF EpisodeCards
<1> HIDE DEF e, f
<1>5. \A i \in DOMAIN p : q[moves[i]] = p[i]
  BY DEF Moved
<1>6. SameRows(p, q, moves, DOMAIN e, DOMAIN f)
  BY <1>1, <1>2, <1>5, AnchorsMoved DEF SameRows
<1>7. ASSUME NEW i \in DOMAIN e PROVE e[i] \in DOMAIN p /\ f[moves[i]] = moves[e[i]]
  <2>1. i \in DOMAIN p /\ i \in Anchors(p) /\ moves[i] \in DOMAIN f
    BY <1>1, <1>6, <1>7 DEF SameRows
  <2>2. e[i] \in DOMAIN p
    BY EpisodeCardsCarded DEF Carded, e, Moved
  <2>3. CASE p[i].rel = NoEpisode
    BY <1>3, <1>4, <1>5, <2>1, <2>2, <2>3
  <2>4. CASE p[i].rel # NoEpisode
    <3> DEFINE S == Episode(p, p[i].rel)
               T == Episode(q, p[i].rel)
    <3>1. SameRows(p, q, moves, S, T)
      BY AnchorsMoved
    <3>2. i \in S
      BY <2>1 DEF Episode
    <3>3. Latest(q, T) = moves[Latest(p, S)]
      BY <3>1, <3>2, LatestMoved
    <3>4. FirstWith(q, T, AnchorCodes, Latest(q, T)) = moves[FirstWith(p, S, AnchorCodes, Latest(p, S))]
      BY <3>1, <3>3, FirstWithMoved
    <3>5. HeadOf(q, p[i].rel) = moves[HeadOf(p, p[i].rel)]
      BY <3>4 DEF HeadOf
    <3>6. QED BY <1>3, <1>4, <1>5, <2>1, <2>2, <2>4, <3>5
  <2>5. QED BY <2>3, <2>4
<1>8. QED BY <1>6, <1>7 DEF SameCards, e, f

LEMMA CardsMoved ==
    ASSUME NEW p, NEW q, NEW moves, Moved(p, q, moves), NEW of, NEW og, SameCards(p, q, moves, of, og)
    PROVE  /\ SameRows(p, q, moves, Heads(of), Heads(og))
           /\ \A kinds : SameRows(p, q, moves, Left(p, of, kinds), Left(q, og, kinds))
<1>1. ASSUME NEW i \in DOMAIN p PROVE moves[i] \in Heads(og) <=> i \in Heads(of)
  <2>1. moves[i] \in DOMAIN og <=> i \in DOMAIN of
    BY DEF SameCards, SameRows
  <2>2. i \in DOMAIN of => (og[moves[i]] = moves[i] <=> of[i] = i)
    BY DEF SameCards, Moved
  <2>3. QED BY <2>1, <2>2 DEF Heads
<1>2. SameRows(p, q, moves, Heads(of), Heads(og))
  BY <1>1 DEF SameRows, SameCards, Heads
<1>3. ASSUME NEW kinds PROVE SameRows(p, q, moves, Left(p, of, kinds), Left(q, og, kinds))
  <2>1. \A i \in DOMAIN p : moves[i] \in DOMAIN q
    BY DEF Moved
  <2>2. \A i \in DOMAIN p : Kind(q, moves[i]) = Kind(p, i)
    BY AnchorsMoved
  <2>3. QED BY <2>1, <2>2 DEF SameRows, SameCards, Left
<1>4. QED BY <1>2, <1>3

LEMMA JoinedMoved ==
    ASSUME NEW p, NEW q, NEW moves, Moved(p, q, moves), NEW of, NEW og, SameCards(p, q, moves, of, og),
           NEW nf, NEW ng, SameCards(p, q, moves, nf, ng)
    PROVE  SameCards(p, q, moves, Joined(nf, of), Joined(ng, og))
<1>1. DOMAIN Joined(nf, of) = DOMAIN nf \cup DOMAIN of /\ DOMAIN Joined(ng, og) = DOMAIN ng \cup DOMAIN og
  BY DEF Joined
<1>2. SameRows(p, q, moves, DOMAIN Joined(nf, of), DOMAIN Joined(ng, og))
  BY <1>1 DEF SameCards, SameRows
<1>3. ASSUME NEW i \in DOMAIN Joined(nf, of)
      PROVE  Joined(nf, of)[i] \in DOMAIN p /\ Joined(ng, og)[moves[i]] = moves[Joined(nf, of)[i]]
  <2>1. i \in DOMAIN p /\ moves[i] \in DOMAIN Joined(ng, og)
    BY <1>2 DEF SameRows
  <2>2. moves[i] \in DOMAIN ng <=> i \in DOMAIN nf
    BY <2>1 DEF SameCards, SameRows
  <2>3. Joined(nf, of)[i] = IF i \in DOMAIN nf THEN nf[i] ELSE of[i]
    BY <1>1 DEF Joined
  <2>4. Joined(ng, og)[moves[i]] = IF moves[i] \in DOMAIN ng THEN ng[moves[i]] ELSE og[moves[i]]
    BY <1>1, <2>1 DEF Joined
  <2>5. CASE i \in DOMAIN nf
    BY <2>2, <2>3, <2>4, <2>5 DEF SameCards
  <2>6. CASE i \notin DOMAIN nf
    BY <1>1, <2>2, <2>3, <2>4, <2>6 DEF SameCards
  <2>7. QED BY <2>5, <2>6
<1>4. QED BY <1>2, <1>3 DEF SameCards
-----------------------------------------------------------------------------
(* Pass by pass, the other page has the same cards.                        *)
LEMMA ParentMoved ==
    ASSUME RowsInv, NEW p, NEW q, NEW moves, Moved(p, q, moves), NEW i \in DOMAIN p
    PROVE  ParentOf(q, moves[i]) = ParentOf(p, i)
<1> DEFINE Names(pg, n, j) == pg[j].rel = pg[n].rel /\ pg[n].rel # NoEpisode /\ pg[j].parent \notin {NoEpisode, pg[j].rel}
           named == {j \in DOMAIN p : Names(p, i, j)}
           other == {j \in DOMAIN q : Names(q, moves[i], j)}
<1>1. moves[i] \in DOMAIN q /\ q[moves[i]] = p[i] /\ \A j \in DOMAIN p : moves[j] \in DOMAIN q /\ q[moves[j]] = p[j]
  BY DEF Moved
<1>2. IsPage(p) /\ IsPage(q)
  BY DEF Moved
<1>3. CASE \E k \in DOMAIN p : Names(p, i, k)
  <2>1. PICK k \in DOMAIN p : Names(p, i, k)
    BY <1>3
  <2>2. ParentOf(p, i) = p[k].parent
    BY <1>2, <2>1, ParentNamed
  <2>3. moves[k] \in DOMAIN q /\ Names(q, moves[i], moves[k])
    BY <1>1, <2>1
  <2>4. ParentOf(q, moves[i]) = q[moves[k]].parent
    BY <1>1, <1>2, <2>3, ParentNamed
  <2>5. QED BY <1>1, <2>2, <2>4
<1>4. CASE ~\E k \in DOMAIN p : Names(p, i, k)
  <2>1. named = {}
    BY <1>4
  <2>2. ~\E j \in DOMAIN q : Names(q, moves[i], j)
    <3> SUFFICES ASSUME NEW j \in DOMAIN q, Names(q, moves[i], j) PROVE FALSE
      OBVIOUS
    <3>1. PICK k \in DOMAIN p : moves[k] = j
      BY DEF Moved
    <3>2. Names(p, i, k)
      BY <1>1, <3>1
    <3> HIDE DEF Names
    <3>3. QED BY <1>4, <3>2
  <2>3. other = {}
    BY <2>2
  <2>4. ParentOf(p, i) = IF named # {} THEN p[First(named)].parent ELSE p[i].parent
    BY DEF ParentOf
  <2>5. ParentOf(q, moves[i]) = IF other # {} THEN q[First(other)].parent ELSE q[moves[i]].parent
    BY DEF ParentOf
  <2>6. QED BY <1>1, <2>1, <2>3, <2>4, <2>5
<1>5. QED BY <1>3, <1>4

(* What is put on cards by a pass, from what a row may be put under.       *)
LEMMA RowsOf ==
    ASSUME NEW p, NEW q, NEW moves, Moved(p, q, moves), NEW S, NEW T, SameRows(p, q, moves, S, T)
    PROVE  S = {} <=> T = {}
BY DEF Moved, SameRows

(* An episode's card is the only one to be found by the episode.           *)
LEMMA OneCard ==
    ASSUME NEW p, IsPage(p), NEW g \in Heads(EpisodeCards(p)), NEW h \in Heads(EpisodeCards(p)),
           p[g].rel = p[h].rel, p[g].rel # NoEpisode
    PROVE  g = h
<1>1. \A i \in DOMAIN EpisodeCards(p) : p[i].rel # NoEpisode => EpisodeCards(p)[i] = HeadOf(p, p[i].rel)
  BY DEF EpisodeCards
<1>2. QED BY <1>1 DEF Heads

LEMMA FirstOfOne == ASSUME NEW S, S \subseteq Nat, NEW h \in S, \A g \in S : g = h PROVE First(S) = h
BY FirstThere

LEMMA LinkedMoved ==
    ASSUME RowsInv, NEW p, NEW q, NEW moves, Moved(p, q, moves)
    PROVE  SameCards(p, q, moves, Linked(p, EpisodeCards(p)), Linked(q, EpisodeCards(q)))
<1> DEFINE e == EpisodeCards(p)
           f == EpisodeCards(q)
           kinds == {"cleaning", "pet", "motion", "error"}
           cp(i) == {h \in Heads(e) : ParentOf(p, i) # NoEpisode /\ p[h].rel = ParentOf(p, i) /\ p[h].dev = p[i].dev}
           cq(i) == {h \in Heads(f) : ParentOf(q, i) # NoEpisode /\ q[h].rel = ParentOf(q, i) /\ q[h].dev = q[i].dev}
           lp == {j \in Left(p, e, kinds) : cp(j) # {}}
           lq == {j \in Left(q, f, kinds) : cq(j) # {}}
           np == [i \in lp |-> First(cp(i))]
           nq == [i \in lq |-> First(cq(i))]
<1>1. SameCards(p, q, moves, e, f) /\ IsPage(p) /\ IsPage(q)
  BY EpisodeCardsMoved DEF Moved
<1>2. SameRows(p, q, moves, Heads(e), Heads(f)) /\ SameRows(p, q, moves, Left(p, e, kinds), Left(q, f, kinds))
  BY <1>1, CardsMoved
<1>3. Linked(p, e) = Joined(np, e) /\ Linked(q, f) = Joined(nq, f)
  BY DEF Linked
<1>4. ASSUME NEW i \in DOMAIN p PROVE SameRows(p, q, moves, cp(i), cq(moves[i]))
  <2>1. ParentOf(q, moves[i]) = ParentOf(p, i) /\ q[moves[i]] = p[i] /\ \A h \in DOMAIN p : q[moves[h]] = p[h]
    BY ParentMoved DEF Moved
  <2> HIDE DEF e, f
  <2>2. QED BY <1>2, <2>1 DEF SameRows
<1>5. \A i, g, h : g \in cp(i) /\ h \in cp(i) => g = h
  BY <1>1, OneCard
<1>6. \A i, g, h : g \in cq(i) /\ h \in cq(i) => g = h
  BY <1>1, OneCard
<1> HIDE DEF e, f
<1>7. Heads(e) \subseteq Nat /\ Heads(f) \subseteq Nat
  BY <1>1, <1>2, PageOf DEF SameRows
<1>8. \A i : cp(i) \subseteq Nat /\ cq(i) \subseteq Nat
  BY <1>7
<1> HIDE DEF cp, cq
<1>9. SameRows(p, q, moves, lp, lq)
  <2>1. \A i \in DOMAIN p : cp(i) = {} <=> cq(moves[i]) = {}
    BY <1>4, RowsOf
  <2>2. QED BY <1>2, <2>1 DEF SameRows
<1>10. ASSUME NEW i \in lp PROVE First(cp(i)) \in DOMAIN p /\ First(cq(moves[i])) = moves[First(cp(i))]
  <2>1. i \in DOMAIN p /\ cp(i) # {}
    BY <1>9 DEF SameRows
  <2>2. PICK h : h \in cp(i)
    BY <2>1
  <2>3. h \in DOMAIN p /\ moves[h] \in cq(moves[i])
    BY <1>4, <2>1, <2>2 DEF SameRows
  <2>4. First(cp(i)) = h
    BY <1>5, <1>8, <2>2, FirstOfOne
  <2>5. First(cq(moves[i])) = moves[h]
    BY <1>6, <1>8, <2>3, FirstOfOne
  <2>6. QED BY <2>3, <2>4, <2>5
<1>11. DOMAIN np = lp /\ DOMAIN nq = lq /\ (\A i \in lp : np[i] = First(cp(i))) /\ \A i \in lq : nq[i] = First(cq(i))
  OBVIOUS
<1> HIDE DEF np, nq, lp, lq
<1>12. SameCards(p, q, moves, np, nq)
  <2>1. \A i \in lp : moves[i] \in lq
    BY <1>9 DEF SameRows
  <2>2. QED BY <1>9, <1>10, <1>11, <2>1 DEF SameCards
<1>13. SameCards(p, q, moves, Joined(np, e), Joined(nq, f))
  BY <1>1, <1>12, JoinedMoved
<1>14. QED BY <1>3, <1>13 DEF e, f

LEMMA VisitMoved ==
    ASSUME NEW p, NEW q, NEW moves, Moved(p, q, moves), NEW h \in DOMAIN p
    PROVE  IsVisit(q, moves[h]) <=> IsVisit(p, h)
<1>1. q[moves[h]] = p[h] /\ \A i \in DOMAIN p : Kind(q, moves[i]) = Kind(p, i)
  BY AnchorsMoved DEF Moved
<1>2. SameRows(p, q, moves, Episode(p, p[h].rel), Episode(q, p[h].rel))
  BY AnchorsMoved
<1>3. (\E i \in Episode(p, p[h].rel) : Kind(p, i) = "toilet_visit")
        <=> (\E i \in Episode(q, p[h].rel) : Kind(q, i) = "toilet_visit")
  <2>1. \A j \in Episode(q, p[h].rel) : \E i \in Episode(p, p[h].rel) : moves[i] = j
    BY <1>2 DEF SameRows, Moved
  <2>2. \A i \in Episode(p, p[h].rel) : i \in DOMAIN p /\ moves[i] \in Episode(q, p[h].rel)
    BY <1>2 DEF SameRows
  <2>3. QED BY <1>1, <2>1, <2>2
<1>4. QED BY <1>1, <1>3 DEF IsVisit

(* A pass that puts rows under the nearest card, of cards none of which    *)
(* is as near as another.                                                  *)
LEMMA NearestCardsMoved ==
    ASSUME NEW p, NEW q, NEW moves, Moved(p, q, moves), NEW of, NEW og, SameCards(p, q, moves, of, og),
           NEW np, NEW nq, SameRows(p, q, moves, DOMAIN np, DOMAIN nq), NEW cp, NEW cq,
           \A i \in DOMAIN np : /\ np[i] = Nearest(p, i, cp[i]) /\ cp[i] # {}
                                /\ SameRows(p, q, moves, cp[i], cq[moves[i]])
                                /\ \A g, h \in cp[i] : g # h => Gap(p, i, g) # Gap(p, i, h),
           \A i \in DOMAIN nq : nq[i] = Nearest(q, i, cq[i])
    PROVE  SameCards(p, q, moves, Joined(np, of), Joined(nq, og))
<1>1. ASSUME NEW i \in DOMAIN np PROVE np[i] \in DOMAIN p /\ nq[moves[i]] = moves[np[i]]
  <2>1. i \in DOMAIN p /\ moves[i] \in DOMAIN nq
    BY DEF SameRows
  <2>2. IsPage(p) /\ cp[i] \subseteq DOMAIN p
    BY DEF SameRows, Moved
  <2>3. Nearest(p, i, cp[i]) \in DOMAIN p
    BY <2>1, <2>2, NearestThere
  <2>4. Nearest(q, moves[i], cq[moves[i]]) = moves[Nearest(p, i, cp[i])]
    BY <2>1, NearestMoved
  <2>5. QED BY <2>1, <2>3, <2>4
<1>2. SameCards(p, q, moves, np, nq)
  BY <1>1 DEF SameCards
<1>3. QED BY <1>2, JoinedMoved

LEMMA NearbyMoved ==
    ASSUME NEW p, NEW q, NEW moves, Moved(p, q, moves), NEW of, NEW og, SameCards(p, q, moves, of, og)
    PROVE  SameCards(p, q, moves, Nearby(p, of), Nearby(q, og))
<1> DEFINE cards(pg, o, i) == {h \in Heads(o) : /\ IsVisit(pg, h) /\ pg[h].dev = pg[i].dev
                                                /\ pg[h].ts <= pg[i].ts /\ Gap(pg, i, h) <= VisitWindow}
           lp == {j \in Left(p, of, {"cleaning"}) : cards(p, of, j) # {}}
           lq == {j \in Left(q, og, {"cleaning"}) : cards(q, og, j) # {}}
           cp == [i \in DOMAIN p |-> cards(p, of, i)]
           cq == [i \in DOMAIN q |-> cards(q, og, i)]
<1>1. SameRows(p, q, moves, Heads(of), Heads(og)) /\ SameRows(p, q, moves, Left(p, of, {"cleaning"}), Left(q, og, {"cleaning"}))
  BY CardsMoved
<1>2. ASSUME NEW i \in DOMAIN p PROVE SameRows(p, q, moves, cards(p, of, i), cards(q, og, moves[i]))
  <2>1. \A h \in DOMAIN p : /\ q[moves[h]] = p[h] /\ (IsVisit(q, moves[h]) <=> IsVisit(p, h))
                            /\ Gap(q, moves[i], moves[h]) = Gap(p, i, h)
    BY VisitMoved DEF Moved, Gap
  <2>2. QED BY <1>1, <2>1 DEF SameRows
<1>3. ASSUME NEW i \in DOMAIN p, NEW g \in cards(p, of, i), NEW h \in cards(p, of, i), g # h
      PROVE  Gap(p, i, g) # Gap(p, i, h)
  <2>1. g \in DOMAIN p /\ h \in DOMAIN p /\ p[g].ts <= p[i].ts /\ p[h].ts <= p[i].ts
    BY <1>1 DEF SameRows
  <2>2. p[g].ts # p[h].ts /\ p[g].ts \in Nat /\ p[h].ts \in Nat /\ p[i].ts \in Nat
    BY <1>3, <2>1 DEF Moved, IsPage
  <2>3. QED BY <2>1, <2>2 DEF Gap
<1> DEFINE np == [i \in lp |-> Nearest(p, i, cards(p, of, i))]
           nq == [i \in lq |-> Nearest(q, i, cards(q, og, i))]
<1>4. Nearby(p, of) = Joined(np, of)
  BY DEF Nearby
<1>5. Nearby(q, og) = Joined(nq, og)
  BY DEF Nearby
<1> HIDE DEF cards
<1>6. \A i \in DOMAIN p : moves[i] \in DOMAIN q /\ (cards(p, of, i) = {} <=> cards(q, og, moves[i]) = {})
  BY <1>2, RowsOf DEF Moved
<1>7. SameRows(p, q, moves, lp, lq)
  BY <1>1, <1>6 DEF SameRows
<1>8. lp \subseteq DOMAIN p /\ lq \subseteq DOMAIN q
  BY <1>7 DEF SameRows
<1>9. DOMAIN np = lp /\ DOMAIN nq = lq
  OBVIOUS
<1>10. \A i \in lp : /\ np[i] = Nearest(p, i, cp[i]) /\ cp[i] # {}
                     /\ SameRows(p, q, moves, cp[i], cq[moves[i]])
                     /\ \A g, h \in cp[i] : g # h => Gap(p, i, g) # Gap(p, i, h)
  BY <1>2, <1>3, <1>6, <1>8
<1>11. \A i \in lq : nq[i] = Nearest(q, i, cq[i])
  BY <1>8
<1> HIDE DEF cp, cq, lp, lq, np, nq
<1>12. SameCards(p, q, moves, Joined(np, of), Joined(nq, og))
  BY <1>7, <1>9, <1>10, <1>11, NearestCardsMoved
<1>13. QED BY <1>4, <1>5, <1>12

LEMMA OrphansMoved ==
    ASSUME NEW p, NEW q, NEW moves, Moved(p, q, moves), NEW of, NEW og, SameCards(p, q, moves, of, og)
    PROVE  SameCards(p, q, moves, Orphans(p, of), Orphans(q, og))
<1> DEFINE done(pg, o, i) == {j \in {k \in Left(pg, o, {"cleaning"}) : pg[k].rel = pg[i].rel} : pg[j].code \in PrimaryDoneCodes}
           lp == {j \in Left(p, of, {"cleaning"}) : p[j].rel # NoEpisode /\ done(p, of, j) # {}}
           lq == {j \in Left(q, og, {"cleaning"}) : q[j].rel # NoEpisode /\ done(q, og, j) # {}}
           np == [i \in lp |-> Soonest(p, done(p, of, i))]
           nq == [i \in lq |-> Soonest(q, done(q, og, i))]
<1>1. SameRows(p, q, moves, Left(p, of, {"cleaning"}), Left(q, og, {"cleaning"}))
  BY CardsMoved
<1>2. \A i \in DOMAIN p : q[moves[i]] = p[i] /\ moves[i] \in DOMAIN q
  BY DEF Moved
<1>3. ASSUME NEW i \in DOMAIN p PROVE SameRows(p, q, moves, done(p, of, i), done(q, og, moves[i]))
  BY <1>1, <1>2 DEF SameRows
<1>4. Orphans(p, of) = Joined(np, of)
  BY DEF Orphans
<1>5. Orphans(q, og) = Joined(nq, og)
  BY DEF Orphans
<1> HIDE DEF done
<1>6. \A i \in DOMAIN p : done(p, of, i) = {} <=> done(q, og, moves[i]) = {}
  BY <1>3, RowsOf
<1>7. SameRows(p, q, moves, lp, lq)
  BY <1>1, <1>2, <1>6 DEF SameRows
<1>8. DOMAIN np = lp /\ DOMAIN nq = lq /\ (\A i \in lp : np[i] = Soonest(p, done(p, of, i))) /\ \A i \in lq : nq[i] = Soonest(q, done(q, og, i))
  OBVIOUS
<1>9. \A i \in lp : i \in DOMAIN p /\ moves[i] \in lq /\ done(p, of, i) # {}
  BY <1>7 DEF SameRows
<1> HIDE DEF np, nq, lp, lq
<1>10. ASSUME NEW i \in lp PROVE np[i] \in DOMAIN p /\ nq[moves[i]] = moves[np[i]]
  <2>1. SameRows(p, q, moves, done(p, of, i), done(q, og, moves[i]))
    BY <1>3, <1>9
  <2>2. Soonest(q, done(q, og, moves[i])) = moves[Soonest(p, done(p, of, i))]
    BY <1>9, <2>1, SoonestMoved
  <2>3. IsPage(p) /\ done(p, of, i) \subseteq DOMAIN p
    BY <2>1 DEF SameRows, Moved
  <2>4. Soonest(p, done(p, of, i)) \in DOMAIN p
    BY <1>9, <2>3, SoonestThere
  <2>5. QED BY <1>8, <1>9, <2>2, <2>4
<1>11. SameCards(p, q, moves, np, nq)
  BY <1>7, <1>8, <1>10 DEF SameCards
<1>12. QED BY <1>4, <1>5, <1>11, JoinedMoved

LEMMA TailsMoved ==
    ASSUME NEW p, NEW q, NEW moves, Moved(p, q, moves), NEW of, NEW og, SameCards(p, q, moves, of, og),
           \A i \in Left(p, of, {"cleaning"}) : \A g, h \in TailCards(p, of, i) : g # h => Gap(p, i, g) # Gap(p, i, h)
    PROVE  SameCards(p, q, moves, Tails(p, of), Tails(q, og))
<1> DEFINE lp == {j \in Left(p, of, {"cleaning"}) : TailCards(p, of, j) # {}}
           lq == {j \in Left(q, og, {"cleaning"}) : TailCards(q, og, j) # {}}
           cp == [i \in DOMAIN p |-> TailCards(p, of, i)]
           cq == [i \in DOMAIN q |-> TailCards(q, og, i)]
<1>1. SameRows(p, q, moves, Heads(of), Heads(og)) /\ SameRows(p, q, moves, Left(p, of, {"cleaning"}), Left(q, og, {"cleaning"}))
  BY CardsMoved
<1>2. ASSUME NEW i \in DOMAIN p PROVE SameRows(p, q, moves, TailCards(p, of, i), TailCards(q, og, moves[i]))
  <2>1. \A h \in DOMAIN p : q[moves[h]] = p[h] /\ Gap(q, moves[i], moves[h]) = Gap(p, i, h)
    BY DEF Moved, Gap
  <2>2. \A h \in DOMAIN p : Kind(q, moves[h]) = Kind(p, h)
    BY AnchorsMoved
  <2>3. QED BY <1>1, <2>1, <2>2 DEF SameRows, TailCards
<1>3. \A i \in DOMAIN p : moves[i] \in DOMAIN q /\ (TailCards(p, of, i) = {} <=> TailCards(q, og, moves[i]) = {})
  BY <1>2, RowsOf DEF Moved
<1>4. SameRows(p, q, moves, lp, lq)
  BY <1>1, <1>3 DEF SameRows
<1>5. lp \subseteq DOMAIN p /\ lq \subseteq DOMAIN q
  BY <1>4 DEF SameRows
<1> DEFINE np == [i \in lp |-> Nearest(p, i, TailCards(p, of, i))]
           nq == [i \in lq |-> Nearest(q, i, TailCards(q, og, i))]
<1>6. DOMAIN np = lp /\ DOMAIN nq = lq
  OBVIOUS
<1>7. \A i \in lp : /\ np[i] = Nearest(p, i, cp[i]) /\ cp[i] # {}
                    /\ SameRows(p, q, moves, cp[i], cq[moves[i]])
                    /\ \A g, h \in cp[i] : g # h => Gap(p, i, g) # Gap(p, i, h)
  BY <1>2, <1>3, <1>5
<1>8. \A i \in lq : nq[i] = Nearest(q, i, cq[i])
  BY <1>5
<1>9. Tails(p, of) = Joined(np, of) /\ Tails(q, og) = Joined(nq, og)
  BY DEF Tails
<1> HIDE DEF cp, cq, lp, lq, np, nq
<1>10. SameCards(p, q, moves, Joined(np, of), Joined(nq, og))
  BY <1>4, <1>6, <1>7, <1>8, NearestCardsMoved
<1>11. QED BY <1>9, <1>10

LEMMA GroupedMoved ==
    ASSUME RowsInv, NEW p, NEW q, NEW moves, Moved(p, q, moves), ~Undecided(p)
    PROVE  SameCards(p, q, moves, Grouped(p), Grouped(q))
<1> DEFINE l(pg) == Linked(pg, EpisodeCards(pg))
<1>1. SameCards(p, q, moves, l(p), l(q))
  BY LinkedMoved
<1> HIDE DEF l
<1>2. SameCards(p, q, moves, Nearby(p, l(p)), Nearby(q, l(q)))
  BY <1>1, NearbyMoved
<1>3. SameCards(p, q, moves, Orphans(p, Nearby(p, l(p))), Orphans(q, Nearby(q, l(q))))
  BY <1>2, OrphansMoved
<1>4. SameCards(p, q, moves, Claimed(p), Claimed(q))
  BY <1>3 DEF Claimed, l
<1>5. SameCards(p, q, moves, Tails(p, Claimed(p)), Tails(q, Claimed(q)))
  BY <1>4, TailsMoved DEF Undecided
<1>6. SameCards(p, q, moves, [i \in DOMAIN p |-> i], [i \in DOMAIN q |-> i])
  BY DEF SameCards, SameRows, Moved
<1>7. QED BY <1>5, <1>6, JoinedMoved DEF Grouped, Standalone
-----------------------------------------------------------------------------
(* Between two lists of the rows there is such a move; so what they say of *)
(* the rows is the same.                                                   *)
LEMMA ListsMoved ==
    ASSUME RowsInv, \A r, s \in rows : r.ts = s.ts => r = s,
           NEW p, Lists(p, rows), NEW q, Lists(q, rows)
    PROVE  \E moves : Moved(p, q, moves)
<1> DEFINE moves == [i \in DOMAIN p |-> CHOOSE j \in DOMAIN q : q[j] = p[i]]
<1>1. IsPage(p) /\ IsPage(q)
  BY ListIsPage
<1>2. (\A i \in DOMAIN p : p[i] \in rows) /\ (\A j \in DOMAIN q : q[j] \in rows)
  BY <1>1, PageRows
<1>3. ASSUME NEW i \in DOMAIN p PROVE moves[i] \in DOMAIN q /\ q[moves[i]] = p[i]
  <2>1. \E j \in DOMAIN q : q[j] = p[i]
    BY <1>2 DEF Lists
  <2>2. QED BY <2>1
<1>4. moves \in [DOMAIN p -> DOMAIN q]
  BY <1>3
<1> HIDE DEF moves
<1>5. ASSUME NEW j \in DOMAIN q PROVE \E i \in DOMAIN p : moves[i] = j
  <2>1. PICK i \in DOMAIN p : p[i] = q[j]
    BY <1>2 DEF Lists
  <2>2. moves[i] = j
    BY <1>3, <2>1 DEF Lists
  <2>3. QED BY <2>2
<1>6. ASSUME NEW i \in DOMAIN p, NEW k \in DOMAIN p PROVE /\ moves[i] = moves[k] => i = k
                                                          /\ p[i].ts = p[k].ts => i = k
  BY <1>2, <1>3 DEF Lists
<1>7. QED BY <1>1, <1>3, <1>4, <1>5, <1>6 DEF Moved

LEMMA SameById ==
    ASSUME RowsInv, NEW p, NEW q, NEW moves, Moved(p, q, moves), ~Undecided(p)
    PROVE  ById(p) = ById(q)
<1> DEFINE of == Grouped(p)
           og == Grouped(q)
<1>1. SameCards(p, q, moves, of, og)
  BY GroupedMoved
<1>2. DOMAIN of = DOMAIN p /\ ById(p) = {<<p[i].id, p[of[i]].id>> : i \in DOMAIN p}
  BY GroupedExtends DEF Moved, ById
<1>3. ById(q) = {<<q[i].id, q[og[i]].id>> : i \in DOMAIN q}
  BY DEF ById
<1> HIDE DEF of, og
<1>4. ASSUME NEW i \in DOMAIN p
      PROVE  moves[i] \in DOMAIN q /\ q[moves[i]].id = p[i].id /\ q[og[moves[i]]].id = p[of[i]].id
  <2>1. of[i] \in DOMAIN p /\ og[moves[i]] = moves[of[i]]
    BY <1>1, <1>2 DEF SameCards
  <2>2. QED BY <2>1 DEF Moved
<1>5. ById(p) \subseteq ById(q)
  BY <1>2, <1>3, <1>4
<1>6. ASSUME NEW j \in DOMAIN q PROVE <<q[j].id, q[og[j]].id>> \in ById(p)
  <2>1. PICK i \in DOMAIN p : moves[i] = j
    BY DEF Moved
  <2>2. QED BY <1>2, <1>4, <2>1
<1>7. ById(q) \subseteq ById(p)
  BY <1>3, <1>6
<1>8. QED BY <1>5, <1>7

LEMMA AnyOrder == RowsInv => OrderFree
<1> SUFFICES ASSUME RowsInv, \A r, s \in rows : r.ts = s.ts => r = s, ~Undecided(Page)
             PROVE  ById(Page) = ById(Sorted(rows, Oldest)) /\ ById(Page) = ById(Sorted(rows, AsStored))
  BY DEF OrderFree
<1>1. Lists(Page, rows)
  BY NewestLists DEF Page
<1>2. ASSUME NEW q, Lists(q, rows) PROVE ById(Page) = ById(q)
  <2>1. PICK moves : Moved(Page, q, moves)
    BY <1>1, <1>2, ListsMoved
  <2>2. QED BY <2>1, SameById
<1>3. ById(Page) = ById(Sorted(rows, Oldest))
  BY <1>2, OldestLists
<1>4. ById(Page) = ById(Sorted(rows, AsStored))
  BY <1>2, AsStoredLists
<1>5. QED BY <1>3, <1>4

(* Whatever a device tells, in whatever order and however often, and       *)
(* whatever was pruned: a follow-up is on the card of the episode it       *)
(* named, a visit's summary heads its card, media is shown once on each    *)
(* card with rows of its episode, and the cards are the same in whatever   *)
(* order the rows are read (group_sessions).                               *)
THEOREM CardsAlwaysRight == TimelineSpec => []CardsRight
<1>1. RowsInv => CardsRight
  BY FollowUps, Media, AnyOrder DEF CardsRight
<1>2. QED BY <1>1, RowsInvHolds, PTL
=============================================================================
