-------------------------------- MODULE Pets --------------------------------
(***************************************************************************)
(* Who an event is attributed to, and which photos a device is handed      *)
(* (ai/pets.py, web/api/pets.py, the pet tables of events/store.py).       *)
(*                                                                         *)
(* A device reports an identity, a `ref'.  It is the id of a pet we handed *)
(* it, or one it cached from PetKit's cloud, which the user binds to a pet *)
(* as an alias.  Every statement of the store is one action, and requests  *)
(* interleave between statements; the device may repeat a report.          *)
(*                                                                         *)
(* Bounds: one request at a time changes aliases (one user edits), and     *)
(* aliases are foreign ids.  What happens beyond them is in the README.    *)
(***************************************************************************)
EXTENDS Integers, FiniteSets, FiniteSetsExt

CONSTANTS
    NumPets,        \* ids 1, 2, ..., handed out in order and never again
    Foreign,        \* identities only PetKit's cloud gave out
    Reports,        \* events a device reports
    PhotoRequests,       \* panel requests about photos, and deletions of pets
    NumFaces,       \* photo ids, handed out in order and never again
    MaxFaces        \* MAX_FACES_PER_PET

ASSUME PetsAssumption ==
    /\ NumPets \in Nat /\ NumFaces \in Nat /\ MaxFaces \in Nat \ {0}
    /\ Foreign \subseteq Nat /\ Foreign \cap 0 .. NumPets = {}

PetIds == 1 .. NumPets
FaceIds == 1 .. NumFaces
Refs == PetIds \cup Foreign
Nobody == 0          \* no pet_id
Absent == -1         \* no row, no answer

VARIABLES
    pets, lastPet, aliases,         \* the rows of `pets', the last id, their aliases
    ref, attributed, resolving,     \* per report: its identity, its row, the answer on its way to the row
    stale,                          \* rows written with an answer that no longer held
    edit,                           \* the request that changes aliases
    task,                           \* the other requests
    faces, lastFace,                \* rows of `pet_faces': whose, and whether they name a file
    files,                          \* photos on disk
    offered                         \* what dev_discern_pic answered last

petsVars == <<pets, lastPet, aliases, ref, attributed, resolving, stale, edit, task,
              faces, lastFace, files, offered>>
historyVars == <<ref, attributed, resolving, stale>>
tableVars   == <<pets, lastPet, aliases>>
photoVars   == <<faces, lastFace, files, offered>>

NoEdit == [at |-> "idle", pet |-> 0, wanted |-> {}, had |-> {}, others |-> {}, found |-> {}]
NoTask == [at |-> "idle", pet |-> 0, face |-> 0]

PetsTypeOK ==
    /\ pets \subseteq PetIds /\ lastPet \in 0 .. NumPets
    /\ aliases \in [PetIds -> SUBSET Foreign]
    /\ ref \in [Reports -> Refs]
    /\ attributed \in [Reports -> PetIds \cup {Nobody, Absent}]
    /\ resolving \in [Reports -> PetIds \cup {Nobody, Absent}]
    /\ stale \subseteq Reports
    /\ DOMAIN faces \subseteq FaceIds /\ files \subseteq FaceIds

PetsInit ==
    /\ pets = {} /\ lastPet = 0 /\ aliases = [p \in PetIds |-> {}]
    /\ ref \in [Reports -> Refs]
    /\ attributed = [e \in Reports |-> Absent]
    /\ resolving = [e \in Reports |-> Absent]
    /\ stale = {}
    /\ edit = NoEdit /\ task = [q \in PhotoRequests |-> NoTask]
    /\ faces = <<>> /\ lastFace = 0 /\ files = {} /\ offered = {}

-----------------------------------------------------------------------------
(* The first pet, in the order of ids, that is this identity or claims it. *)
Resolve(r) ==
    LET known == {p \in pets : p = r \/ r \in aliases[p]}
    IN IF known = {} THEN Nobody ELSE Min(known)

(* A device reports an event, or repeats one whose answer it missed.  It   *)
(* knows an id of ours only after we made the pet.                         *)
ReportArrives(e) ==
    /\ resolving[e] = Absent /\ ref[e] \in Foreign \cup 1 .. lastPet
    /\ resolving' = [resolving EXCEPT ![e] = Resolve(ref[e])]
    /\ UNCHANGED <<tableVars, ref, attributed, stale, edit, task, photoVars>>

(* The row is inserted, or updated in place.                               *)
ReportStored(e) ==
    /\ resolving[e] # Absent
    /\ attributed' = [attributed EXCEPT ![e] = resolving[e]]
    /\ stale' = IF resolving[e] = Resolve(ref[e]) THEN stale \ {e} ELSE stale \cup {e}
    /\ resolving' = [resolving EXCEPT ![e] = Absent]
    /\ UNCHANGED <<tableVars, ref, edit, task, photoVars>>

(* Every stored row of an identity goes to one pet, or to nobody.          *)
Rebind(r, p) ==
    LET rows == {e \in Reports : ref[e] = r /\ attributed[e] # Absent}
    IN /\ attributed' = [e \in Reports |-> IF e \in rows THEN p ELSE attributed[e]]
       /\ stale' = stale \ rows
       /\ UNCHANGED <<ref, resolving>>
-----------------------------------------------------------------------------
(* The request that changes aliases.  It has read what the pet had         *)
(* (`read'), writes the new list (`clear'), takes history from what was    *)
(* removed, and then, for each identity it wants, strips it from every     *)
(* other pet and moves its history (`claim', `strip', `write').            *)

EditGoes(record) == edit' = record /\ UNCHANGED <<task, photoVars>>

CreatePet ==
    /\ edit.at = "idle" /\ lastPet < NumPets
    /\ lastPet' = lastPet + 1 /\ pets' = pets \cup {lastPet + 1}
    /\ EditGoes(NoEdit) /\ UNCHANGED <<aliases, historyVars>>

(* Faulty: what is removed from the list keeps its history.                *)
EditForgetsRemoved(p, wanted) ==
    /\ edit.at = "idle" /\ p \in pets
    /\ EditGoes([NoEdit EXCEPT !.at = "read", !.pet = p, !.wanted = wanted])
    /\ UNCHANGED <<tableVars, historyVars>>

EditBegins(p, wanted) ==
    /\ edit.at = "idle" /\ p \in pets
    /\ EditGoes([NoEdit EXCEPT !.at = "read", !.pet = p, !.wanted = wanted, !.had = aliases[p]])
    /\ UNCHANGED <<tableVars, historyVars>>

(* A pet deleted since answers 404.                                        *)
EditWritesAliases ==
    /\ edit.at = "read"
    /\ IF edit.pet \in pets
       THEN /\ aliases' = [aliases EXCEPT ![edit.pet] = edit.wanted]
            /\ EditGoes([edit EXCEPT !.at = "clear", !.had = @ \ edit.wanted])
       ELSE EditGoes(NoEdit) /\ UNCHANGED aliases
    /\ UNCHANGED <<pets, lastPet, historyVars>>

EditClears ==
    /\ edit.at = "clear"
    /\ \/ \E r \in edit.had : Rebind(r, Nobody) /\ EditGoes([edit EXCEPT !.had = @ \ {r}])
       \/ edit.had = {} /\ EditGoes([edit EXCEPT !.at = "claim"]) /\ UNCHANGED historyVars
    /\ UNCHANGED tableVars

EditClaims ==
    /\ edit.at = "claim"
    /\ \/ \E r \in edit.wanted :
             EditGoes([edit EXCEPT !.at = "strip", !.found = {r},
                                   !.others = {p \in pets : r \in aliases[p]} \ {edit.pet}])
       \/ edit.wanted = {} /\ EditGoes(NoEdit)
    /\ UNCHANGED <<tableVars, historyVars>>

EditStrips ==
    /\ edit.at = "strip"
    /\ \/ \E p \in edit.others :
             /\ aliases' = IF p \in pets THEN [aliases EXCEPT ![p] = @ \ edit.found] ELSE aliases
             /\ EditGoes([edit EXCEPT !.others = @ \ {p}]) /\ UNCHANGED historyVars
       \/ /\ edit.others = {} /\ UNCHANGED aliases
          /\ \E r \in edit.found : Rebind(r, edit.pet)
          /\ EditGoes([edit EXCEPT !.at = "claim", !.wanted = @ \ edit.found])
    /\ UNCHANGED <<pets, lastPet>>

(* An import makes a pet of an identity nobody claims, and then binds it.  *)
ImportCreates(r) ==
    /\ edit.at = "idle" /\ lastPet < NumPets /\ r \in Foreign /\ Resolve(r) = Nobody
    /\ lastPet' = lastPet + 1 /\ pets' = pets \cup {lastPet + 1}
    /\ EditGoes([NoEdit EXCEPT !.at = "name", !.pet = lastPet + 1, !.found = {r}])
    /\ UNCHANGED <<aliases, historyVars>>

ImportBinds ==
    /\ \/ /\ edit.at = "name"
          /\ aliases' = IF edit.pet \in pets THEN [aliases EXCEPT ![edit.pet] = edit.found]
                        ELSE aliases
          /\ EditGoes([edit EXCEPT !.at = "bind"]) /\ UNCHANGED historyVars
       \/ /\ edit.at = "bind" /\ UNCHANGED aliases
          /\ \E r \in edit.found : Rebind(r, edit.pet)
          /\ EditGoes(NoEdit)
    /\ UNCHANGED <<pets, lastPet>>
-----------------------------------------------------------------------------
(* Photos, and the deletion of a pet.                                      *)

TaskGoes(q, record) == task' = [task EXCEPT ![q] = record] /\ UNCHANGED <<historyVars, edit>>
FacesOf(p) == {f \in DOMAIN faces : faces[f].pet = p}
Without(fs) == [f \in DOMAIN faces \ fs |-> faces[f]]

(* The pet exists, the bytes are a JPEG; the photo is then resized.        *)
AddBegins(q, p) ==
    /\ task[q].at = "idle" /\ p \in pets
    /\ TaskGoes(q, [at |-> "resize", pet |-> p, face |-> 0])
    /\ UNCHANGED <<tableVars, photoVars>>

(* Faulty: the row names its file before the file is there.                *)
AddNamesFile(q) ==
    /\ task[q].at = "resize" /\ lastFace < NumFaces
    /\ lastFace' = lastFace + 1
    /\ faces' = [f \in DOMAIN faces \cup {lastFace + 1} |->
                    IF f = lastFace + 1 THEN [pet |-> task[q].pet, path |-> TRUE] ELSE faces[f]]
    /\ TaskGoes(q, [at |-> "write", pet |-> task[q].pet, face |-> lastFace + 1])
    /\ UNCHANGED <<tableVars, files, offered>>

(* The id comes first: it is part of the name of the file.                 *)
AddTakesId(q) ==
    /\ task[q].at = "resize"
    /\ IF Cardinality(FacesOf(task[q].pet)) < MaxFaces /\ lastFace < NumFaces
       THEN /\ lastFace' = lastFace + 1
            /\ faces' = [f \in DOMAIN faces \cup {lastFace + 1} |->
                            IF f = lastFace + 1 THEN [pet |-> task[q].pet, path |-> FALSE]
                            ELSE faces[f]]
            /\ TaskGoes(q, [at |-> "write", pet |-> task[q].pet, face |-> lastFace + 1])
       ELSE TaskGoes(q, NoTask) /\ UNCHANGED <<faces, lastFace>>
    /\ UNCHANGED <<tableVars, files, offered>>

(* The disk may be full: the row goes again.                               *)
AddWrites(q) ==
    /\ task[q].at = "write"
    /\ \/ files' = files \cup {task[q].face} /\ TaskGoes(q, [task[q] EXCEPT !.at = "point"])
       \/ UNCHANGED files /\ TaskGoes(q, [task[q] EXCEPT !.at = "drop"])
    /\ UNCHANGED <<tableVars, faces, lastFace, offered>>

AddEnds(q) ==
    LET f == task[q].face IN
    /\ \/ /\ task[q].at = "point"
          /\ faces' = IF f \in DOMAIN faces THEN [faces EXCEPT ![f].path = TRUE] ELSE faces
       \/ task[q].at = "drop" /\ faces' = Without({f})
    /\ TaskGoes(q, NoTask)
    /\ UNCHANGED <<tableVars, lastFace, files, offered>>

(* delete_face, and delete of a pet with all of its photos: files first.   *)
DeleteFaceUnlinks(q, f) ==
    /\ task[q].at = "idle" /\ f \in DOMAIN faces
    /\ files' = IF faces[f].path THEN files \ {f} ELSE files
    /\ TaskGoes(q, [at |-> "forget", pet |-> 0, face |-> f])
    /\ UNCHANGED <<tableVars, faces, lastFace, offered>>

DeleteFaceForgets(q) ==
    /\ task[q].at = "forget"
    /\ faces' = Without({task[q].face})
    /\ TaskGoes(q, NoTask)
    /\ UNCHANGED <<tableVars, lastFace, files, offered>>

DeletePetUnlinks(q, p) ==
    /\ task[q].at = "idle" /\ p \in pets
    /\ files' = files \ {f \in FacesOf(p) : faces[f].path}
    /\ TaskGoes(q, [at |-> "delete", pet |-> p, face |-> 0])
    /\ UNCHANGED <<tableVars, faces, lastFace, offered>>

DeletePetForgets(q) ==
    /\ task[q].at = "delete"
    /\ pets' = pets \ {task[q].pet}
    /\ aliases' = [aliases EXCEPT ![task[q].pet] = {}]
    /\ faces' = Without(FacesOf(task[q].pet))
    /\ TaskGoes(q, NoTask)
    /\ UNCHANGED <<lastPet, lastFace, files, offered>>

(* dev_discern_pic: per pet, the photos that name a file.  Recognition is  *)
(* switched on and off in the panel, and only here.                        *)
DiscernPic ==
    /\ offered' \in {{f \in DOMAIN faces : faces[f].pet \in pets /\ faces[f].path}, {}}
    /\ UNCHANGED <<tableVars, historyVars, edit, task, faces, lastFace, files>>
-----------------------------------------------------------------------------
DeletePet(q) == DeletePetForgets(q) \/ \E p \in PetIds : DeletePetUnlinks(q, p)

AttributionNext ==
    \/ \E e \in Reports : ReportArrives(e) \/ ReportStored(e)
    \/ CreatePet
    \/ \E p \in PetIds, wanted \in SUBSET Foreign : EditBegins(p, wanted)
    \/ EditWritesAliases \/ EditClears \/ EditClaims \/ EditStrips
    \/ \E r \in Foreign : ImportCreates(r)
    \/ ImportBinds
    \/ \E q \in PhotoRequests : DeletePet(q)

PhotosNext ==
    \/ CreatePet
    \/ \E q \in PhotoRequests :
         \/ \E p \in PetIds : AddBegins(q, p)
         \/ \E f \in FaceIds : DeleteFaceUnlinks(q, f)
         \/ AddTakesId(q) \/ AddWrites(q) \/ AddEnds(q) \/ DeleteFaceForgets(q)
         \/ DeletePet(q)
    \/ DiscernPic

PetsNext == AttributionNext \/ PhotosNext

PetsSpec == PetsInit /\ [][PetsNext]_petsVars
-----------------------------------------------------------------------------
(* Once no edit is under way, past and future agree: the stored rows of an *)
(* identity belong to the pet its next report would go to, and to none     *)
(* that is still there if nobody claims it.  A row written with an answer  *)
(* an edit overtook is excepted (stale).                                   *)
HistoryFollowsAliases ==
    edit.at = "idle" =>
        \A e \in Reports \ stale :
            attributed[e] # Absent =>
                \/ attributed[e] = Resolve(ref[e])
                \/ Resolve(ref[e]) = Nobody /\ attributed[e] \notin pets

(* A photo the device was told to fetch is on disk as long as its row is,  *)
(* unless its deletion is on its way; and no pet has more of them than the *)
(* device's own limit.                                                     *)
Deleting(f) ==
    \E q \in PhotoRequests :
        \/ task[q].at = "forget" /\ task[q].face = f
        \/ task[q].at = "delete" /\ task[q].pet = faces[f].pet

PhotosServable ==
    /\ \A f \in offered \cap DOMAIN faces : f \in files \/ Deleting(f)
    /\ \A p \in PetIds : Cardinality(FacesOf(p)) <= MaxFaces
=============================================================================
