------------------------------- MODULE People -------------------------------
(* Faces and persons: FaceService (service/faces.go), PersonService            *)
(* (service/persons.go), MergePersons (service/search.go).  Detection and      *)
(* clustering run in goroutines of their own, under the flag FaceService.running; *)
(* the minute scheduler and the HTTP handlers change the same rows meanwhile.  *)
(* The ML backend is external.  An embedding is reduced to whose face it is:   *)
(* the faces of one kind are within epsilon of each other and of the centroid  *)
(* of a person who has one of them.                                            *)
EXTENDS Integers, FiniteSets

CONSTANTS
    Faces,          \* 1..n; a face with a larger number has the better cover score
    AssetOf, Kind,  \* the photo a face is on, and whose face it is (1, 2, ...)
    Persons,        \* ids, a set 1..m
    MaxPersonActs,
    MaxFaceFaults,  \* files replaced, photos gone, failed detections and statements, restarts
    UserInCluster,  \* may a face be detached or purged between load and rebuild
    CoverRaces,     \* may a face leave a person between SetPersonCover's two statements
    EditInDetect    \* may a file be replaced while its faces are detected

ASSUME FacesAreNumbered ==
    /\ IsFiniteSet(Faces) /\ Faces = 1..Cardinality(Faces)
    /\ IsFiniteSet(Persons) /\ Persons = 1..Cardinality(Persons)

VARIABLES
    there,      \* the indexed photos
    content, seen,      \* per photo: the version of the file, and the one its faces are of
    scanned,    \* photos with face_scanned = 1
    missed,     \* ghost: faces that the last detection saw, and whose INSERT failed
    face,       \* per face: "none", "active" or "excluded" in face_detections
    bind,       \* per face: the person of its face_person row, or 0
    person,     \* per person: the row, or Absent
    run,        \* RunPipeline or RunClustering: step, targets, the one at hand, loaded faces
    backoff,    \* nextAttempt is in the future
    sweep,      \* the due persons PurgeDuePersons has still to visit
    pick,       \* SetPersonCover: the person and the face it chose
    wanted,     \* ghost: persons the user named and has not deleted since
    personActs, faceFaults

ppVars == <<there, content, seen, scanned, missed, face, bind, person, run, backoff, sweep, pick, wanted, personActs, faceFaults>>
photos == <<there, content, seen, scanned, missed>>
counts == <<personActs, faceFaults>>

Assets == {AssetOf[f] : f \in Faces}
Kinds  == {Kind[f] : f \in Faces}
Lost   == -1        \* a cover_face_id whose row is gone
NoRun  == [pc |-> "idle", todo |-> {}, on |-> 0, read |-> 0, loaded |-> {}]
NoPick == [p |-> 0, f |-> 0]
Absent == [here |-> FALSE, named |-> FALSE, hidden |-> FALSE, purge |-> "no", cover |-> 0, locked |-> FALSE]
Created == [Absent EXCEPT !.here = TRUE]

PpInit ==
    /\ there = Assets /\ content = [a \in Assets |-> 1] /\ seen = [a \in Assets |-> 0] /\ scanned = {} /\ missed = {}
    /\ face = [f \in Faces |-> "none"] /\ bind = [f \in Faces |-> 0]
    /\ person = [p \in Persons |-> Absent]
    /\ run = NoRun /\ backoff = FALSE /\ sweep = {} /\ pick = NoPick /\ wanted = {}
    /\ personActs = 0 /\ faceFaults = 0

FaceFault == faceFaults < MaxFaceFaults /\ faceFaults' = faceFaults + 1

Here       == {p \in Persons : person[p].here}
Members(p) == {f \in Faces : bind[f] = p}
Free       == {f \in Faces : face[f] = "active" /\ bind[f] = 0}

\* personAnchoredCond; name stands for name, favorite, relation and hero.
Anchored(p) == person[p].here /\ (person[p].named \/ person[p].hidden \/ person[p].locked)
\* The narrower one of the purge paths.
Kept(p) == person[p].named \/ person[p].hidden

\* selectCoverFace: the best hybrid score.
selectCoverFace(fs) == CHOOSE f \in fs : \A g \in fs : g <= f

\* recomputeOneCentroidTx and recomputePersonStatsTx, for the row r of a person whose
\* active faces are fs: a valid locked cover stays.
Recomputed(r, fs) ==
    IF fs = {} THEN [r EXCEPT !.cover = 0, !.locked = FALSE]
    ELSE IF r.locked /\ r.cover \in fs THEN r
    ELSE [r EXCEPT !.cover = selectCoverFace(fs), !.locked = IF r.cover = 0 THEN r.locked ELSE FALSE]

\* DELETE FROM face_detections, with the cascade to face_person; what still names a
\* face, names a row that is gone.
DropFaces(fs) ==
    /\ face' = [f \in Faces |-> IF f \in fs THEN "none" ELSE face[f]]
    /\ bind' = [f \in Faces |-> IF f \in fs THEN 0 ELSE bind[f]]
    /\ person' = [p \in Persons |-> IF person[p].cover \in fs THEN [person[p] EXCEPT !.cover = Lost] ELSE person[p]]
    /\ pick' = IF pick.f \in fs THEN [pick EXCEPT !.f = Lost] ELSE pick

-----------------------------------------------------------------------------
(* RunPipeline: detect the faces of each target, then cluster.                 *)

queryFaceScanTargets == there \ scanned

\* countUnassignedFaces = 0 and nothing to detect: the daily-skip guard.
RunPipeline ==
    /\ run.pc = "idle"
    /\ queryFaceScanTargets # {} \/ Free # {}
    /\ run' = [NoRun EXCEPT !.pc = "detect", !.todo = queryFaceScanTargets]
    /\ UNCHANGED <<photos, face, bind, person, backoff, sweep, pick, wanted, counts>>

\* POST persons/recluster, and the settings.
RunClustering ==
    /\ run.pc = "idle" /\ personActs < MaxPersonActs
    /\ run' = [NoRun EXCEPT !.pc = "load"] /\ personActs' = personActs + 1
    /\ UNCHANGED <<photos, face, bind, person, backoff, sweep, pick, wanted, faceFaults>>

\* The model's answer for the file as it is now; a failure (DetectFails) leaves the
\* photo to the next run.
DetectCall ==
    /\ run.pc = "detect"
    /\ \E a \in run.todo :
        /\ run' = [run EXCEPT !.todo = @ \ {a}, !.on = a, !.read = content[a],
                              !.pc = IF a \in there THEN "delete" ELSE "detect"]
    /\ UNCHANGED <<photos, face, bind, person, backoff, sweep, pick, wanted, counts>>

DetectFails ==
    /\ run.pc = "detect" /\ FaceFault
    /\ \E a \in run.todo : run' = [run EXCEPT !.todo = @ \ {a}]
    /\ UNCHANGED <<photos, face, bind, person, backoff, sweep, pick, wanted, personActs>>

\* So does a DELETE or an UPDATE that fails.
DetectLeaves ==
    /\ run.pc \in {"delete", "mark"} /\ FaceFault
    /\ run' = [run EXCEPT !.pc = "detect"]
    /\ UNCHANGED <<photos, face, bind, person, backoff, sweep, pick, wanted, personActs>>

\* The previous detections of this photo.
DetectDelete ==
    /\ run.pc = "delete"
    /\ DropFaces({f \in Faces : AssetOf[f] = run.on})
    /\ run' = [run EXCEPT !.pc = "insert"]
    /\ UNCHANGED <<photos, backoff, sweep, wanted, counts>>

\* insertFaceDetections, but for some faces; the foreign key refuses a photo that is gone.
Inserted(bad) ==
    /\ run.pc = "insert"
    /\ face' = [f \in Faces |-> IF AssetOf[f] = run.on /\ f \notin bad /\ run.on \in there THEN "active" ELSE face[f]]
    /\ missed' = {f \in missed : AssetOf[f] # run.on} \cup bad
    /\ seen' = [seen EXCEPT ![run.on] = run.read]
    /\ run' = [run EXCEPT !.pc = "mark"]
    /\ UNCHANGED <<there, content, scanned, bind, person, backoff, sweep, pick, wanted, personActs>>

DetectInsert == Inserted({}) /\ UNCHANGED faceFaults

\* A failing INSERT is logged and the loop goes on: the photo is marked all the same.
InsertFails ==
    /\ FaceFault
    /\ \E bad \in SUBSET {f \in Faces : AssetOf[f] = run.on} : bad # {} /\ Inserted(bad)

\* UPDATE assets SET face_scanned = 1.
DetectMark ==
    /\ run.pc = "mark"
    /\ scanned' = IF run.on \in there THEN scanned \cup {run.on} ELSE scanned
    /\ run' = [run EXCEPT !.pc = "detect"]
    /\ UNCHANGED <<there, content, seen, missed, face, bind, person, backoff, sweep, pick, wanted, counts>>

Detected ==
    /\ run.pc = "detect" /\ run.todo = {}
    /\ run' = [run EXCEPT !.pc = "load"]
    /\ UNCHANGED <<photos, face, bind, person, backoff, sweep, pick, wanted, counts>>

-----------------------------------------------------------------------------
(* clusterStage: load, then rebuild in one transaction.                        *)

\* purgeAutoPersons.
NoFacesLeft ==
    /\ run.pc = "load" /\ \A f \in Faces : face[f] # "active"
    /\ bind' = [f \in Faces |-> IF bind[f] # 0 /\ Kept(bind[f]) THEN bind[f] ELSE 0]
    /\ person' = [p \in Persons |-> IF Kept(p) THEN person[p] ELSE Absent]
    /\ run' = NoRun
    /\ UNCHANGED <<photos, face, backoff, sweep, pick, wanted, counts>>

loadFacesWithProgress ==
    /\ run.pc = "load" /\ \E f \in Faces : face[f] = "active"
    /\ run' = [run EXCEPT !.pc = "rebuild", !.loaded = {f \in Faces : face[f] = "active"}]
    /\ UNCHANGED <<photos, face, bind, person, backoff, sweep, pick, wanted, counts>>

\* The anchored persons a loaded face of kind k is near to.
Snaps(k, anchors) == {p \in anchors : \E g \in Members(p) : face[g] = "active" /\ Kind[g] = k}

\* The tail of the rebuild, for a set of persons that survive with their faces.
Rebuild(anchors) ==
    LET held  == {f \in Faces : bind[f] \in anchors}
        loose == run.loaded \ held
        fresh == Persons \ (Here \cup sweep \cup {pick.p})
        IsNew(p, k) == p \in fresh /\ Cardinality({q \in fresh : q < p}) = k - 1
    IN  IF \E f \in loose : face[f] = "none"
        THEN \* the foreign key of face_person: roll back, and back off 30 minutes
             run' = NoRun /\ backoff' = TRUE /\ UNCHANGED <<bind, person>>
        ELSE \E near \in [Kinds -> Persons] :
             /\ \A k \in Kinds : IF Snaps(k, anchors) # {} THEN near[k] \in Snaps(k, anchors) ELSE IsNew(near[k], k)
             /\ bind' = [f \in Faces |-> IF f \in held THEN bind[f] ELSE IF f \in loose THEN near[Kind[f]] ELSE 0]
             /\ person' = [p \in Persons |->
                    IF p \notin anchors /\ \A f \in loose : bind'[f] # p THEN Absent
                    ELSE Recomputed(IF p \in anchors THEN person[p] ELSE Created,
                                    {f \in Faces : bind'[f] = p /\ face[f] = "active"})]
             /\ run' = NoRun /\ backoff' = FALSE

\* Mutant: the narrower predicate of the purge paths.
RebuildNarrow ==
    /\ run.pc = "rebuild"
    /\ Rebuild({p \in Here : Kept(p)})
    /\ UNCHANGED <<photos, face, sweep, pick, wanted, counts>>

rebuildPersonsWithProgress ==
    /\ run.pc = "rebuild"
    /\ Rebuild({p \in Here : Anchored(p)})
    /\ UNCHANGED <<photos, face, sweep, pick, wanted, counts>>

BackoffEnds ==
    /\ backoff /\ backoff' = FALSE
    /\ UNCHANGED <<photos, face, bind, person, run, sweep, pick, wanted, counts>>

-----------------------------------------------------------------------------
(* The minute scheduler.                                                       *)

\* Mutant: shells stay.
PurgeNothing == FALSE /\ UNCHANGED ppVars

purgeEmptyAutoPersons ==
    LET shells == {p \in Here : ~Kept(p) /\ Members(p) = {}} IN
    /\ shells # {}
    /\ person' = [p \in Persons |-> IF p \in shells THEN Absent ELSE person[p]]
    /\ UNCHANGED <<photos, face, bind, run, backoff, sweep, pick, wanted, counts>>

ClearDanglingCovers ==
    LET lost == {p \in Here : person[p].cover = Lost} IN
    /\ lost # {}
    /\ person' = [p \in Persons |-> IF p \in lost THEN [person[p] EXCEPT !.cover = 0, !.locked = FALSE] ELSE person[p]]
    /\ UNCHANGED <<photos, face, bind, run, backoff, sweep, pick, wanted, counts>>

Due(p) == person[p].hidden /\ person[p].purge = "due"

\* personPurgeGrace is over.
GraceEnds(p) ==
    /\ person[p].purge = "grace"
    /\ person' = [person EXCEPT ![p].purge = "due"]
    /\ UNCHANGED <<photos, face, bind, run, backoff, sweep, pick, wanted, counts>>

PurgeDuePersons ==
    /\ sweep = {} /\ \E p \in Here : Due(p)
    /\ sweep' = {p \in Here : Due(p)}
    /\ UNCHANGED <<photos, face, bind, person, run, backoff, pick, wanted, counts>>

\* purgePersonRowsTx: exclude the faces, drop the bindings and the row.
PurgeRows(p) ==
    /\ face' = [f \in Faces |-> IF bind[f] = p THEN "excluded" ELSE face[f]]
    /\ bind' = [f \in Faces |-> IF bind[f] = p THEN 0 ELSE bind[f]]
    /\ person' = [person EXCEPT ![p] = Absent]

\* Would this step take a face from under the rebuild, or from under SetPersonCover?
Leaves(fs) ==
    /\ UserInCluster \/ run.pc # "rebuild" \/ fs = {}
    /\ CoverRaces \/ pick.f \notin fs

\* Mutant: no second look inside the transaction.
PurgeUnchecked(p) ==
    /\ p \in sweep /\ sweep' = sweep \ {p} /\ Leaves(Members(p))
    /\ PurgeRows(p)
    /\ UNCHANGED <<photos, run, backoff, pick, wanted, counts>>

\* Re-checks in its transaction that the person is still due.
purgeDuePerson(p) ==
    /\ p \in sweep /\ sweep' = sweep \ {p} /\ Leaves(Members(p))
    /\ IF Due(p) THEN PurgeRows(p) ELSE UNCHANGED <<face, bind, person>>
    /\ UNCHANGED <<photos, run, backoff, pick, wanted, counts>>

-----------------------------------------------------------------------------
(* What users do.                                                              *)

PersonAct ==
       /\ personActs < MaxPersonActs /\ personActs' = personActs + 1
       /\ UNCHANGED <<photos, run, backoff, sweep, faceFaults>>

UpdatePerson(p) ==
    /\ PersonAct /\ person[p].here
    /\ person' = [person EXCEPT ![p].named = TRUE]
    /\ wanted' = wanted \cup (IF person[p].purge = "no" THEN {p} ELSE {})
    /\ UNCHANGED <<face, bind, pick>>

HidePerson(p) ==
    /\ PersonAct /\ person[p].here
    /\ person' = [person EXCEPT ![p].hidden = TRUE]
    /\ UNCHANGED <<face, bind, pick, wanted>>

HidePersonForPurge(p) ==
    /\ PersonAct /\ person[p].here
    /\ person' = [person EXCEPT ![p].hidden = TRUE, ![p].purge = "grace"]
    /\ wanted' = wanted \ {p}
    /\ UNCHANGED <<face, bind, pick>>

RestorePerson(p) ==
    /\ PersonAct /\ person[p].here
    /\ person' = [person EXCEPT ![p].hidden = FALSE, ![p].purge = "no"]
    /\ wanted' = wanted \cup (IF person[p].named THEN {p} ELSE {})
    /\ UNCHANGED <<face, bind, pick>>

PurgePerson(p) ==
    /\ PersonAct /\ person[p].here /\ Leaves(Members(p))
    /\ PurgeRows(p) /\ wanted' = wanted \ {p}
    /\ UNCHANGED pick

\* The faces of one photo leave; a person without any is deleted unless Kept.
DetachAssetsFromPerson(p, a) ==
    LET out  == {f \in Members(p) : AssetOf[f] = a /\ face[f] = "active"}
        rest == {f \in Members(p) \ out : face[f] = "active"}
    IN  /\ PersonAct /\ person[p].here /\ out # {} /\ Leaves(out)
        /\ face' = [f \in Faces |-> IF f \in out THEN "excluded" ELSE face[f]]
        /\ bind' = [f \in Faces |-> IF f \in out THEN 0 ELSE bind[f]]
        /\ person' = [person EXCEPT ![p] = IF Members(p) = out /\ ~Kept(p) THEN Absent ELSE Recomputed(@, rest)]
        /\ UNCHANGED <<pick, wanted>>

MergePersons(from, into) ==
    /\ PersonAct /\ from # into /\ person[from].here /\ person[into].here
    /\ CoverRaces \/ pick.f \notin Members(from)
    /\ bind' = [f \in Faces |-> IF bind[f] = from THEN into ELSE bind[f]]
    /\ person' = [person EXCEPT ![from] = Absent,
                                ![into] = Recomputed(@, {f \in Members(from) \cup Members(into) : face[f] = "active"})]
    /\ wanted' = wanted \ {from}
    /\ UNCHANGED <<face, pick>>

\* The largest face of this person on the photo ...
SetPersonCover(p, a) ==
    LET fs == {f \in Members(p) : AssetOf[f] = a /\ face[f] = "active"} IN
    /\ PersonAct /\ person[p].here /\ pick = NoPick /\ fs # {}
    /\ pick' = [p |-> p, f |-> selectCoverFace(fs)]
    /\ UNCHANGED <<face, bind, person, wanted>>

\* ... becomes the locked cover, in a second statement.
PinCover ==
    /\ pick # NoPick
    /\ person' = IF person[pick.p].here
                 THEN [person EXCEPT ![pick.p].locked = TRUE, ![pick.p].cover = pick.f]
                 ELSE person
    /\ pick' = NoPick
    /\ UNCHANGED <<photos, face, bind, run, backoff, sweep, wanted, counts>>

UnlockPersonCover(p) ==
    /\ PersonAct /\ person[p].here /\ person[p].locked
    /\ person' = [person EXCEPT ![p] = Recomputed([@ EXCEPT !.locked = FALSE], {f \in Members(p) : face[f] = "active"})]
    /\ UNCHANGED <<face, bind, pick, wanted>>

-----------------------------------------------------------------------------
(* The library and the service.                                                *)

\* New content at a known path: the upsert resets face_scanned.
FileReplaced(a) ==
    /\ a \in there /\ FaceFault
    /\ EditInDetect \/ run.on # a \/ run.pc \notin {"delete", "insert", "mark"}
    /\ content' = [content EXCEPT ![a] = @ + 1] /\ scanned' = scanned \ {a}
    /\ UNCHANGED <<there, seen, missed, face, bind, person, run, backoff, sweep, pick, wanted, personActs>>

\* The row of the photo goes, and the faces with it (ON DELETE CASCADE).
PhotoGone(a) ==
    /\ a \in there /\ FaceFault
    /\ there' = there \ {a} /\ scanned' = scanned \ {a}
    /\ DropFaces({f \in Faces : AssetOf[f] = a})
    /\ UNCHANGED <<content, seen, missed, run, backoff, sweep, wanted, personActs>>

FaceRestart ==
    /\ FaceFault
    /\ run' = NoRun /\ backoff' = FALSE /\ sweep' = {} /\ pick' = NoPick
    /\ UNCHANGED <<photos, face, bind, person, wanted, personActs>>
-----------------------------------------------------------------------------

PpRuns(g) ==
    \/ g = "cluster" /\ ((~backoff /\ RunPipeline) \/ DetectCall \/ DetectDelete \/ DetectInsert \/ DetectMark \/ Detected
                         \/ NoFacesLeft \/ loadFacesWithProgress \/ rebuildPersonsWithProgress)
    \/ g = "backoff" /\ BackoffEnds
    \/ g = "shells"  /\ purgeEmptyAutoPersons
    \/ g = "covers"  /\ ClearDanglingCovers
    \/ g = "due"     /\ PurgeDuePersons
    \/ g = "sweep"   /\ \E p \in Persons : purgeDuePerson(p)
    \/ g = "grace"   /\ \E p \in Persons : GraceEnds(p)
    \/ g = "pick"    /\ PinCover

PpGoroutines == {"cluster", "backoff", "shells", "covers", "due", "sweep", "grace", "pick"}

PpUser ==
    \/ RunPipeline \/ RunClustering
    \/ \E p \in Persons : UpdatePerson(p) \/ HidePerson(p) \/ HidePersonForPurge(p) \/ RestorePerson(p) \/ PurgePerson(p) \/ UnlockPersonCover(p)
    \/ \E p \in Persons, a \in Assets : DetachAssetsFromPerson(p, a) \/ SetPersonCover(p, a)
    \/ \E p, q \in Persons : MergePersons(p, q)

PpNext ==
    \/ \E g \in PpGoroutines : PpRuns(g)
    \/ PpUser
    \/ DetectFails \/ DetectLeaves \/ InsertFails
    \/ \E a \in Assets : FileReplaced(a) \/ PhotoGone(a)
    \/ FaceRestart

PpSpec == PpInit /\ [][PpNext]_ppVars /\ \A g \in PpGoroutines : WF_ppVars(PpRuns(g))

-----------------------------------------------------------------------------

PpTypeOK ==
    /\ there \subseteq Assets /\ scanned \subseteq there /\ \A a \in Assets : seen[a] \in 0..content[a]
    /\ \A f \in Faces : face[f] \in {"none", "active", "excluded"} /\ bind[f] \in Persons \cup {0}
    /\ \A p \in Persons : person[p].purge \in {"no", "grace", "due"} /\ person[p].cover \in Faces \cup {0, Lost}
    /\ run.pc \in {"idle", "detect", "delete", "insert", "mark", "load", "rebuild"}
    /\ sweep \subseteq Persons /\ wanted \subseteq Persons

\* A face the user took out of a person ("so they never participate in future
\* clustering or attachment", persons.go:366) has no person, and every binding leads
\* to a face and a person that exist.
ExcludedStayOut ==
    \A f \in Faces : bind[f] # 0 => face[f] = "active" /\ person[bind[f]].here

\* A person the user named and did not delete, or restored in time, is still there,
\* whatever clustering, the shell sweep and the purge of due persons do.
NamedSurvive == \A p \in wanted : person[p].here /\ person[p].named

\* A re-clustering never takes a face from an anchored person, nor the person away.
AnchorsKeepFaces ==
    [][run.pc = "rebuild" /\ run'.pc = "idle" =>
        \A p \in Persons : Anchored(p) => person'[p].here /\ \A f \in Members(p) : bind'[f] = p]_ppVars

\* The cover of a person is a face of that person, unless its photo went (the minute
\* scheduler clears that).
CoverIsMember == \A p \in Here : person[p].cover \in Faces => bind[person[p].cover] = p

\* In the end every photo's faces are there, of its present content, and each belongs to a
\* person, the empty unnamed persons are gone, no cover dangles, no purge is overdue.  Only
\* a face whose INSERT failed is missing: its photo counts as scanned, and no run comes
\* back to it.
PeopleSettled ==
    /\ \A a \in there : a \in scanned /\ seen[a] = content[a]
    /\ \A f \in Faces : AssetOf[f] \in there => face[f] # "none" \/ f \in missed
    /\ \A f \in Faces : face[f] = "active" => bind[f] # 0
    /\ \A p \in Here : person[p].cover # Lost /\ ~Due(p) /\ (Kept(p) \/ Members(p) # {})
PeopleSettle == <>[]PeopleSettled
=============================================================================
