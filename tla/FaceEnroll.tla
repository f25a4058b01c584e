----------------------------- MODULE FaceEnroll -----------------------------
(***************************************************************************)
(* Runs of face_enroll, one after the other, over a directory of photos    *)
(* that changes between them and two files: the index and the id map.      *)
(* An engine call may throw, which ends the run; the process may be killed *)
(* anywhere.  An embedding is the photo and the face in it it was made of. *)
(***************************************************************************)
EXTENDS Integers, Sequences, FiniteSets

CONSTANTS
    Photos,       \* image files: [name, readable, faces], the name being that
                  \* of the directory, the faces the areas SCRFD finds, in order
    Hash,         \* hash_id: name -> id
    MaxRuns       \* bound: runs of the tool

ASSUME EnrollAssumption ==
    /\ \A p \in Photos : p.readable \in BOOLEAN /\ p.faces \in Seq(Nat)
    /\ {p.name : p \in Photos} \subseteq DOMAIN Hash
    /\ MaxRuns \in Nat

VARIABLES
    at,          \* where main is
    runs,        \* runs so far
    album,       \* the photos in the directory
    todo,        \* those the iterator has not come to
    wantMap,     \* is --id-map given?
    ids,         \* what is to be enrolled: one id
    embeddings,  \* and one embedding per face
    idToName,    \* id_to_name
    indexFile,   \* the vectors on disk, each with its id
    whole,       \* was the index file written to its end?
    mapFile,     \* the lines of the id map
    exit         \* of the last run: "none", "ok", "failed" or "killed", and
                 \* "unwritten" when it succeeds and the id map did not

collected == <<ids, embeddings, idToName>>
files == <<indexFile, whole, mapFile>>
enrollVars == <<at, runs, album, todo, wantMap, collected, files, exit>>

Names == DOMAIN Hash
Ids == {Hash[n] : n \in Names}
Embeddings == Photos \X (Nat \ {0})

FaultSmaller(a, b) == a > b
Bigger(a, b) == a < b

(* The first of the largest faces.                                         *)
best(p) ==
    CHOOSE i \in DOMAIN p.faces :
        /\ \A j \in DOMAIN p.faces : ~Bigger(p.faces[i], p.faces[j])
        /\ \A j \in 1..(i - 1) : p.faces[j] # p.faces[i]

Usable(p) == p.readable /\ p.faces # <<>>

-----------------------------------------------------------------------------
EnrollInit ==
    /\ at = "idle"
    /\ runs = 0
    /\ album = {} /\ todo = {}
    /\ wantMap = FALSE
    /\ ids = <<>> /\ embeddings = <<>> /\ idToName = {}
    /\ indexFile = <<>> /\ whole = FALSE /\ mapFile = {}
    /\ exit = "none"

Run(photos, map) ==
    /\ at = "idle"
    /\ runs < MaxRuns
    /\ runs' = runs + 1
    /\ album' = photos
    /\ todo' = photos
    /\ wantMap' = map
    /\ ids' = <<>> /\ embeddings' = <<>> /\ idToName' = {}
    /\ exit' = "none"
    /\ at' = "scan"
    /\ UNCHANGED files

Exit(code) ==
    /\ at' = "idle"
    /\ exit' = code
    /\ UNCHANGED <<runs, album, todo, wantMap, collected>>

(* Unreadable, in no directory with a name, or SCRFD finds nobody.         *)
Pass(p) ==
    /\ at = "scan"
    /\ ~Usable(p)
    /\ todo' = todo \ {p}
    /\ UNCHANGED <<at, runs, album, wantMap, collected, files, exit>>

FaultOnlyNew(p) == {}
Known(p) == idToName

(* emplace keeps the name an id already has.                               *)
Emplaced(p) ==
    IF \E l \in idToName : l[1] = Hash[p.name] THEN Known(p)
    ELSE Known(p) \cup {<<Hash[p.name], p.name>>}

Enroll(p) ==
    /\ at = "scan"
    /\ Usable(p)
    /\ ids' = Append(ids, Hash[p.name])
    /\ embeddings' = Append(embeddings, <<p, best(p)>>)
    /\ idToName' = Emplaced(p)
    /\ todo' = todo \ {p}
    /\ UNCHANGED <<at, runs, album, wantMap, files, exit>>

(* The detector, the aligner or the encoder throws, or nobody was found.   *)
ScanFails ==
    /\ at = "scan"
    /\ todo # {} \/ embeddings = <<>>
    /\ Exit("failed")
    /\ UNCHANGED files

(* build, then save, which truncates the file before it fills it.          *)
BuildFails ==
    /\ at = "scan" /\ todo = {} /\ embeddings # <<>>
    /\ Exit("failed")
    /\ UNCHANGED files

BuildAndOpen ==
    /\ at = "scan" /\ todo = {} /\ embeddings # <<>>
    /\ at' = "save"
    /\ indexFile' = <<>> /\ whole' = FALSE
    /\ UNCHANGED <<runs, album, todo, wantMap, collected, mapFile, exit>>

Saved ==
    /\ at = "save"
    /\ indexFile' = [i \in DOMAIN ids |-> <<ids[i], embeddings[i]>>]
    /\ whole' = TRUE
    /\ at' = "map"
    /\ UNCHANGED <<runs, album, todo, wantMap, collected, mapFile, exit>>

SaveFails ==
    /\ at = "save"
    /\ Exit("failed")
    /\ UNCHANGED files

NoMap ==
    /\ at = "map" /\ ~wantMap
    /\ Exit("ok")
    /\ UNCHANGED files

OpenMap ==
    /\ at = "map" /\ wantMap
    /\ mapFile' = {}
    /\ at' = "mapping"
    /\ UNCHANGED <<runs, album, todo, wantMap, collected, indexFile, whole, exit>>

WriteMap ==
    /\ at = "mapping"
    /\ mapFile' = idToName
    /\ Exit("ok")
    /\ UNCHANGED <<indexFile, whole>>

(* The map cannot be opened, or takes only some of its lines.  Nobody asks *)
(* the stream, and the run succeeds all the same.                          *)
MapFails ==
    /\ \/ at = "map" /\ wantMap /\ UNCHANGED mapFile
       \/ at = "mapping" /\ mapFile' \in SUBSET idToName
    /\ Exit("unwritten")
    /\ UNCHANGED <<indexFile, whole>>

Killed ==
    /\ at # "idle"
    /\ Exit("killed")
    /\ UNCHANGED files

EnrollNext ==
    \/ \E photos \in SUBSET Photos, map \in BOOLEAN : Run(photos, map)
    \/ \E p \in todo : Pass(p) \/ Enroll(p)
    \/ ScanFails \/ BuildFails \/ BuildAndOpen \/ Saved \/ SaveFails
    \/ NoMap \/ OpenMap \/ WriteMap \/ MapFails \/ Killed

EnrollSpec == EnrollInit /\ [][EnrollNext]_enrollVars

-----------------------------------------------------------------------------
(* A run that succeeds leaves a whole index with, for every usable photo   *)
(* of this run's directory and for no other, one vector: its largest face  *)
(* under its directory's id, whatever runs failed or died before and in    *)
(* whatever order the photos came (lines 109-161).                         *)
Largest(p, i) == \A j \in DOMAIN p.faces : p.faces[j] <= p.faces[i]
EnrolledOnce ==
    exit \in {"ok", "unwritten"} =>
        LET photo(v) == v[2][1]
            face(v) == v[2][2] IN
        /\ whole
        /\ Len(indexFile) = Cardinality({p \in album : Usable(p)})
        /\ {photo(indexFile[k]) : k \in DOMAIN indexFile} = {p \in album : Usable(p)}
        /\ \A k \in DOMAIN indexFile :
            /\ indexFile[k][1] = Hash[photo(indexFile[k]).name]
            /\ Largest(photo(indexFile[k]), face(indexFile[k]))

(* A run that was asked for the map, and whose writes all took, leaves one *)
(* that gives every vector of the index the name of the directory its      *)
(* photo is in, and that names nobody else (lines 138-170).                *)
NamesKnown ==
    exit = "ok" /\ wantMap =>
        mapFile = {<<indexFile[k][1], indexFile[k][2][1].name>> : k \in DOMAIN indexFile}
=============================================================================
