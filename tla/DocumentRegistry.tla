-------------------------- MODULE DocumentRegistry --------------------------
(***************************************************************************)
(* What becomes of an uploaded file: its deduplication by content in the   *)
(* ingest request (_register_document of handlers/pipeline.py), the rows   *)
(* of documents and document_registry, the file on disk, and the           *)
(* extraction that reads the file back through the row and replaces the    *)
(* controls of the document (domain/extract_controls.py).                  *)
(*                                                                         *)
(* document_registry has a row per organisation and content; documents has *)
(* a row per CONTENT, shared by all organisations, with one path.          *)
(*                                                                         *)
(* The runs of an organisation are driven here by the queue as             *)
(* PipelineQueue has it when its uploads do not overlap: a run waits behind *)
(* an active one, the end of a run starts the oldest waiting run, with the *)
(* documents recorded by then.  Cancels and redelivered tasks are left to  *)
(* PipelineQueue and StageMachine.                                         *)
(***************************************************************************)
EXTENDS Integers, Sequences, FiniteSets

CONSTANTS
  Uploads,     \* the ingest requests, each with the run it creates
  Orgs,
  Contents,    \* what a file may contain (its sha256)
  Requests,    \* the requests considered: organisation, files, the two flags
  NoPath,      \* a path column that is null
  NoRow,       \* there is no row
  MaxInFlight, \* bound: requests of an organisation handled at a time
  MaxErrors    \* bound: exceptions that escape a request

ASSUME RequestsAssumption ==
  \A r \in Requests :
    /\ r = [org |-> r.org, files |-> r.files, save |-> r.save, force |-> r.force]
    /\ r.org \in Orgs /\ r.files \in Seq(Contents) \ {<<>>}
    /\ {r.save, r.force} \subseteq BOOLEAN
ASSUME NullsAssumption  == NoPath # NoRow /\ {NoPath, NoRow} \cap (Uploads \X Nat) = {}
ASSUME BoundsAssumption == MaxInFlight \in Nat \ {0} /\ MaxErrors \in Nat

VARIABLES
  req,       \* what the request of an upload asks for
  pc,        \* where it is
  at,        \* the index of the file it registers
  found,     \* its local existing_registry
  sawDoc,    \* its local existing, in upsert_by_sha256
  dest,      \* its local dest
  run,       \* status of the run
  order,     \* the runs by created_at
  dir,       \* the temporary directory of the upload exists
  disk,      \* the paths with a file
  documents, \* documents.path of each content, NoRow without a row
  registry,  \* storage_path of each organisation's row of each content
  batch,     \* the registration and the extraction of each file of the upload
  source,    \* the local path of each extraction
  result,    \* the extractions whose controls that extraction returned
  controls,  \* the extractions whose controls the document has
  errors

reqVars  == <<req, pc, at, found, sawDoc, dest>>
runVars  == <<run, order, batch>>
extVars  == <<source, result, controls>>
rowVars  == <<documents, registry>>
vars == <<reqVars, runVars, rowVars, dir, disk, extVars, errors>>

-----------------------------------------------------------------------------

\* The i-th file of upload u has a path of its own: _unique_dest in the
\* directory of the organisation, or in the temporary directory of the run.
Path(u, i)  == <<u, i>>
MaxFiles    == CHOOSE n \in {Len(r.files) : r \in Requests} : \A r \in Requests : Len(r.files) <= n
Paths       == Uploads \X (1..MaxFiles)
PathsOf(u)  == {p \in Paths : p[1] = u}
Extractions == Paths

NoRequest == [org |-> NoRow, files |-> <<>>, save |-> FALSE, force |-> FALSE]
Over     == {"idle", "accepted", "died"}
InFlight == {"create", "mkdir", "find", "place", "select", "commit", "finish"}

Org(u)        == req[u].org
FileAt(u, i)  == req[u].files[i]
Holds(u, c)   == \E i \in DOMAIN req[u].files : FileAt(u, i) = c

Init ==
  /\ req = [u \in Uploads |-> NoRequest]
  /\ pc = [u \in Uploads |-> "idle"]
  /\ at = [u \in Uploads |-> 1]
  /\ found = [u \in Uploads |-> NoRow]
  /\ sawDoc = [u \in Uploads |-> FALSE]
  /\ dest = [u \in Uploads |-> NoPath]
  /\ run = [u \in Uploads |-> "none"]
  /\ order = <<>>
  /\ dir = [u \in Uploads |-> FALSE]
  /\ disk = {}
  /\ documents = [c \in Contents |-> NoRow]
  /\ registry = [o \in Orgs |-> [c \in Contents |-> NoRow]]
  /\ batch = [u \in Uploads |-> [i \in 1..MaxFiles |-> "none"]]
  /\ source = [u \in Uploads |-> [i \in 1..MaxFiles |-> NoPath]]
  /\ result = [u \in Uploads |-> [i \in 1..MaxFiles |-> {}]]
  /\ controls = [c \in Contents |-> {}]
  /\ errors = 0

-----------------------------------------------------------------------------
(* POST /ingest.                                                           *)

Goto(u, step) == pc' = [pc EXCEPT ![u] = step]

StartIngest(u) ==
  /\ pc[u] = "idle"
  /\ \E r \in Requests :
       /\ Cardinality({v \in Uploads : Org(v) = r.org /\ pc[v] \in InFlight}) < MaxInFlight
       /\ req' = [req EXCEPT ![u] = r]
  /\ Goto(u, "create")
  /\ UNCHANGED <<at, found, sawDoc, dest, runVars, rowVars, dir, disk, extVars, errors>>

\* has_active_run of an organisation, and the status a run is created with.
SlotQueued(o) == \E v \in Uploads : Org(v) = o /\ run[v] = "queued"  \* mutant of SlotTaken
SlotTaken(o)  == \E v \in Uploads : Org(v) = o /\ run[v] \in {"queued", "running"}

StepStatus(u)    == "pending"                          \* mutant of CreatedStatus
CreatedStatus(u) == IF SlotTaken(Org(u)) THEN "waiting" ELSE "queued"

CreateRun(u) ==
  /\ pc[u] = "create"
  /\ run' = [run EXCEPT ![u] = CreatedStatus(u)]
  /\ order' = Append(order, u)
  /\ Goto(u, "mkdir")
  /\ UNCHANGED <<req, at, found, sawDoc, dest, batch, rowVars, dir, disk, extVars, errors>>

MakeDirectory(u) ==
  /\ pc[u] = "mkdir"
  /\ dir' = [dir EXCEPT ![u] = ~req[u].save]
  /\ Goto(u, "find")
  /\ UNCHANGED <<req, at, found, sawDoc, dest, runVars, rowVars, disk, extVars, errors>>

\* The next file, or the end of the loop; _register_document has returned.
AfterFile(u) == IF at[u] < Len(req[u].files) THEN "find" ELSE "finish"
Proceed(u) ==
  /\ Goto(u, AfterFile(u))
  /\ at' = [at EXCEPT ![u] = @ + 1]
  /\ found' = [found EXCEPT ![u] = NoRow]
  /\ sawDoc' = [sawDoc EXCEPT ![u] = FALSE]
  /\ dest' = [dest EXCEPT ![u] = NoPath]

\* The request ends with an exception, HTTP 500; what it committed stays.
Die(u) ==
  /\ Goto(u, "died")
  /\ at' = [at EXCEPT ![u] = 1]
  /\ found' = [found EXCEPT ![u] = NoRow]
  /\ sawDoc' = [sawDoc EXCEPT ![u] = FALSE]
  /\ dest' = [dest EXCEPT ![u] = NoPath]

\* Whether registry.find ends the registration of the file.
SkipsNothing(u, row) == FALSE                          \* mutant of Duplicate
Duplicate(u, row)    == row # NoRow /\ ~req[u].force

\* The upload is streamed to a file and hashed, and the registry looked up.
FindRegistered(u) ==
  /\ pc[u] = "find" /\ (req[u].save \/ dir[u])
  /\ LET row == registry[Org(u)][FileAt(u, at[u])]
     IN \/ /\ Duplicate(u, row)
           /\ Proceed(u)
        \/ /\ ~Duplicate(u, row)
           /\ found' = [found EXCEPT ![u] = row]
           /\ Goto(u, "place")
           /\ UNCHANGED <<at, sawDoc, dest>>
  /\ UNCHANGED <<req, runVars, rowVars, dir, disk, extVars, errors>>

\* The stored file is used again when it is still there.
Reusable(u) == found[u] \in disk

PlaceFile(u) ==
  /\ pc[u] = "place"
  /\ \/ /\ Reusable(u)
        /\ dest' = [dest EXCEPT ![u] = found[u]]
        /\ UNCHANGED disk
     \/ /\ ~Reusable(u) /\ (req[u].save \/ dir[u])
        /\ dest' = [dest EXCEPT ![u] = Path(u, at[u])]
        /\ disk' = disk \cup {Path(u, at[u])}
  /\ Goto(u, "select")
  /\ UNCHANGED <<req, at, found, sawDoc, runVars, rowVars, dir, extVars, errors>>

\* A worker has removed the temporary directory under the request.
DirectoryGone(u) ==
  /\ ~req[u].save /\ ~dir[u]
  /\ pc[u] = "find" \/ (pc[u] = "place" /\ ~Reusable(u))
  /\ Die(u)
  /\ UNCHANGED <<req, runVars, rowVars, dir, disk, extVars, errors>>

\* upsert_by_sha256 looks the content up ...
SelectDocument(u) ==
  /\ pc[u] = "select"
  /\ sawDoc' = [sawDoc EXCEPT ![u] = documents[FileAt(u, at[u])] # NoRow]
  /\ Goto(u, "commit")
  /\ UNCHANGED <<req, at, found, dest, runVars, rowVars, dir, disk, extVars, errors>>

\* storage_path of the registry row: registry.upsert fills it once.
StoragePath(u, row) ==
  IF row \in {NoRow, NoPath}
  THEN (IF req[u].save THEN dest[u] ELSE NoPath)
  ELSE row

\* ... and inserts or updates the row, whose lock serialises what follows: the
\* registry row and the link to the document are written and all is committed.
CommitDocument(u) ==
  /\ pc[u] = "commit"
  /\ LET c == FileAt(u, at[u])
     IN /\ sawDoc[u] \/ documents[c] = NoRow
        /\ documents' = [documents EXCEPT ![c] = dest[u]]
        /\ registry' = [registry EXCEPT ![Org(u)][c] = StoragePath(u, @)]
        /\ batch' = [batch EXCEPT ![u][at[u]] = "registered"]
  /\ Proceed(u)
  /\ UNCHANGED <<req, run, order, dir, disk, extVars, errors>>

\* Another request has inserted the content meanwhile: unique index, HTTP 500.
InsertConflict(u) ==
  /\ pc[u] = "commit"
  /\ ~sawDoc[u] /\ documents[FileAt(u, at[u])] # NoRow
  /\ Die(u)
  /\ UNCHANGED <<req, runVars, rowVars, dir, disk, extVars, errors>>

\* The extraction batches of a run: its registered files.
Planned(u) == [i \in 1..MaxFiles |->
                 IF batch[u][i] = "registered" THEN "planned" ELSE batch[u][i]]

\* enqueue_pipeline, or the ingest_register step of a waiting run.
FinishIngest(u) ==
  /\ pc[u] = "finish"
  /\ IF run[u] = "queued"
     THEN /\ run' = [run EXCEPT ![u] = "running"]
          /\ batch' = [batch EXCEPT ![u] = Planned(u)]
     ELSE UNCHANGED <<run, batch>>
  /\ Goto(u, "accepted")
  /\ UNCHANGED <<req, at, found, sawDoc, dest, order, rowVars, dir, disk, extVars, errors>>

IngestRaises(u) ==
  /\ pc[u] \in {"mkdir", "find", "place", "select", "commit", "finish"}
  /\ errors < MaxErrors /\ errors' = errors + 1
  /\ Die(u)
  /\ UNCHANGED <<req, runVars, rowVars, dir, disk, extVars>>

IngestStep(u) ==
  \/ StartIngest(u)    \/ CreateRun(u)     \/ MakeDirectory(u)
  \/ FindRegistered(u) \/ PlaceFile(u)     \/ DirectoryGone(u)
  \/ SelectDocument(u) \/ CommitDocument(u) \/ InsertConflict(u)
  \/ FinishIngest(u)

-----------------------------------------------------------------------------
(* The extraction of the i-th file: extract_controls_for_document.         *)

SetBatch(u, i, st) == batch' = [batch EXCEPT ![u][i] = st]

\* The path is taken from the row; with a file there the old controls go ...
ReplaceControls(u, i) ==
  /\ run[u] = "running" /\ batch[u][i] = "planned"
  /\ LET c == FileAt(u, i)
     IN /\ source' = [source EXCEPT ![u][i] = documents[c]]
        /\ \/ /\ documents[c] \in disk
              /\ controls' = [controls EXCEPT ![c] = {}]
              /\ SetBatch(u, i, "deleted")
           \/ /\ documents[c] \notin disk
              /\ SetBatch(u, i, "missing")
              /\ UNCHANGED controls
  /\ UNCHANGED <<reqVars, run, order, rowVars, dir, disk, result, errors>>

\* ... then the file is read and its text turned into controls ...
ReadFile(u, i) ==
  /\ batch[u][i] = "deleted"
  /\ SetBatch(u, i, IF source[u][i] \in disk THEN "read" ELSE "missing")
  /\ UNCHANGED <<reqVars, run, order, rowVars, dir, disk, extVars, errors>>

\* (what the model, or the heuristic for it, finds in the segments: one control
\* stands for those of an extraction)
NewControls(u, i) == {<<u, i>>}

\* ... which are inserted ...
PersistControls(u, i) ==
  /\ batch[u][i] = "read"
  /\ controls' = [controls EXCEPT ![FileAt(u, i)] = @ \cup NewControls(u, i)]
  /\ SetBatch(u, i, "inserted")
  /\ UNCHANGED <<reqVars, run, order, rowVars, dir, disk, source, result, errors>>

\* ... and the controls of the document are read back as the result.
CollectControls(u, i) ==
  /\ batch[u][i] = "inserted"
  /\ result' = [result EXCEPT ![u][i] = controls[FileAt(u, i)]]
  /\ SetBatch(u, i, "extracted")
  /\ UNCHANGED <<reqVars, run, order, rowVars, dir, disk, source, controls, errors>>

ExtractStep(u) == \E i \in 1..MaxFiles :
  ReplaceControls(u, i) \/ ReadFile(u, i) \/ PersistControls(u, i) \/ CollectControls(u, i)

-----------------------------------------------------------------------------
(* The end of a run, and the start of the next.                            *)

\* pop_next_waiting of an organisation.
WaitingOf(o) == {v \in Uploads : Org(v) = o /\ run[v] = "waiting"}
CreatedBefore(u, v) ==
  \E i, j \in DOMAIN order : i < j /\ order[i] = u /\ order[j] = v
Newest(o) == {v \in WaitingOf(o) : ~\E w \in WaitingOf(o) : CreatedBefore(v, w)}  \* mutant of Oldest
Oldest(o) == {v \in WaitingOf(o) : ~\E w \in WaitingOf(o) : CreatedBefore(w, v)}

\* What cleanup_ephemeral_uploads removes.
TemporaryFiles(u) == IF req[u].save THEN {} ELSE PathsOf(u)

EndRun(u) ==
  /\ run[u] = "running"
  /\ \A i \in 1..MaxFiles : batch[u][i] \notin {"planned", "deleted", "read", "inserted"}
  /\ disk' = disk \ TemporaryFiles(u)
  /\ dir' = [dir EXCEPT ![u] = FALSE]
  /\ \/ /\ WaitingOf(Org(u)) = {}
        /\ run' = [run EXCEPT ![u] = "ended"]
        /\ UNCHANGED batch
     \/ \E v \in Oldest(Org(u)) :
          /\ run' = [run EXCEPT ![u] = "ended", ![v] = "running"]
          /\ batch' = IF pc[v] = "accepted" THEN [batch EXCEPT ![v] = Planned(v)] ELSE batch
  /\ UNCHANGED <<reqVars, order, rowVars, extVars, errors>>

Next ==
  \/ \E u \in Uploads : IngestStep(u) \/ IngestRaises(u)
  \/ \E u \in Uploads : ExtractStep(u) \/ EndRun(u)

Spec == Init /\ [][Next]_vars

-----------------------------------------------------------------------------
(* Properties.                                                             *)

(* The type of every variable. *)
TypeOK ==
  /\ req \in [Uploads -> Requests \cup {NoRequest}]
  /\ pc \in [Uploads -> Over \cup InFlight]
  /\ at \in [Uploads -> 1..(MaxFiles + 1)]
  /\ found \in [Uploads -> Paths \cup {NoRow, NoPath}]
  /\ sawDoc \in [Uploads -> BOOLEAN]
  /\ dest \in [Uploads -> Paths \cup {NoPath}]
  /\ run \in [Uploads -> {"none", "queued", "waiting", "running", "ended"}]
  /\ dir \in [Uploads -> BOOLEAN]
  /\ disk \subseteq Paths
  /\ documents \in [Contents -> Paths \cup {NoRow}]
  /\ registry \in [Orgs -> [Contents -> Paths \cup {NoRow, NoPath}]]
  /\ batch \in [Uploads -> [1..MaxFiles ->
       {"none", "registered", "planned", "deleted", "read", "inserted", "extracted", "missing"}]]
  /\ source \in [Uploads -> [1..MaxFiles -> Paths \cup {NoPath}]]
  /\ result \in [Uploads -> [1..MaxFiles -> SUBSET Extractions]]
  /\ controls \in [Contents -> SUBSET Extractions]
  /\ errors \in Nat

(* Another organisation uploads the content too.                            *)
SharedContent(u, c) == \E v \in Uploads : Org(v) # Org(u) /\ Holds(v, c)

(* A forced request that names a content twice plans it twice.              *)
PlannedTwice(u, c) ==
  req[u].force /\ \E i, j \in DOMAIN req[u].files :
    i # j /\ FileAt(u, i) = c /\ FileAt(u, j) = c

(* A run finds the files of its documents: the path of a document is taken   *)
(* over by a later upload, and may be deleted with the run of that upload,   *)
(* but never while an earlier run of the same organisation still needs it.   *)
(* Only the uploads of another organisation can take the file away.          *)
RunFindsItsFiles ==
  \A u \in Uploads, i \in 1..MaxFiles :
    batch[u][i] = "missing" => SharedContent(u, FileAt(u, i))

(* The controls a run has extracted and hands to its next stages are its own *)
(* and stay in the table until the run has ended, although every extraction  *)
(* deletes the controls of the document: runs of one organisation that share *)
(* a document do not overlap.                                                *)
RunKeepsItsControls ==
  \A u \in Uploads, i \in 1..MaxFiles :
    (run[u] = "running" /\ batch[u][i] = "extracted") =>
      \/ result[u][i] = {<<u, i>>} /\ <<u, i>> \in controls[FileAt(u, i)]
      \/ SharedContent(u, FileAt(u, i)) \/ PlannedTwice(u, FileAt(u, i))

(* An organisation processes a content once, unless a request forces it: of  *)
(* two extractions of a content the later one was forced, and a request that *)
(* repeats a content extracts it once.                                       *)
ProcessedOnce ==
  \A u, v \in Uploads, i, j \in 1..MaxFiles :
    (/\ <<u, i>> # <<v, j>> /\ Org(u) = Org(v)
     /\ batch[u][i] \notin {"none", "registered"}
     /\ batch[v][j] \notin {"none", "registered"}
     /\ FileAt(u, i) = FileAt(v, j))
      => req[u].force \/ req[v].force

(* "Re-extract a document's controls; return the ids of the controls         *)
(* created" (extract_controls_for_document): an extraction returns no        *)
(* controls but those it has created.                                        *)
ReturnsCreatedControls ==
  \A u \in Uploads, i \in 1..MaxFiles : result[u][i] \subseteq {<<u, i>>}
=============================================================================
