----------------------------- MODULE OrgProfile -----------------------------
(***************************************************************************)
(* What the organisation endpoints keep: the organisation with its tenant, *)
(* folders and demography, and the control documents uploaded to its       *)
(* folder (handlers/org.py, domain/repair_storage_paths.py,                *)
(* helpers/org_paths.py over repositories/org_repository.py).              *)
(*                                                                         *)
(* A folder is named by the slug its organisation has at the moment, and a *)
(* row of control_documents holds an absolute path. The slug may change,   *)
(* another organisation may take it, and the database may be copied, with  *)
(* the tree of folders, to a host where the tree has another root.         *)
(*                                                                         *)
(* Requests interleave at their awaits: each repository call commits, and  *)
(* read() of an upload suspends when the upload has been spooled to disk.  *)
(* All uploads of the model arrive under one file name.                    *)
(***************************************************************************)
EXTENDS Integers, Sequences, FiniteSetsExt, TLC

CONSTANTS
    Workers,     \* requests being handled
    Orgs,        \* ids an organisation may be given
    Slugs,       \* slugs and tenant ids, the values a request may carry
    Fields,      \* columns of business_demography
    Values,      \* what a request may put in one
    NoValue,     \* a null column, or no row
    MaxRequests, \* bound: requests
    MaxUploads,  \* bound: files written
    MaxRenames,  \* bound: slugs changed
    MaxMoves,    \* bound: times the database is copied to another host
    MoveRenamed  \* whether that may happen once a slug has changed

ASSUME NoValueAssumption == NoValue \notin Slugs \cup Values
ASSUME BoundsAssumption  == {MaxRequests, MaxUploads, MaxRenames, MaxMoves} \subseteq Nat

VARIABLES
    slug,        \* slug[o] in client_organizations
    tenant,      \* tenant_id of o in tenant_mappings
    demo,        \* the row of o in business_demography
    docs,        \* rows of control_documents
    disk,        \* disk[s][n]: which upload file n of the folder of s holds, or 0
    host,        \* the host: its number is in every absolute path
    worker,      \* the request of each worker and its local variables
    writes,      \* uploads written so far
    renames,     \* slugs changed so far
    requests,    \* requests begun so far
    overwritten  \* auxiliary: files that were written over

orgVars  == <<slug, tenant>>
fileVars == <<docs, disk, writes, overwritten>>
vars == <<orgVars, demo, fileVars, host, worker, renames, requests>>

Idle == [pc |-> "idle", org |-> NoValue, slug |-> NoValue,
         patch |-> <<>>, seen |-> NoValue, dest |-> 0, known |-> {}]

Existing == {o \in Orgs : slug[o] # NoValue}
Patches  == UNION {[F -> Values] : F \in SUBSET Fields}

Init ==
    /\ slug = [o \in Orgs |-> NoValue]
    /\ tenant = [o \in Orgs |-> NoValue]
    /\ demo = [o \in Orgs |-> NoValue]
    /\ docs = <<>>
    /\ disk = [s \in Slugs |-> [n \in 0..MaxUploads |-> 0]]
    /\ host = 0
    /\ worker = [w \in Workers |-> Idle]
    /\ writes = 0
    /\ renames = 0
    /\ requests = 0
    /\ overwritten = {}

Goes(w, step) == worker' = [worker EXCEPT ![w].pc = step]
Ends(w) == worker' = [worker EXCEPT ![w] = Idle]
Begins(w, step, o, s) ==
    /\ worker[w].pc = "idle"
    /\ requests < MaxRequests
    /\ requests' = requests + 1
    /\ worker' = [worker EXCEPT ![w] = [Idle EXCEPT !.pc = step, !.org = o, !.slug = s]]
    /\ UNCHANGED <<orgVars, demo, fileVars, host, renames>>

-----------------------------------------------------------------------------
(* POST /orgs, POST /organisation-profile, POST /business-demography.      *)
(* sync_org_folder_mapping shows only in the requests on files: it makes    *)
(* the folders, and records them in folder_mapping, which no code reads.    *)
(* What a request asks for is chosen where it first matters.                *)

Taken(s) == \E o \in Existing : slug[o] = s

StartCreate(w) ==
    \E s \in Slugs : ~Taken(s) /\ Begins(w, "insert", NoValue, s)

\* The slug is unique: the second of two requests that found it free fails.
InsertOrg(w) ==
    /\ worker[w].pc = "insert"
    /\ ~Taken(worker[w].slug)
    /\ \E o \in Orgs \ Existing :
         /\ slug' = [slug EXCEPT ![o] = worker[w].slug]
         /\ worker' = [worker EXCEPT ![w].org = o, ![w].pc = "tenant"]
    /\ UNCHANGED <<tenant, demo, fileVars, host, renames, requests>>

\* A profile with a client_org_id, with a new slug or without, and
\* update_demography, which is the same but for the folders.
StartUpdate(w) ==
    \E o \in Existing :
        \/ Begins(w, "demography", o, slug[o])
        \/ \E s \in Slugs : ~Taken(s) /\ Begins(w, "rename", o, s)

Rename(w) ==
    /\ worker[w].pc = "rename"
    /\ renames < MaxRenames
    /\ \A o \in Existing \ {worker[w].org} : slug[o] # worker[w].slug
    /\ slug' = [slug EXCEPT ![worker[w].org] = worker[w].slug]
    /\ renames' = renames + 1
    /\ Goes(w, "demography")
    /\ UNCHANGED <<tenant, demo, fileVars, host, requests>>

\* Upload, list and login read the slug, and use it after the awaits of the
\* folders.
StartOnFolder(w) ==
    \E o \in Existing : Begins(w, "folders", o, slug[o])

SyncFolders(w) ==
    /\ worker[w].pc = "folders"
    /\ \/ \E step \in {"pick", "list"} : Goes(w, step)
       \/ Ends(w)
    /\ UNCHANGED <<orgVars, demo, fileVars, host, renames, requests>>

\* The tenant id is the slug unless the request names one. One that another
\* organisation has is left to it, and the organisation gets none.
\* create_org ends here, the profile goes on to the demography.
MakeTenant(w) ==
    /\ worker[w].pc = "tenant"
    /\ \E id \in Slugs :
         /\ \/ Goes(w, "demography")
            \/ id = worker[w].slug /\ Ends(w)
         /\ tenant' = IF \E o \in Orgs : tenant[o] = id THEN tenant
                      ELSE [tenant EXCEPT ![worker[w].org] = id]
    /\ UNCHANGED <<slug, demo, fileVars, host, renames, requests>>

\* DemographyRepository.upsert reads the row, and sets every attribute: to
\* what the request gives, or to what was read. The flush writes the columns
\* whose value is not the one read.
ReadDemography(w) ==
    /\ worker[w].pc = "demography"
    /\ \E patch \in Patches :
         worker' = [worker EXCEPT ![w].pc = "flush", ![w].patch = patch,
                                  ![w].seen = demo[worker[w].org]]
    /\ UNCHANGED <<orgVars, demo, fileVars, host, renames, requests>>

\* A plausible slip: the row is written back whole.
WholeRow(row, seen, patch) == patch @@ seen

\* A plausible slip: the row becomes what the request gives.
OnlyPatch(row, seen, patch) == patch

Flushed(row, seen, patch) ==
    [f \in Fields |-> IF f \in DOMAIN patch /\ patch[f] # seen[f] THEN patch[f]
                      ELSE row[f]]

Inserted(patch) == [f \in Fields |-> IF f \in DOMAIN patch THEN patch[f] ELSE NoValue]

InsertDemography(w) ==
    LET o == worker[w].org IN
    /\ worker[w].pc = "flush"
    /\ worker[w].seen = NoValue
    /\ demo[o] = NoValue
    /\ demo' = [demo EXCEPT ![o] = Inserted(worker[w].patch)]
    /\ Ends(w)
    /\ UNCHANGED <<orgVars, fileVars, host, renames, requests>>

UpdateDemography(w) ==
    LET o == worker[w].org IN
    /\ worker[w].pc = "flush"
    /\ worker[w].seen # NoValue
    /\ demo' = [demo EXCEPT ![o] = Flushed(@, worker[w].seen, worker[w].patch)]
    /\ Ends(w)
    /\ UNCHANGED <<orgVars, fileVars, host, renames, requests>>

-----------------------------------------------------------------------------
(* POST /control-documents/upload and GET /control-documents/{orgId}.      *)

\* _unique_upload_dest: the name itself is 0, the name with _n is n.
FilesIn(s) == {n \in 0..MaxUploads : disk[s][n] # 0}

\* A plausible slip: the names of this request are the only ones avoided.
FirstName(s) == 0

FreeName(s) == Min(0..MaxUploads \ FilesIn(s))

Stored(s, n) ==
    /\ writes' = writes + 1
    /\ disk' = [disk EXCEPT ![s][n] = writes + 1]
    /\ overwritten' = overwritten \cup (IF n \in FilesIn(s) THEN {<<s, n>>} ELSE {})

\* An upload in memory is read without a suspension, and written.
StoreSmall(w) ==
    LET s == worker[w].slug IN
    /\ worker[w].pc = "pick"
    /\ writes < MaxUploads
    /\ Stored(s, FreeName(s))
    /\ worker' = [worker EXCEPT ![w].pc = "row", ![w].dest = FreeName(s),
                                ![w].known = FilesIn(s), ![w].seen = writes + 1]
    /\ UNCHANGED <<orgVars, demo, docs, host, renames, requests>>

\* A spooled one is read in a thread, with the name already chosen.
PickName(w) ==
    LET s == worker[w].slug IN
    /\ worker[w].pc = "pick"
    /\ writes < MaxUploads
    /\ worker' = [worker EXCEPT ![w].pc = "store", ![w].dest = FreeName(s),
                                ![w].known = FilesIn(s)]
    /\ UNCHANGED <<orgVars, demo, fileVars, host, renames, requests>>

StoreSpooled(w) ==
    /\ worker[w].pc = "store"
    /\ writes < MaxUploads
    /\ Stored(worker[w].slug, worker[w].dest)
    /\ worker' = [worker EXCEPT ![w].pc = "row", ![w].seen = writes + 1]
    /\ UNCHANGED <<orgVars, demo, docs, host, renames, requests>>

\* A request may carry more files.
CommitDocument(w) ==
    /\ worker[w].pc = "row"
    /\ docs' = Append(docs, [org |-> worker[w].org, name |-> worker[w].dest,
                             path |-> <<host, worker[w].slug, worker[w].dest>>,
                             upload |-> worker[w].seen])
    /\ \/ Goes(w, "pick")
       \/ Ends(w)
    /\ UNCHANGED <<orgVars, demo, disk, writes, overwritten, host, renames, requests>>

\* resolve_file_in_folder, on host h with folder s: the stored path if there
\* is a file, else the file of that name in the folder. (The name of a path
\* is the filename of its row.)
IsFile(path, h) == path[1] = h /\ disk[path[2]][path[3]] # 0

\* A plausible slip: the stored path is not looked at.
ByName(d, s, h) == <<h, s, d.name>>

Resolve(d, s, h) == IF IsFile(d.path, h) THEN d.path ELSE <<h, s, d.name>>

ListDocuments(w) ==
    /\ worker[w].pc = "list"
    /\ docs' = [i \in DOMAIN docs |->
                 IF docs[i].org # worker[w].org THEN docs[i]
                 ELSE [docs[i] EXCEPT !.path = Resolve(docs[i], worker[w].slug, host)]]
    /\ Ends(w)
    /\ UNCHANGED <<orgVars, demo, disk, writes, overwritten, host, renames, requests>>

\* The request raises at an await (a unique index, an empty file, the client).
Abort(w) ==
    /\ worker[w].pc # "idle"
    /\ Ends(w)
    /\ UNCHANGED <<orgVars, demo, fileVars, host, renames, requests>>

\* The process starts again, perhaps on another host with a copy of the
\* database and of the tree; repair_storage_paths runs before any request.
Restart ==
    /\ \E h \in {host, host + 1} :
         /\ h # host => host < MaxMoves /\ (MoveRenamed \/ renames = 0)
         /\ host' = h
         /\ docs' = [i \in DOMAIN docs |->
                 [docs[i] EXCEPT !.path = Resolve(docs[i], slug[docs[i].org], h)]]
    /\ worker' = [w \in Workers |-> Idle]
    /\ UNCHANGED <<slug, tenant, demo, disk, writes, overwritten, renames, requests>>

Next ==
    \/ \E w \in Workers :
         \/ StartCreate(w) \/ InsertOrg(w) \/ StartUpdate(w) \/ Rename(w)
         \/ StartOnFolder(w) \/ SyncFolders(w) \/ MakeTenant(w)
         \/ ReadDemography(w) \/ InsertDemography(w) \/ UpdateDemography(w)
         \/ StoreSmall(w) \/ PickName(w) \/ StoreSpooled(w)
         \/ CommitDocument(w) \/ ListDocuments(w) \/ Abort(w)
    \/ Restart

Spec == Init /\ [][Next]_vars

-----------------------------------------------------------------------------

\* The rows and the local variables have values of their columns, and the
\* rows of an organisation exist only when the organisation does.
TypeOK ==
    /\ slug \in [Orgs -> Slugs \cup {NoValue}]
    /\ tenant \in [Orgs -> Slugs \cup {NoValue}]
    /\ \A o \in Orgs : demo[o] = NoValue \/ demo[o] \in [Fields -> Values \cup {NoValue}]
    /\ \A o \in Orgs \ Existing : {tenant[o], demo[o]} = {NoValue}
    /\ disk \in [Slugs -> [0..MaxUploads -> 0..MaxUploads]]
    /\ writes \in 0..MaxUploads /\ renames \in 0..MaxRenames /\ host \in 0..MaxMoves
    /\ \A i \in DOMAIN docs :
         /\ docs[i].org \in Existing /\ docs[i].upload \in 1..writes
         /\ docs[i].path \in (0..host) \X Slugs \X {docs[i].name}
    /\ \A w \in Workers : worker[w].org # NoValue => worker[w].org \in Existing

\* A row of control_documents leads to the file that was uploaded with it,
\* whatever the slug has become and whichever host the database is on: the
\* path a list, an extraction or the repair at startup resolves holds that
\* upload. (A file that a second upload wrote over is excepted: PickName.)
RowsLeadToTheirFiles ==
    \A i \in DOMAIN docs :
        LET path == Resolve(docs[i], slug[docs[i].org], host) IN
        /\ IsFile(path, host)
        /\ \/ disk[path[2]][path[3]] = docs[i].upload
           \/ <<path[2], path[3]>> \in overwritten

\* An upload never replaces a file that was there when it chose its name
\* ("a non-colliding destination", _unique_upload_dest), also when the folder
\* was that of an organisation which has since changed its slug.
KnownFilesStay ==
    [][\A s \in Slugs, n \in 0..MaxUploads :
         disk[s][n] \notin {0, disk'[s][n]} =>
             \E w \in Workers : /\ <<worker'[w].slug, worker'[w].dest>> = <<s, n>>
                                /\ n \notin worker'[w].known]_vars

\* "Only the fields present in the request change" (api-reference/
\* org-documents.mdx): a column of the demography takes a value that a request
\* in progress gives it, however the reads and writes of two updates interleave.
OnlyRequestedFieldsChange ==
    [][\A o \in Orgs, f \in Fields :
         demo[o] # NoValue /\ demo'[o][f] # demo[o][f] =>
             \E w \in Workers : /\ worker[w].pc = "flush" /\ worker[w].org = o
                                /\ f \in DOMAIN worker[w].patch
                                /\ demo'[o][f] = worker[w].patch[f]]_vars
=============================================================================
