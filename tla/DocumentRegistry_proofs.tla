----------------------- MODULE DocumentRegistry_proofs -----------------------
(***************************************************************************)
(* Theorems about DocumentRegistry, for all finite sets of uploads and     *)
(* requests, when an organisation has one request at a time.               *)
(*                                                                         *)
(* The invariant is built in layers.  RowsInv says where requests and runs *)
(* are and which rows a registered file has; OnceInv adds that a file that *)
(* is being registered has no row yet unless the request is forced;        *)
(* TurnInv that the runs of an organisation take turns in the order of     *)
(* their creation; FilesInv that the file of a registered document is safe *)
(* from every run that may end before; ControlsInv whose controls the      *)
(* document of a running extraction has.                                   *)
(***************************************************************************)
EXTENDS DocumentRegistry, FiniteSetTheorems, WellFoundedInduction, TLAPS

\* What the theorems assume of the constants.
Finite  == IsFiniteSet(Uploads) /\ IsFiniteSet(Requests) /\ Requests # {}
OneEach == Finite /\ MaxInFlight = 1

Running == {"planned", "deleted", "read", "inserted"}

\* Where a request is, and with it its run.
PcOK(u) ==
  /\ pc[u] = "idle" => req[u] = NoRequest
  /\ pc[u] # "idle" => req[u] \in Requests
  /\ pc[u] \in {"idle", "create"} <=> run[u] = "none"
  /\ pc[u] \in {"idle", "create", "mkdir"} => at[u] = 1
  /\ pc[u] \in {"find", "place", "select", "commit"} => at[u] \in DOMAIN req[u].files
  /\ pc[u] \in {"select", "commit"} => dest[u] \in Paths

\* A file that was registered has its rows, and is extracted while the run runs.
BatchOK(u, i) ==
  /\ batch[u][i] # "none" =>
       /\ pc[u] \notin {"idle", "create"} /\ i \in DOMAIN req[u].files
       /\ registry[Org(u)][FileAt(u, i)] # NoRow
       /\ documents[FileAt(u, i)] # NoRow
  /\ batch[u][i] \in Running => run[u] = "running"
  /\ batch[u][i] \notin {"none", "registered"} => run[u] \in {"running", "ended"}

RowsInv ==
  /\ TypeOK
  /\ \A u \in Uploads : PcOK(u)
  /\ \A u \in Uploads, i \in 1..MaxFiles : BatchOK(u, i)

-----------------------------------------------------------------------------
(* Facts about the constants.                                              *)

(* A finite set of natural numbers with an element has a greatest one: of   *)
(* the sets of greater elements one is strictly included in no other.      *)
LEMMA GreatestExists ==
  ASSUME NEW S \in SUBSET Nat, IsFiniteSet(S), S # {}
  PROVE  \E x \in S : \A y \in S : y <= x
<1> DEFINE Above(x) == {y \in S : x < y}
           T == {Above(x) : x \in S}
           R == StrictSubsetOrdering(S)
<1>1. T \subseteq FiniteSubsetsOf(S)
  <2>1. ASSUME NEW x \in S  PROVE Above(x) \in FiniteSubsetsOf(S)
    <3>1. Above(x) \subseteq S
      OBVIOUS
    <3>2. IsFiniteSet(Above(x))
      BY <3>1, FS_Subset
    <3> QED
      BY <3>1, <3>2 DEF FiniteSubsetsOf
  <2> QED
    BY <2>1
<1>2. T # {}
  OBVIOUS
<1>3. IsWellFoundedOn(R, FiniteSubsetsOf(S))
  BY FS_StrictSubsetOrderingWellFounded
<1> HIDE DEF T, R
<1>4. \E X \in T : \A Y \in T : ~(<<Y, X>> \in R)
  BY <1>1, <1>2, <1>3, WFMin
<1>5. PICK x \in S : \A y \in S : ~(<<Above(y), Above(x)>> \in R)
  BY <1>4 DEF T
<1>6. ASSUME NEW y \in S, ~(y <= x)  PROVE FALSE
  <2>1. Above(y) \subseteq Above(x)
    <3>1. x < y /\ x \in Nat /\ y \in Nat
      BY <1>6
    <3>2. ASSUME NEW z \in S, y < z  PROVE x < z
      BY <3>1, <3>2
    <3> QED
      BY <3>2
  <2>2. y \in Above(x) /\ y \notin Above(y)
    BY <1>6
  <2>3. <<Above(y), Above(x)>> \in (SUBSET S) \X (SUBSET S)
    OBVIOUS
  <2>4. <<Above(y), Above(x)>> \in R
    BY <2>1, <2>2, <2>3 DEF R, StrictSubsetOrdering
  <2> QED
    BY <2>4, <1>5
<1> QED
  BY <1>6

(* The columns of a request, and its files are not more than MaxFiles.     *)
LEMMA RequestFacts ==
  ASSUME Finite
  PROVE  /\ MaxFiles \in Nat
         /\ \A r \in Requests :
              /\ r.org \in Orgs /\ r.save \in BOOLEAN /\ r.force \in BOOLEAN
              /\ r.files \in Seq(Contents) /\ r.files # <<>>
              /\ Len(r.files) \in 1..MaxFiles /\ DOMAIN r.files = 1..Len(r.files)
<1> DEFINE L == {Len(r.files) : r \in Requests}
<1>1. \A r \in Requests :
        /\ r.org \in Orgs /\ r.save \in BOOLEAN /\ r.force \in BOOLEAN
        /\ r.files \in Seq(Contents) /\ r.files # <<>>
  BY RequestsAssumption
<1>2. \A r \in Requests : Len(r.files) \in Nat \ {0} /\ DOMAIN r.files = 1..Len(r.files)
  BY <1>1
<1>3. L \in SUBSET Nat /\ L # {}
  BY <1>2 DEF Finite
<1>4. IsFiniteSet(L)
  <2> DEFINE len == [r \in Requests |-> Len(r.files)]
  <2>1. len \in Surjection(Requests, L)
    BY DEF Surjection
  <2> QED
    BY <2>1, FS_Surjection DEF Finite
<1>5. \E n \in L : \A m \in L : m <= n
  BY <1>3, <1>4, GreatestExists
<1>6. \E n \in L : \A r \in Requests : Len(r.files) <= n
  BY <1>5
<1>7. MaxFiles \in L /\ \A r \in Requests : Len(r.files) <= MaxFiles
  BY <1>6 DEF MaxFiles
<1> QED
  BY <1>1, <1>2, <1>3, <1>7

-----------------------------------------------------------------------------
(* Requests, runs and rows.                                                *)

(* At the start there are no requests, runs or rows.                       *)
LEMMA RowsInit == ASSUME Finite, Init  PROVE RowsInv
<1> USE DEF Init
<1>1. MaxFiles \in Nat
  BY RequestFacts
<1>2. TypeOK
  BY <1>1 DEF TypeOK, Over
<1>3. \A u \in Uploads : PcOK(u)
  BY DEF PcOK
<1>4. \A u \in Uploads, i \in 1..MaxFiles : BatchOK(u, i)
  BY DEF BatchOK, Running
<1> QED
  BY <1>2, <1>3, <1>4 DEF RowsInv

(* A step of a request that only moves it.                                 *)
LEMMA RequestMoves ==
  ASSUME RowsInv, NEW u \in Uploads, TypeOK', PcOK(u)',
         pc[u] \notin {"idle", "create"}, pc'[u] \notin {"idle", "create"},
         \A v \in Uploads \ {u} : pc'[v] = pc[v] /\ at'[v] = at[v] /\ dest'[v] = dest[v],
         UNCHANGED <<req, run, batch, documents, registry>>
  PROVE  RowsInv'
<1>1. ASSUME NEW v \in Uploads  PROVE PcOK(v)'
  BY <1>1 DEF RowsInv, PcOK
<1>2. ASSUME NEW v \in Uploads, NEW i \in 1..MaxFiles  PROVE BatchOK(v, i)'
  <2>1. BatchOK(v, i)
    BY DEF RowsInv
  <2> QED
    BY <2>1 DEF BatchOK, Org, FileAt, Running
<1> QED
  BY <1>1, <1>2 DEF RowsInv

(* Proceed and Die move the request they are called for.                   *)
LEMMA ProceedFacts ==
  ASSUME Finite, RowsInv, NEW u \in Uploads, Proceed(u),
         pc[u] \in {"find", "place", "select", "commit"}
  PROVE  /\ at' \in [Uploads -> 1..(MaxFiles + 1)]
         /\ pc' \in [Uploads -> Over \cup InFlight]
         /\ pc'[u] \in {"find", "finish"}
         /\ pc'[u] = "find" => at'[u] \in DOMAIN req[u].files
         /\ found' \in [Uploads -> Paths \cup {NoRow, NoPath}]
         /\ sawDoc' \in [Uploads -> BOOLEAN]
         /\ dest' \in [Uploads -> Paths \cup {NoPath}]
         /\ \A v \in Uploads \ {u} : /\ pc'[v] = pc[v] /\ at'[v] = at[v]
                                     /\ found'[v] = found[v] /\ dest'[v] = dest[v]
<1>1. /\ req[u] \in Requests /\ at[u] \in DOMAIN req[u].files /\ PcOK(u)
      /\ at \in [Uploads -> 1..(MaxFiles + 1)] /\ pc \in [Uploads -> Over \cup InFlight]
      /\ found \in [Uploads -> Paths \cup {NoRow, NoPath}] /\ sawDoc \in [Uploads -> BOOLEAN]
      /\ dest \in [Uploads -> Paths \cup {NoPath}]
  BY DEF RowsInv, PcOK, TypeOK
<1>2. /\ at[u] \in 1..Len(req[u].files) /\ Len(req[u].files) \in 1..MaxFiles
      /\ MaxFiles \in Nat
      /\ DOMAIN req[u].files = 1..Len(req[u].files)
  BY <1>1, RequestFacts
<1>3. at'[u] = at[u] + 1 /\ at' = [at EXCEPT ![u] = at[u] + 1]
  BY <1>1 DEF Proceed
<1>4. at[u] + 1 \in 1..(MaxFiles + 1)
  BY <1>2
<1>5. /\ pc' = [pc EXCEPT ![u] = AfterFile(u)] /\ AfterFile(u) \in {"find", "finish"}
      /\ AfterFile(u) = "find" => at[u] + 1 \in 1..Len(req[u].files)
  BY <1>2 DEF Proceed, Goto, AfterFile
<1> QED
  BY <1>1, <1>2, <1>3, <1>4, <1>5 DEF Proceed, InFlight

(* What a process that dies leaves behind of its request.                  *)
LEMMA DieFacts ==
  ASSUME Finite, RowsInv, NEW u \in Uploads, Die(u)
  PROVE  /\ at' \in [Uploads -> 1..(MaxFiles + 1)] /\ at'[u] = 1
         /\ pc' \in [Uploads -> Over \cup InFlight] /\ pc'[u] = "died"
         /\ found' \in [Uploads -> Paths \cup {NoRow, NoPath}]
         /\ sawDoc' \in [Uploads -> BOOLEAN]
         /\ dest' \in [Uploads -> Paths \cup {NoPath}]
         /\ \A v \in Uploads \ {u} : /\ pc'[v] = pc[v] /\ at'[v] = at[v]
                                     /\ found'[v] = found[v] /\ dest'[v] = dest[v]
<1>1. 1 \in 1..(MaxFiles + 1)
  BY RequestFacts
<1> QED
  BY <1>1 DEF Die, Goto, RowsInv, TypeOK, Over

(* The steps of a request that write no row.                               *)
LEMMA MovesKeepRows ==
  ASSUME Finite, RowsInv, NEW u \in Uploads,
         \/ MakeDirectory(u) \/ FindRegistered(u) \/ PlaceFile(u) \/ DirectoryGone(u)
         \/ SelectDocument(u) \/ InsertConflict(u) \/ IngestRaises(u)
  PROVE  RowsInv'
<1>1. PcOK(u) /\ TypeOK
  BY DEF RowsInv
<1>2. CASE MakeDirectory(u)
  <2>1. req[u] \in Requests /\ at[u] = 1 /\ 1 \in DOMAIN req[u].files
    BY <1>1, <1>2, RequestFacts DEF PcOK, MakeDirectory
  <2>2. /\ dir' \in [Uploads -> BOOLEAN] /\ pc' \in [Uploads -> Over \cup InFlight]
        /\ pc[u] = "mkdir" /\ pc'[u] = "find"
        /\ \A v \in Uploads \ {u} : pc'[v] = pc[v]
    BY <1>1, <1>2, <2>1, RequestFacts DEF TypeOK, MakeDirectory, Goto, InFlight
  <2>3. TypeOK'
    BY <1>1, <1>2, <2>2 DEF TypeOK, MakeDirectory, runVars, rowVars, extVars
  <2>4. PcOK(u)'
    BY <1>1, <1>2, <2>1, <2>2 DEF PcOK, MakeDirectory, runVars
  <2> QED
    BY <1>2, <2>2, <2>3, <2>4, RequestMoves DEF MakeDirectory, runVars, rowVars
<1>3. CASE FindRegistered(u)
  <2>1. /\ req[u] \in Requests /\ at[u] \in DOMAIN req[u].files /\ pc[u] = "find"
        /\ run[u] # "none"
        /\ registry[Org(u)][FileAt(u, at[u])] \in Paths \cup {NoRow, NoPath}
    <3>1. req[u] \in Requests /\ at[u] \in DOMAIN req[u].files /\ pc[u] = "find"
      BY <1>1, <1>3 DEF PcOK, FindRegistered
    <3>2. Org(u) \in Orgs /\ FileAt(u, at[u]) \in Contents
      BY <3>1, RequestFacts DEF Org, FileAt
    <3> QED
      BY <1>1, <3>1, <3>2 DEF TypeOK, PcOK
  <2>2. UNCHANGED <<req, run, order, batch, documents, registry, dir, disk, source, result,
                    controls, errors>>
    BY <1>3 DEF FindRegistered, runVars, rowVars, extVars
  <2>3. CASE Proceed(u)
    <3>1. TypeOK'
      BY <1>1, <2>1, <2>2, <2>3, ProceedFacts DEF TypeOK
    <3>2. PcOK(u)'
      BY <1>1, <2>1, <2>2, <2>3, ProceedFacts DEF PcOK
    <3> QED
      BY <2>1, <2>2, <2>3, <3>1, <3>2, ProceedFacts, RequestMoves
  <2>4. CASE /\ found' = [found EXCEPT ![u] = registry[Org(u)][FileAt(u, at[u])]]
             /\ Goto(u, "place") /\ UNCHANGED <<at, sawDoc, dest>>
    <3>1. /\ pc' \in [Uploads -> Over \cup InFlight] /\ pc'[u] = "place"
          /\ \A v \in Uploads \ {u} : pc'[v] = pc[v]
      BY <1>1, <2>4 DEF TypeOK, Goto, InFlight
    <3>2. TypeOK'
      BY <1>1, <2>1, <2>2, <2>4, <3>1 DEF TypeOK
    <3>3. PcOK(u)'
      BY <1>1, <2>1, <2>2, <2>4, <3>1 DEF PcOK
    <3> QED
      BY <2>1, <2>2, <2>4, <3>1, <3>2, <3>3, RequestMoves
  <2> QED
    BY <1>3, <2>3, <2>4 DEF FindRegistered
<1>4. CASE PlaceFile(u)
  <2>1. req[u] \in Requests /\ at[u] \in DOMAIN req[u].files /\ pc[u] = "place"
    BY <1>1, <1>4 DEF PcOK, PlaceFile
  <2>2. Path(u, at[u]) \in Paths
    BY <2>1, RequestFacts DEF Path, Paths
  <2>3. PICK p \in Paths : dest' = [dest EXCEPT ![u] = p]
    BY <1>1, <1>4, <2>2 DEF PlaceFile, Reusable, TypeOK
  <2>4. disk' \subseteq Paths
    BY <1>1, <1>4, <2>2 DEF PlaceFile, TypeOK
  <2>5. /\ pc' \in [Uploads -> Over \cup InFlight] /\ pc'[u] = "select"
        /\ \A v \in Uploads \ {u} : pc'[v] = pc[v]
    BY <1>1, <1>4 DEF TypeOK, Goto, InFlight, PlaceFile
  <2>6. UNCHANGED <<req, at, found, sawDoc, run, order, batch, documents, registry, dir, source,
                    result, controls, errors>>
    BY <1>4 DEF PlaceFile, runVars, rowVars, extVars
  <2>7. TypeOK'
    BY <1>1, <2>3, <2>4, <2>5, <2>6 DEF TypeOK
  <2>8. dest'[u] = p /\ \A v \in Uploads \ {u} : dest'[v] = dest[v]
    BY <1>1, <2>3 DEF TypeOK
  <2>9. PcOK(u)'
    BY <1>1, <2>1, <2>5, <2>6, <2>8 DEF PcOK, Paths
  <2> QED
    BY <2>1, <2>5, <2>6, <2>7, <2>8, <2>9, RequestMoves
<1>5. CASE SelectDocument(u)
  <2>1. /\ pc' \in [Uploads -> Over \cup InFlight] /\ pc[u] = "select" /\ pc'[u] = "commit"
        /\ \A v \in Uploads \ {u} : pc'[v] = pc[v]
        /\ sawDoc' \in [Uploads -> BOOLEAN]
    BY <1>1, <1>5 DEF TypeOK, Goto, InFlight, SelectDocument
  <2>2. UNCHANGED <<req, at, found, dest, run, order, batch, documents, registry, dir, disk,
                    source, result, controls, errors>>
    BY <1>5 DEF SelectDocument, runVars, rowVars, extVars
  <2>3. TypeOK'
    BY <1>1, <2>1, <2>2 DEF TypeOK
  <2>4. PcOK(u)'
    BY <1>1, <2>1, <2>2 DEF PcOK, Paths
  <2> QED
    BY <2>1, <2>2, <2>3, <2>4, RequestMoves
<1>6. CASE DirectoryGone(u) \/ InsertConflict(u) \/ IngestRaises(u)
  <2>1. /\ Die(u) /\ pc[u] \notin {"idle", "create"}
        /\ UNCHANGED <<req, run, order, batch, documents, registry, dir, disk, source, result,
                       controls>>
        /\ errors' \in Nat
    BY <1>1, <1>6 DEF DirectoryGone, InsertConflict, IngestRaises, runVars, rowVars, extVars,
                      TypeOK
  <2>2. TypeOK'
    BY <1>1, <2>1, DieFacts DEF TypeOK
  <2>3. PcOK(u)'
    BY <1>1, <2>1, DieFacts DEF PcOK
  <2> QED
    BY <2>1, <2>2, <2>3, DieFacts, RequestMoves
<1> QED
  BY <1>2, <1>3, <1>4, <1>5, <1>6

(* A request starts, and gets its run.                                     *)
LEMMA StartKeepsRows ==
  ASSUME Finite, RowsInv, NEW u \in Uploads, StartIngest(u) \/ CreateRun(u)
  PROVE  RowsInv'
<1>1. PcOK(u) /\ TypeOK
  BY DEF RowsInv
<1>2. CASE StartIngest(u)
  <2>1. PICK r \in Requests : req' = [req EXCEPT ![u] = r]
    BY <1>2 DEF StartIngest
  <2>2. /\ pc[u] = "idle" /\ pc'[u] = "create" /\ req'[u] = r
        /\ pc' \in [Uploads -> Over \cup InFlight]
        /\ \A v \in Uploads \ {u} : pc'[v] = pc[v] /\ req'[v] = req[v]
        /\ UNCHANGED <<at, found, sawDoc, dest, run, order, batch, documents, registry, dir, disk,
                       source, result, controls, errors>>
    BY <1>1, <1>2, <2>1 DEF StartIngest, Goto, TypeOK, InFlight, runVars, rowVars, extVars
  <2>3. TypeOK'
    BY <1>1, <2>1, <2>2 DEF TypeOK
  <2>4. ASSUME NEW v \in Uploads  PROVE PcOK(v)'
    <3>1. PcOK(v)
      BY DEF RowsInv
    <3> QED
      BY <2>1, <2>2, <3>1 DEF PcOK, Paths
  <2>5. ASSUME NEW v \in Uploads, NEW i \in 1..MaxFiles  PROVE BatchOK(v, i)'
    <3>1. BatchOK(v, i)
      BY DEF RowsInv
    <3> QED
      BY <2>1, <2>2, <3>1 DEF BatchOK, Org, FileAt, Running
  <2> QED
    BY <2>3, <2>4, <2>5 DEF RowsInv
<1>3. CASE CreateRun(u)
  <2>1. /\ pc[u] = "create" /\ pc'[u] = "mkdir"
        /\ run' = [run EXCEPT ![u] = CreatedStatus(u)] /\ CreatedStatus(u) \in {"waiting", "queued"}
        /\ pc' \in [Uploads -> Over \cup InFlight]
        /\ \A v \in Uploads \ {u} : pc'[v] = pc[v] /\ run'[v] = run[v]
        /\ run'[u] \in {"waiting", "queued"}
        /\ UNCHANGED <<req, at, found, sawDoc, dest, batch, documents, registry, dir, disk,
                       source, result, controls, errors>>
    BY <1>1, <1>3 DEF CreateRun, CreatedStatus, Goto, TypeOK, InFlight, rowVars, extVars
  <2>2. TypeOK'
    BY <1>1, <2>1 DEF TypeOK
  <2>3. ASSUME NEW v \in Uploads  PROVE PcOK(v)'
    <3>1. PcOK(v)
      BY DEF RowsInv
    <3> QED
      BY <2>1, <3>1 DEF PcOK, Paths
  <2>4. ASSUME NEW v \in Uploads, NEW i \in 1..MaxFiles  PROVE BatchOK(v, i)'
    <3>1. BatchOK(v, i)
      BY DEF RowsInv
    <3> QED
      BY <2>1, <3>1 DEF BatchOK, Org, FileAt, Running
  <2> QED
    BY <2>2, <2>3, <2>4 DEF RowsInv
<1> QED
  BY <1>2, <1>3

(* A file that is committed has its document and its registry row.         *)
LEMMA CommitFacts ==
  ASSUME Finite, RowsInv, NEW u \in Uploads, CommitDocument(u)
  PROVE  LET c == FileAt(u, at[u]) IN
         /\ pc[u] = "commit" /\ req[u] \in Requests /\ Org(u) \in Orgs /\ c \in Contents
         /\ at[u] \in DOMAIN req[u].files /\ at[u] \in 1..MaxFiles
         /\ dest[u] \in Paths /\ dest[u] \notin {NoRow, NoPath}
         /\ run[u] # "none"
         /\ documents' = [documents EXCEPT ![c] = dest[u]]
         /\ registry' = [registry EXCEPT ![Org(u)] =
                           [registry[Org(u)] EXCEPT ![c] = StoragePath(u, registry[Org(u)][c])]]
         /\ StoragePath(u, registry[Org(u)][c]) \in Paths \cup {NoPath}
         /\ NoPath # NoRow /\ NoRow \notin Paths
         /\ batch' = [batch EXCEPT ![u] = [batch[u] EXCEPT ![at[u]] = "registered"]]
         /\ UNCHANGED <<req, run, order, dir, disk, source, result, controls, errors>>
<1> DEFINE c == FileAt(u, at[u])
<1>1. PcOK(u) /\ TypeOK
  BY DEF RowsInv
<1>2. /\ pc[u] = "commit" /\ req[u] \in Requests /\ at[u] \in DOMAIN req[u].files
      /\ dest[u] \in Paths /\ run[u] # "none"
  BY <1>1 DEF CommitDocument, PcOK
<1>3. Org(u) \in Orgs /\ c \in Contents /\ at[u] \in 1..MaxFiles
  BY <1>2, RequestFacts DEF Org, FileAt
<1>4. NoPath # NoRow /\ NoRow \notin Paths /\ NoPath \notin Paths
  BY NullsAssumption, RequestFacts DEF Paths
<1>5. StoragePath(u, registry[Org(u)][c]) \in Paths \cup {NoPath}
  BY <1>1, <1>2, <1>3 DEF StoragePath, TypeOK
<1> QED
  BY <1>1, <1>2, <1>3, <1>4, <1>5 DEF CommitDocument, extVars

(* The document and its registry row are committed.                        *)
LEMMA CommitKeepsRows ==
  ASSUME Finite, RowsInv, NEW u \in Uploads, CommitDocument(u)
  PROVE  RowsInv'
<1> DEFINE c == FileAt(u, at[u])
<1>1. PcOK(u) /\ TypeOK /\ Proceed(u)
  BY DEF RowsInv, CommitDocument
<1>2. /\ pc[u] = "commit" /\ req[u] \in Requests /\ Org(u) \in Orgs /\ c \in Contents
      /\ at[u] \in DOMAIN req[u].files /\ at[u] \in 1..MaxFiles
      /\ dest[u] \in Paths /\ run[u] # "none"
      /\ documents' = [documents EXCEPT ![c] = dest[u]]
      /\ registry' = [registry EXCEPT ![Org(u)] =
                        [registry[Org(u)] EXCEPT ![c] = StoragePath(u, registry[Org(u)][c])]]
      /\ StoragePath(u, registry[Org(u)][c]) \in Paths \cup {NoPath}
      /\ NoPath # NoRow /\ NoRow \notin Paths
      /\ batch' = [batch EXCEPT ![u] = [batch[u] EXCEPT ![at[u]] = "registered"]]
      /\ UNCHANGED <<req, run, order, dir, disk, source, result, controls, errors>>
  BY CommitFacts
<1>3. documents' \in [Contents -> Paths \cup {NoRow}]
  BY <1>1, <1>2 DEF TypeOK
<1>4. registry' \in [Orgs -> [Contents -> Paths \cup {NoRow, NoPath}]]
  BY <1>1, <1>2 DEF TypeOK
<1>5. batch' \in [Uploads -> [1..MaxFiles ->
       {"none", "registered", "planned", "deleted", "read", "inserted", "extracted", "missing"}]]
  BY <1>1, <1>2 DEF TypeOK
<1>6. /\ \A d \in Contents : documents[d] # NoRow => documents'[d] # NoRow
      /\ documents'[c] # NoRow
  BY <1>1, <1>2 DEF TypeOK
<1>7. /\ \A o \in Orgs, d \in Contents : registry[o][d] # NoRow => registry'[o][d] # NoRow
      /\ registry'[Org(u)][c] # NoRow
  BY <1>1, <1>2 DEF TypeOK
<1>8. TypeOK'
  BY <1>1, <1>2, <1>3, <1>4, <1>5, ProceedFacts DEF TypeOK
<1>9. ASSUME NEW v \in Uploads  PROVE PcOK(v)'
  <2>1. PcOK(v)
    BY DEF RowsInv
  <2> QED
    BY <1>1, <1>2, <2>1, ProceedFacts DEF PcOK
<1>10. ASSUME NEW v \in Uploads, NEW i \in 1..MaxFiles  PROVE BatchOK(v, i)'
  <2>1. BatchOK(v, i) /\ PcOK(v)
    BY DEF RowsInv
  <2>2. v # u => pc'[v] = pc[v]
    BY <1>1, <1>2, ProceedFacts
  <2>3. pc'[u] \in {"find", "finish"}
    BY <1>1, <1>2, ProceedFacts
  <2>4. CASE v = u /\ i = at[u]
    BY <1>1, <1>2, <1>6, <1>7, <2>3, <2>4 DEF BatchOK, Org, FileAt, Running, TypeOK
  <2>5. CASE ~(v = u /\ i = at[u])
    <3>1. batch'[v][i] = batch[v][i]
      BY <1>1, <1>2, <2>5 DEF TypeOK
    <3>2. batch[v][i] # "none" => req[v] \in Requests /\ Org(v) \in Orgs /\ FileAt(v, i) \in Contents
      BY <2>1, RequestFacts DEF BatchOK, PcOK, Org, FileAt
    <3> QED
      BY <1>2, <1>6, <1>7, <2>1, <2>2, <2>3, <3>1, <3>2 DEF BatchOK, Org, FileAt, Running
  <2> QED
    BY <2>4, <2>5
<1> QED
  BY <1>8, <1>9, <1>10 DEF RowsInv

(* A step of runs: requests and rows stay, batches of a run that is not     *)
(* created yet stay empty.                                                 *)
LEMMA RunMoves ==
  ASSUME RowsInv, TypeOK',
         UNCHANGED <<req, at, dest, documents, registry>>,
         \A v \in Uploads : /\ pc'[v] = pc[v] \/ (pc[v] = "finish" /\ pc'[v] = "accepted")
                            /\ run[v] = "none" <=> run'[v] = "none",
         \A v \in Uploads, i \in 1..MaxFiles :
           /\ batch[v][i] = "none" <=> batch'[v][i] = "none"
           /\ batch'[v][i] \in Running => run'[v] = "running"
           /\ batch'[v][i] \notin {"none", "registered"} => run'[v] \in {"running", "ended"}
  PROVE  RowsInv'
<1>1. ASSUME NEW v \in Uploads  PROVE PcOK(v)'
  <2>1. PcOK(v)
    BY DEF RowsInv
  <2> QED
    BY <2>1 DEF PcOK, Paths
<1>2. ASSUME NEW v \in Uploads, NEW i \in 1..MaxFiles  PROVE BatchOK(v, i)'
  <2>1. BatchOK(v, i)
    BY DEF RowsInv
  <2> QED
    BY <2>1 DEF BatchOK, Org, FileAt
<1> QED
  BY <1>1, <1>2 DEF RowsInv

\* The statuses of a batch.
Statuses ==
  {"none", "registered", "planned", "deleted", "read", "inserted", "extracted", "missing"}

(* Planning turns the registered files of an upload into batches.          *)
LEMMA PlannedFacts ==
  ASSUME TypeOK, NEW u \in Uploads
  PROVE  /\ Planned(u) \in [1..MaxFiles -> Statuses]
         /\ \A i \in 1..MaxFiles :
              /\ batch[u][i] = "registered" => Planned(u)[i] = "planned"
              /\ batch[u][i] # "registered" => Planned(u)[i] = batch[u][i]
BY DEF TypeOK, Planned, Statuses

(* A request is accepted once its files are through.                       *)
LEMMA FinishKeepsRows ==
  ASSUME Finite, RowsInv, NEW u \in Uploads, FinishIngest(u)
  PROVE  RowsInv'
<1>1. /\ TypeOK /\ PcOK(u) /\ pc[u] = "finish" /\ pc' = [pc EXCEPT ![u] = "accepted"]
      /\ UNCHANGED <<req, at, found, sawDoc, dest, order, documents, registry, dir, disk,
                     source, result, controls, errors>>
  BY DEF RowsInv, FinishIngest, Goto, rowVars, extVars
<1>2. \A v \in Uploads, i \in 1..MaxFiles : BatchOK(v, i)
  BY DEF RowsInv
<1>3. pc' \in [Uploads -> Over \cup InFlight]
  BY <1>1 DEF TypeOK, Over
<1>4. CASE run[u] = "queued"
  <2>1. run' = [run EXCEPT ![u] = "running"] /\ batch' = [batch EXCEPT ![u] = Planned(u)]
    BY <1>4 DEF FinishIngest
  <2>2. /\ run' \in [Uploads -> {"none", "queued", "waiting", "running", "ended"}]
        /\ batch' \in [Uploads -> [1..MaxFiles -> Statuses]]
    BY <1>1, <2>1, PlannedFacts DEF TypeOK, Statuses
  <2>3. TypeOK'
    BY <1>1, <1>3, <2>2 DEF TypeOK, Statuses
  <2>4. ASSUME NEW v \in Uploads, NEW i \in 1..MaxFiles
        PROVE  /\ batch[v][i] = "none" <=> batch'[v][i] = "none"
               /\ batch'[v][i] \in Running => run'[v] = "running"
               /\ batch'[v][i] \notin {"none", "registered"} => run'[v] \in {"running", "ended"}
    <3>1. BatchOK(v, i)
      BY <1>2
    <3>2. CASE v = u
      BY <1>1, <1>4, <2>1, <3>1, <3>2, PlannedFacts DEF TypeOK, BatchOK
    <3>3. CASE v # u
      BY <1>1, <2>1, <3>1, <3>3 DEF TypeOK, BatchOK
    <3> QED
      BY <3>2, <3>3
  <2>5. \A v \in Uploads : run[v] = "none" <=> run'[v] = "none"
    BY <1>1, <1>4, <2>1 DEF TypeOK
  <2> QED
    BY <1>1, <2>3, <2>4, <2>5, RunMoves DEF TypeOK
<1>5. CASE run[u] # "queued"
  <2>1. UNCHANGED <<run, batch>>
    BY <1>5 DEF FinishIngest
  <2>2. TypeOK'
    BY <1>1, <1>3, <2>1 DEF TypeOK
  <2> QED
    BY <1>1, <1>2, <2>1, <2>2, RunMoves DEF TypeOK, BatchOK
<1> QED
  BY <1>4, <1>5

(* A batch takes its turn through its steps.                               *)
LEMMA ExtractKeepsRows ==
  ASSUME Finite, RowsInv, NEW u \in Uploads, NEW i \in 1..MaxFiles,
         ReplaceControls(u, i) \/ ReadFile(u, i) \/ PersistControls(u, i) \/ CollectControls(u, i)
  PROVE  RowsInv'
<1>1. /\ TypeOK /\ BatchOK(u, i) /\ PcOK(u) /\ MaxFiles \in Nat
      /\ UNCHANGED <<req, pc, at, found, sawDoc, dest, run, order, documents, registry, dir, disk,
                     errors>>
  BY RequestFacts DEF RowsInv, ReplaceControls, ReadFile, PersistControls, CollectControls,
                      reqVars, rowVars
<1>2. batch[u][i] \in Running
  BY DEF ReplaceControls, ReadFile, PersistControls, CollectControls, Running
<1>3. PICK st \in Statuses \ {"none", "registered"} : batch' = [batch EXCEPT ![u][i] = st]
  BY DEF ReplaceControls, ReadFile, PersistControls, CollectControls, SetBatch, Statuses
<1>4. FileAt(u, i) \in Contents /\ documents[FileAt(u, i)] \in Paths /\ run[u] = "running"
  <2>1. req[u] \in Requests /\ i \in DOMAIN req[u].files
    BY <1>1, <1>2 DEF BatchOK, PcOK, Running
  <2>2. FileAt(u, i) \in Contents
    BY <2>1, RequestFacts DEF FileAt
  <2> QED
    BY <1>1, <1>2, <2>2 DEF BatchOK, TypeOK, Running
<1>5. batch' \in [Uploads -> [1..MaxFiles -> Statuses]]
  BY <1>1, <1>3 DEF TypeOK, Statuses
<1>6. /\ source' \in [Uploads -> [1..MaxFiles -> Paths \cup {NoPath}]]
      /\ result' \in [Uploads -> [1..MaxFiles -> SUBSET Extractions]]
      /\ controls' \in [Contents -> SUBSET Extractions]
  <2>1. CASE ReplaceControls(u, i)
    BY <1>1, <1>4, <2>1 DEF TypeOK, ReplaceControls
  <2>2. CASE ReadFile(u, i)
    BY <1>1, <2>2 DEF TypeOK, ReadFile, extVars
  <2>3. CASE PersistControls(u, i)
    <3>1. NewControls(u, i) \subseteq Extractions
      BY DEF NewControls, Extractions, Paths
    <3> QED
      BY <1>1, <1>4, <2>3, <3>1 DEF TypeOK, PersistControls
  <2>4. CASE CollectControls(u, i)
    BY <1>1, <1>4, <2>4 DEF TypeOK, CollectControls
  <2> QED
    BY <2>1, <2>2, <2>3, <2>4
<1>7. TypeOK'
  BY <1>1, <1>5, <1>6 DEF TypeOK, Statuses
<1>8. ASSUME NEW v \in Uploads, NEW j \in 1..MaxFiles
      PROVE  /\ batch[v][j] = "none" <=> batch'[v][j] = "none"
             /\ batch'[v][j] \in Running => run[v] = "running"
             /\ batch'[v][j] \notin {"none", "registered"} => run[v] \in {"running", "ended"}
  <2>1. BatchOK(v, j)
    BY DEF RowsInv
  <2>2. CASE v = u /\ j = i
    BY <1>1, <1>2, <1>3, <1>4, <2>2 DEF TypeOK, Running
  <2>3. CASE ~(v = u /\ j = i)
    BY <1>1, <1>3, <2>1, <2>3 DEF TypeOK, BatchOK
  <2> QED
    BY <2>2, <2>3
<1> QED
  BY <1>1, <1>7, <1>8, RunMoves

(* The end of a run, and the start of the oldest of those that wait.       *)
LEMMA EndKeepsRows ==
  ASSUME Finite, RowsInv, NEW u \in Uploads, EndRun(u)
  PROVE  RowsInv'
<1>1. /\ TypeOK /\ run[u] = "running"
      /\ \A i \in 1..MaxFiles : batch[u][i] \notin Running
      /\ UNCHANGED <<req, pc, at, found, sawDoc, dest, order, documents, registry, source, result,
                     controls, errors>>
  BY DEF RowsInv, EndRun, reqVars, rowVars, extVars, Running
<1>2. disk' \subseteq Paths /\ dir' \in [Uploads -> BOOLEAN]
  BY <1>1 DEF EndRun, TypeOK
<1>3. \A v \in Uploads, i \in 1..MaxFiles : BatchOK(v, i)
  BY DEF RowsInv
<1>4. CASE run' = [run EXCEPT ![u] = "ended"] /\ batch' = batch
  <2>1. run' \in [Uploads -> {"none", "queued", "waiting", "running", "ended"}]
    BY <1>1, <1>4 DEF TypeOK
  <2>2. TypeOK'
    BY <1>1, <1>2, <1>4, <2>1 DEF TypeOK
  <2>3. \A v \in Uploads : run'[v] = IF v = u THEN "ended" ELSE run[v]
    BY <1>1, <1>4 DEF TypeOK
  <2> QED
    BY <1>1, <1>3, <1>4, <2>2, <2>3, RunMoves DEF BatchOK
<1>5. ASSUME NEW w \in Uploads, run[w] = "waiting",
             run' = [run EXCEPT ![u] = "ended", ![w] = "running"],
             batch' = IF pc[w] = "accepted" THEN [batch EXCEPT ![w] = Planned(w)] ELSE batch
      PROVE  RowsInv'
  <2>1. w # u /\ \A v \in Uploads : run'[v] = IF v = u THEN "ended"
                                              ELSE IF v = w THEN "running" ELSE run[v]
    BY <1>1, <1>5 DEF TypeOK
  <2>2. run' \in [Uploads -> {"none", "queued", "waiting", "running", "ended"}]
    BY <1>1, <1>5 DEF TypeOK
  <2>3. /\ batch' \in [Uploads -> [1..MaxFiles -> Statuses]]
        /\ \A v \in Uploads \ {w} : batch'[v] = batch[v]
        /\ batch'[w] = Planned(w) \/ batch'[w] = batch[w]
    BY <1>1, <1>5, PlannedFacts DEF TypeOK, Statuses
  <2>4. TypeOK'
    BY <1>1, <1>2, <2>2, <2>3 DEF TypeOK, Statuses
  <2>5. ASSUME NEW v \in Uploads, NEW i \in 1..MaxFiles
        PROVE  /\ batch[v][i] = "none" <=> batch'[v][i] = "none"
               /\ batch'[v][i] \in Running => run'[v] = "running"
               /\ batch'[v][i] \notin {"none", "registered"} => run'[v] \in {"running", "ended"}
    <3>1. CASE v = w
      BY <1>1, <2>1, <2>3, <3>1, PlannedFacts DEF Running
    <3>2. CASE v # w
      BY <1>1, <1>3, <2>1, <2>3, <3>2 DEF BatchOK
    <3> QED
      BY <3>1, <3>2
  <2>6. ASSUME NEW v \in Uploads  PROVE run[v] = "none" <=> run'[v] = "none"
    <3>1. run[u] = "running" /\ run[w] = "waiting"
      BY <1>1, <1>5
    <3> QED
      BY <2>1, <3>1
  <2> QED
    BY <1>1, <2>4, <2>5, <2>6, RunMoves
<1>6. CASE ~(run' = [run EXCEPT ![u] = "ended"] /\ batch' = batch)
  <2>1. PICK w \in Oldest(Org(u)) :
          /\ run' = [run EXCEPT ![u] = "ended", ![w] = "running"]
          /\ batch' = IF pc[w] = "accepted" THEN [batch EXCEPT ![w] = Planned(w)] ELSE batch
    BY <1>6 DEF EndRun
  <2>2. w \in Uploads /\ run[w] = "waiting"
    BY DEF Oldest, WaitingOf
  <2> QED
    BY <1>5, <2>1, <2>2
<1> QED
  BY <1>4, <1>6

(* Every step keeps RowsInv.                                               *)
LEMMA RowsStep ==
  ASSUME Finite, RowsInv, [Next]_vars
  PROVE  RowsInv'
<1>1. ASSUME NEW u \in Uploads, IngestStep(u) \/ IngestRaises(u)  PROVE RowsInv'
  BY <1>1, StartKeepsRows, MovesKeepRows, CommitKeepsRows, FinishKeepsRows DEF IngestStep
<1>2. ASSUME NEW u \in Uploads, ExtractStep(u)  PROVE RowsInv'
  BY <1>2, ExtractKeepsRows DEF ExtractStep
<1>3. ASSUME NEW u \in Uploads, EndRun(u)  PROVE RowsInv'
  BY <1>3, EndKeepsRows
<1>4. CASE UNCHANGED vars
  BY <1>4 DEF RowsInv, TypeOK, PcOK, BatchOK, Org, FileAt, Paths,
              vars, reqVars, runVars, rowVars, extVars
<1> QED
  BY <1>1, <1>2, <1>3, <1>4 DEF Next

(* Theorem.  Every variable has its type, whatever the requests hold and in *)
(* however many an organisation has in flight.                             *)
THEOREM TypesHold == ASSUME Finite  PROVE Spec => []TypeOK
<1>1. Init => RowsInv
  BY RowsInit
<1>2. RowsInv /\ [Next]_vars => RowsInv'
  BY RowsStep
<1>3. RowsInv => TypeOK
  BY DEF RowsInv
<1> QED
  BY <1>1, <1>2, <1>3, PTL DEF Spec

-----------------------------------------------------------------------------
(* A content is registered once.                                           *)

OneInFlight == \A u, v \in Uploads :
  (pc[u] \in InFlight /\ pc[v] \in InFlight /\ Org(u) = Org(v)) => u = v

\* A file that is being registered is new to the organisation, or forced.
NewOrForced(u) ==
  (pc[u] \in {"place", "select", "commit"} /\ ~req[u].force)
    => registry[Org(u)][FileAt(u, at[u])] = NoRow

OnceOrForced(u, i, v, j) ==
  (/\ <<u, i>> # <<v, j>> /\ Org(u) = Org(v) /\ FileAt(u, i) = FileAt(v, j)
   /\ batch[u][i] # "none" /\ batch[v][j] # "none")
    => req[u].force \/ req[v].force

OnceInv ==
  /\ OneInFlight
  /\ \A u \in Uploads : NewOrForced(u)
  /\ \A u, v \in Uploads, i, j \in 1..MaxFiles : OnceOrForced(u, i, v, j)

(* At the start nothing is registered or under way.                        *)
LEMMA OnceInit == ASSUME Finite, Init  PROVE OnceInv
BY DEF Init, OnceInv, OneInFlight, NewOrForced, OnceOrForced, InFlight

(* With one request at a time, a request starts when its organisation has   *)
(* none in flight.                                                         *)
LEMMA StartsAlone ==
  ASSUME OneEach, TypeOK, NEW u \in Uploads, StartIngest(u), NEW v \in Uploads,
         pc[v] \in InFlight
  PROVE  req'[u].org # Org(v)
<1>1. PICK r \in Requests :
        /\ Cardinality({w \in Uploads : Org(w) = r.org /\ pc[w] \in InFlight}) < MaxInFlight
        /\ req' = [req EXCEPT ![u] = r]
  BY DEF StartIngest
<1> DEFINE S == {w \in Uploads : Org(w) = r.org /\ pc[w] \in InFlight}
<1>2. IsFiniteSet(S)
  BY FS_Subset DEF OneEach, Finite
<1>3. Cardinality(S) \in Nat /\ Cardinality(S) < 1
  BY <1>1, <1>2, FS_CardinalityType DEF OneEach
<1>4. S = {}
  BY <1>2, <1>3, FS_EmptySet
<1>5. req'[u] = r
  BY <1>1 DEF TypeOK
<1> QED
  BY <1>4, <1>5

(* A step that registers nothing keeps what is registered once.             *)
LEMMA NothingRegistered ==
  ASSUME RowsInv, OnceInv,
         UNCHANGED <<req, registry>>,
         \A v \in Uploads, i \in 1..MaxFiles : batch[v][i] = "none" => batch'[v][i] = "none",
         \A v \in Uploads :
           /\ pc'[v] \in InFlight => pc[v] \in InFlight
           /\ pc'[v] \in {"place", "select", "commit"} =>
                pc[v] \in {"place", "select", "commit"} /\ at'[v] = at[v]
  PROVE  OnceInv'
<1>1. OneInFlight'
  BY DEF OnceInv, OneInFlight, Org
<1>2. ASSUME NEW v \in Uploads  PROVE NewOrForced(v)'
  BY DEF OnceInv, NewOrForced, Org, FileAt
<1>3. ASSUME NEW v \in Uploads, NEW w \in Uploads, NEW i \in 1..MaxFiles, NEW j \in 1..MaxFiles
      PROVE  OnceOrForced(v, i, w, j)'
  <2>1. OnceOrForced(v, i, w, j)
    BY DEF OnceInv
  <2> QED
    BY <2>1 DEF OnceOrForced, Org, FileAt
<1> QED
  BY <1>1, <1>2, <1>3 DEF OnceInv

(* Steps that register nothing keep OnceInv.                               *)
LEMMA MovesKeepOnce ==
  ASSUME Finite, RowsInv, OnceInv, NEW u \in Uploads,
         \/ CreateRun(u) \/ MakeDirectory(u) \/ PlaceFile(u) \/ DirectoryGone(u)
         \/ SelectDocument(u) \/ InsertConflict(u) \/ IngestRaises(u)
  PROVE  OnceInv'
<1>1. PcOK(u) /\ TypeOK
  BY DEF RowsInv
<1>2. UNCHANGED <<req, registry, batch>>
  BY DEF CreateRun, MakeDirectory, PlaceFile, DirectoryGone, SelectDocument, InsertConflict,
         IngestRaises, runVars, rowVars
<1>3. /\ \A v \in Uploads \ {u} : pc'[v] = pc[v] /\ at'[v] = at[v]
      /\ pc'[u] \in InFlight => pc[u] \in InFlight
      /\ pc'[u] \in {"place", "select", "commit"} =>
           pc[u] \in {"place", "select", "commit"} /\ at'[u] = at[u]
  <2>1. CASE CreateRun(u) \/ MakeDirectory(u) \/ PlaceFile(u) \/ SelectDocument(u)
    <3>1. UNCHANGED at
      BY <2>1 DEF CreateRun, MakeDirectory, PlaceFile, SelectDocument
    <3>2. \/ pc[u] = "create" /\ pc' = [pc EXCEPT ![u] = "mkdir"]
          \/ pc[u] = "mkdir" /\ pc' = [pc EXCEPT ![u] = "find"]
          \/ pc[u] = "place" /\ pc' = [pc EXCEPT ![u] = "select"]
          \/ pc[u] = "select" /\ pc' = [pc EXCEPT ![u] = "commit"]
      BY <2>1 DEF CreateRun, MakeDirectory, PlaceFile, SelectDocument, Goto
    <3> QED
      BY <1>1, <3>1, <3>2 DEF TypeOK, InFlight
  <2>2. CASE DirectoryGone(u) \/ InsertConflict(u) \/ IngestRaises(u)
    <3>1. Die(u)
      BY <2>2 DEF DirectoryGone, InsertConflict, IngestRaises
    <3> QED
      BY <3>1, DieFacts DEF InFlight
  <2> QED
    BY <2>1, <2>2
<1> QED
  BY <1>2, <1>3, NothingRegistered

(* A file goes on unregistered only if nothing is found or it is forced.   *)
LEMMA FindKeepsOnce ==
  ASSUME Finite, RowsInv, OnceInv, NEW u \in Uploads, FindRegistered(u)
  PROVE  OnceInv'
<1>1. /\ PcOK(u) /\ TypeOK /\ pc[u] = "find"
      /\ UNCHANGED <<req, registry, batch>>
  BY DEF RowsInv, FindRegistered, runVars, rowVars
<1>2. CASE Proceed(u)
  <2>1. \A v \in Uploads :
          /\ pc'[v] \in InFlight => pc[v] \in InFlight
          /\ pc'[v] \in {"place", "select", "commit"} =>
               pc[v] \in {"place", "select", "commit"} /\ at'[v] = at[v]
    BY <1>1, <1>2, ProceedFacts DEF InFlight
  <2> QED
    BY <1>1, <2>1, NothingRegistered
<1>3. CASE ~Duplicate(u, registry[Org(u)][FileAt(u, at[u])]) /\ Goto(u, "place") /\ UNCHANGED at
  <2>1. pc'[u] = "place" /\ \A v \in Uploads \ {u} : pc'[v] = pc[v]
    BY <1>1, <1>3 DEF TypeOK, Goto
  <2>2. OneInFlight'
    BY <1>1, <2>1 DEF OnceInv, OneInFlight, InFlight, Org
  <2>3. ASSUME NEW v \in Uploads  PROVE NewOrForced(v)'
    BY <1>1, <1>3, <2>1 DEF OnceInv, NewOrForced, Duplicate, Org, FileAt
  <2>4. ASSUME NEW v \in Uploads, NEW w \in Uploads, NEW i \in 1..MaxFiles, NEW j \in 1..MaxFiles
        PROVE  OnceOrForced(v, i, w, j)'
    BY <1>1 DEF OnceInv, OnceOrForced, Org, FileAt
  <2> QED
    BY <2>2, <2>3, <2>4 DEF OnceInv
<1> QED
  BY <1>2, <1>3 DEF FindRegistered

(* A request starts when no other of its organisation is in flight.        *)
LEMMA StartKeepsOnce ==
  ASSUME OneEach, RowsInv, OnceInv, NEW u \in Uploads, StartIngest(u)
  PROVE  OnceInv'
<1>1. /\ TypeOK /\ pc[u] = "idle" /\ pc'[u] = "create"
      /\ \A v \in Uploads \ {u} : pc'[v] = pc[v] /\ req'[v] = req[v]
      /\ UNCHANGED <<at, batch, registry>>
  BY DEF RowsInv, TypeOK, StartIngest, Goto, runVars, rowVars
<1>2. \A v \in Uploads : pc[v] \in InFlight => req'[u].org # Org(v)
  BY <1>1, StartsAlone
<1>3. OneInFlight'
  BY <1>1, <1>2 DEF OnceInv, OneInFlight, InFlight, Org
<1>4. ASSUME NEW v \in Uploads  PROVE NewOrForced(v)'
  BY <1>1 DEF OnceInv, NewOrForced, Org, FileAt
<1>5. ASSUME NEW v \in Uploads, NEW w \in Uploads, NEW i \in 1..MaxFiles, NEW j \in 1..MaxFiles
      PROVE  OnceOrForced(v, i, w, j)'
  <2>1. BatchOK(u, i) /\ BatchOK(u, j) /\ OnceOrForced(v, i, w, j)
    BY DEF RowsInv, OnceInv
  <2>2. batch[u][i] = "none" /\ batch[u][j] = "none"
    BY <1>1, <2>1 DEF BatchOK
  <2> QED
    BY <1>1, <2>1, <2>2 DEF OnceOrForced, Org, FileAt
<1> QED
  BY <1>3, <1>4, <1>5 DEF OnceInv

(* What is committed is forced, or the organisation had no such row, and so *)
(* no batch of it.                                                         *)
LEMMA CommitKeepsOnce ==
  ASSUME Finite, RowsInv, OnceInv, NEW u \in Uploads, CommitDocument(u)
  PROVE  OnceInv'
<1> DEFINE c == FileAt(u, at[u])
<1>1. /\ PcOK(u) /\ TypeOK /\ Proceed(u) /\ pc[u] = "commit" /\ pc[u] \in InFlight
      /\ Org(u) \in Orgs /\ c \in Contents /\ at[u] \in 1..MaxFiles
      /\ registry' = [registry EXCEPT ![Org(u)] =
                        [registry[Org(u)] EXCEPT ![c] = StoragePath(u, registry[Org(u)][c])]]
      /\ batch' = [batch EXCEPT ![u] = [batch[u] EXCEPT ![at[u]] = "registered"]]
      /\ UNCHANGED req
  BY CommitFacts DEF RowsInv, CommitDocument, InFlight
<1>2. pc'[u] \in {"find", "finish"} /\ \A v \in Uploads \ {u} : pc'[v] = pc[v] /\ at'[v] = at[v]
  BY <1>1, ProceedFacts
<1>3. OneInFlight'
  BY <1>1, <1>2 DEF OnceInv, OneInFlight, InFlight, Org
<1>4. ASSUME NEW v \in Uploads  PROVE NewOrForced(v)'
  <2>1. CASE v = u
    BY <1>2, <2>1 DEF NewOrForced
  <2>2. CASE v # u /\ pc[v] \in {"place", "select", "commit"}
    <3>1. Org(v) # Org(u) /\ NewOrForced(v) /\ PcOK(v)
      BY <1>1, <2>2 DEF OnceInv, OneInFlight, InFlight, RowsInv
    <3>2. Org(v) \in Orgs
      BY <2>2, <3>1, RequestFacts DEF PcOK, Org
    <3>3. registry'[Org(v)] = registry[Org(v)]
      BY <1>1, <3>1, <3>2 DEF TypeOK
    <3> QED
      BY <1>1, <1>2, <2>2, <3>1, <3>3 DEF NewOrForced, Org, FileAt
  <2>3. CASE v # u /\ pc[v] \notin {"place", "select", "commit"}
    BY <1>2, <2>3 DEF NewOrForced
  <2> QED
    BY <2>1, <2>2, <2>3
<1>5. ASSUME ~req[u].force, NEW v \in Uploads, NEW i \in 1..MaxFiles, batch[v][i] # "none",
             Org(v) = Org(u), FileAt(v, i) = c
      PROVE  FALSE
  <2>1. NewOrForced(u) /\ BatchOK(v, i)
    BY DEF OnceInv, RowsInv
  <2> QED
    BY <1>1, <1>5, <2>1 DEF NewOrForced, BatchOK
<1>6. ASSUME NEW v \in Uploads, NEW w \in Uploads, NEW i \in 1..MaxFiles, NEW j \in 1..MaxFiles
      PROVE  OnceOrForced(v, i, w, j)'
  <2>1. \A x \in Uploads, k \in 1..MaxFiles : ~(x = u /\ k = at[u]) => batch'[x][k] = batch[x][k]
    BY <1>1 DEF TypeOK
  <2>2. OnceOrForced(v, i, w, j)
    BY DEF OnceInv
  <2>3. CASE ~(v = u /\ i = at[u]) /\ ~(w = u /\ j = at[u])
    BY <1>1, <2>1, <2>2, <2>3 DEF OnceOrForced, Org, FileAt
  <2>4. CASE v = u /\ i = at[u] /\ ~(w = u /\ j = at[u])
    <3>1. batch'[w][j] = batch[w][j]
      BY <2>1, <2>4
    <3> QED
      BY <1>1, <1>5, <2>4, <3>1 DEF OnceOrForced, Org, FileAt
  <2>5. CASE w = u /\ j = at[u] /\ ~(v = u /\ i = at[u])
    <3>1. batch'[v][i] = batch[v][i]
      BY <2>1, <2>5
    <3> QED
      BY <1>1, <1>5, <2>5, <3>1 DEF OnceOrForced, Org, FileAt
  <2> QED
    BY <2>3, <2>4, <2>5 DEF OnceOrForced
<1> QED
  BY <1>3, <1>4, <1>6 DEF OnceInv

(* The steps of runs register nothing.                                     *)
LEMMA RunsKeepOnce ==
  ASSUME Finite, RowsInv, OnceInv, NEW u \in Uploads,
         FinishIngest(u) \/ ExtractStep(u) \/ EndRun(u)
  PROVE  OnceInv'
<1>1. /\ TypeOK /\ UNCHANGED <<req, at, registry>>
      /\ pc' = pc \/ (pc[u] = "finish" /\ pc' = [pc EXCEPT ![u] = "accepted"])
  BY DEF RowsInv, FinishIngest, ExtractStep, EndRun, ReplaceControls, ReadFile, PersistControls,
         CollectControls, reqVars, rowVars, Goto
<1>2. \A v \in Uploads :
        /\ pc'[v] \in InFlight => pc[v] \in InFlight
        /\ pc'[v] \in {"place", "select", "commit"} =>
             pc[v] \in {"place", "select", "commit"} /\ at'[v] = at[v]
  BY <1>1 DEF TypeOK, InFlight
<1>3. ASSUME NEW v \in Uploads, NEW i \in 1..MaxFiles, batch[v][i] = "none"
      PROVE  batch'[v][i] = "none"
  <2>1. CASE FinishIngest(u)
    <3>1. batch' = batch \/ batch' = [batch EXCEPT ![u] = Planned(u)]
      BY <2>1 DEF FinishIngest
    <3>2. \/ batch' = batch
          \/ batch'[u] = Planned(u) /\ \A w \in Uploads \ {u} : batch'[w] = batch[w]
      BY <1>1, <3>1 DEF TypeOK
    <3>3. Planned(v)[i] = "none"
      BY <1>1, <1>3, PlannedFacts
    <3> QED
      BY <1>3, <3>2, <3>3
  <2>2. CASE ExtractStep(u)
    <3>1. PICK k \in 1..MaxFiles : \/ ReplaceControls(u, k) \/ ReadFile(u, k)
                                  \/ PersistControls(u, k) \/ CollectControls(u, k)
      BY <2>2 DEF ExtractStep
    <3>2. batch[u][k] # "none" /\ \E st \in Statuses : batch' = [batch EXCEPT ![u][k] = st]
      BY <3>1 DEF ReplaceControls, ReadFile, PersistControls, CollectControls, SetBatch, Statuses
    <3>3. PICK st \in Statuses : batch' = [batch EXCEPT ![u][k] = st]
      BY <3>2
    <3> QED
      BY <1>1, <1>3, <3>2, <3>3 DEF TypeOK
  <2>3. CASE EndRun(u)
    <3>1. batch' = batch \/ \E w \in Uploads : batch' = [batch EXCEPT ![w] = Planned(w)]
      BY <2>3 DEF EndRun, Oldest, WaitingOf
    <3>2. CASE batch' = batch
      BY <1>3, <3>2
    <3>3. ASSUME NEW w \in Uploads, batch' = [batch EXCEPT ![w] = Planned(w)]
          PROVE  batch'[v][i] = "none"
      <4>1. CASE w = v
        BY <1>1, <1>3, <3>3, <4>1, PlannedFacts DEF TypeOK
      <4>2. CASE w # v
        BY <1>1, <1>3, <3>3, <4>2 DEF TypeOK
      <4> QED
        BY <4>1, <4>2
    <3> QED
      BY <3>1, <3>2, <3>3
  <2> QED
    BY <2>1, <2>2, <2>3
<1> QED
  BY <1>1, <1>2, <1>3, NothingRegistered

(* Every step keeps OnceInv.                                               *)
LEMMA OnceStep ==
  ASSUME OneEach, RowsInv, OnceInv, [Next]_vars
  PROVE  OnceInv'
<1>1. Finite
  BY DEF OneEach
<1>2. ASSUME NEW u \in Uploads, IngestStep(u) \/ IngestRaises(u)  PROVE OnceInv'
  BY <1>1, <1>2, MovesKeepOnce, FindKeepsOnce, StartKeepsOnce, CommitKeepsOnce, RunsKeepOnce
  DEF IngestStep
<1>3. ASSUME NEW u \in Uploads, ExtractStep(u) \/ EndRun(u)  PROVE OnceInv'
  BY <1>1, <1>3, RunsKeepOnce
<1>4. CASE UNCHANGED vars
  BY <1>4 DEF OnceInv, OneInFlight, NewOrForced, OnceOrForced, Org, FileAt,
              vars, reqVars, runVars, rowVars
<1> QED
  BY <1>2, <1>3, <1>4 DEF Next

(* Theorem.  An organisation whose requests come one at a time processes a  *)
(* content once, unless a request forces it: the look-up in the registry    *)
(* that ends a registration and the row written at its end are steps apart. *)
THEOREM ContentsAreProcessedOnce == ASSUME OneEach  PROVE Spec => []ProcessedOnce
<1>1. Init => RowsInv /\ OnceInv
  BY RowsInit, OnceInit DEF OneEach
<1>2. RowsInv /\ OnceInv /\ [Next]_vars => RowsInv' /\ OnceInv'
  BY RowsStep, OnceStep DEF OneEach
<1>3. RowsInv /\ OnceInv => ProcessedOnce
  BY DEF OnceInv, OnceOrForced, ProcessedOnce
<1> QED
  BY <1>1, <1>2, <1>3, PTL DEF Spec

-----------------------------------------------------------------------------
(* The runs of an organisation take turns.                                 *)

PastCreate == InFlight \ {"create"}

OrderInv ==
  /\ order \in Seq(Uploads)
  /\ \A i, j \in DOMAIN order : order[i] = order[j] => i = j
  /\ \A u \in Uploads : run[u] # "none" <=> \E i \in DOMAIN order : order[i] = u

\* A run is active, or over, only when those before it are over.
FirstFirst == \A u, v \in Uploads :
  (CreatedBefore(u, v) /\ Org(u) = Org(v) /\ run[v] \in {"queued", "running", "ended"})
    => run[u] = "ended"

WaitingBehind == \A u \in Uploads : run[u] = "waiting" => SlotTaken(Org(u))

\* The run of a request in flight is the newest of its organisation.
NewestInFlight == \A u, v \in Uploads :
  (u # v /\ Org(u) = Org(v) /\ run[u] # "none" /\ pc[v] \in PastCreate) => CreatedBefore(u, v)

TurnInv == OrderInv /\ FirstFirst /\ WaitingBehind /\ NewestInFlight

(* At the start there are no runs to take turns.                           *)
LEMMA TurnInit == ASSUME Init  PROVE TurnInv
<1>1. order = <<>> /\ \A u \in Uploads : run[u] = "none" /\ pc[u] = "idle"
  BY DEF Init
<1>2. OrderInv
  BY <1>1 DEF OrderInv
<1> QED
  BY <1>1, <1>2 DEF TurnInv, FirstFirst, CreatedBefore, WaitingBehind, NewestInFlight, PastCreate,
                    InFlight

(* The order of creation is a strict order, total on the runs there are.    *)
LEMMA BeforeFacts ==
  ASSUME OrderInv, NEW u \in Uploads, NEW v \in Uploads
  PROVE  /\ CreatedBefore(u, v) =>
              run[u] # "none" /\ run[v] # "none" /\ u # v /\ ~CreatedBefore(v, u)
         /\ (run[u] # "none" /\ run[v] # "none" /\ u # v) =>
              CreatedBefore(u, v) \/ CreatedBefore(v, u)
<1>1. DOMAIN order \subseteq Nat
  BY DEF OrderInv
<1>2. ASSUME CreatedBefore(u, v)
      PROVE  run[u] # "none" /\ run[v] # "none" /\ u # v /\ ~CreatedBefore(v, u)
  <2>1. PICK i \in DOMAIN order, j \in DOMAIN order : i < j /\ order[i] = u /\ order[j] = v
    BY <1>2 DEF CreatedBefore
  <2>2. run[u] # "none" /\ run[v] # "none"
    BY <2>1 DEF OrderInv
  <2>3. u # v
    BY <1>1, <2>1 DEF OrderInv
  <2>4. ASSUME CreatedBefore(v, u)  PROVE FALSE
    <3>1. PICK k \in DOMAIN order, l \in DOMAIN order : k < l /\ order[k] = v /\ order[l] = u
      BY <2>4 DEF CreatedBefore
    <3>2. k = j /\ l = i
      BY <2>1, <3>1 DEF OrderInv
    <3> QED
      BY <1>1, <2>1, <3>1, <3>2
  <2> QED
    BY <2>2, <2>3, <2>4
<1>3. ASSUME run[u] # "none", run[v] # "none", u # v
      PROVE  CreatedBefore(u, v) \/ CreatedBefore(v, u)
  <2>1. PICK i \in DOMAIN order : order[i] = u
    BY <1>3 DEF OrderInv
  <2>2. PICK j \in DOMAIN order : order[j] = v
    BY <1>3 DEF OrderInv
  <2>3. i < j \/ j < i
    BY <1>1, <1>3, <2>1, <2>2
  <2> QED
    BY <2>1, <2>2, <2>3 DEF CreatedBefore
<1> QED
  BY <1>2, <1>3

(* Two runs of an organisation are not active at once.                      *)
LEMMA OneRuns ==
  ASSUME TurnInv, NEW u \in Uploads, NEW v \in Uploads, Org(u) = Org(v),
         run[u] \in {"queued", "running"}, run[v] \in {"queued", "running"}
  PROVE  u = v
<1>1. OrderInv /\ FirstFirst
  BY DEF TurnInv
<1>2. run[u] \notin {"none", "ended"} /\ run[v] \notin {"none", "ended"}
  OBVIOUS
<1>3. ~CreatedBefore(u, v) /\ ~CreatedBefore(v, u)
  BY <1>1, <1>2 DEF FirstFirst
<1> QED
  BY <1>1, <1>2, <1>3, BeforeFacts

(* Steps that create, start and end no run.                                *)
LEMMA TurnsStay ==
  ASSUME TurnInv, UNCHANGED <<req, run, order>>,
         \A v \in Uploads : pc'[v] \in PastCreate => pc[v] \in PastCreate
  PROVE  TurnInv'
<1>1. \A u, v \in Uploads : CreatedBefore(u, v)' <=> CreatedBefore(u, v)
  BY DEF CreatedBefore
<1>2. OrderInv'
  BY DEF TurnInv, OrderInv
<1>3. FirstFirst'
  BY <1>1 DEF TurnInv, FirstFirst, Org
<1>4. WaitingBehind'
  BY DEF TurnInv, WaitingBehind, SlotTaken, Org
<1>5. NewestInFlight'
  BY <1>1 DEF TurnInv, NewestInFlight, Org
<1> QED
  BY <1>2, <1>3, <1>4, <1>5 DEF TurnInv

(* A request that starts has no run yet.                                   *)
LEMMA StartKeepsTurns ==
  ASSUME RowsInv, TurnInv, NEW u \in Uploads, StartIngest(u)
  PROVE  TurnInv'
<1>1. /\ TypeOK /\ PcOK(u) /\ pc[u] = "idle" /\ run[u] = "none" /\ pc'[u] = "create"
      /\ \A v \in Uploads \ {u} : pc'[v] = pc[v] /\ req'[v] = req[v]
      /\ UNCHANGED <<run, order>>
  BY DEF RowsInv, TypeOK, PcOK, StartIngest, Goto, runVars
<1>2. \A v, w \in Uploads : CreatedBefore(v, w)' <=> CreatedBefore(v, w)
  BY <1>1 DEF CreatedBefore
<1>3. \A v \in Uploads : run[v] # "none" => v # u
  BY <1>1
<1>4. OrderInv /\ OrderInv'
  BY <1>1 DEF TurnInv, OrderInv
<1>5. FirstFirst'
  <2>1. \A v, w \in Uploads : CreatedBefore(v, w) => v # u /\ w # u
    BY <1>3, <1>4, BeforeFacts
  <2> QED
    BY <1>1, <1>2, <2>1 DEF TurnInv, FirstFirst, Org
<1>6. ASSUME NEW v \in Uploads, run'[v] = "waiting"  PROVE SlotTaken(Org(v))'
  <2>1. v # u /\ SlotTaken(Org(v))
    BY <1>1, <1>6 DEF TurnInv, WaitingBehind
  <2>2. PICK w \in Uploads : Org(w) = Org(v) /\ run[w] \in {"queued", "running"}
    BY <2>1 DEF SlotTaken
  <2>3. w # u
    BY <1>1, <2>2
  <2> QED
    BY <1>1, <2>1, <2>2, <2>3 DEF SlotTaken, Org
<1>7. NewestInFlight'
  BY <1>1, <1>2, <1>3 DEF TurnInv, NewestInFlight, Org, PastCreate
<1> QED
  BY <1>4, <1>5, <1>6, <1>7 DEF TurnInv, WaitingBehind

(* A created run comes after all others.                                   *)
LEMMA CreatedIsNewest ==
  ASSUME OrderInv, NEW u \in Uploads, run[u] = "none", order' = Append(order, u)
  PROVE  /\ order' \in Seq(Uploads)
         /\ \A i, j \in DOMAIN order' : order'[i] = order'[j] => i = j
         /\ \A v \in Uploads : (\E i \in DOMAIN order' : order'[i] = v)
                                 <=> run[v] # "none" \/ v = u
         /\ \A v, w \in Uploads : CreatedBefore(v, w)' <=>
              CreatedBefore(v, w) \/ (w = u /\ run[v] # "none")
<1> DEFINE n == Len(order)
<1>1. /\ order \in Seq(Uploads) /\ n \in Nat /\ DOMAIN order = 1..n
      /\ order' \in Seq(Uploads) /\ DOMAIN order' = 1..(n + 1)
      /\ order'[n + 1] = u /\ \A i \in 1..n : order'[i] = order[i]
  BY DEF OrderInv
<1>2. \A i \in 1..n : order[i] # u
  BY <1>1 DEF OrderInv
<1> HIDE DEF n
<1>3. ASSUME NEW i \in DOMAIN order', NEW j \in DOMAIN order', order'[i] = order'[j]  PROVE i = j
  <2>1. i = n + 1 \/ i \in 1..n
    BY <1>1
  <2>2. j = n + 1 \/ j \in 1..n
    BY <1>1
  <2> QED
    BY <1>1, <1>2, <1>3, <2>1, <2>2 DEF OrderInv
<1>4. ASSUME NEW v \in Uploads
      PROVE  (\E i \in DOMAIN order' : order'[i] = v) <=> run[v] # "none" \/ v = u
  <2>1. (\E i \in DOMAIN order' : order'[i] = v) <=> (\E i \in 1..n : order[i] = v) \/ v = u
    BY <1>1
  <2>2. (\E i \in 1..n : order[i] = v) <=> run[v] # "none"
    BY <1>1 DEF OrderInv
  <2> QED
    BY <2>1, <2>2
<1>5. ASSUME NEW v \in Uploads, NEW w \in Uploads
      PROVE  CreatedBefore(v, w)' <=> CreatedBefore(v, w) \/ (w = u /\ run[v] # "none")
  <2>1. CreatedBefore(v, w)' <=>
          \E i, j \in 1..(n + 1) : i < j /\ order'[i] = v /\ order'[j] = w
    BY <1>1 DEF CreatedBefore
  <2>2. CreatedBefore(v, w) <=> \E i, j \in 1..n : i < j /\ order[i] = v /\ order[j] = w
    BY <1>1 DEF CreatedBefore
  <2>3. (\E i \in 1..n : order[i] = v) <=> run[v] # "none"
    BY <1>1 DEF OrderInv
  <2>4. ASSUME CreatedBefore(v, w)'  PROVE CreatedBefore(v, w) \/ (w = u /\ run[v] # "none")
    <3>1. PICK i \in 1..(n + 1), j \in 1..(n + 1) : i < j /\ order'[i] = v /\ order'[j] = w
      BY <2>1, <2>4
    <3>2. i \in 1..n /\ order[i] = v
      BY <1>1, <3>1
    <3>3. CASE j = n + 1
      BY <1>1, <2>3, <3>1, <3>2, <3>3
    <3>4. CASE j # n + 1
      <4>1. j \in 1..n
        BY <1>1, <3>4
      <4> QED
        BY <1>1, <2>2, <3>1, <3>2, <4>1
    <3> QED
      BY <3>3, <3>4
  <2>5. ASSUME CreatedBefore(v, w)  PROVE CreatedBefore(v, w)'
    <3>1. PICK i \in 1..n, j \in 1..n : i < j /\ order[i] = v /\ order[j] = w
      BY <2>2, <2>5
    <3>2. i \in 1..(n + 1) /\ j \in 1..(n + 1)
      BY <1>1
    <3> QED
      BY <1>1, <2>1, <3>1, <3>2
  <2>6. ASSUME w = u, run[v] # "none"  PROVE CreatedBefore(v, w)'
    <3>1. PICK i \in 1..n : order[i] = v
      BY <2>3, <2>6
    <3>2. i \in 1..(n + 1) /\ n + 1 \in 1..(n + 1) /\ i < n + 1
      BY <1>1
    <3> QED
      BY <1>1, <2>1, <2>6, <3>1, <3>2
  <2> QED
    BY <2>4, <2>5, <2>6
<1> QED
  BY <1>1, <1>3, <1>4, <1>5

(* A new run is the newest, and waits if another is active.                *)
LEMMA CreateKeepsTurns ==
  ASSUME RowsInv, OneInFlight, TurnInv, NEW u \in Uploads, CreateRun(u)
  PROVE  TurnInv'
<1>1. /\ TypeOK /\ PcOK(u) /\ pc[u] = "create" /\ run[u] = "none" /\ pc'[u] = "mkdir"
      /\ \A v \in Uploads \ {u} : pc'[v] = pc[v] /\ run'[v] = run[v]
      /\ run'[u] = CreatedStatus(u) /\ order' = Append(order, u) /\ UNCHANGED req
  BY DEF RowsInv, TypeOK, PcOK, CreateRun, Goto
<1>2. OrderInv /\ FirstFirst /\ WaitingBehind /\ NewestInFlight
  BY DEF TurnInv
<1>3. run'[u] # "none" /\ (run'[u] = "waiting" => SlotTaken(Org(u)))
      /\ (run'[u] # "waiting" => ~SlotTaken(Org(u)))
  BY <1>1 DEF CreatedStatus
<1>4. \A v, w \in Uploads : CreatedBefore(v, w)' <=>
        CreatedBefore(v, w) \/ (w = u /\ run[v] # "none")
  BY <1>1, <1>2, CreatedIsNewest
<1>5. OrderInv'
  BY <1>1, <1>2, <1>3, CreatedIsNewest DEF OrderInv
<1>6. ASSUME NEW v \in Uploads, NEW w \in Uploads, CreatedBefore(v, w)', Org(v) = Org(w),
             run'[w] \in {"queued", "running", "ended"}
      PROVE  run'[v] = "ended"
  <2>1. CASE w = u
    <3>1. ~SlotTaken(Org(u))
      BY <1>1, <1>3, <1>6, <2>1
    <3>2. ~CreatedBefore(v, u)
      BY <1>1, <1>2, BeforeFacts
    <3>3. run[v] # "none" /\ v # u
      BY <1>1, <1>4, <1>6, <2>1, <3>2
    <3>4. run[v] \notin {"waiting", "queued", "running"}
      BY <1>2, <1>6, <2>1, <3>1 DEF SlotTaken, WaitingBehind
    <3> QED
      BY <1>1, <3>3, <3>4 DEF TypeOK
  <2>2. CASE w # u
    <3>1. CreatedBefore(v, w) /\ v # u
      BY <1>1, <1>2, <1>4, <1>6, <2>2, BeforeFacts
    <3> QED
      BY <1>1, <1>2, <1>6, <2>2, <3>1 DEF FirstFirst
  <2> QED
    BY <2>1, <2>2
<1>7. FirstFirst'
  BY <1>1, <1>6 DEF FirstFirst, Org
<1>8. ASSUME NEW v \in Uploads, run'[v] = "waiting"  PROVE SlotTaken(Org(v))'
  <2>1. SlotTaken(Org(v))
    BY <1>1, <1>2, <1>3, <1>8 DEF WaitingBehind
  <2>2. PICK w \in Uploads : Org(w) = Org(v) /\ run[w] \in {"queued", "running"}
    BY <2>1 DEF SlotTaken
  <2> QED
    BY <1>1, <2>2 DEF SlotTaken, Org
<1>9. NewestInFlight'
  <2>1. ASSUME NEW v \in Uploads, NEW w \in Uploads, v # w, Org(v) = Org(w), run'[v] # "none",
               pc'[w] \in PastCreate
        PROVE  CreatedBefore(v, w)'
    <3>1. CASE w = u
      BY <1>1, <1>4, <2>1, <3>1
    <3>2. CASE v = u
      BY <1>1, <2>1, <3>2 DEF OneInFlight, PastCreate, InFlight
    <3>3. CASE v # u /\ w # u
      BY <1>1, <1>2, <1>4, <2>1, <3>3 DEF NewestInFlight
    <3> QED
      BY <3>1, <3>2, <3>3
  <2> QED
    BY <1>1, <2>1 DEF NewestInFlight, Org
<1> QED
  BY <1>5, <1>7, <1>8, <1>9 DEF TurnInv, WaitingBehind

(* The end of a request sets its run running, unless it has to wait.       *)
LEMMA FinishKeepsTurns ==
  ASSUME RowsInv, TurnInv, NEW u \in Uploads, FinishIngest(u)
  PROVE  TurnInv'
<1>1. /\ TypeOK /\ pc[u] = "finish" /\ pc'[u] = "accepted"
      /\ \A v \in Uploads \ {u} : pc'[v] = pc[v]
      /\ \A v \in Uploads : \/ run'[v] = run[v]
                            \/ run[v] = "queued" /\ run'[v] = "running"
      /\ UNCHANGED <<req, order>>
  BY DEF RowsInv, TypeOK, FinishIngest, Goto
<1>2. \A v, w \in Uploads : CreatedBefore(v, w)' <=> CreatedBefore(v, w)
  BY <1>1 DEF CreatedBefore
<1>3. OrderInv'
  BY <1>1 DEF TurnInv, OrderInv
<1>4. FirstFirst'
  BY <1>1, <1>2 DEF TurnInv, FirstFirst, Org
<1>5. WaitingBehind'
  BY <1>1 DEF TurnInv, WaitingBehind, SlotTaken, Org
<1>6. NewestInFlight'
  BY <1>1, <1>2 DEF TurnInv, NewestInFlight, Org, PastCreate, InFlight
<1> QED
  BY <1>3, <1>4, <1>5, <1>6 DEF TurnInv

(* What EndRun does to the runs.                                           *)
LEMMA EndFacts ==
  ASSUME TypeOK, NEW u \in Uploads, EndRun(u)
  PROVE  /\ run[u] = "running" /\ run'[u] = "ended"
         /\ UNCHANGED <<req, pc, at, found, sawDoc, dest, order, documents, registry, source,
                        result, controls>>
         /\ disk' = disk \ TemporaryFiles(u)
         /\ \/ /\ WaitingOf(Org(u)) = {} /\ batch' = batch
               /\ \A v \in Uploads \ {u} : run'[v] = run[v]
            \/ \E w \in Oldest(Org(u)) :
                 /\ w # u /\ run[w] = "waiting" /\ run'[w] = "running" /\ Org(w) = Org(u)
                 /\ \A v \in Uploads \ {u, w} : run'[v] = run[v]
                 /\ batch' = batch \/ batch' = [batch EXCEPT ![w] = Planned(w)]
<1>1. /\ run[u] = "running" /\ disk' = disk \ TemporaryFiles(u)
      /\ UNCHANGED <<req, pc, at, found, sawDoc, dest, order, documents, registry, source,
                     result, controls>>
  BY DEF EndRun, reqVars, rowVars, extVars
<1>2. CASE WaitingOf(Org(u)) = {} /\ run' = [run EXCEPT ![u] = "ended"] /\ batch' = batch
  BY <1>1, <1>2 DEF TypeOK
<1>3. ASSUME NEW w \in Oldest(Org(u)), run' = [run EXCEPT ![u] = "ended", ![w] = "running"],
             batch' = batch \/ batch' = [batch EXCEPT ![w] = Planned(w)]
      PROVE  /\ run'[u] = "ended"
             /\ w # u /\ run[w] = "waiting" /\ run'[w] = "running" /\ Org(w) = Org(u)
             /\ \A v \in Uploads \ {u, w} : run'[v] = run[v]
  <2>1. w \in Uploads /\ run[w] = "waiting" /\ Org(w) = Org(u)
    BY DEF Oldest, WaitingOf
  <2>2. w # u
    BY <1>1, <2>1
  <2> QED
    BY <1>3, <2>1, <2>2 DEF TypeOK
<1>4. \/ WaitingOf(Org(u)) = {} /\ run' = [run EXCEPT ![u] = "ended"] /\ batch' = batch
      \/ \E w \in Oldest(Org(u)) :
           /\ run' = [run EXCEPT ![u] = "ended", ![w] = "running"]
           /\ batch' = batch \/ batch' = [batch EXCEPT ![w] = Planned(w)]
  BY DEF EndRun
<1>5. CASE \E w \in Oldest(Org(u)) :
             /\ run' = [run EXCEPT ![u] = "ended", ![w] = "running"]
             /\ batch' = batch \/ batch' = [batch EXCEPT ![w] = Planned(w)]
  <2>1. PICK w \in Oldest(Org(u)) :
             /\ run' = [run EXCEPT ![u] = "ended", ![w] = "running"]
             /\ batch' = batch \/ batch' = [batch EXCEPT ![w] = Planned(w)]
    BY <1>5
  <2> QED
    BY <1>1, <1>3, <2>1
<1> QED
  BY <1>2, <1>4, <1>5

(* A run that ends calls the next.                                         *)
LEMMA EndKeepsTurns ==
  ASSUME RowsInv, TurnInv, NEW u \in Uploads, EndRun(u)
  PROVE  TurnInv'
<1>1. /\ TypeOK /\ OrderInv /\ FirstFirst /\ WaitingBehind /\ NewestInFlight
      /\ run[u] = "running" /\ run'[u] = "ended" /\ UNCHANGED <<req, pc, order>>
  BY EndFacts DEF RowsInv, TurnInv
<1>2. \A v, w \in Uploads : CreatedBefore(v, w)' <=> CreatedBefore(v, w)
  BY <1>1 DEF CreatedBefore
<1>3. CASE WaitingOf(Org(u)) = {} /\ \A v \in Uploads \ {u} : run'[v] = run[v]
  <2>1. OrderInv'
    BY <1>1, <1>3 DEF OrderInv
  <2>2. FirstFirst'
    BY <1>1, <1>2, <1>3 DEF FirstFirst, Org
  <2>3. ASSUME NEW v \in Uploads, run'[v] = "waiting"  PROVE SlotTaken(Org(v))'
    <3>1. v # u /\ run[v] = "waiting" /\ Org(v) # Org(u)
      BY <1>1, <1>3, <2>3 DEF WaitingOf
    <3>2. PICK w \in Uploads : Org(w) = Org(v) /\ run[w] \in {"queued", "running"}
      BY <1>1, <3>1 DEF WaitingBehind, SlotTaken
    <3> QED
      BY <1>1, <1>3, <3>1, <3>2 DEF SlotTaken, Org
  <2>4. NewestInFlight'
    BY <1>1, <1>2, <1>3 DEF NewestInFlight, Org
  <2> QED
    BY <2>1, <2>2, <2>3, <2>4 DEF TurnInv, WaitingBehind
<1>4. ASSUME NEW w \in Oldest(Org(u)), w # u, run[w] = "waiting", run'[w] = "running",
             Org(w) = Org(u), \A v \in Uploads \ {u, w} : run'[v] = run[v]
      PROVE  TurnInv'
  <2>0. w \in Uploads /\ \A v \in Uploads : Org(v) = Org(u) /\ run[v] = "waiting"
                                              => ~CreatedBefore(v, w)
    BY DEF Oldest, WaitingOf
  <2>1. OrderInv'
    BY <1>1, <1>4, <2>0 DEF OrderInv
  <2>2. ASSUME NEW v \in Uploads, CreatedBefore(v, w), Org(v) = Org(w)  PROVE run'[v] = "ended"
    <3>1. run[v] # "none" /\ run[v] # "waiting" /\ v # w
      BY <1>1, <1>4, <2>0, <2>2, BeforeFacts
    <3>2. run[v] \in {"queued", "running"} => v = u
      BY <1>1, <1>4, <2>2, OneRuns
    <3> QED
      BY <1>1, <1>4, <3>1, <3>2 DEF TypeOK
  <2>3. ASSUME NEW v \in Uploads, NEW x \in Uploads, CreatedBefore(v, x), Org(v) = Org(x),
               run'[x] \in {"queued", "running", "ended"}
        PROVE  run'[v] = "ended"
    <3>1. CASE x = w
      BY <2>2, <2>3, <3>1
    <3>2. CASE x # w
      <4>1. run[x] \in {"queued", "running", "ended"}
        BY <1>1, <1>4, <2>3, <3>2
      <4>2. run[v] = "ended"
        BY <1>1, <2>3, <4>1 DEF FirstFirst
      <4> QED
        BY <1>1, <1>4, <4>2
    <3> QED
      BY <3>1, <3>2
  <2>4. FirstFirst'
    BY <1>1, <1>2, <2>3 DEF FirstFirst, Org
  <2>5. ASSUME NEW v \in Uploads, run'[v] = "waiting"  PROVE SlotTaken(Org(v))'
    <3>1. v # u /\ run[v] = "waiting"
      BY <1>1, <1>4, <2>5
    <3>2. PICK x \in Uploads : Org(x) = Org(v) /\ run[x] \in {"queued", "running"}
      BY <1>1, <3>1 DEF WaitingBehind, SlotTaken
    <3>3. CASE x = u
      BY <1>1, <1>4, <2>0, <3>2, <3>3 DEF SlotTaken, Org
    <3>4. CASE x # u
      <4>1. x # w
        BY <1>4, <3>2
      <4> QED
        BY <1>1, <1>4, <3>2, <3>4, <4>1 DEF SlotTaken, Org
    <3> QED
      BY <3>3, <3>4
  <2>6. \A v \in Uploads : run'[v] # "none" => run[v] # "none"
    BY <1>1, <1>4
  <2>7. NewestInFlight'
    BY <1>1, <1>2, <2>6 DEF NewestInFlight, Org
  <2> QED
    BY <2>1, <2>4, <2>5, <2>7 DEF TurnInv, WaitingBehind
<1> QED
  BY <1>1, <1>3, <1>4, EndFacts

(* Every step keeps TurnInv.                                               *)
LEMMA TurnStep ==
  ASSUME RowsInv, OneInFlight, TurnInv, Finite, [Next]_vars
  PROVE  TurnInv'
<1>1. TypeOK
  BY DEF RowsInv
<1>2. ASSUME NEW u \in Uploads,
             MakeDirectory(u) \/ PlaceFile(u) \/ SelectDocument(u)
      PROVE  TurnInv'
  <2>1. /\ UNCHANGED <<req, run, order>>
        /\ \E st \in PastCreate : pc[u] \in PastCreate /\ pc' = [pc EXCEPT ![u] = st]
    BY <1>2 DEF MakeDirectory, PlaceFile, SelectDocument, Goto, runVars, PastCreate, InFlight
  <2>2. \A v \in Uploads : pc'[v] \in PastCreate => pc[v] \in PastCreate
    BY <1>1, <2>1 DEF TypeOK
  <2> QED
    BY <2>1, <2>2, TurnsStay
<1>3. ASSUME NEW u \in Uploads, DirectoryGone(u) \/ InsertConflict(u) \/ IngestRaises(u)
      PROVE  TurnInv'
  <2>1. Die(u) /\ UNCHANGED <<req, run, order>>
    BY <1>3 DEF DirectoryGone, InsertConflict, IngestRaises, runVars
  <2>2. \A v \in Uploads : pc'[v] \in PastCreate => pc[v] \in PastCreate
    BY <2>1, DieFacts DEF PastCreate, InFlight
  <2> QED
    BY <2>1, <2>2, TurnsStay
<1>4. ASSUME NEW u \in Uploads, FindRegistered(u) \/ CommitDocument(u)  PROVE TurnInv'
  <2>1. /\ UNCHANGED <<req, run, order>> /\ pc[u] \in {"find", "commit"} /\ pc[u] \in PastCreate
        /\ Proceed(u) \/ pc' = [pc EXCEPT ![u] = "place"]
    BY <1>4 DEF FindRegistered, CommitDocument, runVars, Goto, PastCreate, InFlight
  <2>2. \A v \in Uploads : pc'[v] \in PastCreate => pc[v] \in PastCreate
    BY <1>1, <2>1, ProceedFacts DEF TypeOK
  <2> QED
    BY <2>1, <2>2, TurnsStay
<1>5. ASSUME NEW u \in Uploads, ExtractStep(u)  PROVE TurnInv'
  <2>1. UNCHANGED <<req, run, order, pc>>
    BY <1>5 DEF ExtractStep, ReplaceControls, ReadFile, PersistControls, CollectControls, reqVars
  <2> QED
    BY <2>1, TurnsStay
<1>6. ASSUME NEW u \in Uploads,
             StartIngest(u) \/ CreateRun(u) \/ FinishIngest(u) \/ EndRun(u)
      PROVE  TurnInv'
  BY <1>6, StartKeepsTurns, CreateKeepsTurns, FinishKeepsTurns, EndKeepsTurns
<1>7. CASE UNCHANGED vars
  BY <1>7, TurnsStay DEF vars, reqVars, runVars
<1> QED
  BY <1>2, <1>3, <1>4, <1>5, <1>6, <1>7 DEF Next, IngestStep

-----------------------------------------------------------------------------
(* The files of a run stay until it has read them.                         *)

\* The upload that stored the file keeps its files.
Kept(p) == req[p[1]].save

RegistryOK == \A o \in Orgs, c \in Contents : registry[o][c] \in Paths => Kept(registry[o][c])
FoundOK(u) == found[u] \in Paths => Kept(found[u])

DestOK(u) == pc[u] \in {"select", "commit"} =>
  \/ dest[u] \in disk /\ Kept(dest[u])
  \/ dest[u][1] = u /\ (dest[u] \in disk \/ run[u] = "ended")

\* No run that may end before that of u does will remove the file.
SafeFor(u, p) ==
  /\ p \in disk
  /\ Kept(p) \/ p[1] = u \/ (Org(u) = Org(p[1]) /\ CreatedBefore(u, p[1]))

FileOK(u, i) == ~SharedContent(u, FileAt(u, i)) =>
  /\ (batch[u][i] \in {"registered", "planned"} /\ run[u] # "ended")
       => SafeFor(u, documents[FileAt(u, i)])
  /\ batch[u][i] = "deleted" => SafeFor(u, source[u][i])
  /\ batch[u][i] # "missing"

FilesInv ==
  /\ RegistryOK
  /\ \A u \in Uploads : FoundOK(u) /\ DestOK(u)
  /\ \A u \in Uploads, i \in 1..MaxFiles : FileOK(u, i)

(* At the start there are no files.                                        *)
LEMMA FilesInit == ASSUME Finite, Init  PROVE FilesInv
<1>1. NoRow \notin Paths
  BY RequestFacts, NullsAssumption DEF Paths
<1> QED
  BY <1>1 DEF Init, FilesInv, RegistryOK, FoundOK, DestOK, FileOK

(* A request, once made, is not changed, and so what it keeps and what it   *)
(* shares.                                                                 *)
LEMMA RequestsStay ==
  ASSUME RowsInv, \A v \in Uploads : pc[v] # "idle" => req'[v] = req[v]
  PROVE  /\ \A p \in Paths : Kept(p) => Kept(p)'
         /\ \A u \in Uploads, c \in Contents :
              pc[u] # "idle" /\ SharedContent(u, c) => SharedContent(u, c)'
<1>1. \A v \in Uploads : PcOK(v)
  BY DEF RowsInv
<1>2. ASSUME NEW p \in Paths, Kept(p)  PROVE Kept(p)'
  <2>1. p[1] \in Uploads
    BY DEF Paths
  <2>2. pc[p[1]] # "idle"
    BY <1>1, <1>2, <2>1 DEF PcOK, NoRequest, Kept
  <2> QED
    BY <1>2, <2>1, <2>2 DEF Kept
<1>3. ASSUME NEW u \in Uploads, NEW c \in Contents, pc[u] # "idle", SharedContent(u, c)
      PROVE  SharedContent(u, c)'
  <2>1. PICK v \in Uploads : Org(v) # Org(u) /\ Holds(v, c)
    BY <1>3 DEF SharedContent
  <2>2. pc[v] # "idle"
    <3>1. SUFFICES ASSUME req[v] = NoRequest  PROVE FALSE
      BY <1>1 DEF PcOK
    <3>2. DOMAIN req[v].files = {}
      BY <3>1 DEF NoRequest
    <3> QED
      BY <2>1, <3>2 DEF Holds
  <2>3. req'[v] = req[v] /\ req'[u] = req[u]
    BY <1>3, <2>2
  <2> QED
    BY <2>1, <2>3 DEF SharedContent, Org, Holds, FileAt
<1> QED
  BY <1>2, <1>3

\* A path stays safe while its file is there and requests keep what they asked for.
LEMMA SafeStays ==
  ASSUME RowsInv, TurnInv, NEW u \in Uploads, NEW p \in Paths, pc[u] # "idle",
         SafeFor(u, p), p \in disk',
         \A v \in Uploads : pc[v] # "idle" => req'[v] = req[v],
         \A v, w \in Uploads : CreatedBefore(v, w) => CreatedBefore(v, w)'
  PROVE  SafeFor(u, p)'
<1>1. p[1] \in Uploads
  BY DEF Paths
<1>2. CASE Kept(p)
  BY <1>2, RequestsStay DEF SafeFor
<1>3. CASE p[1] = u
  BY <1>3 DEF SafeFor
<1>4. CASE Org(u) = Org(p[1]) /\ CreatedBefore(u, p[1])
  <2>1. run[p[1]] # "none" /\ PcOK(p[1])
    BY <1>1, <1>4, BeforeFacts DEF TurnInv, RowsInv
  <2>2. pc[p[1]] # "idle"
    BY <2>1 DEF PcOK
  <2>3. req'[p[1]] = req[p[1]] /\ req'[u] = req[u]
    BY <1>1, <2>2
  <2> QED
    BY <1>1, <1>4, <2>3 DEF SafeFor, Org
<1> QED
  BY <1>2, <1>3, <1>4 DEF SafeFor

(* The content of a batch, and the path in its row.                         *)
LEMMA BatchFacts ==
  ASSUME Finite, RowsInv, NEW u \in Uploads, NEW i \in 1..MaxFiles, batch[u][i] # "none"
  PROVE  /\ FileAt(u, i) \in Contents /\ documents[FileAt(u, i)] \in Paths
         /\ pc[u] # "idle" /\ run[u] # "none" /\ i \in DOMAIN req[u].files
<1>1. BatchOK(u, i) /\ PcOK(u) /\ TypeOK
  BY DEF RowsInv
<1>2. pc[u] \notin {"idle", "create"} /\ i \in DOMAIN req[u].files /\ documents[FileAt(u, i)] # NoRow
  BY <1>1 DEF BatchOK
<1>3. req[u] \in Requests /\ run[u] # "none"
  BY <1>1, <1>2 DEF PcOK
<1>4. FileAt(u, i) \in Contents
  BY <1>2, <1>3, RequestFacts DEF FileAt
<1> QED
  BY <1>1, <1>2, <1>3, <1>4 DEF TypeOK

(* A step that leaves the rows alone, and the files that are safe.          *)
LEMMA FilesStay ==
  ASSUME Finite, RowsInv, RowsInv', TurnInv, FilesInv,
         UNCHANGED <<documents, registry, source>>,
         \A v \in Uploads : pc[v] # "idle" => req'[v] = req[v],
         \A v \in Uploads : run[v] = "ended" => run'[v] = "ended",
         \A v, w \in Uploads : CreatedBefore(v, w) => CreatedBefore(v, w)',
         \A v \in Uploads, i \in 1..MaxFiles :
           batch'[v][i] = batch[v][i] \/ (batch[v][i] = "registered" /\ batch'[v][i] = "planned"),
         \A v \in Uploads, p \in Paths : SafeFor(v, p) /\ run'[v] # "ended" => p \in disk',
         \A v \in Uploads : FoundOK(v)' /\ DestOK(v)'
  PROVE  FilesInv'
<1>1. RegistryOK'
  <2>1. \A p \in Paths : Kept(p) => Kept(p)'
    BY RequestsStay
  <2> QED
    BY <2>1 DEF FilesInv, RegistryOK, Paths
<1>2. ASSUME NEW v \in Uploads, NEW i \in 1..MaxFiles  PROVE FileOK(v, i)'
  <2>1. CASE batch[v][i] = "none"
    BY <2>1 DEF FileOK
  <2>2. CASE batch[v][i] # "none"
    <3>0. PICK c \in Contents : c = FileAt(v, i)
      BY <2>2, BatchFacts
    <3>1. documents[c] \in Paths /\ pc[v] # "idle" /\ FileAt(v, i)' = c
      BY <2>2, <3>0, BatchFacts DEF FileAt
    <3>2. FileOK(v, i) /\ TypeOK /\ BatchOK(v, i)'
      BY DEF FilesInv, RowsInv
    <3>3. SUFFICES ASSUME ~SharedContent(v, c)'
                   PROVE  /\ (batch'[v][i] \in {"registered", "planned"} /\ run'[v] # "ended")
                               => SafeFor(v, documents[c])'
                          /\ batch'[v][i] = "deleted" => SafeFor(v, source[v][i])'
                          /\ batch'[v][i] # "missing"
      BY <3>1 DEF FileOK
    <3>4. ~SharedContent(v, c)
      BY <3>1, <3>3, RequestsStay
    <3>5. ASSUME batch'[v][i] \in {"registered", "planned"}, run'[v] # "ended"
          PROVE  SafeFor(v, documents[c])'
      <4>1. SafeFor(v, documents[c])
        BY <3>0, <3>2, <3>4, <3>5 DEF FileOK
      <4>2. documents[c] \in disk'
        BY <3>1, <3>5, <4>1
      <4>3. \A p \in Paths : SafeFor(v, p) /\ p \in disk' => SafeFor(v, p)'
        BY <3>1, SafeStays
      <4>4. documents[c]' = documents[c]
        OBVIOUS
      <4> QED
        BY <3>1, <4>1, <4>2, <4>3, <4>4 DEF SafeFor, Kept, Org
    <3>6. ASSUME batch'[v][i] = "deleted"  PROVE SafeFor(v, source[v][i])'
      <4>1. SafeFor(v, source[v][i]) /\ run'[v] # "ended"
        BY <3>0, <3>2, <3>4, <3>6 DEF FileOK, BatchOK, Running
      <4>2. source[v][i] \in Paths
        BY <3>2, <4>1 DEF SafeFor, TypeOK
      <4>3. source[v][i] \in disk'
        BY <4>1, <4>2
      <4>4. \A p \in Paths : SafeFor(v, p) /\ p \in disk' => SafeFor(v, p)'
        BY <3>1, SafeStays
      <4> QED
        BY <4>1, <4>2, <4>3, <4>4 DEF SafeFor, Kept, Org
    <3>7. batch'[v][i] # "missing"
      BY <3>0, <3>2, <3>4 DEF FileOK
    <3> QED
      BY <3>5, <3>6, <3>7
  <2> QED
    BY <2>1, <2>2
<1> QED
  BY <1>1, <1>2 DEF FilesInv

(* A step of a request that writes no row and removes no file.              *)
LEMMA FilesAdded ==
  ASSUME Finite, RowsInv, RowsInv', TurnInv, FilesInv,
         UNCHANGED <<documents, registry, source>>, disk \subseteq disk',
         \A v \in Uploads : pc[v] # "idle" => req'[v] = req[v],
         \A v \in Uploads : run[v] = "ended" => run'[v] = "ended",
         \A v, w \in Uploads : CreatedBefore(v, w) => CreatedBefore(v, w)',
         \A v \in Uploads, i \in 1..MaxFiles :
           batch'[v][i] = batch[v][i] \/ (batch[v][i] = "registered" /\ batch'[v][i] = "planned"),
         \A v \in Uploads : found'[v] = found[v] \/ FoundOK(v)',
         \A v \in Uploads : \/ pc'[v] \notin {"select", "commit"} \/ DestOK(v)'
                            \/ pc[v] \in {"select", "commit"} /\ dest'[v] = dest[v]
  PROVE  FilesInv'
<1>1. \A p \in Paths : Kept(p) => Kept(p)'
  BY RequestsStay
<1>2. ASSUME NEW v \in Uploads  PROVE FoundOK(v)'
  <2>1. FoundOK(v)
    BY DEF FilesInv
  <2>2. CASE found'[v] = found[v]
    <3>1. SUFFICES ASSUME found[v] \in Paths  PROVE Kept(found[v])'
      BY <2>2 DEF FoundOK, Kept, Paths
    <3>2. PICK p \in Paths : p = found[v]
      BY <3>1
    <3>3. Kept(p)'
      BY <1>1, <2>1, <3>2 DEF FoundOK
    <3> QED
      BY <2>2, <3>2, <3>3 DEF Kept
  <2> QED
    BY <2>2
<1>3. ASSUME NEW v \in Uploads  PROVE DestOK(v)'
  <2>1. DestOK(v) /\ PcOK(v)
    BY DEF FilesInv, RowsInv
  <2>2. CASE pc[v] \in {"select", "commit"} /\ dest'[v] = dest[v]
    <3>1. PICK p \in Paths : p = dest[v]
      BY <2>1, <2>2 DEF PcOK
    <3>2. \/ p \in disk /\ Kept(p)
          \/ p[1] = v /\ (p \in disk \/ run[v] = "ended")
      BY <2>1, <2>2, <3>1 DEF DestOK
    <3>3. \/ p \in disk' /\ Kept(p)'
          \/ p[1] = v /\ (p \in disk' \/ run'[v] = "ended")
      BY <1>1, <3>2
    <3> QED
      BY <2>2, <3>1, <3>3 DEF DestOK, Kept
  <2> QED
    BY <2>2 DEF DestOK
<1>4. \A v \in Uploads, p \in Paths : SafeFor(v, p) /\ run'[v] # "ended" => p \in disk'
  BY DEF SafeFor
<1> QED
  BY <1>2, <1>3, <1>4, FilesStay

(* Steps of a request that write no path keep FilesInv.                    *)
LEMMA MovesKeepFiles ==
  ASSUME Finite, RowsInv, RowsInv', TurnInv, FilesInv, NEW u \in Uploads,
         \/ StartIngest(u) \/ CreateRun(u) \/ MakeDirectory(u) \/ DirectoryGone(u)
         \/ SelectDocument(u) \/ InsertConflict(u) \/ IngestRaises(u) \/ FinishIngest(u)
  PROVE  FilesInv'
<1>1. /\ TypeOK /\ PcOK(u) /\ NoRow \notin Paths
      /\ UNCHANGED <<documents, registry, source, disk>>
  BY RequestFacts, NullsAssumption
  DEF RowsInv, Paths, StartIngest, CreateRun, MakeDirectory, DirectoryGone, SelectDocument,
      InsertConflict, IngestRaises, FinishIngest, rowVars, extVars
<1>2. CASE StartIngest(u) \/ CreateRun(u) \/ MakeDirectory(u) \/ SelectDocument(u) \/ FinishIngest(u)
  <2>1. UNCHANGED <<found, dest>>
    BY <1>2 DEF StartIngest, CreateRun, MakeDirectory, SelectDocument, FinishIngest
  <2>2. \A v \in Uploads : pc[v] # "idle" => req'[v] = req[v]
    BY <1>1, <1>2 DEF StartIngest, CreateRun, MakeDirectory, SelectDocument, FinishIngest, TypeOK
  <2>3. \A v \in Uploads : run[v] = "ended" => run'[v] = "ended"
    <3>1. run' = run \/ (run[u] # "ended" /\ \E st : run' = [run EXCEPT ![u] = st])
      BY <1>1, <1>2 DEF StartIngest, CreateRun, MakeDirectory, SelectDocument, FinishIngest,
                        runVars, PcOK
    <3> QED
      BY <1>1, <3>1 DEF TypeOK
  <2>4. \A v, w \in Uploads : CreatedBefore(v, w) => CreatedBefore(v, w)'
    <3>1. CASE CreateRun(u)
      <4>1. OrderInv /\ run[u] = "none" /\ order' = Append(order, u)
        BY <1>1, <3>1 DEF TurnInv, CreateRun, PcOK
      <4> QED
        BY <4>1, CreatedIsNewest
    <3>2. CASE ~CreateRun(u)
      <4>1. order' = order
        BY <1>2, <3>2 DEF StartIngest, MakeDirectory, SelectDocument, FinishIngest, runVars
      <4> QED
        BY <4>1 DEF CreatedBefore
    <3> QED
      BY <3>1, <3>2
  <2>5. ASSUME NEW v \in Uploads, NEW i \in 1..MaxFiles
        PROVE  \/ batch'[v][i] = batch[v][i]
               \/ batch[v][i] = "registered" /\ batch'[v][i] = "planned"
    <3>1. batch' = batch \/ batch' = [batch EXCEPT ![u] = Planned(u)]
      BY <1>2 DEF StartIngest, CreateRun, MakeDirectory, SelectDocument, FinishIngest, runVars
    <3>2. batch'[v] = batch[v] \/ batch'[v] = Planned(v)
      BY <1>1, <3>1 DEF TypeOK
    <3> QED
      BY <1>1, <3>2, PlannedFacts
  <2>6. \A v \in Uploads : pc'[v] \in {"select", "commit"} => pc[v] \in {"select", "commit"}
    <3>1. \/ pc[u] = "select" \/ \E st : st \notin {"select", "commit"} /\ pc' = [pc EXCEPT ![u] = st]
      BY <1>2 DEF StartIngest, CreateRun, MakeDirectory, SelectDocument, FinishIngest, Goto
    <3>2. \A v \in Uploads \ {u} : pc'[v] = pc[v]
      BY <1>1, <1>2 DEF StartIngest, CreateRun, MakeDirectory, SelectDocument, FinishIngest, Goto,
                        TypeOK
    <3> QED
      BY <1>1, <3>1, <3>2 DEF TypeOK
  <2> QED
    BY <1>1, <2>1, <2>2, <2>3, <2>4, <2>5, <2>6, FilesAdded
<1>3. CASE DirectoryGone(u) \/ InsertConflict(u) \/ IngestRaises(u)
  <2>1. Die(u) /\ UNCHANGED <<req, run, order, batch>>
    BY <1>3 DEF DirectoryGone, InsertConflict, IngestRaises, runVars
  <2>2. /\ pc'[u] = "died" /\ found'[u] = NoRow
        /\ \A v \in Uploads \ {u} : pc'[v] = pc[v] /\ found'[v] = found[v] /\ dest'[v] = dest[v]
    BY <1>1, <2>1, DieFacts DEF Die, TypeOK
  <2>3. FoundOK(u)'
    BY <1>1, <2>2 DEF FoundOK, Paths
  <2>4. \A v, w \in Uploads : CreatedBefore(v, w) => CreatedBefore(v, w)'
    BY <2>1 DEF CreatedBefore
  <2>5. /\ \A v \in Uploads : found'[v] = found[v] \/ FoundOK(v)'
        /\ \A v \in Uploads : \/ pc'[v] \notin {"select", "commit"}
                              \/ pc[v] \in {"select", "commit"} /\ dest'[v] = dest[v]
    BY <2>2, <2>3
  <2> QED
    BY <1>1, <2>1, <2>4, <2>5, FilesAdded
<1> QED
  BY <1>2, <1>3

(* The row found leads to a kept file, and the place a file is put at is    *)
(* kept, or in the directory of its own run.                               *)
LEMMA PlacingKeepsFiles ==
  ASSUME Finite, RowsInv, RowsInv', TurnInv, FilesInv, NEW u \in Uploads,
         FindRegistered(u) \/ PlaceFile(u)
  PROVE  FilesInv'
<1>1. /\ TypeOK /\ PcOK(u) /\ NoRow \notin Paths
      /\ UNCHANGED <<documents, registry, source, req, run, order, batch>>
  BY RequestFacts, NullsAssumption
  DEF RowsInv, Paths, FindRegistered, PlaceFile, runVars, rowVars, extVars
<1>2. \A v, w \in Uploads : CreatedBefore(v, w) => CreatedBefore(v, w)'
  BY <1>1 DEF CreatedBefore
<1>3. CASE FindRegistered(u)
  <2>1. /\ pc[u] = "find" /\ req[u] \in Requests /\ at[u] \in DOMAIN req[u].files
        /\ disk' = disk
    BY <1>1, <1>3 DEF FindRegistered, PcOK
  <2>2. Org(u) \in Orgs /\ FileAt(u, at[u]) \in Contents
    BY <2>1, RequestFacts DEF Org, FileAt
  <2>3. CASE Proceed(u)
    <3>1. /\ pc'[u] \in {"find", "finish"} /\ found'[u] = NoRow
          /\ \A v \in Uploads \ {u} : pc'[v] = pc[v] /\ found'[v] = found[v] /\ dest'[v] = dest[v]
      BY <1>1, <2>1, <2>3, ProceedFacts DEF Proceed, TypeOK
    <3>2. FoundOK(u)'
      BY <1>1, <3>1 DEF FoundOK, Paths
    <3>3. /\ \A v \in Uploads : found'[v] = found[v] \/ FoundOK(v)'
          /\ \A v \in Uploads : \/ pc'[v] \notin {"select", "commit"}
                                \/ pc[v] \in {"select", "commit"} /\ dest'[v] = dest[v]
      BY <3>1, <3>2
    <3> QED
      BY <1>1, <1>2, <2>1, <3>3, FilesAdded
  <2>4. CASE /\ found' = [found EXCEPT ![u] = registry[Org(u)][FileAt(u, at[u])]]
             /\ Goto(u, "place") /\ UNCHANGED dest
    <3>1. /\ pc'[u] = "place" /\ found'[u] = registry[Org(u)][FileAt(u, at[u])]
          /\ \A v \in Uploads \ {u} : pc'[v] = pc[v] /\ found'[v] = found[v] /\ dest'[v] = dest[v]
      BY <1>1, <2>4 DEF TypeOK, Goto
    <3>2. FoundOK(u)'
      BY <1>1, <2>2, <3>1 DEF FoundOK, Kept, FilesInv, RegistryOK, Paths
    <3>3. /\ \A v \in Uploads : found'[v] = found[v] \/ FoundOK(v)'
          /\ \A v \in Uploads : \/ pc'[v] \notin {"select", "commit"}
                                \/ pc[v] \in {"select", "commit"} /\ dest'[v] = dest[v]
      BY <3>1, <3>2
    <3> QED
      BY <1>1, <1>2, <2>1, <3>3, FilesAdded
  <2> QED
    BY <1>3, <2>3, <2>4 DEF FindRegistered
<1>4. CASE PlaceFile(u)
  <2>1. /\ pc'[u] = "select" /\ found' = found
        /\ \A v \in Uploads \ {u} : pc'[v] = pc[v] /\ dest'[v] = dest[v]
        /\ \/ Reusable(u) /\ dest'[u] = found[u] /\ disk' = disk
           \/ dest'[u] = Path(u, at[u]) /\ disk' = disk \cup {Path(u, at[u])}
    BY <1>1, <1>4 DEF PlaceFile, Goto, TypeOK
  <2>2. DestOK(u)'
    <3>1. CASE Reusable(u) /\ dest'[u] = found[u] /\ disk' = disk
      <4>1. found[u] \in disk /\ found[u] \in Paths /\ FoundOK(u)
        BY <1>1, <3>1 DEF Reusable, TypeOK, FilesInv
      <4> QED
        BY <1>1, <3>1, <4>1 DEF FoundOK, DestOK, Kept
    <3>2. CASE dest'[u] = Path(u, at[u]) /\ disk' = disk \cup {Path(u, at[u])}
      BY <3>2 DEF DestOK, Path
    <3> QED
      BY <2>1, <3>1, <3>2
  <2>3. /\ disk \subseteq disk'
        /\ \A v \in Uploads : \/ pc'[v] \notin {"select", "commit"} \/ DestOK(v)'
                              \/ pc[v] \in {"select", "commit"} /\ dest'[v] = dest[v]
    BY <2>1, <2>2
  <2> QED
    BY <1>1, <1>2, <2>1, <2>3, FilesAdded
<1> QED
  BY <1>3, <1>4

(* The path a commit writes is safe for the run of the request, and for the *)
(* runs of its organisation that are not over: they came before.            *)
LEMMA PlacedIsSafe ==
  ASSUME Finite, RowsInv, TurnInv, FilesInv, NEW u \in Uploads, pc[u] = "commit",
         NEW v \in Uploads, Org(v) = Org(u), run[v] \notin {"none", "ended"}
  PROVE  SafeFor(v, dest[u])
<1>1. DestOK(u) /\ FirstFirst /\ NewestInFlight
  BY DEF FilesInv, TurnInv
<1>2. CASE dest[u] \in disk /\ Kept(dest[u])
  BY <1>2 DEF SafeFor
<1>3. CASE dest[u][1] = u /\ (dest[u] \in disk \/ run[u] = "ended")
  <2>1. CASE v = u
    BY <1>3, <2>1 DEF SafeFor
  <2>2. CASE v # u
    <3>1. CreatedBefore(v, u)
      BY <1>1, <2>2 DEF NewestInFlight, PastCreate, InFlight
    <3>2. run[u] # "ended"
      BY <1>1, <3>1 DEF FirstFirst
    <3> QED
      BY <1>3, <3>1, <3>2 DEF SafeFor
  <2> QED
    BY <2>1, <2>2
<1> QED
  BY <1>1, <1>2, <1>3 DEF DestOK

(* A commit records the path it placed, or the one it found.               *)
LEMMA CommitKeepsFiles ==
  ASSUME Finite, RowsInv, RowsInv', TurnInv, FilesInv, NEW u \in Uploads, CommitDocument(u)
  PROVE  FilesInv'
<1>0. PICK c \in Contents : c = FileAt(u, at[u])
  BY CommitFacts
<1>1. /\ TypeOK /\ PcOK(u) /\ Proceed(u) /\ pc[u] = "commit" /\ NoRow \notin Paths
      /\ Org(u) \in Orgs /\ at[u] \in DOMAIN req[u].files /\ at[u] \in 1..MaxFiles
      /\ dest[u] \in Paths /\ run[u] # "none" /\ req[u] \in Requests
      /\ documents' = [documents EXCEPT ![c] = dest[u]]
      /\ registry' = [registry EXCEPT ![Org(u)] =
                        [registry[Org(u)] EXCEPT ![c] = StoragePath(u, registry[Org(u)][c])]]
      /\ batch' = [batch EXCEPT ![u] = [batch[u] EXCEPT ![at[u]] = "registered"]]
      /\ UNCHANGED <<req, run, order, disk, source>>
  BY <1>0, CommitFacts DEF RowsInv, CommitDocument
<1>2. /\ pc'[u] \in {"find", "finish"} /\ found'[u] = NoRow
      /\ \A v \in Uploads \ {u} : pc'[v] = pc[v] /\ found'[v] = found[v] /\ dest'[v] = dest[v]
  BY <1>1, ProceedFacts DEF Proceed, TypeOK
<1>3. ASSUME NEW v \in Uploads  PROVE FoundOK(v)' /\ DestOK(v)'
  <2>1. CASE v = u
    BY <1>1, <1>2, <2>1 DEF FoundOK, DestOK
  <2>2. CASE v # u
    BY <1>1, <1>2, <2>2 DEF FilesInv, FoundOK, DestOK, Kept
  <2> QED
    BY <2>1, <2>2
<1>4. ASSUME NEW o \in Orgs, NEW d \in Contents, registry'[o][d] \in Paths
      PROVE  Kept(registry'[o][d])
  <2>1. CASE o = Org(u) /\ d = c
    <3>1. registry'[o][d] = StoragePath(u, registry[Org(u)][c])
      BY <1>1, <2>1 DEF TypeOK
    <3>2. CASE registry[Org(u)][c] \in {NoRow, NoPath}
      <4>1. NoPath \notin Paths
        BY NullsAssumption, RequestFacts DEF Paths
      <4>2. registry'[o][d] = dest[u] /\ req[u].save
        BY <1>4, <3>1, <3>2, <4>1 DEF StoragePath
      <4>3. DestOK(u)
        BY DEF FilesInv
      <4> QED
        BY <1>1, <4>2, <4>3 DEF DestOK, Kept
    <3>3. CASE registry[Org(u)][c] \notin {NoRow, NoPath}
      <4>1. registry'[o][d] = registry[o][d]
        BY <2>1, <3>1, <3>3 DEF StoragePath
      <4> QED
        BY <1>4, <4>1 DEF FilesInv, RegistryOK
    <3> QED
      BY <3>2, <3>3
  <2>2. CASE ~(o = Org(u) /\ d = c)
    <3>1. registry'[o][d] = registry[o][d]
      BY <1>1, <2>2 DEF TypeOK
    <3> QED
      BY <1>4, <3>1 DEF FilesInv, RegistryOK
  <2> QED
    BY <2>1, <2>2
<1>5. RegistryOK'
  BY <1>1, <1>4 DEF RegistryOK, Kept, Paths
<1>6. /\ \A v \in Uploads : \A p : SafeFor(v, p)' <=> SafeFor(v, p)
      /\ \A v \in Uploads : \A d : SharedContent(v, d)' <=> SharedContent(v, d)
  BY <1>1 DEF SafeFor, Kept, Org, CreatedBefore, SharedContent, Holds, FileAt
<1>7. ASSUME NEW v \in Uploads, NEW i \in 1..MaxFiles  PROVE FileOK(v, i)'
  <2>1. FileOK(v, i) /\ TypeOK'
    BY DEF FilesInv, RowsInv
  <2>2. CASE batch'[v][i] = "none"
    BY <2>2 DEF FileOK
  <2>3. CASE batch'[v][i] # "none"
    <3>1. PICK d \in Contents : d = FileAt(v, i)
      <4>1. BatchOK(v, i)' /\ PcOK(v)'
        BY DEF RowsInv
      <4>2. i \in DOMAIN req[v].files /\ req[v] \in Requests
        BY <1>1, <2>3, <4>1 DEF BatchOK, PcOK
      <4> QED
        BY <4>2, RequestFacts DEF FileAt
    <3>2. FileAt(v, i)' = d
      BY <1>1, <3>1 DEF FileAt
    <3>3. CASE d = c
      <4>1. documents'[d] = dest[u]
        BY <1>1, <3>3 DEF TypeOK
      <4>2. ASSUME ~SharedContent(v, d), run[v] # "ended"  PROVE SafeFor(v, dest[u])
        <5>1. Holds(u, d)
          BY <1>0, <1>1, <3>3 DEF Holds
        <5>2. Org(v) = Org(u)
          BY <4>2, <5>1 DEF SharedContent
        <5>3. run[v] # "none"
          <6>1. BatchOK(v, i)' /\ PcOK(v)'
            BY DEF RowsInv
          <6> QED
            BY <1>1, <2>3, <6>1 DEF BatchOK, PcOK
        <5> QED
          BY <1>1, <4>2, <5>2, <5>3, PlacedIsSafe
      <4>3. batch'[v][i] \in {"deleted", "missing"} => batch'[v][i] = batch[v][i]
        BY <1>1 DEF TypeOK
      <4>4. ASSUME ~SharedContent(v, d)'
            PROVE  /\ (batch'[v][i] \in {"registered", "planned"} /\ run[v] # "ended")
                        => SafeFor(v, dest[u])
                   /\ batch'[v][i] = "deleted" => SafeFor(v, source[v][i])
                   /\ batch'[v][i] # "missing"
        BY <1>6, <2>1, <3>1, <4>2, <4>3, <4>4 DEF FileOK
      <4>5. PICK p \in Paths : p = dest[u]
        BY <1>1
      <4>6. PICK q : q = source[v][i]
        OBVIOUS
      <4>7. ASSUME ~SharedContent(v, d)'
            PROVE  /\ (batch'[v][i] \in {"registered", "planned"} /\ run[v] # "ended")
                        => SafeFor(v, p)'
                   /\ batch'[v][i] = "deleted" => SafeFor(v, q)'
                   /\ batch'[v][i] # "missing"
        BY <1>6, <4>4, <4>5, <4>6, <4>7
      <4> QED
        BY <1>1, <3>2, <4>1, <4>5, <4>6, <4>7 DEF FileOK, SafeFor, Kept, Org
    <3>4. CASE d # c
      <4>1. documents'[d] = documents[d]
        BY <1>1, <3>4 DEF TypeOK
      <4>2. batch'[v][i] = batch[v][i]
        BY <1>0, <1>1, <3>1, <3>4 DEF TypeOK
      <4>3. PICK p : p = documents[d]
        OBVIOUS
      <4>4. PICK q : q = source[v][i]
        OBVIOUS
      <4>5. ASSUME ~SharedContent(v, d)'
            PROVE  /\ (batch'[v][i] \in {"registered", "planned"} /\ run[v] # "ended")
                        => SafeFor(v, p)'
                   /\ batch'[v][i] = "deleted" => SafeFor(v, q)'
                   /\ batch'[v][i] # "missing"
        BY <1>6, <2>1, <3>1, <4>2, <4>3, <4>4, <4>5 DEF FileOK
      <4> QED
        BY <1>1, <3>2, <4>1, <4>3, <4>4, <4>5 DEF FileOK, SafeFor, Kept, Org
    <3> QED
      BY <3>3, <3>4
  <2> QED
    BY <2>2, <2>3
<1> QED
  BY <1>3, <1>5, <1>7 DEF FilesInv

(* A batch reads files and moves none.                                     *)
LEMMA ExtractKeepsFiles ==
  ASSUME Finite, RowsInv, RowsInv', TurnInv, FilesInv, NEW u \in Uploads, NEW k \in 1..MaxFiles,
         ReplaceControls(u, k) \/ ReadFile(u, k) \/ PersistControls(u, k) \/ CollectControls(u, k)
  PROVE  FilesInv'
<1>1. /\ TypeOK /\ BatchOK(u, k) /\ FileOK(u, k) /\ batch[u][k] \in Running
      /\ UNCHANGED <<req, pc, found, dest, run, order, documents, registry, disk>>
  BY DEF RowsInv, FilesInv, ReplaceControls, ReadFile, PersistControls, CollectControls, Running,
         reqVars, rowVars
<1>2. PICK c \in Contents : c = FileAt(u, k)
  BY <1>1, BatchFacts DEF Running
<1>3. run[u] = "running" /\ run[u] # "ended"
  BY <1>1 DEF BatchOK
<1>4. /\ \A v \in Uploads : \A p : SafeFor(v, p)' <=> SafeFor(v, p)
      /\ \A v \in Uploads : \A d : SharedContent(v, d)' <=> SharedContent(v, d)
  BY <1>1 DEF SafeFor, Kept, Org, CreatedBefore, SharedContent, Holds, FileAt
<1>5. RegistryOK' /\ \A v \in Uploads : FoundOK(v)' /\ DestOK(v)'
  BY <1>1 DEF FilesInv, RegistryOK, FoundOK, DestOK, Kept
<1>6. PICK st \in {"deleted", "missing", "read", "inserted", "extracted"} :
        /\ batch' = [batch EXCEPT ![u][k] = st]
        /\ st = "deleted" => /\ source' = [source EXCEPT ![u][k] = documents[c]]
                             /\ documents[c] \in disk /\ batch[u][k] = "planned"
        /\ st = "missing" => \/ batch[u][k] = "planned" /\ documents[c] \notin disk
                             \/ batch[u][k] = "deleted" /\ source[u][k] \notin disk
  BY <1>2 DEF ReplaceControls, ReadFile, PersistControls, CollectControls, SetBatch, extVars
<1>7. source' = source \/ source' = [source EXCEPT ![u][k] = documents[c]]
  BY <1>2 DEF ReplaceControls, ReadFile, PersistControls, CollectControls, extVars
<1>8. /\ batch'[u][k] = st /\ (st = "deleted" => source'[u][k] = documents[c])
      /\ \A v \in Uploads, i \in 1..MaxFiles : ~(v = u /\ i = k) =>
           batch'[v][i] = batch[v][i] /\ source'[v][i] = source[v][i]
  <2>1. batch'[u][k] = st /\ \A v \in Uploads, i \in 1..MaxFiles :
          ~(v = u /\ i = k) => batch'[v][i] = batch[v][i]
    BY <1>1, <1>6 DEF TypeOK
  <2> DEFINE T == Paths \cup {NoPath}
  <2>2. source \in [Uploads -> [1..MaxFiles -> T]]
    BY <1>1 DEF TypeOK
  <2> HIDE DEF T
  <2>3. \A v \in Uploads, i \in 1..MaxFiles :
          ~(v = u /\ i = k) => source'[v][i] = source[v][i]
    BY <1>7, <2>2
  <2>4. st = "deleted" => source'[u][k] = documents[c]
    BY <1>6, <2>2
  <2> QED
    BY <2>1, <2>3, <2>4
<1>9. ASSUME NEW v \in Uploads, NEW i \in 1..MaxFiles  PROVE FileOK(v, i)'
  <2>1. CASE v = u /\ i = k
    <3>1. FileAt(u, k)' = c
      BY <1>1, <1>2 DEF FileAt
    <3>2. PICK p : p = documents[c]
      OBVIOUS
    <3>3. ASSUME ~SharedContent(u, c)'
          PROVE  /\ batch'[u][k] = "deleted" => SafeFor(u, p)'
                 /\ batch'[u][k] # "missing"
      <4>1. /\ batch[u][k] = "planned" => SafeFor(u, p)
            /\ batch[u][k] = "deleted" => SafeFor(u, source[u][k])
        BY <1>1, <1>2, <1>3, <1>4, <3>2, <3>3 DEF FileOK
      <4>2. batch'[u][k] # "missing"
        BY <1>6, <1>8, <3>2, <4>1 DEF SafeFor
      <4> QED
        BY <1>4, <1>6, <1>8, <4>1, <4>2
    <3> QED
      BY <1>1, <1>6, <1>8, <2>1, <3>1, <3>2, <3>3 DEF FileOK, SafeFor, Kept, Org
  <2>2. CASE ~(v = u /\ i = k)
    <3>1. batch'[v][i] = batch[v][i] /\ source'[v][i] = source[v][i]
      BY <1>8, <2>2
    <3>2. FileOK(v, i) /\ FileAt(v, i)' = FileAt(v, i)
      BY <1>1 DEF FilesInv, FileAt
    <3>3. PICK d : d = FileAt(v, i)
      OBVIOUS
    <3>4. PICK p : p = documents[d]
      OBVIOUS
    <3>5. PICK q : q = source[v][i]
      OBVIOUS
    <3>6. ASSUME ~SharedContent(v, d)'
          PROVE  /\ (batch'[v][i] \in {"registered", "planned"} /\ run[v] # "ended")
                      => SafeFor(v, p)'
                 /\ batch'[v][i] = "deleted" => SafeFor(v, q)'
                 /\ batch'[v][i] # "missing"
      BY <1>4, <3>1, <3>2, <3>3, <3>4, <3>5, <3>6 DEF FileOK
    <3> QED
      BY <1>1, <3>1, <3>2, <3>3, <3>4, <3>5, <3>6 DEF FileOK, SafeFor, Kept, Org
  <2> QED
    BY <2>1, <2>2
<1> QED
  BY <1>5, <1>9 DEF FilesInv

(* What the end of a run removes is its own, and no run that came before it *)
(* is still there.                                                         *)
LEMMA EndKeepsFiles ==
  ASSUME Finite, RowsInv, RowsInv', TurnInv, FilesInv, NEW u \in Uploads, EndRun(u)
  PROVE  FilesInv'
<1>1. /\ TypeOK /\ FirstFirst /\ run[u] = "running" /\ run'[u] = "ended"
      /\ UNCHANGED <<req, pc, found, dest, order, documents, registry, source>>
      /\ disk' = disk \ TemporaryFiles(u)
  BY EndFacts DEF RowsInv, TurnInv
<1>2. \A v \in Uploads : run[v] = "ended" => run'[v] = "ended"
  <2>1. CASE \A v \in Uploads \ {u} : run'[v] = run[v]
    BY <1>1, <2>1
  <2>2. ASSUME NEW w \in Oldest(Org(u)), run[w] = "waiting",
               \A v \in Uploads \ {u, w} : run'[v] = run[v]
        PROVE  \A v \in Uploads : run[v] = "ended" => run'[v] = "ended"
    BY <1>1, <2>2
  <2> QED
    BY <1>1, <2>1, <2>2, EndFacts
<1>3. \A v, w \in Uploads : CreatedBefore(v, w) => CreatedBefore(v, w)'
  BY <1>1 DEF CreatedBefore
<1>4. ASSUME NEW v \in Uploads, NEW i \in 1..MaxFiles
      PROVE  batch'[v][i] = batch[v][i] \/ (batch[v][i] = "registered" /\ batch'[v][i] = "planned")
  <2>1. CASE batch' = batch
    BY <2>1
  <2>2. ASSUME NEW w \in Uploads, batch' = [batch EXCEPT ![w] = Planned(w)]
        PROVE  batch'[v][i] = batch[v][i] \/ (batch[v][i] = "registered" /\ batch'[v][i] = "planned")
    <3>1. batch'[v] = batch[v] \/ batch'[v] = Planned(v)
      BY <1>1, <2>2 DEF TypeOK
    <3> QED
      BY <1>1, <3>1, PlannedFacts
  <2>3. batch' = batch \/ \E w \in Uploads : batch' = [batch EXCEPT ![w] = Planned(w)]
    BY DEF EndRun, Oldest, WaitingOf
  <2> QED
    BY <2>1, <2>2, <2>3
<1>5. \A p \in Paths : p \in disk /\ (Kept(p) \/ p[1] # u) => p \in disk'
  BY <1>1 DEF TemporaryFiles, PathsOf, Kept
<1>6. ASSUME NEW v \in Uploads, NEW p \in Paths, SafeFor(v, p), run'[v] # "ended"
      PROVE  p \in disk'
  <2>1. CASE Kept(p)
    BY <1>5, <1>6, <2>1 DEF SafeFor
  <2>2. CASE p[1] = v
    <3>1. v # u
      BY <1>1, <1>6
    <3> QED
      BY <1>5, <1>6, <2>2, <3>1 DEF SafeFor
  <2>3. CASE Org(v) = Org(p[1]) /\ CreatedBefore(v, p[1])
    <3>1. ASSUME p[1] = u  PROVE FALSE
      <4>1. run[v] = "ended"
        BY <1>1, <2>3, <3>1 DEF FirstFirst
      <4> QED
        BY <1>2, <1>6, <4>1
    <3> QED
      BY <1>5, <1>6, <3>1 DEF SafeFor
  <2> QED
    BY <1>6, <2>1, <2>2, <2>3 DEF SafeFor
<1>7. ASSUME NEW v \in Uploads  PROVE FoundOK(v)' /\ DestOK(v)'
  <2>1. FoundOK(v) /\ DestOK(v) /\ PcOK(v)
    BY DEF FilesInv, RowsInv
  <2>2. FoundOK(v)'
    BY <1>1, <2>1 DEF FoundOK, Kept
  <2>3. ASSUME pc[v] \in {"select", "commit"}
        PROVE  \/ dest[v] \in disk' /\ Kept(dest[v])
               \/ dest[v][1] = v /\ (dest[v] \in disk' \/ run'[v] = "ended")
    <3>1. dest[v] \in Paths
      BY <2>1, <2>3 DEF PcOK
    <3>2. CASE dest[v] \in disk /\ Kept(dest[v])
      BY <1>5, <3>1, <3>2
    <3>3. CASE dest[v][1] = v /\ v = u
      BY <1>1, <3>3
    <3>4. CASE dest[v][1] = v /\ v # u /\ (dest[v] \in disk \/ run[v] = "ended")
      BY <1>2, <1>5, <3>1, <3>4
    <3> QED
      BY <2>1, <2>3, <3>2, <3>3, <3>4 DEF DestOK
  <2>4. DestOK(v)'
    BY <1>1, <2>3 DEF DestOK, Kept
  <2> QED
    BY <2>2, <2>4
<1> QED
  BY <1>1, <1>2, <1>3, <1>4, <1>6, <1>7, FilesStay

(* Every step keeps FilesInv.                                              *)
LEMMA FilesStep ==
  ASSUME Finite, RowsInv, RowsInv', TurnInv, FilesInv, [Next]_vars
  PROVE  FilesInv'
<1>1. ASSUME NEW u \in Uploads, IngestStep(u) \/ IngestRaises(u)  PROVE FilesInv'
  BY <1>1, MovesKeepFiles, PlacingKeepsFiles, CommitKeepsFiles DEF IngestStep
<1>2. ASSUME NEW u \in Uploads, ExtractStep(u)  PROVE FilesInv'
  BY <1>2, ExtractKeepsFiles DEF ExtractStep
<1>3. ASSUME NEW u \in Uploads, EndRun(u)  PROVE FilesInv'
  BY <1>3, EndKeepsFiles
<1>4. CASE UNCHANGED vars
  <2>1. \A v, w \in Uploads : CreatedBefore(v, w) => CreatedBefore(v, w)'
    BY <1>4 DEF CreatedBefore, vars, runVars
  <2>2. UNCHANGED <<req, pc, found, dest, run, batch, documents, registry, source, disk>>
    BY <1>4 DEF vars, reqVars, runVars, rowVars, extVars
  <2> QED
    BY <2>1, <2>2, FilesAdded
<1> QED
  BY <1>1, <1>2, <1>3, <1>4 DEF Next

(* Theorem.  When the requests of an organisation come one at a time, its   *)
(* runs find the files of their documents, although the row of a document   *)
(* leads to the file of whichever upload registered it last and that upload *)
(* may delete it: only another organisation's upload of the same content    *)
(* can take it away.                                                       *)
THEOREM RunsFindTheirFiles == ASSUME OneEach  PROVE Spec => []RunFindsItsFiles
<1> DEFINE IInv == RowsInv /\ OnceInv /\ TurnInv /\ FilesInv
<1>1. Init => IInv
  BY RowsInit, OnceInit, TurnInit, FilesInit DEF OneEach
<1>2. IInv /\ [Next]_vars => IInv'
  BY RowsStep, OnceStep, TurnStep, FilesStep DEF OneEach, OnceInv
<1>3. FilesInv => RunFindsItsFiles
  BY DEF FilesInv, FileOK, RunFindsItsFiles
<1> QED
  BY <1>1, <1>2, <1>3, PTL DEF Spec

-----------------------------------------------------------------------------
(* The controls of a run stay until it has ended.                          *)

Extracting == {"deleted", "read", "inserted", "extracted"}

ControlsOK(u, i) ==
  (run[u] = "running" /\ ~SharedContent(u, FileAt(u, i)) /\ ~PlannedTwice(u, FileAt(u, i))) =>
    /\ batch[u][i] \in {"deleted", "read"} => controls[FileAt(u, i)] = {}
    /\ batch[u][i] \in {"inserted", "extracted"} => controls[FileAt(u, i)] = {<<u, i>>}
    /\ batch[u][i] = "extracted" => result[u][i] = {<<u, i>>}

ControlsInv == \A u \in Uploads, i \in 1..MaxFiles : ControlsOK(u, i)

(* At the start nothing is extracted.                                      *)
LEMMA ControlsInit == ASSUME Init  PROVE ControlsInv
BY DEF Init, ControlsInv, ControlsOK

(* Two extractions of a content are not under way in one organisation.      *)
LEMMA ExtractsAlone ==
  ASSUME Finite, RowsInv, OnceInv, TurnInv,
         NEW u \in Uploads, NEW k \in 1..MaxFiles, run[u] = "running", batch[u][k] # "none",
         NEW v \in Uploads, NEW i \in 1..MaxFiles, run[v] = "running", batch[v][i] # "none",
         NEW c \in Contents, FileAt(u, k) = c, FileAt(v, i) = c,
         ~SharedContent(v, c), ~PlannedTwice(v, c)
  PROVE  v = u /\ i = k
<1>1. k \in DOMAIN req[u].files /\ i \in DOMAIN req[v].files
  BY BatchFacts
<1>2. Holds(u, c)
  BY <1>1 DEF Holds
<1>3. Org(u) = Org(v)
  BY <1>2 DEF SharedContent
<1>4. u = v
  BY <1>3, OneRuns
<1>5. OnceOrForced(v, i, u, k)
  BY DEF OnceInv
<1>6. i # k => req[v].force
  BY <1>4, <1>5 DEF OnceOrForced
<1> QED
  BY <1>1, <1>4, <1>6 DEF PlannedTwice

(* Steps that extract nothing.                                             *)
LEMMA ControlsStay ==
  ASSUME Finite, RowsInv, ControlsInv, UNCHANGED <<controls, result>>,
         \A v \in Uploads : pc[v] # "idle" => req'[v] = req[v],
         \A v \in Uploads : run[v] = "ended" => run'[v] = "ended",
         \A v \in Uploads, i \in 1..MaxFiles :
           batch'[v][i] \in Extracting => batch'[v][i] = batch[v][i]
  PROVE  ControlsInv'
<1>1. ASSUME NEW v \in Uploads, NEW i \in 1..MaxFiles  PROVE ControlsOK(v, i)'
  <2>1. CASE batch'[v][i] \notin Extracting
    BY <2>1 DEF ControlsOK, Extracting
  <2>2. CASE batch'[v][i] \in Extracting /\ run'[v] = "running"
    <3>1. batch[v][i] \in Extracting /\ batch'[v][i] = batch[v][i] /\ batch[v][i] # "none"
      BY <2>2 DEF Extracting
    <3>2. PICK c \in Contents : c = FileAt(v, i)
      BY <3>1, BatchFacts
    <3>3. pc[v] # "idle" /\ req'[v] = req[v] /\ FileAt(v, i)' = c
      BY <3>1, <3>2, BatchFacts DEF FileAt
    <3>4. BatchOK(v, i) /\ ControlsOK(v, i)
      BY DEF RowsInv, ControlsInv
    <3>5. run[v] = "running"
      BY <2>2, <3>1, <3>4 DEF BatchOK, Extracting
    <3>6. SharedContent(v, c) => SharedContent(v, c)'
      BY <3>3, RequestsStay
    <3>7. PlannedTwice(v, c)' <=> PlannedTwice(v, c)
      BY <3>3 DEF PlannedTwice, FileAt
    <3>8. ASSUME ~SharedContent(v, c)', ~PlannedTwice(v, c)'
          PROVE  /\ batch[v][i] \in {"deleted", "read"} => controls[c] = {}
                 /\ batch[v][i] \in {"inserted", "extracted"} => controls[c] = {<<v, i>>}
                 /\ batch[v][i] = "extracted" => result[v][i] = {<<v, i>>}
      BY <3>2, <3>4, <3>5, <3>6, <3>7, <3>8 DEF ControlsOK
    <3> QED
      BY <3>1, <3>3, <3>8 DEF ControlsOK
  <2>3. CASE run'[v] # "running"
    BY <2>3 DEF ControlsOK
  <2> QED
    BY <2>1, <2>2, <2>3
<1> QED
  BY <1>1 DEF ControlsInv

\* A batch replaces, persists and collects the controls of its own document.
LEMMA ExtractKeepsControls ==
  ASSUME Finite, RowsInv, OnceInv, TurnInv, ControlsInv, NEW u \in Uploads, NEW k \in 1..MaxFiles,
         ReplaceControls(u, k) \/ ReadFile(u, k) \/ PersistControls(u, k) \/ CollectControls(u, k)
  PROVE  ControlsInv'
<1>1. /\ TypeOK /\ BatchOK(u, k) /\ ControlsOK(u, k) /\ batch[u][k] \in Running
      /\ batch[u][k] # "none" /\ UNCHANGED <<req, run>>
  BY DEF RowsInv, ControlsInv, ReplaceControls, ReadFile, PersistControls, CollectControls,
         Running, reqVars
<1>2. PICK c \in Contents : c = FileAt(u, k)
  BY <1>1, BatchFacts
<1>3. run[u] = "running"
  BY <1>1 DEF BatchOK
<1>4. \A v \in Uploads : \A d : /\ SharedContent(v, d)' <=> SharedContent(v, d)
                                /\ PlannedTwice(v, d)' <=> PlannedTwice(v, d)
  BY <1>1 DEF SharedContent, PlannedTwice, Org, Holds, FileAt
<1>5. PICK st \in Statuses : batch' = [batch EXCEPT ![u][k] = st]
  BY DEF ReplaceControls, ReadFile, PersistControls, CollectControls, SetBatch, Statuses
<1>6. batch'[u][k] = st /\ \A v \in Uploads, i \in 1..MaxFiles :
        ~(v = u /\ i = k) => batch'[v][i] = batch[v][i]
  BY <1>1, <1>5 DEF TypeOK
<1>7. \A d \in Contents \ {c} : controls'[d] = controls[d]
  <2>1. controls' = controls \/ \E x : controls' = [controls EXCEPT ![c] = x]
    BY <1>2 DEF ReplaceControls, ReadFile, PersistControls, CollectControls, extVars
  <2>2. DOMAIN controls = Contents
    BY <1>1 DEF TypeOK
  <2> QED
    BY <2>1, <2>2
<1>8. \A v \in Uploads, i \in 1..MaxFiles : ~(v = u /\ i = k) => result'[v][i] = result[v][i]
  <2>1. result' = result \/ result' = [result EXCEPT ![u][k] = controls[c]]
    BY <1>2 DEF ReplaceControls, ReadFile, PersistControls, CollectControls, extVars
  <2> DEFINE T == SUBSET Extractions
  <2>2. result \in [Uploads -> [1..MaxFiles -> T]]
    BY <1>1 DEF TypeOK
  <2> HIDE DEF T
  <2> QED
    BY <2>1, <2>2
<1>9. ASSUME ~SharedContent(u, c), ~PlannedTwice(u, c)
      PROVE  /\ st \in {"deleted", "read"} => controls'[c] = {}
             /\ st \in {"inserted", "extracted"} => controls'[c] = {<<u, k>>}
             /\ st = "extracted" => result'[u][k] = {<<u, k>>}
  <2>1. /\ batch[u][k] \in {"deleted", "read"} => controls[c] = {}
        /\ batch[u][k] \in {"inserted", "extracted"} => controls[c] = {<<u, k>>}
    BY <1>1, <1>2, <1>3, <1>9 DEF ControlsOK
  <2>2. controls \in [Contents -> SUBSET Extractions]
    BY <1>1 DEF TypeOK
  <2>3. CASE ReplaceControls(u, k)
    <3>1. \/ SetBatch(u, k, "deleted") /\ controls' = [controls EXCEPT ![c] = {}]
          \/ SetBatch(u, k, "missing")
      BY <1>2, <2>3 DEF ReplaceControls
    <3>2. ASSUME NEW x \in Statuses, SetBatch(u, k, x)  PROVE x = st
      <4>1. batch \in [Uploads -> [1..MaxFiles -> Statuses]]
        BY <1>1 DEF TypeOK, Statuses
      <4>2. [batch EXCEPT ![u][k] = x][u][k] = x
        BY <4>1
      <4> QED
        BY <1>6, <3>2, <4>2 DEF SetBatch
    <3>3. "deleted" \in Statuses /\ "missing" \in Statuses
      BY DEF Statuses
    <3> QED
      BY <2>2, <3>1, <3>2, <3>3
  <2>4. CASE ReadFile(u, k)
    <3>1. batch[u][k] = "deleted" /\ st \in {"read", "missing"} /\ controls' = controls
      BY <1>1, <1>6, <2>4 DEF ReadFile, SetBatch, TypeOK, extVars
    <3> QED
      BY <2>1, <3>1
  <2>5. CASE PersistControls(u, k)
    <3>1. batch[u][k] = "read" /\ st = "inserted"
          /\ controls' = [controls EXCEPT ![c] = controls[c] \cup {<<u, k>>}]
      BY <1>1, <1>2, <1>6, <2>2, <2>5 DEF PersistControls, SetBatch, TypeOK, NewControls
    <3> QED
      BY <2>1, <2>2, <3>1
  <2>6. CASE CollectControls(u, k)
    <3>1. batch[u][k] = "inserted" /\ st = "extracted" /\ controls' = controls
          /\ result' = [result EXCEPT ![u][k] = controls[c]]
      BY <1>1, <1>2, <1>6, <2>6 DEF CollectControls, SetBatch, TypeOK
    <3>2. result'[u][k] = controls[c]
      <4> DEFINE T == SUBSET Extractions
      <4>1. result \in [Uploads -> [1..MaxFiles -> T]]
        BY <1>1 DEF TypeOK
      <4> HIDE DEF T
      <4> QED
        BY <3>1, <4>1
    <3> QED
      BY <2>1, <3>1, <3>2
  <2> QED
    BY <2>3, <2>4, <2>5, <2>6
<1>10. ASSUME NEW v \in Uploads, NEW i \in 1..MaxFiles  PROVE ControlsOK(v, i)'
  <2>1. CASE v = u /\ i = k
    <3>1. FileAt(u, k)' = c
      BY <1>1, <1>2 DEF FileAt
    <3> QED
      BY <1>4, <1>6, <1>9, <2>1, <3>1 DEF ControlsOK
  <2>2. CASE ~(v = u /\ i = k) /\ batch[v][i] \in Extracting /\ run[v] = "running"
    <3>1. batch[v][i] # "none" /\ batch'[v][i] = batch[v][i] /\ result'[v][i] = result[v][i]
      BY <1>6, <1>8, <2>2 DEF Extracting
    <3>2. PICK d \in Contents : d = FileAt(v, i)
      BY <3>1, BatchFacts
    <3>3. FileAt(v, i)' = d /\ ControlsOK(v, i)
      BY <1>1, <3>2 DEF FileAt, ControlsInv
    <3>4. ASSUME ~SharedContent(v, d)', ~PlannedTwice(v, d)'
          PROVE  /\ batch[v][i] \in {"deleted", "read"} => controls'[d] = {}
                 /\ batch[v][i] \in {"inserted", "extracted"} => controls'[d] = {<<v, i>>}
                 /\ batch[v][i] = "extracted" => result[v][i] = {<<v, i>>}
      <4>1. ~SharedContent(v, d) /\ ~PlannedTwice(v, d)
        BY <1>4, <3>4
      <4>2. d # c
        BY <1>1, <1>2, <1>3, <2>2, <3>1, <3>2, <4>1, ExtractsAlone
      <4>3. controls'[d] = controls[d]
        BY <1>7, <4>2
      <4> QED
        BY <2>2, <3>2, <3>3, <4>1, <4>3 DEF ControlsOK
    <3> QED
      BY <3>1, <3>3, <3>4 DEF ControlsOK
  <2>3. CASE ~(v = u /\ i = k) /\ (batch[v][i] \notin Extracting \/ run[v] # "running")
    BY <1>1, <1>6, <2>3 DEF ControlsOK, Extracting
  <2> QED
    BY <2>1, <2>2, <2>3
<1> QED
  BY <1>10 DEF ControlsInv

(* Every step keeps ControlsInv.                                           *)
LEMMA ControlsStep ==
  ASSUME Finite, RowsInv, OnceInv, TurnInv, ControlsInv, [Next]_vars
  PROVE  ControlsInv'
<1>1. TypeOK
  BY DEF RowsInv
<1>2. ASSUME NEW u \in Uploads,
             \/ StartIngest(u) \/ CreateRun(u) \/ MakeDirectory(u) \/ FindRegistered(u)
             \/ PlaceFile(u) \/ DirectoryGone(u) \/ SelectDocument(u) \/ InsertConflict(u)
             \/ IngestRaises(u)
      PROVE  ControlsInv'
  <2>1. /\ UNCHANGED <<controls, result, batch>>
        /\ \A v \in Uploads : pc[v] # "idle" => req'[v] = req[v]
    BY <1>1, <1>2
    DEF StartIngest, CreateRun, MakeDirectory, FindRegistered, PlaceFile, DirectoryGone,
        SelectDocument, InsertConflict, IngestRaises, runVars, extVars, TypeOK
  <2>2. \A v \in Uploads : run[v] = "ended" => run'[v] = "ended"
    <3>1. PcOK(u)
      BY DEF RowsInv
    <3>2. run' = run \/ (run[u] # "ended" /\ run' = [run EXCEPT ![u] = CreatedStatus(u)])
      BY <1>2, <3>1
      DEF StartIngest, CreateRun, MakeDirectory, FindRegistered, PlaceFile, DirectoryGone,
          SelectDocument, InsertConflict, IngestRaises, runVars, PcOK
    <3> QED
      BY <1>1, <3>2 DEF TypeOK
  <2> QED
    BY <2>1, <2>2, ControlsStay
<1>3. ASSUME NEW u \in Uploads, CommitDocument(u)  PROVE ControlsInv'
  <2>1. /\ UNCHANGED <<controls, result, req, run>>
        /\ batch' = [batch EXCEPT ![u] = [batch[u] EXCEPT ![at[u]] = "registered"]]
    BY <1>3, CommitFacts
  <2>2. \A v \in Uploads, i \in 1..MaxFiles :
          batch'[v][i] = batch[v][i] \/ batch'[v][i] = "registered"
    BY <1>1, <2>1 DEF TypeOK
  <2> QED
    BY <2>1, <2>2, ControlsStay DEF Extracting
<1>4. ASSUME NEW u \in Uploads, FinishIngest(u) \/ EndRun(u)  PROVE ControlsInv'
  <2>1. UNCHANGED <<controls, result, req>>
    BY <1>4 DEF FinishIngest, EndRun, extVars, reqVars
  <2>2. \A v \in Uploads : run[v] = "ended" => run'[v] = "ended"
    <3>1. CASE FinishIngest(u)
      BY <1>1, <3>1 DEF FinishIngest, TypeOK
    <3>2. CASE EndRun(u)
      <4>1. CASE \A v \in Uploads \ {u} : run'[v] = run[v]
        BY <1>1, <3>2, <4>1, EndFacts
      <4>2. ASSUME NEW w \in Oldest(Org(u)), run[w] = "waiting",
                   \A v \in Uploads \ {u, w} : run'[v] = run[v]
            PROVE  \A v \in Uploads : run[v] = "ended" => run'[v] = "ended"
        BY <1>1, <3>2, <4>2, EndFacts
      <4> QED
        BY <1>1, <3>2, <4>1, <4>2, EndFacts
    <3> QED
      BY <1>4, <3>1, <3>2
  <2>3. ASSUME NEW v \in Uploads, NEW i \in 1..MaxFiles, batch'[v][i] \in Extracting
        PROVE  batch'[v][i] = batch[v][i]
    <3>1. batch' = batch \/ \E w \in Uploads : batch' = [batch EXCEPT ![w] = Planned(w)]
      BY <1>4 DEF FinishIngest, EndRun, Oldest, WaitingOf
    <3>2. batch'[v] = batch[v] \/ batch'[v] = Planned(v)
      BY <1>1, <3>1 DEF TypeOK
    <3> QED
      BY <1>1, <2>3, <3>2, PlannedFacts DEF Extracting
  <2> QED
    BY <2>1, <2>2, <2>3, ControlsStay
<1>5. ASSUME NEW u \in Uploads, ExtractStep(u)  PROVE ControlsInv'
  BY <1>5, ExtractKeepsControls DEF ExtractStep
<1>6. CASE UNCHANGED vars
  BY <1>6, ControlsStay DEF vars, reqVars, runVars, extVars
<1> QED
  BY <1>2, <1>3, <1>4, <1>5, <1>6 DEF Next, IngestStep

(* Theorem.  When the requests of an organisation come one at a time, the   *)
(* controls a run has extracted are its own and stay in the table until it  *)
(* has ended, although every extraction deletes those of its document.      *)
THEOREM RunsKeepTheirControls == ASSUME OneEach  PROVE Spec => []RunKeepsItsControls
<1> DEFINE IInv == RowsInv /\ OnceInv /\ TurnInv /\ ControlsInv
<1>1. Init => IInv
  BY RowsInit, OnceInit, TurnInit, ControlsInit DEF OneEach
<1>2. IInv /\ [Next]_vars => IInv'
  BY RowsStep, OnceStep, TurnStep, ControlsStep DEF OneEach, OnceInv
<1>3. IInv => RunKeepsItsControls
  <2>1. SUFFICES ASSUME ControlsInv, NEW u \in Uploads, NEW i \in 1..MaxFiles,
                        run[u] = "running", batch[u][i] = "extracted",
                        ~SharedContent(u, FileAt(u, i)), ~PlannedTwice(u, FileAt(u, i))
                 PROVE  result[u][i] = {<<u, i>>} /\ <<u, i>> \in controls[FileAt(u, i)]
    BY DEF RunKeepsItsControls
  <2>2. ControlsOK(u, i)
    BY <2>1 DEF ControlsInv
  <2> QED
    BY <2>1, <2>2 DEF ControlsOK
<1> QED
  BY <1>1, <1>2, <1>3, PTL DEF Spec
=============================================================================
