------------------------- MODULE OrgProfile_proofs -------------------------
(***************************************************************************)
(* Theorems about OrgProfile, for all sets of requests, organisations,     *)
(* slugs and fields and all bounds.                                        *)
(*                                                                         *)
(* Inv is the inductive invariant. RequestOK says what a request in        *)
(* progress may count on: its organisation, that the file it has written   *)
(* is still there, and that the name it has chosen was free. NamesOK bounds *)
(* the names in use, so that there is always a free one. RowsOK says that a *)
(* row of this host holds the upload it was made for, and FoldersOK that    *)
(* before the first renaming folders and slugs agree.                      *)
(***************************************************************************)
EXTENDS OrgProfile, SequenceTheorems, FiniteSetTheorems, WellFoundedInduction, TLAPS

Names    == 0..MaxUploads
DemoRows == [Fields -> Values \cup {NoValue}]
Steps    == {"idle", "insert", "tenant", "demography", "rename", "folders", "pick",
             "list", "flush", "row", "store"}
Requests == [pc : Steps, org : Orgs \cup {NoValue}, slug : Slugs \cup {NoValue},
             patch : Patches \cup {<<>>}, seen : {NoValue} \cup Nat \cup DemoRows,
             dest : Names, known : SUBSET Names]
Rows     == [org : Orgs, name : Names, path : Nat \X Slugs \X Names, upload : Nat]

Types ==
    /\ slug \in [Orgs -> Slugs \cup {NoValue}]
    /\ tenant \in [Orgs -> Slugs \cup {NoValue}]
    /\ demo \in [Orgs -> {NoValue} \cup DemoRows]
    /\ docs \in Seq(Rows)
    /\ disk \in [Slugs -> [Names -> Names]]
    /\ writes \in Names /\ renames \in 0..MaxRenames /\ host \in 0..MaxMoves
    /\ requests \in Nat
    /\ worker \in [Workers -> Requests]

\* A row, or a file, of upload u in file n of folder s.
Holds(s, n, u) == /\ disk[s][n] # 0
                  /\ disk[s][n] = u \/ <<s, n>> \in overwritten

RequestOK(w) ==
    /\ worker[w].pc \in {"idle", "insert"} => worker[w].org = NoValue
    /\ worker[w].pc \notin {"idle", "insert"} => worker[w].org \in Existing
    /\ worker[w].pc # "idle" => worker[w].slug \in Slugs
    /\ worker[w].pc = "flush" =>
         /\ worker[w].patch \in Patches
         /\ worker[w].seen # NoValue => demo[worker[w].org] \in DemoRows
    /\ worker[w].pc = "store" => /\ worker[w].dest <= writes
                                 /\ worker[w].dest \notin worker[w].known
    /\ worker[w].pc = "row" =>
         /\ worker[w].seen \in 1..writes
         /\ Holds(worker[w].slug, worker[w].dest, worker[w].seen)

RequestsOK == \A w \in Workers : RequestOK(w)

NamesOK == \A s \in Slugs : \A n \in FilesIn(s) : n < writes

RowsOK ==
    \A i \in DOMAIN docs :
        /\ docs[i].org \in Existing
        /\ docs[i].upload \in 1..writes
        /\ docs[i].path[1] <= host
        /\ docs[i].path[3] = docs[i].name

NewOrgsOK == \A o \in Orgs \ Existing : tenant[o] = NoValue /\ demo[o] = NoValue

Inv == Types /\ RequestsOK /\ NamesOK /\ RowsOK /\ NewOrgsOK

\* What holds when the database is copied only before the first renaming.
FoldersOK ==
    /\ \A i \in DOMAIN docs :
         /\ docs[i].path[1] = host
         /\ Holds(docs[i].path[2], docs[i].name, docs[i].upload)
         /\ renames = 0 => docs[i].path[2] = slug[docs[i].org]
    /\ renames = 0 => \A w \in Workers :
         worker[w].pc \in {"folders", "pick", "list", "store", "row"} =>
             worker[w].slug = slug[worker[w].org]

-----------------------------------------------------------------------------
(* Facts about names and sequences.                                        *)

(* A set of natural numbers with an element has a least one: of the        *)
(* intervals 0..n up to its elements one is strictly included in no other. *)
LEMMA LeastExists ==
    ASSUME NEW S \in SUBSET Nat, S # {}
    PROVE  \E x \in S : \A y \in S : x <= y
<1> DEFINE T == {0..n : n \in S}
           R == StrictSubsetOrdering(Nat)
<1>1. T \subseteq FiniteSubsetsOf(Nat)
  <2>1. ASSUME NEW n \in S  PROVE 0..n \in FiniteSubsetsOf(Nat)
    <3>1. n \in Int /\ 0..n \in SUBSET Nat
      OBVIOUS
    <3>2. IsFiniteSet(0..n)
      BY <3>1, FS_Interval
    <3> QED
      BY <3>1, <3>2 DEF FiniteSubsetsOf
  <2> QED
    BY <2>1
<1>2. T # {}
  OBVIOUS
<1>3. IsWellFoundedOn(R, FiniteSubsetsOf(Nat))
  BY FS_StrictSubsetOrderingWellFounded
<1> HIDE DEF T, R
<1>4. \E X \in T : \A Y \in T : ~(<<Y, X>> \in R)
  BY <1>1, <1>2, <1>3, WFMin
<1>5. PICK x \in S : \A y \in S : ~(<<0..y, 0..x>> \in R)
  BY <1>4 DEF T
<1>6. ASSUME NEW y \in S, ~(x <= y)  PROVE FALSE
  <2>1. 0..y \subseteq 0..x
    BY <1>6
  <2>2. x \in 0..x /\ x \notin 0..y
    BY <1>6
  <2>3. <<0..y, 0..x>> \in (SUBSET Nat) \X (SUBSET Nat)
    OBVIOUS
  <2>4. <<0..y, 0..x>> \in R
    BY <2>1, <2>2, <2>3 DEF R, StrictSubsetOrdering
  <2> QED
    BY <2>4, <1>5
<1> QED
  BY <1>6

(* _unique_upload_dest returns a name no file has, and no larger than the  *)
(* number of uploads written, as long as one may still be written.         *)
LEMMA FreeNameIsFree ==
    ASSUME Inv, writes < MaxUploads, NEW s \in Slugs
    PROVE  /\ FreeName(s) \in Names
           /\ FreeName(s) <= writes
           /\ FreeName(s) \notin FilesIn(s)
           /\ disk[s][FreeName(s)] = 0
<1> DEFINE free == Names \ FilesIn(s)
<1>1. writes \in free
  BY BoundsAssumption DEF Inv, Types, NamesOK, Names, FilesIn
<1>2. free \in SUBSET Nat
  BY BoundsAssumption DEF Names
<1>3. \E x \in free : \A y \in free : x <= y
  BY <1>1, <1>2, LeastExists
<1>4. /\ FreeName(s) \in free
      /\ \A y \in free : FreeName(s) <= y
  BY <1>3 DEF FreeName, Names, Min
<1> QED
  BY <1>1, <1>4 DEF FilesIn, Names

(* The rows a listing or a restart writes are again a sequence of rows.    *)
LEMMA MappedRows ==
    ASSUME NEW q \in Seq(Rows), NEW f, DOMAIN f = DOMAIN q,
           f = [i \in DOMAIN q |-> f[i]], \A i \in DOMAIN q : f[i] \in Rows
    PROVE  f \in Seq(Rows)
<1>1. DOMAIN q = 1..Len(q) /\ Len(q) \in Nat
  OBVIOUS
<1>2. f \in [1..Len(q) -> Rows]
  BY <1>1
<1> QED
  BY <1>1, <1>2, SeqDef

-----------------------------------------------------------------------------
(* The inductive invariant.                                                *)

(* The invariants hold at the start.                                       *)
LEMMA InitInv == Init => Inv /\ FoldersOK
<1> SUFFICES ASSUME Init  PROVE Inv /\ FoldersOK
  OBVIOUS
<1>1. docs = <<>> /\ DOMAIN docs = {} /\ docs \in Seq(Rows)
  BY DEF Init
<1>2. Idle \in Requests
  BY BoundsAssumption DEF Idle, Requests, Steps, Names
<1>3. Types
  BY <1>1, <1>2, BoundsAssumption DEF Init, Types, Names
<1>4. RequestsOK
  BY DEF Init, RequestsOK, RequestOK, Idle
<1>5. NamesOK /\ RowsOK /\ NewOrgsOK
  BY <1>1 DEF Init, NamesOK, RowsOK, NewOrgsOK, FilesIn
<1>6. FoldersOK
  BY <1>1 DEF Init, FoldersOK, Idle
<1> QED
  BY <1>3, <1>4, <1>5, <1>6 DEF Inv

(* A request that ends leaves nothing to be said about it.                 *)
LEMMA EndsFacts ==
    ASSUME NEW w \in Workers, worker \in [Workers -> Requests], Ends(w)
    PROVE  /\ worker' \in [Workers -> Requests]
           /\ worker'[w].pc = "idle" /\ worker'[w].org = NoValue
           /\ \A v \in Workers \ {w} : worker'[v] = worker[v]
<1>1. Idle \in Requests /\ Idle.pc = "idle" /\ Idle.org = NoValue
  BY BoundsAssumption DEF Idle, Requests, Steps, Names
<1> QED
  BY <1>1 DEF Ends

(* A request that goes on keeps its local variables.                       *)
LEMMA GoesFacts ==
    ASSUME NEW w \in Workers, NEW step \in Steps,
           worker \in [Workers -> Requests], Goes(w, step)
    PROVE  /\ worker' \in [Workers -> Requests]
           /\ worker'[w] = [worker[w] EXCEPT !.pc = step]
           /\ worker'[w].pc = step /\ worker'[w].org = worker[w].org
           /\ worker'[w].slug = worker[w].slug
           /\ \A v \in Workers \ {w} : worker'[v] = worker[v]
<1>1. worker[w] \in Requests
  OBVIOUS
<1>2. [worker[w] EXCEPT !.pc = step] \in Requests
  BY <1>1 DEF Requests
<1>3. worker' = [worker EXCEPT ![w] = [worker[w] EXCEPT !.pc = step]]
  BY DEF Goes
<1> QED
  BY <1>1, <1>2, <1>3 DEF Requests

(* A request that begins on an organisation, or to create one.             *)
LEMMA BeginsInv ==
    ASSUME Inv, NEW w \in Workers, NEW step \in Steps,
           NEW o \in Orgs \cup {NoValue}, NEW s \in Slugs, Begins(w, step, o, s),
           \/ step = "insert" /\ o = NoValue
           \/ step \in {"demography", "rename", "folders"} /\ o \in Existing
    PROVE  Inv'
<1> DEFINE new == [Idle EXCEPT !.pc = step, !.org = o, !.slug = s]
<1>1. new \in Requests /\ new.pc = step /\ new.org = o /\ new.slug = s
  <2>1. Idle \in Requests
    BY BoundsAssumption DEF Idle, Requests, Steps, Names
  <2>2. new \in Requests
    BY <2>1 DEF Requests
  <2>3. new.pc = step /\ new.org = o /\ new.slug = s
    BY <2>1 DEF Requests
  <2> QED
    BY <2>2, <2>3
<1>2. worker' = [worker EXCEPT ![w] = new]
  BY DEF Begins
<1> HIDE DEF new
<1>3. /\ worker' \in [Workers -> Requests]
      /\ worker'[w] = new /\ \A v \in Workers \ {w} : worker'[v] = worker[v]
  BY <1>1, <1>2 DEF Inv, Types
<1>4. Types'
  BY <1>3 DEF Inv, Types, Begins, orgVars, fileVars
<1>5. RequestsOK'
  <2>1. UNCHANGED <<slug, demo, writes, disk, overwritten>>
    BY DEF Begins, orgVars, fileVars
  <2> SUFFICES ASSUME NEW v \in Workers  PROVE RequestOK(v)'
    BY DEF RequestsOK
  <2>2. CASE v = w
    BY <1>1, <1>3, <2>1, <2>2 DEF RequestOK, Existing
  <2>3. CASE v # w
    BY <1>3, <2>1, <2>3 DEF Inv, RequestsOK, RequestOK, Existing, Holds
  <2> QED
    BY <2>2, <2>3
<1>6. (NamesOK /\ RowsOK /\ NewOrgsOK)'
  BY DEF Inv, NamesOK, RowsOK, NewOrgsOK, Begins, orgVars, fileVars, FilesIn, Existing
<1> QED
  BY <1>4, <1>5, <1>6 DEF Inv

(* What a step must leave true for the requests of the others.             *)
LEMMA OthersOK ==
    ASSUME Inv, NEW w \in Workers, RequestOK(w)',
           \A v \in Workers \ {w} : worker'[v] = worker[v],
           writes' \in Nat, writes <= writes', Existing \subseteq Existing',
           \A o \in Orgs : demo[o] \in DemoRows => demo'[o] \in DemoRows,
           \A s \in Slugs, n \in Names, u \in Nat : Holds(s, n, u) => Holds(s, n, u)'
    PROVE  RequestsOK'
<1> SUFFICES ASSUME NEW v \in Workers, v # w  PROVE RequestOK(v)'
  BY DEF RequestsOK
<1>1. worker'[v] = worker[v] /\ RequestOK(v)
  BY DEF Inv, RequestsOK
<1>2. /\ worker[v] \in Requests /\ worker[v].dest \in Names
      /\ writes \in Nat /\ worker[v].dest \in Nat
  BY BoundsAssumption DEF Inv, Types, Requests, Names
<1>3. worker[v].pc = "row" =>
        /\ worker[v].seen \in 1..writes'
        /\ Holds(worker[v].slug, worker[v].dest, worker[v].seen)'
  BY <1>1, <1>2 DEF RequestOK
<1>4. worker[v].pc = "flush" => (worker[v].seen # NoValue => demo'[worker[v].org] \in DemoRows)
  BY <1>1 DEF RequestOK, Existing
<1> QED
  BY <1>1, <1>2, <1>3, <1>4 DEF RequestOK

(* A step that changes nothing but the request it belongs to.              *)
LEMMA OwnStep ==
    ASSUME Inv, NEW w \in Workers, RequestOK(w)',
           worker' \in [Workers -> Requests],
           \A v \in Workers \ {w} : worker'[v] = worker[v],
           UNCHANGED <<orgVars, demo, fileVars, host, renames, requests>>
    PROVE  Inv'
<1>1. Types'
  BY DEF Inv, Types, orgVars, fileVars
<1>2. UNCHANGED <<slug, tenant, demo, docs, disk, host, writes, overwritten>>
  BY DEF orgVars, fileVars
<1>3. /\ writes \in Nat /\ Existing' = Existing
      /\ \A s, n, u : Holds(s, n, u) => Holds(s, n, u)'
  BY <1>2, BoundsAssumption DEF Inv, Types, Names, Existing, Holds
<1>4. RequestsOK'
  BY <1>2, <1>3, OthersOK
<1>5. (NamesOK /\ RowsOK /\ NewOrgsOK)'
  BY <1>2, <1>3 DEF Inv, NamesOK, RowsOK, NewOrgsOK, FilesIn
<1> QED
  BY <1>1, <1>4, <1>5 DEF Inv

(* A file written under a name that is not above the number of uploads: it *)
(* holds the upload, and every other file still holds its own.             *)
LEMMA StoredFacts ==
    ASSUME Inv, NEW s \in Slugs, NEW n \in Names, n <= writes,
           writes < MaxUploads, Stored(s, n)
    PROVE  /\ disk' \in [Slugs -> [Names -> Names]]
           /\ writes' \in Names /\ writes' = writes + 1
           /\ disk'[s][n] = writes + 1
           /\ \A r \in Slugs, m \in Names, u \in Nat : Holds(r, m, u) => Holds(r, m, u)'
           /\ NamesOK'
<1>1. /\ writes \in Nat /\ MaxUploads \in Nat /\ writes + 1 \in Names /\ writes + 1 # 0
      /\ disk \in [Slugs -> [Names -> Names]] /\ writes' = writes + 1
  BY BoundsAssumption DEF Inv, Types, Names, Stored
<1>2. disk' = [disk EXCEPT ![s] = [disk[s] EXCEPT ![n] = writes + 1]]
  BY DEF Stored
<1>3. disk' \in [Slugs -> [Names -> Names]]
  BY <1>1, <1>2
<1>4. /\ disk'[s][n] = writes + 1
      /\ \A r \in Slugs, m \in Names : <<r, m>> # <<s, n>> => disk'[r][m] = disk[r][m]
  BY <1>1, <1>2
<1>5. \A x \in overwritten : x \in overwritten'
  BY DEF Stored
<1>6. disk[s][n] # 0 => <<s, n>> \in overwritten'
  BY DEF Stored, FilesIn, Names
<1>7. \A r \in Slugs, m \in Names, u \in Nat : Holds(r, m, u) => Holds(r, m, u)'
  BY <1>1, <1>4, <1>5, <1>6 DEF Holds
<1>8. NamesOK'
  <2> SUFFICES ASSUME NEW r \in Slugs, NEW m \in Names, disk'[r][m] # 0  PROVE m < writes'
    BY DEF NamesOK, FilesIn, Names
  <2>1. CASE <<r, m>> = <<s, n>>
    <3>1. m = n /\ n \in Nat
      BY <2>1 DEF Names
    <3> QED
      BY <3>1, <1>1
  <2>2. CASE <<r, m>> # <<s, n>>
    <3>1. m \in FilesIn(r) /\ m \in Nat
      BY <2>2, <1>4 DEF FilesIn, Names
    <3>2. m < writes
      BY <3>1 DEF Inv, NamesOK
    <3> QED
      BY <3>1, <3>2, <1>1
  <2> QED
    BY <2>1, <2>2
<1> QED
  BY <1>1, <1>3, <1>4, <1>7, <1>8

-----------------------------------------------------------------------------
(* Every step keeps the invariant.                                         *)

(* A request starts with what its organisation has.                        *)
LEMMA StartStep ==
    ASSUME Inv, NEW w \in Workers, StartCreate(w) \/ StartUpdate(w) \/ StartOnFolder(w)
    PROVE  Inv'
<1>1. \A o \in Existing : slug[o] \in Slugs /\ o \in Orgs
  BY DEF Inv, Types, Existing
<1>2. {"insert", "demography", "rename", "folders"} \subseteq Steps
  BY DEF Steps
<1>3. CASE StartCreate(w)
  BY <1>2, <1>3, BeginsInv DEF StartCreate
<1>4. CASE StartUpdate(w)
  BY <1>1, <1>2, <1>4, BeginsInv DEF StartUpdate
<1>5. CASE StartOnFolder(w)
  BY <1>1, <1>2, <1>5, BeginsInv DEF StartOnFolder
<1> QED
  BY <1>3, <1>4, <1>5

(* A request that ends, or goes on to a step that asks for no more than the *)
(* organisation and the slug it has.                                       *)
LEMMA EndsOK ==
    ASSUME Inv, NEW w \in Workers, Ends(w)
    PROVE  RequestOK(w)'
BY EndsFacts DEF Inv, Types, RequestOK

(* A request that goes on to a step meets what the step counts on.         *)
LEMMA GoesOK ==
    ASSUME Inv, NEW w \in Workers,
           NEW step \in {"tenant", "demography", "rename", "folders", "pick", "list"},
           Goes(w, step), worker[w].pc \notin {"idle", "insert"},
           Existing \subseteq Existing'
    PROVE  RequestOK(w)'
<1>1. step \in Steps
  BY DEF Steps
<1>2. RequestOK(w)
  BY DEF Inv, RequestsOK
<1> QED
  BY <1>1, <1>2, GoesFacts DEF Inv, Types, RequestOK

(* Steps that only read, or give up.                                       *)
LEMMA QuietStep ==
    ASSUME Inv, NEW w \in Workers,
           SyncFolders(w) \/ ReadDemography(w) \/ PickName(w) \/ Abort(w)
    PROVE  Inv'
<1>1. worker \in [Workers -> Requests] /\ RequestOK(w)
  BY DEF Inv, Types, RequestsOK
<1>2. CASE SyncFolders(w)
  <2>1. CASE Ends(w)
    BY <1>2, <2>1, <1>1, EndsFacts, EndsOK, OwnStep DEF SyncFolders
  <2>2. CASE \E step \in {"pick", "list"} : Goes(w, step)
    <3>1. PICK step \in {"pick", "list"} : Goes(w, step)
      BY <2>2
    <3>2. step \in Steps /\ worker[w].pc = "folders" /\ Existing' = Existing
      BY <1>2 DEF Steps, SyncFolders, orgVars, Existing
    <3>3. RequestOK(w)'
      BY <3>1, <3>2, GoesOK
    <3> QED
      BY <1>1, <1>2, <3>1, <3>2, <3>3, GoesFacts, OwnStep DEF SyncFolders
  <2> QED
    BY <1>2, <2>1, <2>2 DEF SyncFolders
<1>3. CASE ReadDemography(w)
  <2>1. PICK patch \in Patches :
          worker' = [worker EXCEPT ![w].pc = "flush", ![w].patch = patch,
                                   ![w].seen = demo[worker[w].org]]
    BY <1>3 DEF ReadDemography
  <2>2. /\ worker[w].org \in Existing /\ worker[w].org \in Orgs
        /\ worker[w].slug \in Slugs /\ worker[w] \in Requests
        /\ demo[worker[w].org] \in {NoValue} \cup DemoRows
    BY <1>1, <1>3 DEF ReadDemography, RequestOK, Inv, Types, Existing
  <2> DEFINE new == [worker[w] EXCEPT !.pc = "flush", !.patch = patch,
                                      !.seen = demo[worker[w].org]]
  <2>3. new \in Requests
    BY <2>2 DEF Requests, Steps
  <2>4. /\ new.pc = "flush" /\ new.patch = patch /\ new.seen = demo[worker[w].org]
        /\ new.org = worker[w].org /\ new.slug = worker[w].slug
    BY <2>2 DEF Requests
  <2>5. worker' = [worker EXCEPT ![w] = new]
    BY <2>1
  <2> HIDE DEF new
  <2>6. /\ worker' \in [Workers -> Requests] /\ worker'[w] = new
        /\ \A v \in Workers \ {w} : worker'[v] = worker[v]
    BY <1>1, <2>3, <2>5
  <2>7. Existing' = Existing /\ demo' = demo
    BY <1>3 DEF ReadDemography, orgVars, Existing
  <2>8. RequestOK(w)'
    BY <2>2, <2>4, <2>6, <2>7 DEF RequestOK
  <2> QED
    BY <1>3, <2>6, <2>8, OwnStep DEF ReadDemography
<1>4. CASE PickName(w)
  <2> DEFINE s == worker[w].slug
             new == [worker[w] EXCEPT !.pc = "store", !.dest = FreeName(s),
                                      !.known = FilesIn(s)]
  <2>1. /\ worker[w].org \in Existing /\ s \in Slugs /\ worker[w] \in Requests
        /\ writes < MaxUploads
    BY <1>1, <1>4 DEF PickName, RequestOK
  <2>2. FreeName(s) \in Names /\ FreeName(s) <= writes /\ FreeName(s) \notin FilesIn(s)
    BY <2>1, FreeNameIsFree
  <2>3. FilesIn(s) \in SUBSET Names
    BY DEF FilesIn, Names
  <2>4. new \in Requests
    BY <2>1, <2>2, <2>3 DEF Requests, Steps
  <2>5. /\ new.pc = "store" /\ new.dest = FreeName(s) /\ new.known = FilesIn(s)
        /\ new.org = worker[w].org /\ new.slug = worker[w].slug
    BY <2>1 DEF Requests
  <2>6. worker' = [worker EXCEPT ![w] = new]
    BY <1>4 DEF PickName
  <2> HIDE DEF new
  <2>7. /\ worker' \in [Workers -> Requests] /\ worker'[w] = new
        /\ \A v \in Workers \ {w} : worker'[v] = worker[v]
    BY <1>1, <2>4, <2>6
  <2>8. Existing' = Existing /\ writes' = writes
    BY <1>4 DEF PickName, orgVars, fileVars, Existing
  <2>9. RequestOK(w)'
    BY <2>1, <2>2, <2>5, <2>7, <2>8 DEF RequestOK
  <2> QED
    BY <1>4, <2>7, <2>9, OwnStep DEF PickName
<1>5. CASE Abort(w)
  BY <1>1, <1>5, EndsFacts, EndsOK, OwnStep DEF Abort
<1> QED
  BY <1>2, <1>3, <1>4, <1>5

(* The steps that change organisations, tenants and the demography.        *)
LEMMA OrgStep ==
    ASSUME Inv, NEW w \in Workers,
           \/ InsertOrg(w) \/ Rename(w) \/ MakeTenant(w)
           \/ InsertDemography(w) \/ UpdateDemography(w)
    PROVE  Inv'
<1>1. /\ worker \in [Workers -> Requests] /\ RequestOK(w) /\ worker[w] \in Requests
      /\ writes \in Nat
      /\ slug \in [Orgs -> Slugs \cup {NoValue}] /\ tenant \in [Orgs -> Slugs \cup {NoValue}]
      /\ demo \in [Orgs -> {NoValue} \cup DemoRows]
  BY DEF Inv, Types, RequestsOK, Names
<1>2. CASE InsertOrg(w)
  <2>1. PICK o \in Orgs \ Existing :
          /\ slug' = [slug EXCEPT ![o] = worker[w].slug]
          /\ worker' = [worker EXCEPT ![w].org = o, ![w].pc = "tenant"]
    BY <1>2 DEF InsertOrg
  <2>2. worker[w].slug \in Slugs /\ worker[w].slug # NoValue
    BY <1>1, <1>2, NoValueAssumption DEF InsertOrg, RequestOK
  <2>3. /\ slug' \in [Orgs -> Slugs \cup {NoValue}]
        /\ Existing \subseteq Existing' /\ o \in Existing'
    BY <1>1, <2>1, <2>2 DEF Existing
  <2> DEFINE new == [worker[w] EXCEPT !.org = o, !.pc = "tenant"]
  <2>4. new \in Requests
    BY <1>1 DEF Requests, Steps
  <2>5. new.pc = "tenant" /\ new.org = o /\ new.slug = worker[w].slug
    BY <1>1 DEF Requests
  <2>6. worker' = [worker EXCEPT ![w] = new]
    BY <2>1
  <2> HIDE DEF new
  <2>7. /\ worker' \in [Workers -> Requests] /\ worker'[w] = new
        /\ \A v \in Workers \ {w} : worker'[v] = worker[v]
    BY <1>1, <2>4, <2>6
  <2>8. UNCHANGED <<tenant, demo, docs, disk, writes, overwritten, host, renames, requests>>
    BY <1>2 DEF InsertOrg, fileVars
  <2>9. RequestOK(w)'
    BY <2>2, <2>3, <2>5, <2>7 DEF RequestOK
  <2>10. RequestsOK'
    BY <1>1, <2>3, <2>7, <2>8, <2>9, OthersOK DEF Holds
  <2>11. Types'
    BY <2>3, <2>7, <2>8 DEF Inv, Types
  <2>12. (NamesOK /\ RowsOK /\ NewOrgsOK)'
    BY <2>3, <2>8 DEF Inv, NamesOK, RowsOK, NewOrgsOK, FilesIn
  <2> QED
    BY <2>10, <2>11, <2>12 DEF Inv
<1>3. CASE Rename(w)
  <2>1. /\ slug' = [slug EXCEPT ![worker[w].org] = worker[w].slug]
        /\ Goes(w, "demography") /\ worker[w].pc = "rename"
        /\ renames < MaxRenames /\ renames' = renames + 1
        /\ UNCHANGED <<tenant, demo, docs, disk, writes, overwritten, host, requests>>
    BY <1>3 DEF Rename, fileVars
  <2>2. worker[w].slug \in Slugs /\ worker[w].slug # NoValue
    BY <1>1, <2>1, NoValueAssumption DEF RequestOK
  <2>3. slug' \in [Orgs -> Slugs \cup {NoValue}] /\ Existing \subseteq Existing'
    BY <1>1, <2>1, <2>2 DEF Existing
  <2>4. RequestOK(w)'
    BY <2>1, <2>3, GoesOK
  <2>5. "demography" \in Steps
    BY DEF Steps
  <2>6. \A v \in Workers \ {w} : worker'[v] = worker[v]
    BY <1>1, <2>1, <2>5, GoesFacts
  <2>7. RequestsOK'
    BY <1>1, <2>1, <2>3, <2>4, <2>6, OthersOK DEF Holds
  <2>8. renames' \in 0..MaxRenames
    BY <2>1, BoundsAssumption DEF Inv, Types
  <2>9. worker' \in [Workers -> Requests]
    BY <1>1, <2>1, <2>5, GoesFacts
  <2>10. Types'
    BY <2>1, <2>3, <2>8, <2>9 DEF Inv, Types
  <2>11. (NamesOK /\ RowsOK /\ NewOrgsOK)'
    BY <2>1, <2>3 DEF Inv, NamesOK, RowsOK, NewOrgsOK, FilesIn
  <2> QED
    BY <2>10, <2>11, <2>7 DEF Inv
<1>4. CASE MakeTenant(w)
  <2>1. PICK id \in Slugs :
          /\ Goes(w, "demography") \/ Ends(w)
          /\ tenant' = IF \E o \in Orgs : tenant[o] = id THEN tenant
                       ELSE [tenant EXCEPT ![worker[w].org] = id]
    BY <1>4 DEF MakeTenant
  <2>2. /\ worker[w].pc = "tenant" /\ worker[w].org \in Existing
        /\ UNCHANGED <<slug, demo, docs, disk, writes, overwritten, host, renames, requests>>
        /\ Existing' = Existing
    BY <1>1, <1>4 DEF MakeTenant, RequestOK, fileVars, Existing
  <2>3. /\ tenant' \in [Orgs -> Slugs \cup {NoValue}]
        /\ \A o \in Orgs \ Existing : tenant'[o] = tenant[o]
    BY <1>1, <2>1, <2>2 DEF Existing
  <2>4. "demography" \in Steps
    BY DEF Steps
  <2>5. RequestOK(w)'
    BY <2>1, <2>2, GoesOK, EndsOK
  <2>6. /\ worker' \in [Workers -> Requests]
        /\ \A v \in Workers \ {w} : worker'[v] = worker[v]
    BY <1>1, <2>1, <2>4, GoesFacts, EndsFacts
  <2>7. RequestsOK'
    BY <1>1, <2>2, <2>5, <2>6, OthersOK DEF Holds
  <2>8. Types'
    BY <2>2, <2>3, <2>6 DEF Inv, Types
  <2>9. (NamesOK /\ RowsOK /\ NewOrgsOK)'
    BY <2>2, <2>3 DEF Inv, NamesOK, RowsOK, NewOrgsOK, FilesIn
  <2> QED
    BY <2>7, <2>8, <2>9 DEF Inv
<1>5. CASE InsertDemography(w) \/ UpdateDemography(w)
  <2>1. /\ worker[w].pc = "flush" /\ worker[w].org \in Existing /\ worker[w].org \in Orgs
        /\ worker[w].patch \in Patches /\ Ends(w)
        /\ UNCHANGED <<slug, tenant, docs, disk, writes, overwritten, host, renames, requests>>
        /\ Existing' = Existing
    BY <1>1, <1>5 DEF InsertDemography, UpdateDemography, RequestOK, orgVars, fileVars, Existing
  <2>2. PICK row : row \in DemoRows /\ demo' = [demo EXCEPT ![worker[w].org] = row]
    <3>1. PICK F \in SUBSET Fields : worker[w].patch \in [F -> Values]
      BY <2>1 DEF Patches
    <3>2. CASE InsertDemography(w)
      <4>1. Inserted(worker[w].patch) \in DemoRows
        BY <3>1 DEF DemoRows, Inserted
      <4> QED
        BY <3>2, <4>1 DEF InsertDemography
    <3>3. CASE UpdateDemography(w)
      <4>1. demo[worker[w].org] \in DemoRows
        BY <1>1, <3>3 DEF UpdateDemography, RequestOK
      <4> DEFINE row == Flushed(demo[worker[w].org], worker[w].seen, worker[w].patch)
      <4>2. row \in DemoRows
        BY <3>1, <4>1 DEF DemoRows, Flushed
      <4> QED
        BY <3>3, <4>2 DEF UpdateDemography
    <3> QED
      BY <1>5, <3>2, <3>3
  <2>3. /\ demo' \in [Orgs -> {NoValue} \cup DemoRows]
        /\ \A o \in Orgs : demo[o] \in DemoRows => demo'[o] \in DemoRows
        /\ \A o \in Orgs \ Existing : demo'[o] = demo[o]
    BY <1>1, <2>1, <2>2
  <2>4. RequestOK(w)'
    BY <2>1, EndsOK
  <2>5. /\ worker' \in [Workers -> Requests]
        /\ \A v \in Workers \ {w} : worker'[v] = worker[v]
    BY <1>1, <2>1, EndsFacts
  <2>6. RequestsOK'
    BY <1>1, <2>1, <2>3, <2>4, <2>5, OthersOK DEF Holds
  <2>7. Types'
    BY <2>1, <2>3, <2>5 DEF Inv, Types
  <2>8. (NamesOK /\ RowsOK /\ NewOrgsOK)'
    BY <2>1, <2>3 DEF Inv, NamesOK, RowsOK, NewOrgsOK, FilesIn
  <2> QED
    BY <2>6, <2>7, <2>8 DEF Inv
<1> QED
  BY <1>2, <1>3, <1>4, <1>5

(* The steps that write a file.                                            *)
LEMMA StoreStep ==
    ASSUME Inv, NEW w \in Workers, StoreSmall(w) \/ StoreSpooled(w)
    PROVE  Inv'
<1> DEFINE s == worker[w].slug
<1>1. /\ worker \in [Workers -> Requests] /\ RequestOK(w) /\ worker[w] \in Requests
      /\ writes \in Nat /\ writes + 1 \in Nat
  BY DEF Inv, Types, RequestsOK, Names
<1>2. PICK n \in Names, known \in SUBSET Names :
        /\ n <= writes /\ Stored(s, n)
        /\ worker' = [worker EXCEPT ![w] = [worker[w] EXCEPT !.pc = "row", !.dest = n,
                                                !.known = known, !.seen = writes + 1]]
  <2>1. CASE StoreSmall(w)
    <3>1. FreeName(s) \in Names /\ FreeName(s) <= writes
      BY <1>1, <2>1, FreeNameIsFree DEF StoreSmall, RequestOK
    <3>2. FilesIn(s) \in SUBSET Names
      BY DEF FilesIn, Names
    <3> QED
      BY <1>1, <2>1, <3>1, <3>2 DEF StoreSmall
  <2>2. CASE StoreSpooled(w)
    <3>1. worker[w].dest \in Names /\ worker[w].dest <= writes /\ worker[w].known \in SUBSET Names
      BY <1>1, <2>2 DEF StoreSpooled, RequestOK, Requests
    <3> DEFINE new == [worker[w] EXCEPT !.pc = "row", !.seen = writes + 1]
               same == [worker[w] EXCEPT !.pc = "row", !.dest = worker[w].dest,
                                         !.known = worker[w].known, !.seen = writes + 1]
    <3>2. new = same
      BY <1>1 DEF Requests
    <3>3. worker' = [worker EXCEPT ![w] = new] /\ Stored(s, worker[w].dest)
      BY <2>2 DEF StoreSpooled
    <3> QED
      BY <3>1, <3>2, <3>3
  <2> QED
    BY <2>1, <2>2
<1>3. /\ worker[w].org \in Existing /\ s \in Slugs /\ writes < MaxUploads
      /\ UNCHANGED <<slug, tenant, demo, docs, host, renames, requests>>
      /\ Existing' = Existing
  BY <1>1 DEF StoreSmall, StoreSpooled, RequestOK, orgVars, Existing
<1>4. /\ disk' \in [Slugs -> [Names -> Names]]
      /\ writes' \in Names /\ writes' = writes + 1
      /\ disk'[s][n] = writes + 1
      /\ \A r \in Slugs, m \in Names, u \in Nat : Holds(r, m, u) => Holds(r, m, u)'
      /\ NamesOK'
  BY <1>2, <1>3, StoredFacts
<1>5. /\ worker' \in [Workers -> Requests]
      /\ worker'[w].pc = "row" /\ worker'[w].dest = n /\ worker'[w].seen = writes + 1
      /\ worker'[w].org = worker[w].org /\ worker'[w].slug = s
      /\ \A v \in Workers \ {w} : worker'[v] = worker[v]
  <2> DEFINE new == [worker[w] EXCEPT !.pc = "row", !.dest = n,
                                      !.known = known, !.seen = writes + 1]
  <2>1. new \in Requests
    BY <1>1 DEF Requests, Steps
  <2>2. /\ new.pc = "row" /\ new.dest = n /\ new.seen = writes + 1
        /\ new.org = worker[w].org /\ new.slug = s
    BY <1>1 DEF Requests
  <2>3. worker' = [worker EXCEPT ![w] = new]
    BY <1>2
  <2> HIDE DEF new
  <2> QED
    BY <1>1, <2>1, <2>2, <2>3
<1>6. RequestOK(w)'
  BY <1>1, <1>3, <1>4, <1>5 DEF RequestOK, Holds
<1>7. RequestsOK'
  BY <1>1, <1>3, <1>4, <1>5, <1>6, OthersOK
<1>8. Types'
  BY <1>3, <1>4, <1>5 DEF Inv, Types
<1>9. (RowsOK /\ NewOrgsOK)'
  BY <1>1, <1>3, <1>4 DEF Inv, RowsOK, NewOrgsOK
<1> QED
  BY <1>4, <1>7, <1>8, <1>9 DEF Inv

\* Row i, its path resolved on host h with folder s.
Resolved(i, s, h) == [docs[i] EXCEPT !.path = Resolve(docs[i], s, h)]

(* A row with its path resolved is a row of the host, the same but for the *)
(* path.                                                                   *)
LEMMA ResolvedRow ==
    ASSUME Inv, NEW i \in DOMAIN docs, NEW s \in Slugs, NEW h \in Nat, host <= h
    PROVE  /\ Resolved(i, s, h) \in Rows
           /\ Resolved(i, s, h).org = docs[i].org
           /\ Resolved(i, s, h).upload = docs[i].upload
           /\ Resolved(i, s, h).path[1] <= h
           /\ Resolved(i, s, h).path[3] = Resolved(i, s, h).name
<1> DEFINE path == Resolve(docs[i], s, h)
<1>1. docs[i] \in Rows /\ host \in Nat
  BY BoundsAssumption DEF Inv, Types
<1>2. /\ docs[i].path \in Nat \X Slugs \X Names /\ docs[i].name \in Names
      /\ docs[i].path[1] <= host /\ docs[i].path[3] = docs[i].name
  BY <1>1 DEF Rows, Inv, RowsOK
<1>3. <<h, s, docs[i].name>> \in Nat \X Slugs \X Names
  BY <1>2
<1>4. path = docs[i].path \/ path = <<h, s, docs[i].name>>
  BY DEF Resolve
<1>5. path \in Nat \X Slugs \X Names /\ path[3] = docs[i].name
  BY <1>2, <1>3, <1>4
<1>6. path[1] <= h
  BY <1>1, <1>2, <1>4
<1> DEFINE new == Resolved(i, s, h)
<1>7. new = [docs[i] EXCEPT !.path = path]
  BY DEF Resolved
<1> HIDE DEF path, new
<1>8. /\ new \in Rows /\ new.org = docs[i].org /\ new.upload = docs[i].upload
      /\ new.name = docs[i].name /\ new.path = path
  BY <1>1, <1>5, <1>7 DEF Rows
<1> QED
  BY <1>5, <1>6, <1>8 DEF new

(* The steps that write rows of control_documents.                         *)
LEMMA DocumentStep ==
    ASSUME Inv, NEW w \in Workers, CommitDocument(w) \/ ListDocuments(w)
    PROVE  Inv'
<1>1. /\ worker \in [Workers -> Requests] /\ RequestOK(w) /\ worker[w] \in Requests
      /\ writes \in Nat /\ host \in Nat /\ docs \in Seq(Rows)
      /\ UNCHANGED <<slug, tenant, demo, disk, writes, overwritten, host, renames, requests>>
      /\ Existing' = Existing
  BY BoundsAssumption
     DEF Inv, Types, RequestsOK, Names, CommitDocument, ListDocuments, orgVars, Existing
<1>2. /\ worker[w].org \in Existing /\ worker[w].slug \in Slugs
      /\ worker[w].pc \in {"row", "list"}
  BY <1>1 DEF CommitDocument, ListDocuments, RequestOK
<1>3. Ends(w) \/ Goes(w, "pick")
  BY DEF CommitDocument, ListDocuments
<1>4. "pick" \in Steps
  BY DEF Steps
<1>5. /\ worker' \in [Workers -> Requests]
      /\ \A v \in Workers \ {w} : worker'[v] = worker[v]
  BY <1>1, <1>3, <1>4, EndsFacts, GoesFacts
<1>6. RequestOK(w)'
  BY <1>1, <1>2, <1>3, EndsOK, GoesOK
<1>7. RequestsOK'
  BY <1>1, <1>5, <1>6, OthersOK DEF Holds
<1>8. docs' \in Seq(Rows) /\ RowsOK'
  <2>1. CASE CommitDocument(w)
    <3> DEFINE d == [org |-> worker[w].org, name |-> worker[w].dest,
                     path |-> <<host, worker[w].slug, worker[w].dest>>,
                     upload |-> worker[w].seen]
    <3>1. /\ worker[w].dest \in Names /\ worker[w].org \in Orgs
          /\ worker[w].seen \in 1..writes
      BY <1>1, <1>2, <2>1 DEF Requests, Existing, CommitDocument, RequestOK
    <3>2. d \in Rows /\ d.org \in Existing /\ d.upload \in 1..writes
          /\ d.path[1] <= host /\ d.path[3] = d.name
      BY <1>1, <1>2, <3>1 DEF Rows
    <3>3. docs' = Append(docs, d)
      BY <2>1 DEF CommitDocument
    <3> HIDE DEF d
    <3>4. /\ docs' \in Seq(Rows) /\ DOMAIN docs' = 1..Len(docs) + 1
          /\ \A i \in 1..Len(docs) : docs'[i] = docs[i]
          /\ docs'[Len(docs) + 1] = d
      BY <1>1, <3>2, <3>3
    <3>5. DOMAIN docs = 1..Len(docs) /\ Len(docs) \in Nat
      BY <1>1
    <3>6. RowsOK'
      <4> SUFFICES ASSUME NEW i \in DOMAIN docs'
                   PROVE  /\ docs'[i].org \in Existing
                          /\ docs'[i].upload \in 1..writes
                          /\ docs'[i].path[1] <= host
                          /\ docs'[i].path[3] = docs'[i].name
        BY <1>1 DEF RowsOK
      <4>1. CASE i \in DOMAIN docs
        BY <3>4, <3>5, <4>1 DEF Inv, RowsOK
      <4>2. CASE i = Len(docs) + 1
        BY <3>2, <3>4, <4>2
      <4> QED
        BY <3>4, <3>5, <4>1, <4>2
    <3> QED
      BY <3>4, <3>6
  <2>2. CASE ListDocuments(w)
    <3>1. \A i \in DOMAIN docs :
            /\ docs'[i] \in Rows /\ docs'[i].org = docs[i].org
            /\ docs'[i].upload = docs[i].upload
            /\ docs'[i].path[1] <= host /\ docs'[i].path[3] = docs'[i].name
      <4> SUFFICES ASSUME NEW i \in DOMAIN docs
                   PROVE  /\ docs'[i] \in Rows /\ docs'[i].org = docs[i].org
                          /\ docs'[i].upload = docs[i].upload
                          /\ docs'[i].path[1] <= host /\ docs'[i].path[3] = docs'[i].name
        OBVIOUS
      <4>1. CASE docs[i].org # worker[w].org
        BY <1>1, <2>2, <4>1 DEF ListDocuments, Inv, RowsOK
      <4>2. CASE docs[i].org = worker[w].org
        <5>1. docs'[i] = Resolved(i, worker[w].slug, host)
          BY <2>2, <4>2 DEF ListDocuments, Resolved
        <5>2. worker[w].slug \in Slugs /\ host \in Nat /\ host <= host
          BY <1>1, <1>2
        <5> QED
          BY <5>1, <5>2, ResolvedRow
      <4> QED
        BY <4>1, <4>2
    <3>2. DOMAIN docs' = DOMAIN docs /\ docs' = [i \in DOMAIN docs |-> docs'[i]]
      BY <2>2 DEF ListDocuments
    <3>3. docs' \in Seq(Rows)
      BY <1>1, <3>1, <3>2, MappedRows
    <3>4. RowsOK'
      BY <1>1, <3>1, <3>2 DEF Inv, RowsOK
    <3> QED
      BY <3>3, <3>4
  <2> QED
    BY <2>1, <2>2
<1>9. Types'
  BY <1>1, <1>5, <1>8 DEF Inv, Types
<1>10. (NamesOK /\ NewOrgsOK)'
  BY <1>1 DEF Inv, NamesOK, NewOrgsOK, FilesIn
<1> QED
  BY <1>7, <1>8, <1>9, <1>10 DEF Inv

(* A restart rewrites paths and nothing a request counts on.               *)
LEMMA RestartStep ==
    ASSUME Inv, Restart
    PROVE  Inv'
<1>1. PICK h \in {host, host + 1} :
        /\ h # host => host < MaxMoves /\ (MoveRenamed \/ renames = 0)
        /\ host' = h
        /\ docs' = [i \in DOMAIN docs |->
                     [docs[i] EXCEPT !.path = Resolve(docs[i], slug[docs[i].org], h)]]
  BY DEF Restart
<1>2. /\ worker' = [w \in Workers |-> Idle]
      /\ UNCHANGED <<slug, tenant, demo, disk, writes, overwritten, renames, requests>>
      /\ Existing' = Existing
  BY DEF Restart, Existing
<1>3. /\ host \in Nat /\ h \in Nat /\ host <= h /\ host' \in 0..MaxMoves
      /\ docs \in Seq(Rows)
  BY <1>1, BoundsAssumption DEF Inv, Types
<1>4. Idle \in Requests /\ Idle.pc = "idle" /\ Idle.org = NoValue
  BY BoundsAssumption DEF Idle, Requests, Steps, Names
<1>5. worker' \in [Workers -> Requests] /\ RequestsOK'
  BY <1>2, <1>4 DEF RequestsOK, RequestOK
<1>6. \A i \in DOMAIN docs :
        /\ docs'[i] \in Rows /\ docs'[i].org = docs[i].org
        /\ docs'[i].upload = docs[i].upload
        /\ docs'[i].path[1] <= host' /\ docs'[i].path[3] = docs'[i].name
  <2> SUFFICES ASSUME NEW i \in DOMAIN docs
               PROVE  /\ docs'[i] \in Rows /\ docs'[i].org = docs[i].org
                      /\ docs'[i].upload = docs[i].upload
                      /\ docs'[i].path[1] <= host' /\ docs'[i].path[3] = docs'[i].name
    OBVIOUS
  <2>1. slug[docs[i].org] \in Slugs
    BY DEF Inv, RowsOK, Existing, Types
  <2>2. docs'[i] = Resolved(i, slug[docs[i].org], h)
    BY <1>1 DEF Resolved
  <2>3. h \in Nat /\ host <= h
    BY <1>3
  <2>4. /\ docs'[i] \in Rows /\ docs'[i].org = docs[i].org
        /\ docs'[i].upload = docs[i].upload
        /\ docs'[i].path[1] <= h /\ docs'[i].path[3] = docs'[i].name
    BY <2>1, <2>2, <2>3, ResolvedRow
  <2> QED
    BY <1>1, <2>4
<1>7. DOMAIN docs' = DOMAIN docs /\ docs' = [i \in DOMAIN docs |-> docs'[i]]
  BY <1>1
<1>8. docs' \in Seq(Rows)
  BY <1>3, <1>6, <1>7, MappedRows
<1>9. RowsOK'
  BY <1>2, <1>6, <1>7 DEF Inv, RowsOK
<1>10. Types'
  BY <1>2, <1>3, <1>5, <1>8 DEF Inv, Types
<1>11. (NamesOK /\ NewOrgsOK)'
  BY <1>2 DEF Inv, NamesOK, NewOrgsOK, FilesIn
<1> QED
  BY <1>5, <1>9, <1>10, <1>11 DEF Inv

(* Every step keeps the invariant.                                         *)
LEMMA InvStep == Inv /\ [Next]_vars => Inv'
<1> SUFFICES ASSUME Inv, [Next]_vars  PROVE Inv'
  OBVIOUS
<1>1. ASSUME NEW w \in Workers,
             StartCreate(w) \/ StartUpdate(w) \/ StartOnFolder(w)
      PROVE  Inv'
  BY <1>1, StartStep
<1>2. ASSUME NEW w \in Workers,
             SyncFolders(w) \/ ReadDemography(w) \/ PickName(w) \/ Abort(w)
      PROVE  Inv'
  BY <1>2, QuietStep
<1>3. ASSUME NEW w \in Workers,
             \/ InsertOrg(w) \/ Rename(w) \/ MakeTenant(w)
             \/ InsertDemography(w) \/ UpdateDemography(w)
      PROVE  Inv'
  BY <1>3, OrgStep
<1>4. ASSUME NEW w \in Workers, StoreSmall(w) \/ StoreSpooled(w)  PROVE Inv'
  BY <1>4, StoreStep
<1>5. ASSUME NEW w \in Workers, CommitDocument(w) \/ ListDocuments(w)  PROVE Inv'
  BY <1>5, DocumentStep
<1>6. CASE Restart
  BY <1>6, RestartStep
<1>7. CASE UNCHANGED vars
  BY <1>7 DEF Inv, Types, RequestsOK, RequestOK, Holds, NamesOK, RowsOK, NewOrgsOK,
              FilesIn, Existing, vars, orgVars, fileVars
<1> QED
  BY <1>1, <1>2, <1>3, <1>4, <1>5, <1>6, <1>7 DEF Next

-----------------------------------------------------------------------------
(* The theorems.                                                           *)

(* What a request in progress counts on (its organisation exists, the name  *)
(* it chose is free, its file is there) holds however requests interleave. *)
THEOREM InvHolds == Spec => []Inv
<1>1. Init => Inv
  BY InitInv
<1> QED
  BY <1>1, InvStep, PTL DEF Spec

(* The rows and the local variables of the requests have values of their    *)
(* columns, and the rows of an organisation exist only when it does.       *)
THEOREM TypesHold == Spec => []TypeOK
<1>1. Inv => TypeOK
  <2> SUFFICES ASSUME Inv  PROVE TypeOK
    OBVIOUS
  <2>1. \A o \in Orgs : demo[o] = NoValue \/ demo[o] \in DemoRows
    BY DEF Inv, Types
  <2>2. \A o \in Orgs \ Existing : {tenant[o], demo[o]} = {NoValue}
    BY DEF Inv, NewOrgsOK
  <2>3. ASSUME NEW i \in DOMAIN docs
        PROVE  /\ docs[i].org \in Existing /\ docs[i].upload \in 1..writes
               /\ docs[i].path \in (0..host) \X Slugs \X {docs[i].name}
    <3>1. docs[i] \in Rows /\ host \in Nat
      BY BoundsAssumption DEF Inv, Types
    <3>2. docs[i].path \in Nat \X Slugs \X Names
      BY <3>1 DEF Rows
    <3>3. docs[i].path[1] \in 0..host /\ docs[i].path[3] = docs[i].name
      BY <3>1, <3>2 DEF Inv, RowsOK
    <3> QED
      BY <3>2, <3>3 DEF Inv, RowsOK
  <2>4. \A w \in Workers : worker[w].org # NoValue => worker[w].org \in Existing
    BY DEF Inv, RequestsOK, RequestOK
  <2> QED
    BY <2>1, <2>2, <2>3, <2>4 DEF Inv, Types, TypeOK, Names, DemoRows
<1> QED
  BY <1>1, InvHolds, PTL

(* Under Inv, a file that is written over was not there when its request   *)
(* chose the name.                                                         *)
LEMMA FileStep ==
    ASSUME Inv, [Next]_vars, NEW s \in Slugs, NEW n \in Names,
           disk[s][n] \notin {0, disk'[s][n]}
    PROVE  \E w \in Workers : /\ <<worker'[w].slug, worker'[w].dest>> = <<s, n>>
                              /\ n \notin worker'[w].known
<1>1. disk' # disk
  OBVIOUS
<1>2. PICK w \in Workers : StoreSmall(w) \/ StoreSpooled(w)
  BY <1>1 DEF Next, vars, orgVars, fileVars, StartCreate, StartUpdate, StartOnFolder, Begins,
              InsertOrg, Rename, SyncFolders, MakeTenant, ReadDemography, InsertDemography,
              UpdateDemography, PickName, CommitDocument, ListDocuments, Abort, Restart
<1>3. /\ disk \in [Slugs -> [Names -> Names]] /\ worker \in [Workers -> Requests]
      /\ worker[w] \in Requests /\ RequestOK(w)
  BY DEF Inv, Types, RequestsOK
<1>4. CASE StoreSmall(w)
  <2>1. worker[w].slug \in Slugs /\ writes < MaxUploads
    BY <1>3, <1>4 DEF StoreSmall, RequestOK
  <2>2. FreeName(worker[w].slug) \in Names /\ disk[worker[w].slug][FreeName(worker[w].slug)] = 0
    BY <2>1, FreeNameIsFree
  <2>3. disk' = [disk EXCEPT ![worker[w].slug][FreeName(worker[w].slug)] = writes + 1]
    BY <1>4 DEF StoreSmall, Stored
  <2> QED
    BY <1>3, <2>1, <2>2, <2>3
<1>5. CASE StoreSpooled(w)
  <2>1. /\ worker[w].slug \in Slugs /\ worker[w].dest \in Names
        /\ worker[w].dest \notin worker[w].known
    BY <1>3, <1>5 DEF StoreSpooled, RequestOK, Requests
  <2>2. disk' = [disk EXCEPT ![worker[w].slug][worker[w].dest] = writes + 1]
    BY <1>5 DEF StoreSpooled, Stored
  <2>3. s = worker[w].slug /\ n = worker[w].dest
    BY <1>3, <2>1, <2>2
  <2>4. /\ worker'[w].slug = worker[w].slug /\ worker'[w].dest = worker[w].dest
        /\ worker'[w].known = worker[w].known
    BY <1>3, <1>5 DEF StoreSpooled, Requests
  <2> QED
    BY <2>1, <2>3, <2>4
<1> QED
  BY <1>2, <1>4, <1>5

(* An upload never replaces a file that was there when it chose its name.  *)
THEOREM UploadsKeepKnownFiles == Spec => KnownFilesStay
<1>1. Inv /\ [Next]_vars =>
        [\A s \in Slugs, n \in 0..MaxUploads :
           disk[s][n] \notin {0, disk'[s][n]} =>
             \E w \in Workers : /\ <<worker'[w].slug, worker'[w].dest>> = <<s, n>>
                                /\ n \notin worker'[w].known]_vars
  BY FileStep DEF Names
<1> QED
  BY <1>1, InvHolds, PTL DEF Spec, KnownFilesStay

(* A column of the demography takes no value but one that a request in     *)
(* progress gives it, however two updates interleave.                      *)
THEOREM UpdatesChangeOnlyTheirFields == Spec => OnlyRequestedFieldsChange
<1>1. ASSUME Inv, [Next]_vars, NEW o \in Orgs, NEW f \in Fields,
             demo[o] # NoValue, demo'[o][f] # demo[o][f]
      PROVE  \E w \in Workers : /\ worker[w].pc = "flush" /\ worker[w].org = o
                                /\ f \in DOMAIN worker[w].patch
                                /\ demo'[o][f] = worker[w].patch[f]
  <2>1. demo' # demo
    BY <1>1
  <2>2. PICK w \in Workers : InsertDemography(w) \/ UpdateDemography(w)
    BY <1>1, <2>1
       DEF Next, vars, orgVars, fileVars, StartCreate, StartUpdate, StartOnFolder, Begins,
           InsertOrg, Rename, SyncFolders, MakeTenant, ReadDemography, StoreSmall, PickName,
           StoreSpooled, CommitDocument, ListDocuments, Abort, Restart
  <2>3. demo \in [Orgs -> {NoValue} \cup DemoRows]
    BY <1>1 DEF Inv, Types
  <2>4. CASE InsertDemography(w)
    BY <1>1, <2>3, <2>4 DEF InsertDemography
  <2>5. CASE UpdateDemography(w)
    <3>1. /\ demo' = [demo EXCEPT ![worker[w].org] =
                       Flushed(demo[worker[w].org], worker[w].seen, worker[w].patch)]
          /\ worker[w].pc = "flush"
      BY <2>5 DEF UpdateDemography
    <3>2. worker[w].org = o
      BY <1>1, <2>3, <3>1
    <3>3. demo'[o] = Flushed(demo[o], worker[w].seen, worker[w].patch)
      BY <2>3, <3>1, <3>2
    <3> QED
      BY <1>1, <3>1, <3>2, <3>3 DEF Flushed
  <2> QED
    BY <2>2, <2>4, <2>5
<1>2. Inv /\ [Next]_vars =>
        [\A o \in Orgs, f \in Fields :
           demo[o] # NoValue /\ demo'[o][f] # demo[o][f] =>
             \E w \in Workers : /\ worker[w].pc = "flush" /\ worker[w].org = o
                                /\ f \in DOMAIN worker[w].patch
                                /\ demo'[o][f] = worker[w].patch[f]]_vars
  BY <1>1
<1> QED
  BY <1>2, InvHolds, PTL DEF Spec, OnlyRequestedFieldsChange

-----------------------------------------------------------------------------
(* Rows and files, when a database is copied only before the first         *)
(* renaming.                                                               *)

\* The steps of a request that works on the folder it read the slug of.
OnFolder == {"folders", "pick", "list", "store", "row"}

(* Resolving a row that is right gives its path as it is; on a new host,    *)
(* before any renaming, it gives the file of the folder that was copied.   *)
LEMMA ResolvedIsStored ==
    ASSUME Inv, FoldersOK, NEW i \in DOMAIN docs, NEW s \in Slugs
    PROVE  /\ Resolve(docs[i], s, host) = docs[i].path
           /\ \A h \in Nat : h # host => Resolve(docs[i], s, h) = <<h, s, docs[i].name>>
<1>1. docs[i].path[1] = host /\ docs[i].path[3] = docs[i].name
  BY DEF FoldersOK, Inv, RowsOK
<1>2. disk[docs[i].path[2]][docs[i].name] # 0
  BY DEF FoldersOK, Holds
<1> QED
  BY <1>1, <1>2 DEF Resolve, IsFile

(* The columns of a row.                                                   *)
LEMMA RowFacts ==
    ASSUME Inv, NEW i \in DOMAIN docs
    PROVE  /\ docs[i] \in Rows /\ docs[i].org \in Existing
           /\ docs[i].path \in Nat \X Slugs \X Names /\ docs[i].path[2] \in Slugs
           /\ docs[i].name \in Names /\ docs[i].upload \in Nat
           /\ docs[i].path[3] = docs[i].name
<1>1. docs[i] \in Rows
  BY DEF Inv, Types
<1>2. docs[i].path \in Nat \X Slugs \X Names /\ docs[i].name \in Names /\ docs[i].upload \in Nat
  BY <1>1 DEF Rows
<1> QED
  BY <1>1, <1>2 DEF Inv, RowsOK

(* What is asked of a step that leaves the rows and the host alone.        *)
LEMMA FoldersKept ==
    ASSUME Inv, FoldersOK, UNCHANGED <<docs, host>>,
           \A s \in Slugs, n \in Names, u \in Nat : Holds(s, n, u) => Holds(s, n, u)',
           renames' = 0 => /\ renames = 0
                           /\ \A o \in Existing : slug'[o] = slug[o]
                           /\ \A w \in Workers : worker'[w].pc \in OnFolder =>
                                worker'[w].slug = slug'[worker'[w].org]
    PROVE  FoldersOK'
<1>1. ASSUME NEW i \in DOMAIN docs
      PROVE  /\ docs[i].path[1] = host
             /\ Holds(docs[i].path[2], docs[i].name, docs[i].upload)'
             /\ renames' = 0 => docs[i].path[2] = slug'[docs[i].org]
  BY RowFacts DEF FoldersOK, Holds
<1> QED
  BY <1>1 DEF FoldersOK, OnFolder

(* The requests keep their folder when one of them ends, or goes on to a    *)
(* step on the folder from another, and nothing is renamed.                *)
LEMMA SlugsKept ==
    ASSUME Inv, FoldersOK, NEW w \in Workers, renames' = renames,
           \A o \in Existing : slug'[o] = slug[o],
           \A v \in Workers \ {w} : worker'[v] = worker[v],
           worker'[w].pc \in OnFolder =>
             /\ worker[w].pc \in OnFolder
             /\ worker'[w].slug = worker[w].slug /\ worker'[w].org = worker[w].org
    PROVE  renames' = 0 => /\ renames = 0
                           /\ \A v \in Workers : worker'[v].pc \in OnFolder =>
                                worker'[v].slug = slug'[worker'[v].org]
<1> SUFFICES ASSUME renames = 0, NEW v \in Workers, worker'[v].pc \in OnFolder
             PROVE  worker'[v].slug = slug'[worker'[v].org]
  OBVIOUS
<1>1. /\ worker[v].pc \in OnFolder /\ worker'[v].slug = worker[v].slug
      /\ worker'[v].org = worker[v].org
  OBVIOUS
<1>2. worker[v].org \in Existing
  BY <1>1 DEF Inv, RequestsOK, RequestOK, OnFolder
<1>3. worker[v].slug = slug[worker[v].org]
  BY <1>1 DEF FoldersOK, OnFolder
<1> QED
  BY <1>1, <1>2, <1>3

(* Unless trees are moved after a renaming, every step keeps FoldersOK.    *)
LEMMA FoldersStep ==
    ASSUME Inv, FoldersOK, [Next]_vars, ~MoveRenamed
    PROVE  FoldersOK'
<1>1. /\ writes \in Nat /\ renames \in Nat /\ host \in Nat /\ docs \in Seq(Rows)
      /\ worker \in [Workers -> Requests] /\ slug \in [Orgs -> Slugs \cup {NoValue}]
      /\ \A w \in Workers : RequestOK(w) /\ worker[w] \in Requests
  BY BoundsAssumption DEF Inv, Types, Names, RequestsOK
<1>2. ASSUME NEW w \in Workers,
             StartCreate(w) \/ StartUpdate(w) \/ StartOnFolder(w)
      PROVE  FoldersOK'
  <2>1. PICK step \in Steps, o \in Orgs \cup {NoValue}, s \in Slugs :
          /\ Begins(w, step, o, s)
          /\ step \in OnFolder => o \in Existing /\ s = slug[o]
    <3>1. \A o \in Existing : slug[o] \in Slugs /\ o \in Orgs
      BY <1>1 DEF Existing
    <3> QED
      BY <1>2, <3>1 DEF StartCreate, StartUpdate, StartOnFolder, Steps, OnFolder
  <2> DEFINE new == [Idle EXCEPT !.pc = step, !.org = o, !.slug = s]
  <2>2. Idle \in Requests
    BY BoundsAssumption DEF Idle, Requests, Steps, Names
  <2>3. new.pc = step /\ new.org = o /\ new.slug = s
    BY <2>2 DEF Requests
  <2>4. worker' = [worker EXCEPT ![w] = new]
    BY <2>1 DEF Begins
  <2> HIDE DEF new
  <2>5. worker'[w] = new /\ \A v \in Workers \ {w} : worker'[v] = worker[v]
    BY <1>1, <2>4
  <2>6. UNCHANGED <<slug, docs, disk, overwritten, host, renames>>
    BY <2>1 DEF Begins, orgVars, fileVars
  <2>7. renames' = 0 => \A v \in Workers : worker'[v].pc \in OnFolder =>
                          worker'[v].slug = slug'[worker'[v].org]
    BY <2>1, <2>3, <2>5, <2>6 DEF FoldersOK, OnFolder
  <2> QED
    BY <2>6, <2>7, FoldersKept DEF Holds
<1>3. ASSUME NEW w \in Workers,
             \/ InsertOrg(w) \/ MakeTenant(w) \/ SyncFolders(w) \/ ReadDemography(w)
             \/ InsertDemography(w) \/ UpdateDemography(w) \/ PickName(w) \/ Abort(w)
      PROVE  FoldersOK'
  <2>1. /\ UNCHANGED <<docs, disk, overwritten, host, renames>>
        /\ \A o \in Existing : slug'[o] = slug[o]
    BY <1>3, <1>1 DEF InsertOrg, MakeTenant, SyncFolders, ReadDemography, InsertDemography,
                      UpdateDemography, PickName, Abort, orgVars, fileVars, Existing
  <2>2. \A v \in Workers \ {w} : worker'[v] = worker[v]
    BY <1>3, <1>1 DEF InsertOrg, MakeTenant, SyncFolders, ReadDemography, InsertDemography,
                      UpdateDemography, PickName, Abort, Goes, Ends
  <2>3. worker'[w].pc \in OnFolder =>
          /\ worker[w].pc \in OnFolder
          /\ worker'[w].slug = worker[w].slug /\ worker'[w].org = worker[w].org
    <3>1. CASE \E step \in Steps \ OnFolder : worker'[w].pc = step
      BY <3>1
    <3>2. CASE SyncFolders(w)
      <4>1. "pick" \in Steps /\ "list" \in Steps /\ worker[w].pc \in OnFolder
        BY <3>2 DEF Steps, OnFolder, SyncFolders
      <4> QED
        BY <1>1, <3>2, <4>1, GoesFacts, EndsFacts DEF SyncFolders, OnFolder
    <3>3. CASE PickName(w)
      BY <1>1, <3>3 DEF PickName, OnFolder, Requests
    <3>4. CASE InsertOrg(w)
      BY <1>1, <3>4 DEF InsertOrg, OnFolder, Requests
    <3>5. CASE ReadDemography(w)
      BY <1>1, <3>5 DEF ReadDemography, OnFolder, Requests
    <3>6. CASE \/ MakeTenant(w) \/ InsertDemography(w) \/ UpdateDemography(w) \/ Abort(w)
      <4>1. "demography" \in Steps \ OnFolder
        BY DEF Steps, OnFolder
      <4>2. Ends(w) \/ Goes(w, "demography")
        BY <3>6 DEF MakeTenant, InsertDemography, UpdateDemography, Abort
      <4> QED
        BY <1>1, <4>1, <4>2, GoesFacts, EndsFacts DEF OnFolder
    <3> QED
      BY <1>3, <3>2, <3>3, <3>4, <3>5, <3>6
  <2> QED
    BY <2>1, <2>2, <2>3, SlugsKept, FoldersKept DEF Holds
<1>4. ASSUME NEW w \in Workers, Rename(w)  PROVE FoldersOK'
  BY <1>1, <1>4, FoldersKept DEF Rename, Holds, fileVars
<1>5. ASSUME NEW w \in Workers, StoreSmall(w) \/ StoreSpooled(w)  PROVE FoldersOK'
  <2>1. PICK n \in Names : n <= writes /\ Stored(worker[w].slug, n)
    BY <1>1, <1>5, FreeNameIsFree DEF StoreSmall, StoreSpooled, RequestOK, Requests
  <2>2. /\ worker[w].slug \in Slugs /\ writes < MaxUploads /\ worker[w].pc \in OnFolder
        /\ UNCHANGED <<slug, docs, host, renames>>
    BY <1>1, <1>5 DEF StoreSmall, StoreSpooled, RequestOK, OnFolder, orgVars
  <2>3. \A r \in Slugs, m \in Names, u \in Nat : Holds(r, m, u) => Holds(r, m, u)'
    BY <2>1, <2>2, StoredFacts
  <2>4. \A v \in Workers \ {w} : worker'[v] = worker[v]
    BY <1>1, <1>5 DEF StoreSmall, StoreSpooled
  <2>5. worker'[w].slug = worker[w].slug /\ worker'[w].org = worker[w].org
    BY <1>1, <1>5 DEF StoreSmall, StoreSpooled, Requests
  <2> QED
    BY <2>2, <2>3, <2>4, <2>5, SlugsKept, FoldersKept
<1>6. ASSUME NEW w \in Workers, ListDocuments(w)  PROVE FoldersOK'
  <2>1. worker[w].slug \in Slugs
    BY <1>1, <1>6 DEF ListDocuments, RequestOK
  <2>2. \A i \in DOMAIN docs : docs'[i] = docs[i]
    <3> SUFFICES ASSUME NEW i \in DOMAIN docs  PROVE docs'[i] = docs[i]
      OBVIOUS
    <3>1. [docs[i] EXCEPT !.path = docs[i].path] = docs[i]
      BY RowFacts DEF Rows
    <3>2. Resolve(docs[i], worker[w].slug, host) = docs[i].path
      BY <2>1, ResolvedIsStored
    <3> QED
      BY <1>6, <3>1, <3>2 DEF ListDocuments
  <2>3. docs' = docs
    BY <1>1, <1>6, <2>2 DEF ListDocuments
  <2>4. worker'[w].pc \notin OnFolder /\ \A v \in Workers \ {w} : worker'[v] = worker[v]
    BY <1>1, <1>6, EndsFacts DEF ListDocuments, OnFolder
  <2>5. UNCHANGED <<slug, disk, overwritten, host, renames>>
    BY <1>6 DEF ListDocuments, orgVars
  <2> QED
    BY <2>3, <2>4, <2>5, SlugsKept, FoldersKept DEF Holds
<1>7. ASSUME NEW w \in Workers, CommitDocument(w)  PROVE FoldersOK'
  <2> DEFINE d == [org |-> worker[w].org, name |-> worker[w].dest,
                   path |-> <<host, worker[w].slug, worker[w].dest>>,
                   upload |-> worker[w].seen]
  <2>1. /\ d.org = worker[w].org /\ d.name = worker[w].dest /\ d.upload = worker[w].seen
        /\ d.path[1] = host /\ d.path[2] = worker[w].slug
    OBVIOUS
  <2>2. docs' = Append(docs, d) /\ worker[w].pc = "row" /\ (Ends(w) \/ Goes(w, "pick"))
    BY <1>7 DEF CommitDocument
  <2>3. UNCHANGED <<slug, disk, overwritten, host, renames>>
    BY <1>7 DEF CommitDocument, orgVars
  <2>4. /\ d.path[1] = host /\ Holds(d.path[2], d.name, d.upload)
        /\ renames = 0 => d.path[2] = slug[d.org]
    BY <1>1, <2>1, <2>2 DEF RequestOK, FoldersOK
  <2> HIDE DEF d
  <2>5. /\ DOMAIN docs' = 1..Len(docs) + 1 /\ DOMAIN docs = 1..Len(docs) /\ Len(docs) \in Nat
        /\ \A i \in 1..Len(docs) : docs'[i] = docs[i]
        /\ docs'[Len(docs) + 1] = d
    BY <1>1, <2>2
  <2>6. ASSUME NEW i \in DOMAIN docs'
        PROVE  /\ docs'[i].path[1] = host
               /\ Holds(docs'[i].path[2], docs'[i].name, docs'[i].upload)
               /\ renames = 0 => docs'[i].path[2] = slug[docs'[i].org]
    <3>1. CASE i \in DOMAIN docs
      BY <2>5, <3>1 DEF FoldersOK
    <3>2. CASE i = Len(docs) + 1
      BY <2>4, <2>5, <3>2
    <3> QED
      BY <2>5, <3>1, <3>2
  <2>7. /\ worker'[w].pc \in OnFolder =>
             worker'[w].slug = worker[w].slug /\ worker'[w].org = worker[w].org
        /\ \A v \in Workers \ {w} : worker'[v] = worker[v]
        /\ worker[w].pc \in OnFolder
    BY <1>1, <2>2, EndsFacts, GoesFacts DEF Steps, OnFolder
  <2>8. renames' = 0 => \A v \in Workers : worker'[v].pc \in OnFolder =>
                          worker'[v].slug = slug'[worker'[v].org]
    BY <2>3, <2>7, SlugsKept
  <2> QED
    BY <2>3, <2>6, <2>8 DEF FoldersOK, OnFolder, Holds
<1>8. CASE Restart
  <2>1. PICK h \in {host, host + 1} :
          /\ h # host => host < MaxMoves /\ (MoveRenamed \/ renames = 0)
          /\ host' = h
          /\ docs' = [i \in DOMAIN docs |->
                       [docs[i] EXCEPT !.path = Resolve(docs[i], slug[docs[i].org], h)]]
    BY <1>8 DEF Restart
  <2>2. /\ worker' = [w \in Workers |-> Idle] /\ Idle.pc = "idle"
        /\ UNCHANGED <<slug, disk, overwritten, renames>>
    BY <1>8 DEF Restart, Idle
  <2>3. ASSUME NEW i \in DOMAIN docs
        PROVE  /\ docs'[i].path[1] = h
               /\ Holds(docs'[i].path[2], docs'[i].name, docs'[i].upload)
               /\ renames = 0 => docs'[i].path[2] = slug[docs'[i].org]
    <3> DEFINE s == slug[docs[i].org]
    <3>1. s \in Slugs
      BY <1>1, RowFacts DEF Existing
    <3>2. docs'[i] = Resolved(i, s, h)
      BY <2>1 DEF Resolved
    <3>3. /\ docs'[i].org = docs[i].org /\ docs'[i].name = docs[i].name
          /\ docs'[i].upload = docs[i].upload /\ docs'[i].path = Resolve(docs[i], s, h)
      BY <3>2, RowFacts DEF Resolved, Rows
    <3>4. /\ docs[i].path[1] = host /\ Holds(docs[i].path[2], docs[i].name, docs[i].upload)
          /\ renames = 0 => docs[i].path[2] = s
      BY DEF FoldersOK
    <3>5. CASE h = host
      <4>1. docs'[i].path = docs[i].path
        BY <3>1, <3>3, <3>5, ResolvedIsStored
      <4> QED
        BY <3>3, <3>4, <3>5, <4>1
    <3>6. CASE h # host
      <4>1. h \in Nat /\ renames = 0
        BY <1>1, <2>1, <3>6
      <4>2. Resolve(docs[i], s, h) = <<h, s, docs[i].name>>
        BY <3>1, <3>6, <4>1, ResolvedIsStored
      <4>3. docs'[i].path[1] = h /\ docs'[i].path[2] = s
        BY <3>3, <4>2
      <4> QED
        BY <3>3, <3>4, <4>1, <4>3
    <3> QED
      BY <3>5, <3>6
  <2> QED
    BY <2>1, <2>2, <2>3 DEF FoldersOK, Holds
<1>9. CASE UNCHANGED vars
  BY <1>9 DEF FoldersOK, Holds, vars, orgVars, fileVars
<1> QED
  BY <1>2, <1>3, <1>4, <1>5, <1>6, <1>7, <1>8, <1>9 DEF Next

(* A row of control_documents leads to the file that was uploaded with it,  *)
(* whatever the slug has become, when the database is copied to another    *)
(* host only before the first renaming.                                    *)
THEOREM RowsKeepTheirFiles ==
    ASSUME ~MoveRenamed
    PROVE  Spec => []RowsLeadToTheirFiles
<1>1. Init => Inv /\ FoldersOK
  BY InitInv
<1>2. Inv /\ FoldersOK /\ [Next]_vars => (Inv /\ FoldersOK)'
  BY InvStep, FoldersStep
<1>3. Inv /\ FoldersOK => RowsLeadToTheirFiles
  <2> SUFFICES ASSUME Inv, FoldersOK, NEW i \in DOMAIN docs
               PROVE  LET path == Resolve(docs[i], slug[docs[i].org], host) IN
                      /\ IsFile(path, host)
                      /\ \/ disk[path[2]][path[3]] = docs[i].upload
                         \/ <<path[2], path[3]>> \in overwritten
    BY DEF RowsLeadToTheirFiles
  <2>1. slug[docs[i].org] \in Slugs
    BY RowFacts DEF Inv, Types, Existing
  <2>2. Resolve(docs[i], slug[docs[i].org], host) = docs[i].path
    BY <2>1, ResolvedIsStored
  <2> QED
    BY <2>2, RowFacts DEF FoldersOK, Holds, IsFile
<1> QED
  BY <1>1, <1>2, <1>3, PTL DEF Spec
=============================================================================
