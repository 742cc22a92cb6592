--------------------------- MODULE KnowledgeIndex ---------------------------
(***************************************************************************)
(* The vector index beside the database (domain/indexing_service.py over   *)
(* repositories/vector_repository.py): each row that matters is chunked,   *)
(* embedded and upserted after the commit that wrote it, and a reindex     *)
(* rebuilds an organisation. The index is another server: between the      *)
(* commit, the delete of the old chunks and the upsert of the new ones,    *)
(* other requests and workers run, and every call of it may fail, which    *)
(* the service logs and hides from its caller.                             *)
(*                                                                         *)
(* A call of the service is a queue of parts, one per method it goes       *)
(* through; one action is one call of the vector store, or one read of     *)
(* the rows to index.                                                      *)
(***************************************************************************)
EXTENDS Integers, Sequences, FiniteSets, SequencesExt

CONSTANTS
    Orgs,
    Entities,     \* rows that are indexed, and one aggregate per organisation
    OrgOf, TypeOf,
    Callers,      \* requests and workers that index at the same time
    ChunksOf,     \* ChunksOf[v]: chunks of the text of version v
    Window,       \* settings.embedding_max_batch
    MaxEvents     \* bound on calls and failures together

Versions == DOMAIN ChunksOf

ASSUME IndexAssumption ==
    /\ IsFiniteSet(Entities) /\ OrgOf \in [Entities -> Orgs]
    /\ TypeOf \in [Entities -> {"control", "issue", "risk", "aggregate"}]
    /\ \A o \in Orgs : Cardinality({e \in Entities : OrgOf[e] = o /\ TypeOf[e] = "aggregate"}) = 1
    /\ ChunksOf \in Seq(Nat \ {0}) /\ ChunksOf # <<>>
    /\ Window \in Nat \ {0} /\ MaxEvents \in Nat

VARIABLES
    row,      \* row[e]: version of the row, 0 if none, and whether it is assessed
    store,    \* the chunks in the collection, keyed by entity and number
    call,     \* call[c]: the parts caller c has still to do, and where it is
    calls,    \* how many calls were made
    failures, \* how many failed
    disturbed,\* history: entities of which a call raced with another or failed
    orphans   \* history: entities deleted without telling the index

vars == <<row, store, call, calls, failures, disturbed, orphans>>

Of(o, type) == {e \in Entities : OrgOf[e] = o /\ TypeOf[e] = type}
All(type) == UNION {Of(o, type) : o \in Orgs}
Aggregate(o) == CHOOSE e \in Of(o, "aggregate") : TRUE
NoRow == [ver |-> 0, assessed |-> FALSE]
Exists(e) == row[e].ver > 0

Init ==
    /\ row = [e \in Entities |-> NoRow]
    /\ store = {}
    /\ call = [c \in Callers |-> <<>>]
    /\ calls = 0 /\ failures = 0
    /\ disturbed = {} /\ orphans = {}
-----------------------------------------------------------------------------
(* Parts.                                                                  *)

\* What a text says: the versions of the rows it is made of (the aggregate is
\* made of the issues of its organisation) and, of an issue, its assessment.
Sources(e) == IF TypeOf[e] = "aggregate" THEN Of(OrgOf[e], "issue") ELSE {e}
Text(e, r) == [entity |-> e, assessed |-> r[e].assessed,
               of |-> {<<i, r[i].ver>> : i \in {x \in Sources(e) : r[x].ver > 0}}]

\* chunk_by_chars, on the sizes alone: an aggregate of nothing has no text
ChunkCount(t) ==
    IF t.of = {} THEN 0
    ELSE IF TypeOf[t.entity] = "aggregate" THEN 1 ELSE ChunksOf[(CHOOSE p \in t.of : TRUE)[2]]

\* make_chunk_id is the entity and the number: records of one entity collide,
\* whatever their text.
Chunk(o, t, n) == [org |-> o, n |-> n, text |-> t]
Records(o, t) == {Chunk(o, t, n) : n \in 1..ChunkCount(t)}

\* _index_entity is the bulk method for one entity, in one window.
IndexEntity(o, t)    == [op |-> "clear", org |-> o, texts |-> <<t>>, window |-> ChunkCount(t)]
IndexBulk(o, texts)  == [op |-> "clear", org |-> o, texts |-> texts, window |-> Window]
ReadRows(o, type)    == [op |-> type, org |-> o]
PurgeOrg(o)          == [op |-> "purge", org |-> o, of |-> {e \in Entities : OrgOf[e] = o}]
PurgeIds(o, ids)     == [op |-> "purge", org |-> o, of |-> ids]

\* _bulk_index_issues_per_org
BulkPerOrg(E, r) ==
    LET orgs == SetToSeq({OrgOf[e] : e \in E})
        texts(o) == LET q == SetToSeq({e \in E : OrgOf[e] = o})
                    IN  [n \in DOMAIN q |-> Text(q[n], r)]
    IN  [n \in DOMAIN orgs |-> IndexBulk(orgs[n], texts(orgs[n]))]

\* reindex_org: clean slate, then every type read and indexed in turn
ReindexOrg(o) ==
    <<PurgeOrg(o), ReadRows(o, "control"), ReadRows(o, "issue"),
      ReadRows(o, "aggregate"), ReadRows(o, "risk")>>
-----------------------------------------------------------------------------
(* History.                                                                *)

\* The entities a part reads or writes.
Scope(p) ==
    CASE p.op \in {"clear", "upsert"} -> {p.texts[n].entity : n \in DOMAIN p.texts}
      [] p.op = "purge" -> p.of
      [] OTHER -> Of(p.org, p.op)
Scopes(parts) == UNION {Scope(parts[n]) : n \in DOMAIN parts}
\* What the text of an entity of S is made of: an issue also makes its aggregate.
Reach(S) == S \cup {Aggregate(OrgOf[e]) : e \in {x \in S : TypeOf[x] = "issue"}}
Busy(c) == UNION {Scopes(call[d]) : d \in Callers \ {c}}

\* Caller c begins the parts after it wrote rows E: what it indexes from now on
\* is raced if another caller is at it at this moment.
Begin(c, E, parts) ==
    /\ call[c] = <<>> /\ calls + failures < MaxEvents
    /\ calls' = calls + 1
    /\ call' = [call EXCEPT ![c] = parts]
    /\ disturbed' = (disturbed \ Scopes(parts)) \cup (Busy(c) \cap Reach(E \cup Scopes(parts)))
-----------------------------------------------------------------------------
(* Writers: the commit, and the call that follows it in the same request.  *)

Newer(r) == [r EXCEPT !.ver = @ + 1]

\* update_demography, upload_risks, apply_risk_tags, ...: one row, one call
WriteRow(c, e) ==
    /\ row[e].ver + 1 \in Versions
    /\ row' = [row EXCEPT ![e] = Newer(@)]
    /\ Begin(c, {e}, <<IndexEntity(OrgOf[e], Text(e, row'))>>)
    /\ UNCHANGED <<store, failures, orphans>>

\* classify_issues_job: the unclassified issues of a batch, of any organisation,
\* then the aggregate of every organisation it touched
ClassifyIssues(c, E) ==
    /\ E # {} /\ \A e \in E : ~Exists(e) /\ e \notin orphans
    /\ row' = [e \in Entities |-> IF e \in E THEN Newer(row[e]) ELSE row[e]]
    /\ LET orgs == SetToSeq({OrgOf[e] : e \in E})
       IN  Begin(c, E, BulkPerOrg(E, row')
                       \o [n \in DOMAIN orgs |-> ReadRows(orgs[n], "aggregate")])
    /\ UNCHANGED <<store, failures, orphans>>

\* score_risks_job: the text repeats the classification, with the assessment
ScoreIssues(c, E) ==
    /\ E # {} /\ \A e \in E : Exists(e)
    /\ row' = [e \in Entities |-> IF e \in E THEN [row[e] EXCEPT !.assessed = TRUE] ELSE row[e]]
    /\ Begin(c, {}, BulkPerOrg(E, row'))
    /\ UNCHANGED <<store, failures, orphans>>

\* extract_controls_for_document: the rows of a document are replaced by rows
\* under fresh ids, and the chunks of the old ones purged
ExtractControls(c, o, old, new) ==
    /\ \A e \in old : Exists(e)
    /\ ~Exists(new) /\ \A b \in store : b.text.entity # new
    /\ row' = [e \in Entities |-> IF e \in old THEN NoRow
                                  ELSE IF e = new THEN Newer(NoRow) ELSE row[e]]
    /\ LET purge == IF old = {} THEN <<>> ELSE <<PurgeIds(o, old)>>
       IN  Begin(c, old \cup {new}, purge \o <<IndexBulk(o, <<Text(new, row')>>)>>)
    /\ UNCHANGED <<store, failures, orphans>>

\* delete_derived_for_org and the cascades: no call follows
DeleteIssues(o) ==
    LET gone == {e \in Of(o, "issue") : Exists(e)}
    IN  /\ gone # {}
        /\ row' = [e \in Entities |-> IF e \in gone THEN NoRow ELSE row[e]]
        /\ orphans' = orphans \cup Reach(gone)
        /\ disturbed' = disturbed \cup (Reach(gone) \cap UNION {Scopes(call[d]) : d \in Callers})
        /\ UNCHANGED <<store, call, calls, failures>>

\* POST /chatbot/reindex
Reindex(c, o) ==
    /\ Begin(c, {}, ReindexOrg(o))
    /\ UNCHANGED <<row, store, failures, orphans>>
-----------------------------------------------------------------------------
(* The service.                                                            *)

Part(c) == Head(call[c])
Busied(c, op) == call[c] # <<>> /\ Part(c).op = op
Fails == calls + failures < MaxEvents /\ failures' = failures + 1
Works == UNCHANGED failures
Goes(c, parts) == call' = [call EXCEPT ![c] = parts]

\* delete_by_org, delete_by_entity_type, delete_by_entity_ids: only chunks of
\* the organisation. A failure is logged and the call goes on.
Without(o, ids) == {b \in store : b.org # o \/ b.text.entity \notin ids}

Purge(c) ==
    /\ Busied(c, "purge")
    /\ Goes(c, Tail(call[c]))
    /\ \/ /\ Works /\ store' = Without(Part(c).org, Part(c).of)
          \* the organisation starts from a clean slate
          /\ orphans' = orphans \ Part(c).of
          /\ UNCHANGED disturbed
       \/ /\ Fails /\ disturbed' = disturbed \cup Part(c).of
          /\ UNCHANGED <<store, orphans>>
    /\ UNCHANGED <<row, calls>>

\* The rows of one type, as the next parts: controls in bulk, the others one
\* by one, issues with their classification but without the assessment.
ReadType(c) ==
    /\ call[c] # <<>> /\ Part(c).op \in {"control", "issue", "risk", "aggregate"}
    /\ LET o == Part(c).org
           q == SetToSeq({e \in Of(o, Part(c).op) : TypeOf[e] = "aggregate" \/ Exists(e)})
           plain == [e \in Entities |-> [row[e] EXCEPT !.assessed = FALSE]]
           texts == [n \in DOMAIN q |-> Text(q[n], plain)]
           parts == IF Part(c).op = "control"
                    THEN (IF q = <<>> THEN <<>> ELSE <<IndexBulk(o, texts)>>)
                    ELSE [n \in DOMAIN q |-> IndexEntity(o, texts[n])]
       IN  Goes(c, parts \o Tail(call[c]))
    /\ UNCHANGED <<row, store, calls, failures, disturbed, orphans>>

\* The chunks of all texts of a part, as the positions <<text, number>>; they
\* are upserted in this order, a window at a time.
PlanOf(p) == UNION {{<<m, n>> : n \in 1..ChunkCount(p.texts[m])} : m \in DOMAIN p.texts}
Before(j, k) == j[1] < k[1] \/ (j[1] = k[1] /\ j[2] < k[2])
NextWindow(p) == {k \in p.plan : Cardinality({j \in p.plan : Before(j, k)}) < p.window}
ChunkAt(p, k) == Chunk(p.org, p.texts[k[1]], k[2])

UpsertPart(p, plan) == [op |-> "upsert", org |-> p.org, texts |-> p.texts,
                        window |-> p.window, plan |-> plan]
\* Without chunks left there is nothing to upsert.
Upserts(p, plan) == IF plan = {} THEN <<>> ELSE <<UpsertPart(p, plan)>>

\* A plausible slip: new chunks simply overwrite those of the same number.
SkipClear(c) ==
    /\ Busied(c, "clear")
    /\ Goes(c, Upserts(Part(c), PlanOf(Part(c))) \o Tail(call[c]))
    /\ UNCHANGED <<row, store, calls, failures, disturbed, orphans>>

\* Prior chunks of exactly these entities go first. A delete that fails is
\* ignored.
ClearPrior(c) ==
    /\ Busied(c, "clear")
    /\ Goes(c, Upserts(Part(c), PlanOf(Part(c))) \o Tail(call[c]))
    /\ \/ /\ Works /\ store' = Without(Part(c).org, Scope(Part(c)))
          /\ UNCHANGED disturbed
       \/ /\ Fails /\ disturbed' = disturbed \cup Scope(Part(c))
          /\ UNCHANGED store
    /\ UNCHANGED <<row, calls, orphans>>

\* A plausible slip: insert, where the collection has no unique key.
InsertedBeside(new) == store \cup new

Upserted(new) ==
    {b \in store : \A d \in new : b.text.entity # d.text.entity \/ b.n # d.n} \cup new

\* One window: embed and upsert. An upsert that fails counts nothing and the
\* loop goes on; an embedding that fails raises, and ends this part.
UpsertWindow(c) ==
    /\ Busied(c, "upsert")
    /\ LET p == Part(c)
           window == NextWindow(p)
           on == Upserts(p, p.plan \ window) \o Tail(call[c])
       IN  \/ /\ Works /\ Goes(c, on)
              /\ store' = Upserted({ChunkAt(p, k) : k \in window})
              /\ UNCHANGED disturbed
           \/ /\ Fails /\ disturbed' = disturbed \cup Scope(p)
              /\ Goes(c, on) \/ Goes(c, Tail(call[c]))
              /\ UNCHANGED store
    /\ UNCHANGED <<row, calls, orphans>>
-----------------------------------------------------------------------------
Next ==
    \/ \E c \in Callers :
        \/ \E e \in All("risk") : WriteRow(c, e)
        \/ \E E \in SUBSET All("issue") : ClassifyIssues(c, E) \/ ScoreIssues(c, E)
        \/ \E o \in Orgs : \E old \in SUBSET Of(o, "control"), new \in Of(o, "control") :
                ExtractControls(c, o, old, new)
        \/ \E o \in Orgs : Reindex(c, o)
        \/ Purge(c) \/ ReadType(c) \/ ClearPrior(c) \/ UpsertWindow(c)
    \/ \E o \in Orgs : DeleteIssues(o)

Spec == Init /\ [][Next]_vars
-----------------------------------------------------------------------------
ChunksOfEntity(e) == {b \in store : b.text.entity = e}
\* No caller is at e, the last that was had it for itself and had no failure.
Settled(e) == e \notin disturbed /\ \A c \in Callers : e \notin Scopes(call[c])
\* Whether an issue is said to be assessed is left out.
Plain(b) == [b EXCEPT !.text.assessed = FALSE]

\* Types, and the primary key of the collection: one chunk per entity and
\* number, however many callers upsert at once.
TypeOK ==
    /\ \A e \in Entities : row[e].ver \in {0} \cup Versions
    /\ \A b \in store : b.org \in Orgs /\ b.n \in Nat \ {0} /\ b.text.entity \in Entities
    /\ \A a, b \in store : a.text.entity = b.text.entity /\ a.n = b.n => a = b
    /\ disturbed \subseteq Entities /\ orphans \subseteq Entities

\* Once a call that nothing raced and nothing failed is over, the index holds
\* exactly the chunks of the row as it is now, under its organisation: none
\* missing, none left from a longer text before, none of an older version
\* (delete, embed, upsert in _index_entity and index_entities_bulk; the same
\* after a reindex). A row that is gone has chunks only if nobody told the
\* index, and until the next reindex at most (the purges of reindex_org and of
\* the extraction).
IndexMirrorsRows ==
    \A e \in Entities \ orphans :
        Settled(e) =>
            {Plain(b) : b \in ChunksOfEntity(e)} =
                IF Exists(e) \/ TypeOf[e] = "aggregate"
                THEN {Plain(b) : b \in Records(OrgOf[e], Text(e, row))}
                ELSE {}

\* "rebuilds it from the current DB": what a scored issue says of its
\* assessment is still in the index when its organisation has been rebuilt.
IndexKeepsAssessments ==
    \A e \in Entities \ orphans :
        Settled(e) /\ row[e].assessed => \A b \in ChunksOfEntity(e) : b.text.assessed
=============================================================================
