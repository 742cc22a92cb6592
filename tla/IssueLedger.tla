---------------------------- MODULE IssueLedger ----------------------------
(***************************************************************************)
(* What the stages of a pipeline run write for one organisation: issues    *)
(* derived from controls, their links, classifications, assessments,       *)
(* candidate risks and the risks promoted from scored issues.              *)
(* (domain/issues_from_controls.py, classify_issues.py, score_risks.py,    *)
(* discover_risks.py over repositories/issue_repository.py,                *)
(* issue_control_repository.py, risk_assessment_repository.py,             *)
(* risk_repository.py and org_repository.py.)                              *)
(*                                                                         *)
(* Every repository call commits, so a job is a sequence of commits and    *)
(* the jobs of several workers interleave between them. Here one action is *)
(* one commit, with the reads since the one before unless what they return *)
(* is used across it. The broker redelivers a task whose worker is lost,   *)
(* a document may be extracted again and the operator may advance the run  *)
(* at any moment, and users post jobs on the same rows.                    *)
(***************************************************************************)
EXTENDS Scoring, SequencesExt

CONSTANTS
    Workers,        \* Celery worker slots
    Controls,       \* ids of the controls the organisation may ever have
    FirstControls,  \* those it has when the run starts
    Fingerprints,   \* dedup keys: the controls an issue cites, and its title
    Cites,          \* Cites[f]: the control ids in fingerprint f
    BatchSize,      \* issues_controls_batch_size, classify_batch_size, ...
    JudgmentsOfLLM, \* judgments the model may return
    MaxBundles,     \* candidates the model groups the issues into, at most
    UseLlmFallback, \* settings.use_llm_fallback
    JobKinds,       \* jobs users may post
    Faults,         \* Faults[e]: how often the environment acts in way e
    MaxFaults       \* and how often in all ways together

ASSUME ControlsAssumption == FirstControls \subseteq Controls
ASSUME CitesAssumption == Cites \in [Fingerprints -> SUBSET Controls \ {{}}]
ASSUME BatchAssumption == BatchSize \in Nat \ {0}
ASSUME JobsAssumption == JobKinds \subseteq {"replace", "classify", "score", "discover"}
ASSUME JudgmentsAssumption == \A j \in JudgmentsOfLLM : j.controls \in Seq(0..4)

VARIABLES
    controls,    \* the control rows that exist now
    issues,      \* issues[i]: the issue i, its dependent rows included
    links,       \* rows of issue_controls, as pairs
    candidates,  \* candidates[c]: discovery results of candidate row c, or -1
    risks,       \* risks[r]: the automated risk r, its issue and its rating
    run,         \* the run: its stage and the result of issues_from_controls
    steps,       \* batch rows of the run that are completed, with their result
    chords,      \* chords[k]: its stage, the batches that have not reported
    tasks,       \* messages waiting at the broker
    worker,      \* worker[w]: its task, where it is, and its local variables
    env          \* how often the environment acted

rows == <<controls, issues, links, candidates, risks>>
vars == <<rows, run, steps, chords, tasks, worker, env>>

\* A row of issues with its fingerprint, how many classifications refer to it
\* and its assessments, newest last. Deleted rows keep their id.
NewIssue(f) == [exists |-> TRUE, fp |-> f, classes |-> 0, assessments |-> <<>>]

\* A plausible slip: a foreign key without ON DELETE CASCADE.
Orphans(row) == [row EXCEPT !.exists = FALSE]

Deleted(row) == [row EXCEPT !.exists = FALSE, !.classes = 0, !.assessments = <<>>]
Existing == {i \in DOMAIN issues : issues[i].exists}
Stages == <<"issues", "classify", "discover", "score">>
NoTask == [kind |-> "none", chord |-> 0, ids |-> {}]
Idle == [task |-> NoTask, pc |-> "idle", fps |-> {}, ids |-> {}, cur |-> 0,
         out |-> {}, n |-> 0]

\* The environment acts in way e at most Faults[e] times, MaxFaults in all.
FaultKinds == {"crashes", "unacked", "extracts", "advances", "jobs"}
MayHappen(e) ==
    /\ env[e] < Faults[e]
    /\ FoldFunction(+, 0, env) < MaxFaults
Happens(e) == env' = [env EXCEPT ![e] = @ + 1]

Init ==
    /\ controls = FirstControls
    /\ issues = <<>>
    /\ links = {}
    /\ candidates = <<>>
    /\ risks = <<>>
    /\ run = [stage |-> 0, issues |-> {}]
    /\ steps = {}
    /\ chords = <<>>
    /\ tasks = {}
    /\ worker = [w \in Workers |-> Idle]
    /\ env = [e \in FaultKinds |-> 0]

-----------------------------------------------------------------------------
(* The run: plan functions, chords and joins of pipeline/stages.py.        *)

\* _chunk: consecutive slices of the ids
Chunks(S) ==
    LET q == SetToSeq(S)
        slice(b) == {q[j] : j \in (b * BatchSize + 1)..Min({(b + 1) * BatchSize, Len(q)})}
    IN  {slice(b) : b \in {x \in 0..Len(q) : x * BatchSize < Len(q)}}

\* The batches a stage is planned into, from results of the run (the controls
\* it extracted, the issues it derived); other stages are one batch.
Plan(stage, ids) ==
    CASE stage = "issues"   -> Chunks(FirstControls)
      [] stage = "classify" -> Chunks(ids)
      [] stage = "score"    -> Chunks(ids)
      [] OTHER              -> {{}}

Chord(stage, ids) == [stage |-> stage, open |-> Plan(stage, ids), joined |-> FALSE]

BatchTasks(k, stage, ids) ==
    {[kind |-> stage, chord |-> k, ids |-> B] : B \in Plan(stage, ids)}

StartRun ==
    /\ run.stage = 0
    /\ run' = [run EXCEPT !.stage = 1]
    /\ chords' = <<Chord("issues", {})>>
    /\ tasks' = tasks \cup BatchTasks(1, "issues", {})
    /\ UNCHANGED <<rows, steps, worker, env>>

\* _issues_join: the issue ids in the results of the batch rows
IssuesJoin == UNION {s.result : s \in {x \in steps : x.stage = "issues"}}

\* finalize_stage, when every batch of the chord has reported: the join, and
\* the dispatch of the next stage. The join of "score" promotes risks, which
\* is work of several commits and so a task of its own.
Join(k) ==
    /\ k \in DOMAIN chords /\ ~chords[k].joined /\ chords[k].open = {}
    /\ LET stage == chords[k].stage
           ids   == IF stage = "issues" THEN IssuesJoin ELSE run.issues
           j     == Len(chords) + 1
       IN  IF stage = "score"
           THEN /\ chords' = [chords EXCEPT ![k].joined = TRUE]
                /\ tasks' = tasks \cup {[kind |-> "promote", chord |-> k, ids |-> ids]}
                /\ UNCHANGED run
           ELSE \E n \in 2..4 :
                /\ Stages[n - 1] = stage
                /\ run' = [stage |-> n, issues |-> ids]
                /\ chords' = Append([chords EXCEPT ![k].joined = TRUE], Chord(Stages[n], ids))
                /\ tasks' = tasks \cup BatchTasks(j, Stages[n], ids)
    /\ UNCHANGED <<rows, steps, worker, env>>

\* advance_pipeline: the current stage is dispatched once more. Its batches
\* find the rows of the first dispatch (_find_batch_step).
Advance ==
    /\ MayHappen("advances")
    /\ run.stage \in 1..4
    /\ LET stage == Stages[run.stage]
       IN  /\ chords' = Append(chords, Chord(stage, run.issues))
           /\ tasks' = tasks \cup BatchTasks(Len(chords) + 1, stage, run.issues)
    /\ Happens("advances")
    /\ UNCHANGED <<rows, run, steps, worker>>

\* POST /jobs: a job of a user on the same rows, by a legacy queue.
PostJob(kind) ==
    /\ MayHappen("jobs")
    /\ Happens("jobs")
    /\ tasks' = tasks \cup {[kind |-> kind, chord |-> 0, ids |-> {}]}
    /\ UNCHANGED <<rows, run, steps, chords, worker>>
-----------------------------------------------------------------------------
(* Workers.                                                                *)

Position == [issues |-> "llm", replace |-> "wipe", classify |-> "select",
             discover |-> "bundle", score |-> "select", promote |-> "promoted"]

\* The result of a completed batch has replaced the item ids in its row: a
\* batch that runs again finds none.
ItemIds(t) ==
    IF \E s \in steps : s.stage = t.kind /\ s.ids = t.ids THEN {} ELSE t.ids

TakeTask(w) ==
    /\ worker[w].pc = "idle"
    /\ \E t \in tasks :
        /\ tasks' = tasks \ {t}
        /\ worker' = [worker EXCEPT ![w] = [Idle EXCEPT !.task = t, !.pc = Position[t.kind],
                                                        !.ids = ItemIds(t)]]
    /\ UNCHANGED <<rows, run, steps, chords, env>>

\* The legacy issues job is followed by a job that classifies what it created.
FollowUp(w, result) ==
    IF worker[w].task.kind = "replace" /\ result # {}
    THEN {[kind |-> "classify", chord |-> 0, ids |-> result]} ELSE {}

\* The task is done but for its acknowledgement: steps.complete, the counters
\* and the part of the chord. The join that promotes ends the run, a job of a
\* user has nobody to report to.
Report(w, result) ==
    LET t == worker[w].task
    IN  /\ worker' = [worker EXCEPT ![w] = [Idle EXCEPT !.task = t, !.pc = "ack"]]
        /\ tasks' = tasks \cup FollowUp(w, result)
        /\ IF t.kind = "promote"
           THEN run' = [run EXCEPT !.stage = 5] /\ UNCHANGED <<steps, chords>>
           ELSE IF t.chord = 0
           THEN UNCHANGED <<run, steps, chords>>
           ELSE /\ steps' = {s \in steps : s.stage # t.kind \/ s.ids # t.ids}
                            \cup {[stage |-> t.kind, ids |-> t.ids, result |-> result]}
                /\ chords' = [chords EXCEPT ![t.chord].open = @ \ {t.ids}]
                /\ UNCHANGED run

Acknowledge(w) ==
    /\ worker[w].pc = "ack"
    /\ worker' = [worker EXCEPT ![w] = Idle]
    /\ UNCHANGED <<rows, run, steps, chords, tasks, env>>

\* An exception out of the domain function: the batch is recorded as failed
\* and its chord goes on without it; a join or a job just ends.
Raise(w) ==
    LET t == worker[w].task
    IN  /\ worker' = [worker EXCEPT ![w] = [Idle EXCEPT !.task = t, !.pc = "ack"]]
        /\ chords' = IF t.chord = 0 \/ t.kind = "promote" THEN chords
                     ELSE [chords EXCEPT ![t.chord].open = @ \ {t.ids}]
        /\ UNCHANGED <<run, steps, tasks>>

\* The task goes on with other local variables.
Moves(w, new) ==
    worker' = [worker EXCEPT ![w] = new] /\ UNCHANGED <<run, steps, chords, tasks>>

\* The container of the worker dies before the task is acknowledged, which the
\* model counts apart from a death before the task has done all its work.
WorkerLost(w) ==
    LET fault == IF worker[w].pc = "ack" THEN "unacked" ELSE "crashes"
    IN  /\ worker[w].pc # "idle" /\ MayHappen(fault)
        /\ tasks' = tasks \cup {worker[w].task}
        /\ worker' = [worker EXCEPT ![w] = Idle]
        /\ Happens(fault)
        /\ UNCHANGED <<rows, run, steps, chords>>

\* Another run extracts a document of this organisation again: its control
\* rows are deleted, with their links, and come back under fresh ids.
Reextract(c, d) ==
    /\ MayHappen("extracts")
    /\ c \in controls /\ d \in Controls \ (controls \cup FirstControls)
    /\ controls' = (controls \ {c}) \cup {d}
    /\ links' = {l \in links : l[2] # c}
    /\ Happens("extracts")
    /\ UNCHANGED <<issues, candidates, risks, run, steps, chords, tasks, worker>>
-----------------------------------------------------------------------------
(* issues_from_controls                                                    *)

\* _normalize_llm_issues or _heuristic_batch: at least one issue, and only
\* control ids of the batch are cited.
LlmBatch(batch) == {F \in SUBSET Fingerprints \ {{}} : \A f \in F : Cites[f] \subseteq batch}

\* generate_issues_for_control_batch up to the persistence: controls that no
\* longer exist are dropped, and without any the batch is empty.
DeriveIssues(w) ==
    /\ worker[w].pc = "llm"
    /\ LET batch == worker[w].ids \cap controls
           derived == LlmBatch(batch)
       IN  IF batch = {} \/ derived = {}
           THEN Report(w, {})
           ELSE \E F \in derived : Moves(w, [worker[w] EXCEPT !.pc = "precheck", !.fps = F, !.ids = {}])
    /\ UNCHANGED <<rows, env>>

\* The legacy job takes every control of the organisation, and without any is
\* done. delete_derived_for_org of the scope all_controls_replace: the foreign
\* keys take links, classifications and assessments along; a risk loses its
\* issue.
WipeDerived(w) ==
    /\ worker[w].pc = "wipe"
    /\ IF controls = {}
       THEN Report(w, {}) /\ UNCHANGED <<issues, links, risks>>
       ELSE /\ issues' = [i \in DOMAIN issues |-> Deleted(issues[i])]
            /\ links' = {}
            /\ risks' = [r \in DOMAIN risks |-> [risks[r] EXCEPT !.issue = 0]]
            /\ Moves(w, [worker[w] EXCEPT !.pc = "llm", !.ids = controls])
    /\ UNCHANGED <<controls, candidates, env>>

Persisted == {issues[i].fp : i \in Existing}

\* list_fingerprints, before the first and before the second attempt
Precheck(w) ==
    /\ worker[w].pc \in {"precheck", "recheck"}
    /\ LET fresh == worker[w].fps \ Persisted
       IN  IF fresh = {}
           THEN Report(w, {})
           ELSE Moves(w, [worker[w] EXCEPT !.fps = fresh,
                             !.pc = IF @ = "precheck" THEN "insert" ELSE "reinsert"])
    /\ UNCHANGED <<rows, env>>

\* A plausible slip: the index is on the id alone.
NeverCollides(fps) == FALSE

\* uq_issues_org_fingerprint
Collides(fps) == fps \cap Persisted # {}

\* insert_many: all rows in one commit. On a collision the session is rolled
\* back and the pre-check repeated once; a second collision is raised.
InsertIssues(w) ==
    /\ worker[w].pc \in {"insert", "reinsert"}
    /\ LET fps == worker[w].fps
           new == (Len(issues) + 1)..(Len(issues) + Cardinality(fps))
       IN  IF ~Collides(fps)
           THEN /\ issues' = issues \o [n \in DOMAIN SetToSeq(fps) |-> NewIssue(SetToSeq(fps)[n])]
                /\ Moves(w, [worker[w] EXCEPT !.pc = "assign", !.ids = new])
           ELSE /\ IF worker[w].pc = "insert"
                   THEN Moves(w, [worker[w] EXCEPT !.pc = "recheck"]) ELSE Raise(w)
                /\ UNCHANGED issues
    /\ UNCHANGED <<controls, links, candidates, risks, env>>

\* A plausible slip: the links of one issue of the batch only.
LinksOne(ids) == LET i == CHOOSE j \in ids : TRUE IN {i} \X Cites[issues[i].fp]

\* The links a batch adds: every issue it inserted to every control it cites.
NewLinks(ids) == UNION {{i} \X Cites[issues[i].fp] : i \in ids}

\* assign_many: one commit; a control or an issue that is gone meanwhile
\* violates the foreign key, and no link of the batch is made.
AssignControls(w) ==
    /\ worker[w].pc = "assign"
    /\ LET ids == worker[w].ids
       IN  IF ids \subseteq Existing /\ \A l \in NewLinks(ids) : l[2] \in controls
           THEN links' = links \cup NewLinks(ids) /\ Report(w, ids)
           ELSE UNCHANGED links /\ Raise(w)
    /\ UNCHANGED <<controls, issues, candidates, risks, env>>
-----------------------------------------------------------------------------
(* classify_issues and score_risks                                         *)

\* filter_ids_missing_classification, list_ids_missing_classification
Unclassified(ids) == {i \in ids : issues[i].classes = 0}

\* The rows a job works on. Without ids it takes every issue there is, be it
\* the job of a user or a batch that runs again.
SelectIssues(w) ==
    /\ worker[w].pc = "select"
    /\ LET given == worker[w].ids
           named == IF given = {} THEN Existing ELSE given \cap Existing
           todo  == IF worker[w].task.kind = "classify" THEN Unclassified(named) ELSE named
       IN  IF todo = {} THEN Report(w, {})
           ELSE Moves(w, [worker[w] EXCEPT !.pc = "each", !.ids = todo])
    /\ UNCHANGED <<rows, env>>

\* A plausible slip: the loop over the batch returns inside its body.
AfterFirst(w, i) == Report(w, {})

\* The next issue of the batch, or the end of the job.
After(w, i) ==
    IF worker[w].ids = {i} THEN Report(w, {})
    ELSE Moves(w, [worker[w] EXCEPT !.pc = "each", !.ids = @ \ {i}, !.cur = 0])

\* heuristic_classify_issue takes the place of a model that does not answer.
FallsBack(w) == worker[w].task.kind = "classify" /\ UseLlmFallback

\* gather_bounded returned an exception for the item: with_retry has no attempt
\* left, or normalize_llm_output rejects the judgment.
SkipIssue(w) ==
    /\ worker[w].pc = "each"
    /\ ~FallsBack(w)
    /\ \E i \in worker[w].ids : After(w, i)
    /\ UNCHANGED <<rows, env>>

\* A plausible slip: the new row is inserted beside the old ones.
KeepPrior(w) ==
    /\ worker[w].pc = "each"
    /\ \E i \in worker[w].ids : Moves(w, [worker[w] EXCEPT !.pc = "write", !.cur = i])
    /\ UNCHANGED <<rows, env>>

\* delete_for_issue commits before the insert: for a moment there is no row.
DeletePrior(w) ==
    /\ worker[w].pc = "each"
    /\ \E i \in worker[w].ids :
        /\ issues' = IF worker[w].task.kind = "classify"
                     THEN [issues EXCEPT ![i].classes = 0]
                     ELSE [issues EXCEPT ![i].assessments = <<>>]
        /\ Moves(w, [worker[w] EXCEPT !.pc = "write", !.cur = i])
    /\ UNCHANGED <<controls, links, candidates, risks, env>>

\* A row with the classification _normalize made of the answer ...
Classified(row) == [row EXCEPT !.classes = @ + 1]

\* ... or the assessment computed from a judgment within the vocabularies.
Assessed(row) ==
    {[row EXCEPT !.assessments = Append(@, ScoreFromJudgment(j))] :
        j \in {x \in JudgmentsOfLLM : InVocabulary(x)}}

\* insert of the classification, or of the assessment computed from the
\* judgment; the foreign key raises if the issue was deleted meanwhile.
InsertRow(w) ==
    /\ worker[w].pc = "write"
    /\ LET i == worker[w].cur
       IN  IF i \notin Existing
           THEN Raise(w) /\ UNCHANGED issues
           ELSE /\ After(w, i)
                /\ \E row \in IF worker[w].task.kind = "classify"
                             THEN {Classified(issues[i])} ELSE Assessed(issues[i]) :
                        issues' = [issues EXCEPT ![i] = row]
    /\ UNCHANGED <<controls, links, candidates, risks, env>>
-----------------------------------------------------------------------------
(* auto_promote_risks                                                      *)

\* A plausible slip: the check asks for published risks of this session only.
NonePromoted == {}

\* list_issue_ids_with_auto_risks
AlreadyPromoted == {risks[r].issue : r \in DOMAIN risks} \ {0}

FilterPromoted(w) ==
    /\ worker[w].pc = "promoted"
    /\ LET wanted == worker[w].ids \ AlreadyPromoted
       IN  IF wanted = {} THEN Report(w, {})
           ELSE Moves(w, [worker[w] EXCEPT !.pc = "assess", !.ids = wanted])
    /\ UNCHANGED <<rows, env>>

\* The rating of a risk: the residual risk of the newest assessment.
RatingOf(i) == Last(issues[i].assessments).residual

\* list_by_ids and map_latest_for_issues: issues without a row or without an
\* assessment are left out. What is read here is inserted by the next action.
LoadAssessments(w) ==
    /\ worker[w].pc = "assess"
    /\ LET found == {i \in worker[w].ids \cap Existing : issues[i].assessments # <<>>}
       IN  IF found = {} THEN Report(w, {})
           ELSE Moves(w, [worker[w] EXCEPT !.pc = "create", !.ids = found,
                             !.out = {[issue |-> i, rating |-> RatingOf(i)] : i \in found}])
    /\ UNCHANGED <<rows, env>>

\* create_many: all risks in one commit
CreateRisks(w) ==
    /\ worker[w].pc = "create"
    /\ IF worker[w].ids \subseteq Existing
       THEN risks' = risks \o SetToSeq(worker[w].out) /\ Report(w, {})
       ELSE UNCHANGED risks /\ Raise(w)
    /\ UNCHANGED <<controls, issues, links, candidates, env>>
-----------------------------------------------------------------------------
(* run_risk_discovery                                                      *)

\* How many candidates the model, or the heuristic for it, may group them into.
Bundles == 1..MaxBundles

\* Issues and classifications go to the model, which groups them into one or
\* more candidates; without issues there is nothing to discover.
BundleIssues(w) ==
    /\ worker[w].pc = "bundle"
    /\ IF Existing = {} THEN Report(w, {})
       ELSE \E n \in Bundles : Moves(w, [worker[w] EXCEPT !.pc = "clear", !.n = n])
    /\ UNCHANGED <<rows, env>>

\* clear_for_org; the results of the candidates go with them.
ClearCandidates(w) ==
    /\ worker[w].pc = "clear"
    /\ candidates' = [c \in DOMAIN candidates |-> -1]
    /\ Moves(w, [worker[w] EXCEPT !.pc = "candidate"])
    /\ UNCHANGED <<controls, issues, links, risks, env>>

InsertCandidate(w) ==
    /\ worker[w].pc = "candidate"
    /\ candidates' = Append(candidates, 0)
    /\ Moves(w, [worker[w] EXCEPT !.ids = @ \cup {Len(candidates) + 1}, !.n = @ - 1,
                    !.pc = IF worker[w].n = 1 THEN "match" ELSE "candidate"])
    /\ UNCHANGED <<controls, issues, links, risks, env>>

\* The shortlist and the match, or none, are written to one row of results.
Matched(results) == results + 1

\* One discovery result per candidate, after all matches are known; the
\* foreign key raises if another discovery cleared the candidate.
InsertResult(w) ==
    /\ worker[w].pc = "match"
    /\ LET c == Min(worker[w].ids)
       IN  IF candidates[c] = -1
           THEN Raise(w) /\ UNCHANGED candidates
           ELSE /\ candidates' = [candidates EXCEPT ![c] = Matched(@)]
                /\ IF worker[w].ids = {c} THEN Report(w, {})
                   ELSE Moves(w, [worker[w] EXCEPT !.ids = @ \ {c}])
    /\ UNCHANGED <<controls, issues, links, risks, env>>
-----------------------------------------------------------------------------
Step(w) ==
    \/ TakeTask(w) \/ Acknowledge(w) \/ DeriveIssues(w) \/ WipeDerived(w) \/ Precheck(w) \/ InsertIssues(w)
    \/ AssignControls(w) \/ SelectIssues(w) \/ SkipIssue(w) \/ DeletePrior(w)
    \/ InsertRow(w) \/ FilterPromoted(w) \/ LoadAssessments(w) \/ CreateRisks(w)
    \/ BundleIssues(w) \/ ClearCandidates(w) \/ InsertCandidate(w) \/ InsertResult(w)

Next ==
    \/ StartRun
    \/ \E k \in DOMAIN chords : Join(k)
    \/ Advance
    \/ \E kind \in JobKinds : PostJob(kind)
    \/ \E w \in Workers : Step(w)
    \/ \E w \in Workers : WorkerLost(w)
    \/ \E c, d \in Controls : Reextract(c, d)

Spec == Init /\ [][Next]_vars
-----------------------------------------------------------------------------
(* Properties. What holds depends on what the environment has done; Only(S) *)
(* says that it acted in no way but those of S.                            *)

Only(S) == \A e \in FaultKinds \ S : env[e] = 0

Working(kinds) == {w \in Workers : worker[w].pc \notin {"idle", "ack"} /\ worker[w].task.kind \in kinds}

\* Types, and the foreign keys: what depends on an issue goes with it, and a
\* link or a risk never refers to a row that was deleted (SET NULL: 0).
TypeOK ==
    /\ controls \subseteq Controls
    /\ \A i \in DOMAIN issues :
        /\ issues[i].fp \in Fingerprints /\ issues[i].classes \in Nat
        /\ i \notin Existing => issues[i].classes = 0 /\ issues[i].assessments = <<>>
    /\ links \subseteq Existing \X controls
    /\ run \in [stage : 0..5, issues : SUBSET DOMAIN issues]
    /\ \A r \in DOMAIN risks : /\ risks[r].issue \in Existing \cup {0}
                              /\ risks[r].rating \in 1..4

\* Whatever runs again, twice or at the same time, no two issues are derived
\* from the same controls under the same title (_persist_issue_rows: the check
\* before the insert races, the unique index decides, one retry follows).
OneIssuePerFingerprint ==
    \A i, j \in Existing : issues[i].fp = issues[j].fp => i = j

\* An issue is linked to every control it cites as soon as the batch that made
\* it is past assign_many, unless a worker died in between, a control was
\* extracted again or a job replaced the issues.
LinksComplete ==
    Only({"unacked", "advances"}) =>
        \A i \in Existing : \/ \A c \in Cites[issues[i].fp] : <<i, c>> \in links
                            \/ \E w \in Working({"issues"}) : i \in worker[w].ids

\* Classifying or scoring an issue again replaces its row: a worker that dies
\* in the middle leaves none, never two (delete_for_issue, then insert).
OneRowPerIssue ==
    Only({"crashes", "extracts"}) =>
        \A i \in DOMAIN issues : issues[i].classes <= 1 /\ Len(issues[i].assessments) <= 1

\* However often the join of score_risks is repeated, an issue is promoted to
\* one risk (auto_promote_risks: "a retried scoring join never duplicates").
PromotedOnce ==
    Only({"crashes", "unacked", "extracts", "jobs"}) =>
        \A r, q \in DOMAIN risks : risks[r].issue = risks[q].issue /\ risks[r].issue # 0 => r = q

\* The same claim without the condition that a stage is dispatched once:
\* advance_pipeline is "Safe because every batch domain function is idempotent".
PromotedOnceEvenAdvanced ==
    \A r, q \in DOMAIN risks : risks[r].issue = risks[q].issue /\ risks[r].issue # 0 => r = q

\* A run that ended has classified all its issues and promoted exactly those
\* that scoring could assess, at the rating of the assessment they have, even
\* if a worker was lost on the way.
RunIsComplete ==
    run.stage = 5 /\ Only({"crashes", "extracts"}) =>
        \A i \in run.issues :
            /\ i \in Existing
            /\ UseLlmFallback => issues[i].classes = 1
            /\ \A r \in DOMAIN risks : risks[r].issue = i => risks[r].rating = Last(issues[i].assessments).residual
            /\ issues[i].assessments # <<>> <=> i \in AlreadyPromoted

=============================================================================
