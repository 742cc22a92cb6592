------------------------------ MODULE RiskDesk ------------------------------
(***************************************************************************)
(* Tagging risks and assigning their owners, the last two stages of a run  *)
(* (domain/risk_tagging.py, domain/risk_owner_assignment.py), and the      *)
(* reviewers who decide on the same risks while they run                   *)
(* (handlers/risk_tagging.py, handlers/risk_assignment.py).                *)
(*                                                                         *)
(* The two desks work alike. A pass reads all risks once, and then, risk   *)
(* by risk, may write the register, deletes the open recommendations of    *)
(* the risk and inserts its own. A reviewer reads one risk, writes the     *)
(* register and closes the latest recommendation, or inserts a closed one. *)
(* Each of these is a commit of its own, so one action is one commit with  *)
(* the reads since the one before, unless what they return is used later.  *)
(*                                                                         *)
(* Passes run as stages of pipeline runs and as jobs users post to /jobs   *)
(* (domain/job_dispatch.py, domain/job_runner.py, handlers/jobs.py), which *)
(* are redelivered when their worker is lost.                              *)
(***************************************************************************)
EXTENDS Integers, FiniteSets, Sequences

CONSTANTS
    Sessions,     \* workers and requests that may be at it at the same time
    Risks,
    Dims,         \* tag dimensions
    Required,     \* DEFAULT_REQUIRED_DIMENSIONS
    Proposals,    \* Proposals[k]: what a pass of desk k may recommend
    Selections,   \* Selections[k]: what a reviewer at desk k may select
    Postings,     \* passes that may be asked for
    MaxEvents     \* bound on passes, reviews and faults together

Kinds == {"tags", "owner"}

\* A tag is a dimension and a catalog item; the owner of a risk is a set of
\* at most one user, written together with the accountable user.
ASSUME DeskAssumption ==
    /\ Required \subseteq Dims
    /\ \A new \in Proposals["tags"] \cup Selections["tags"] : \A t \in new : t[1] \in Dims
    /\ \A k \in Kinds : {} \notin Proposals[k] \cup Selections[k]
    /\ \A p \in Postings :
         p \in [kind : Kinds, via : {"stage", "job"}, openOnly : BOOLEAN,
                overwrite : BOOLEAN, auto : BOOLEAN]

VARIABLES
    register,  \* register[k][r]: the tags of risk r, or its owner
    rows,      \* rows[k][r]: its recommendations; ids grow with created_at
    serial,    \* ids given to recommendations
    snapshots, \* hierarchy snapshots: whether their users have been inserted
    jobs,      \* rows of jobs: status, progress
    inbox,     \* tasks at the broker
    session,   \* session[s]: where it is, and its local variables
    count,     \* how many passes, reviews and faults there were
    chosen,    \* history: what reviewers put on the register
    raced,     \* history: risks two sessions were at, one of them writing
    torn       \* history: risks at which a session was lost

vars == <<register, rows, serial, snapshots, jobs, inbox, session, count, chosen, raced, torn>>
history == <<chosen, raced, torn>>

NoTask == [job |-> 0]
Idle == [pc |-> "idle", kind |-> "tags", task |-> NoTask, job |-> 0, snap |-> 0,
         seen |-> [r \in Risks |-> {}], todo |-> {}, cur |-> {}, value |-> {},
         replace |-> FALSE, users |-> FALSE, applied |-> FALSE, ids |-> {}]

Init ==
    /\ register = [k \in Kinds |-> [r \in Risks |-> {}]]
    /\ rows = [k \in Kinds |-> [r \in Risks |-> {}]]
    /\ serial = 0
    /\ snapshots = <<>>
    /\ jobs = <<>>
    /\ inbox = {}
    /\ session = [s \in Sessions |-> Idle]
    /\ count = 0
    /\ chosen = [k \in Kinds |-> [r \in Risks |-> {}]]
    /\ raced = {} /\ torn = {}
-----------------------------------------------------------------------------
(* The register and the recommendations.                                   *)

In(dim, tags) == {t \in tags : t[1] = dim}

\* compute_tag_state is "fully_tagged", or the risk has an owner: a pass over
\* open risks leaves it out.
IsSettled(k, value) ==
    IF k = "tags" THEN \A d \in Required : In(d, value) # {} ELSE value # {}

\* A plausible slip: the newer tags of a dimension win.
MergeNewest(old, new, overwrite) ==
    UNION {IF In(d, new) # {} THEN In(d, new) ELSE In(d, old) : d \in Dims}

\* _merge_applied_tags
MergeApplied(old, new, overwrite) ==
    UNION {IF (In(d, old) # {} /\ ~overwrite) \/ In(d, new) = {}
           THEN In(d, old) ELSE In(d, new) : d \in Dims}

\* The merge of apply_selected_tags
MergeSelected(old, new, replace) ==
    UNION {IF In(d, new) # {} /\ replace THEN In(d, new) ELSE In(d, old) \cup In(d, new) : d \in Dims}

Row(status, reviewed) == [id |-> serial + 1, status |-> status, reviewed |-> reviewed]
OpenIds(k, r) == {x.id : x \in {y \in rows[k][r] : y.status = "open"}}
Latest(q) == CHOOSE x \in q : \A y \in q : y.id <= x.id

(* Who is at a risk, and the history variables.                            *)
\* The risks session s has read and has still to finish, itself included.
Holding(s) == IF session[s].pc \in {"idle", "boot", "read", "done", "ack"} THEN {}
              ELSE {<<session[s].kind, r>> : r \in session[s].todo \cup session[s].cur}
Writing(s, k, r) ==
    raced' = raced \cup {x \in {<<k, r>>} : \E t \in Sessions \ {s} : x \in Holding(t)}

At(s, pc) == session[s].pc = pc
Goes(s, new) == session' = [session EXCEPT ![s] = new]
Current(s) == CHOOSE r \in session[s].cur : TRUE
-----------------------------------------------------------------------------
(* Jobs.                                                                   *)

Job(status) == [status |-> status, total |-> 0, done |-> 0]
More == count < MaxEvents /\ count' = count + 1

\* A stage of a run publishes a pass; POST /jobs creates the job row, commits,
\* and then publishes it, which may fail: the row stays pending.
AskForPass(p) ==
    /\ More
    /\ LET j == IF p.via = "job" THEN Len(jobs) + 1 ELSE 0
       IN  /\ jobs' = IF j = 0 THEN jobs ELSE Append(jobs, Job("pending"))
           /\ \/ inbox' = inbox \cup {[job |-> j, n |-> count, pass |-> p]}
              \/ j # 0 /\ UNCHANGED inbox
    /\ UNCHANGED <<register, rows, serial, snapshots, session, history>>

\* A stage has no job: _tagging_run and _assignment_run create a row each time.
OfStage(m) == m.job = 0

\* A worker takes a pass: execute_job sets the job running whatever it was.
TakePass(s, m) ==
    /\ At(s, "idle") /\ m \in inbox
    /\ inbox' = inbox \ {m}
    /\ LET j == IF OfStage(m) THEN Len(jobs) + 1 ELSE m.job
       IN  /\ jobs' = IF OfStage(m) THEN Append(jobs, Job("running"))
                      ELSE [jobs EXCEPT ![j].status = "running"]
           /\ Goes(s, [session[s] EXCEPT !.pc = IF m.pass.kind = "owner" THEN "boot" ELSE "read",
                                         !.kind = m.pass.kind, !.task = m, !.job = j])
    /\ UNCHANGED <<register, rows, serial, snapshots, count, history>>

\* A plausible slip: the job is closed when its first risk is written.
ClosesEarly(s) ==
    /\ At(s, "next") /\ session[s].task.job # 0
    /\ jobs' = [jobs EXCEPT ![session[s].job].status = "completed"]
    /\ Goes(s, [session[s] EXCEPT !.pc = "ack"])
    /\ UNCHANGED <<register, rows, serial, snapshots, inbox, count, history>>

FinishPass(s) ==
    /\ At(s, "next") /\ session[s].todo = {}
    /\ jobs' = [jobs EXCEPT ![session[s].job].status = "completed"]
    /\ Goes(s, [session[s] EXCEPT !.pc = "ack"])
    /\ UNCHANGED <<register, rows, serial, snapshots, inbox, count, history>>

AcknowledgePass(s) ==
    /\ At(s, "ack")
    /\ session' = [session EXCEPT ![s] = Idle]
    /\ UNCHANGED <<register, rows, serial, snapshots, jobs, inbox, count, history>>

\* The risk a session was writing when it ended.
Tear(s) == torn' = torn \cup {<<session[s].kind, r>> : r \in session[s].cur}

\* An exception in a pass: execute_job marks the job failed; of a stage, the
\* job row of the pass stays running.
PassRaises(s) ==
    /\ session[s].job # 0 /\ session[s].pc # "ack" /\ More
    /\ jobs' = IF OfStage(session[s].task) THEN jobs
               ELSE [jobs EXCEPT ![session[s].job].status = "failed"]
    /\ Tear(s)
    /\ session' = [session EXCEPT ![s] = Idle]
    /\ UNCHANGED <<register, rows, serial, snapshots, inbox, chosen, raced>>

\* The worker of a pass is lost and its task redelivered, or the process of a
\* reviewer's request ends.
SessionLost(s) ==
    /\ ~At(s, "idle") /\ More
    /\ inbox' = IF session[s].job = 0 THEN inbox ELSE inbox \cup {session[s].task}
    /\ Tear(s)
    /\ session' = [session EXCEPT ![s] = Idle]
    /\ UNCHANGED <<register, rows, serial, snapshots, jobs, chosen, raced>>
-----------------------------------------------------------------------------
(* The hierarchy: ensure_default_hierarchy, by a pass or a request.        *)

Booted(s, n) ==
    Goes(s, [session[s] EXCEPT !.pc = IF session[s].job = 0 THEN "find" ELSE "read", !.snap = n])

FindSnapshot(s) ==
    /\ At(s, "boot")
    /\ IF snapshots = <<>> THEN Goes(s, [session[s] EXCEPT !.pc = "create"])
       ELSE Booted(s, Len(snapshots))
    /\ UNCHANGED <<register, rows, serial, snapshots, jobs, inbox, count, history>>

\* The snapshot is approved, and found by others, before its users exist; two
\* sessions that found none both create one, and the latest counts.
CreateSnapshot(s) ==
    /\ At(s, "create")
    /\ snapshots' = Append(snapshots, FALSE)
    /\ Goes(s, [session[s] EXCEPT !.pc = "fill", !.snap = Len(snapshots) + 1])
    /\ UNCHANGED <<register, rows, serial, jobs, inbox, count, history>>

InsertUsers(s) ==
    /\ At(s, "fill")
    /\ snapshots' = [snapshots EXCEPT ![session[s].snap] = TRUE]
    /\ Booted(s, session[s].snap)
    /\ UNCHANGED <<register, rows, serial, jobs, inbox, count, history>>
-----------------------------------------------------------------------------
(* A pass.                                                                 *)

Eligible(k, p) == {r \in Risks : p.openOnly => ~IsSettled(k, register[k][r])}

\* list_for_org, and the users of the snapshot: without users, nobody can be
\* recommended. The progress starts again.
ReadWith(s, progress) ==
    /\ At(s, "read")
    /\ LET k == session[s].kind
           todo == Eligible(k, session[s].task.pass)
       IN  /\ jobs' = [jobs EXCEPT ![session[s].job] =
                         [@ EXCEPT !.total = Cardinality(todo), !.done = progress]]
           /\ Goes(s, [session[s] EXCEPT !.pc = "next", !.seen = register[k], !.todo = todo,
                                         !.users = k = "tags" \/ snapshots[session[s].snap]])
    /\ UNCHANGED <<register, rows, serial, snapshots, inbox, count, history>>

\* A plausible slip: a redelivered pass goes on counting where it was.
CountsOn(s) == At(s, "read") /\ ReadWith(s, jobs[session[s].job].done)

ReadRisks(s) == ReadWith(s, 0)

\* The next risk: nothing is recommended, or not with the confidence to be
\* applied, or the pass does not apply; its open rows are selected at once.
Recommend(s, r) ==
    /\ At(s, "next") /\ r \in session[s].todo
    /\ Goes(s, [session[s] EXCEPT !.pc = "delete", !.cur = {r}, !.todo = @ \ {r},
                                  !.ids = OpenIds(session[s].kind, r)])
    /\ UNCHANGED <<register, rows, serial, snapshots, jobs, inbox, count, history>>

\* What scoring a risk against the catalogs, or the users of the hierarchy, may
\* come to, with the confidence to be applied.
Recommended(k) == Proposals[k]

\* It is applied: the register gets it, merged into the values read at the start.
AutoApply(s, r, new) ==
    /\ At(s, "next") /\ r \in session[s].todo
    /\ session[s].task.pass.auto /\ session[s].users
    /\ LET k == session[s].kind
           p == session[s].task.pass
           value == IF k = "tags" THEN MergeApplied(session[s].seen[r], new, p.overwrite) ELSE new
           told == IF k = "tags" THEN p.overwrite ELSE ~p.openOnly
       IN  /\ register' = [register EXCEPT ![k][r] = value]
           /\ chosen' = IF told THEN [chosen EXCEPT ![k][r] = {}] ELSE chosen
           /\ Writing(s, k, r)
    /\ Goes(s, [session[s] EXCEPT !.pc = "select", !.cur = {r}, !.todo = @ \ {r},
                                  !.applied = TRUE])
    /\ UNCHANGED <<rows, serial, snapshots, jobs, inbox, count, torn>>

\* delete_open_for_risk selects the open rows, and then deletes them by id.
SelectOpen(s) ==
    /\ At(s, "select")
    /\ Goes(s, [session[s] EXCEPT !.pc = "delete", !.ids = OpenIds(session[s].kind, Current(s))])
    /\ UNCHANGED <<register, rows, serial, snapshots, jobs, inbox, count, history>>

\* Plausible slips: open rows are left to the reviewer; all rows are deleted.
KeepsOpen(s) ==
    /\ At(s, "delete")
    /\ Goes(s, [session[s] EXCEPT !.pc = "insert"])
    /\ UNCHANGED <<register, rows, serial, snapshots, jobs, inbox, count, history>>

DeletesAll(s) ==
    /\ At(s, "delete")
    /\ rows' = [rows EXCEPT ![session[s].kind][Current(s)] = {}]
    /\ Goes(s, [session[s] EXCEPT !.pc = "insert"])
    /\ UNCHANGED <<register, serial, snapshots, jobs, inbox, count, history>>

DeleteOpen(s) ==
    /\ At(s, "delete")
    /\ LET k == session[s].kind
           r == Current(s)
       IN  /\ rows' = [rows EXCEPT ![k][r] = {x \in @ : x.id \notin session[s].ids}]
           /\ Writing(s, k, r)
    /\ Goes(s, [session[s] EXCEPT !.pc = "insert", !.ids = {}])
    /\ UNCHANGED <<register, serial, snapshots, jobs, inbox, count, chosen, torn>>

\* The recommendation, and the progress of the job.
InsertRow(s) ==
    /\ At(s, "insert")
    /\ LET k == session[s].kind
           r == Current(s)
           status == IF session[s].applied THEN "applied" ELSE "open"
       IN  /\ rows' = [rows EXCEPT ![k][r] = @ \cup {Row(status, FALSE)}]
           /\ Writing(s, k, r)
    /\ serial' = serial + 1
    /\ jobs' = [jobs EXCEPT ![session[s].job].done = @ + 1]
    /\ Goes(s, [session[s] EXCEPT !.pc = "next", !.cur = {}, !.applied = FALSE])
    /\ UNCHANGED <<register, snapshots, inbox, count, chosen, torn>>
-----------------------------------------------------------------------------
(* A reviewer: one item of apply_selected_tags or                          *)
(* apply_selected_assignments; a request with several is a sequence.       *)

StartReview(s, k, r, value, replace) ==
    /\ At(s, "idle") /\ More
    /\ Goes(s, [session[s] EXCEPT !.pc = IF k = "owner" THEN "boot" ELSE "find", !.kind = k,
                                  !.todo = {r}, !.value = value, !.replace = replace])
    /\ UNCHANGED <<register, rows, serial, snapshots, jobs, inbox, history>>

\* The risk as it is now. Skipped: tags that are all there already, an owner
\* that is the same, or another one and not to be replaced. An owner must be
\* a user of some snapshot of the organisation.
ReadRisk(s) ==
    /\ At(s, "find")
    /\ LET k == session[s].kind
           r == CHOOSE x \in session[s].todo : TRUE
           now == register[k][r]
           value == session[s].value
           skipped == \/ value \subseteq now
                      \/ k = "owner" /\ now # {} /\ ~session[s].replace
                      \/ k = "owner" /\ \A n \in DOMAIN snapshots : ~snapshots[n]
       IN  IF skipped THEN session' = [session EXCEPT ![s] = Idle]
           ELSE Goes(s, [session[s] EXCEPT !.pc = "write", !.cur = {r}, !.todo = {},
                                           !.seen[r] = now])
    /\ UNCHANGED <<register, rows, serial, snapshots, jobs, inbox, count, history>>

ApplySelected(s) ==
    /\ At(s, "write")
    /\ LET k == session[s].kind
           r == Current(s)
           value == IF k = "owner" THEN session[s].value
                    ELSE MergeSelected(session[s].seen[r], session[s].value, session[s].replace)
           kept == IF k = "owner" THEN session[s].value
                   ELSE MergeSelected(chosen[k][r], session[s].value, session[s].replace)
       IN  /\ register' = [register EXCEPT ![k][r] = value]
           /\ chosen' = [chosen EXCEPT ![k][r] = kept]
           /\ Writing(s, k, r)
    /\ Goes(s, [session[s] EXCEPT !.pc = "latest"])
    /\ UNCHANGED <<rows, serial, snapshots, jobs, inbox, count, torn>>

\* latest_for_risk: an open one is to be updated, otherwise a row inserted.
FindLatest(s) ==
    /\ At(s, "latest")
    /\ LET q == rows[session[s].kind][Current(s)]
       IN  IF q # {} /\ Latest(q).status = "open"
           THEN Goes(s, [session[s] EXCEPT !.pc = "review", !.ids = {Latest(q).id}])
           ELSE Goes(s, [session[s] EXCEPT !.pc = "record"])
    /\ UNCHANGED <<register, rows, serial, snapshots, jobs, inbox, count, history>>

\* The insert commits; of tags, the row to be stamped is then looked up again.
RecordDecision(s) ==
    /\ At(s, "record")
    /\ LET k == session[s].kind
           r == Current(s)
       IN  /\ rows' = [rows EXCEPT ![k][r] = @ \cup {Row("applied", FALSE)}]
           /\ Writing(s, k, r)
    /\ serial' = serial + 1
    /\ Goes(s, [session[s] EXCEPT !.pc = "review",
                                  !.ids = IF session[s].kind = "tags" THEN {} ELSE {serial + 1}])
    /\ UNCHANGED <<register, snapshots, jobs, inbox, count, chosen, torn>>

\* A plausible slip: the recommendation is left open.
ForgetsReview(s) ==
    /\ At(s, "review")
    /\ session' = [session EXCEPT ![s] = Idle]
    /\ UNCHANGED <<register, rows, serial, snapshots, jobs, inbox, count, history>>

Closed(x) == [x EXCEPT !.status = "applied", !.reviewed = TRUE]

\* update_review: the row is gone, and nothing happens, or it is closed.
UpdateReview(s) ==
    /\ At(s, "review")
    /\ LET k == session[s].kind
           r == Current(s)
           q == rows[k][r]
           ids == IF session[s].ids # {} \/ q = {} THEN session[s].ids ELSE {Latest(q).id}
       IN  /\ rows' = [rows EXCEPT ![k][r] = {IF x.id \in ids THEN Closed(x) ELSE x : x \in q}]
           /\ Writing(s, k, r)
    /\ session' = [session EXCEPT ![s] = Idle]
    /\ UNCHANGED <<register, serial, snapshots, jobs, inbox, count, chosen, torn>>
-----------------------------------------------------------------------------
PassStep(s) ==
    \/ FindSnapshot(s) \/ CreateSnapshot(s) \/ InsertUsers(s)
    \/ ReadRisks(s) \/ SelectOpen(s) \/ DeleteOpen(s) \/ InsertRow(s)
    \/ FinishPass(s) \/ AcknowledgePass(s)
    \/ \E r \in Risks :
        Recommend(s, r) \/ \E new \in Recommended(session[s].kind) : AutoApply(s, r, new)

ReviewStep(s) ==
    ReadRisk(s) \/ ApplySelected(s) \/ FindLatest(s) \/ RecordDecision(s) \/ UpdateReview(s)

Next ==
    \/ \E p \in Postings : AskForPass(p)
    \/ \E s \in Sessions :
        \/ \E m \in inbox : TakePass(s, m)
        \/ \E k \in Kinds : \E value \in Selections[k] : \E r \in Risks, replace \in BOOLEAN :
               StartReview(s, k, r, value, replace)
        \/ PassStep(s) \/ ReviewStep(s)
        \/ PassRaises(s) \/ SessionLost(s)

Spec == Init /\ [][Next]_vars
-----------------------------------------------------------------------------
Settled(k, r) == \A s \in Sessions : <<k, r>> \notin Holding(s)

(* The type of every variable.                                             *)
TypeOK ==
    /\ \A k \in Kinds, r \in Risks :
        /\ register[k][r] \subseteq UNION (Proposals[k] \cup Selections[k])
        /\ \A x \in rows[k][r] : x.id \in 1..serial /\ x.status \in {"open", "applied"}
        /\ \A x, y \in rows[k][r] : x.id = y.id => x = y
    /\ \A j \in DOMAIN jobs : /\ jobs[j].status \in {"pending", "running", "completed", "failed"}
                             /\ jobs[j].done \in 0..jobs[j].total
    /\ \A s \in Sessions : Cardinality(session[s].cur) <= 1 /\ session[s].ids \subseteq 1..serial
    /\ raced \cup torn \subseteq Kinds \X Risks

(* What a reviewer put on the register stays there until a reviewer        *)
(* replaces it or a pass is told to overwrite: passes merge into the tags  *)
(* they find, and leave owned risks out (overwrite_existing and            *)
(* only_unassigned are what the stages ask for). Other sessions at the     *)
(* same risk at the same time are excepted: passes write what they read    *)
(* when they began.                                                        *)
DecisionStands ==
    \A k \in Kinds, r \in Risks :
        <<k, r>> \notin raced => chosen[k][r] \subseteq register[k][r]

(* A risk has one open recommendation at most at each desk: a new pass     *)
(* replaces what the one before left open (delete_open_for_risk), also     *)
(* when that one was lost half way.                                        *)
OneOpenRecommendation ==
    \A k \in Kinds, r \in Risks : <<k, r>> \notin raced => Cardinality(OpenIds(k, r)) <= 1

(* "never deleted from history once reviewed" (mint-docs/flow/09): what a  *)
(* reviewer has closed stays, unless a pass selected it before that and    *)
(* deleted it after.                                                       *)
ReviewsStay ==
    [][\A k \in Kinds, r \in Risks : <<k, r>> \notin raced' =>
         \A x \in rows[k][r] : x.reviewed => x \in rows[k][r]']_vars

(* "every tag on the register is explainable" (mint-docs/flow/09): when    *)
(* nobody is at a risk any more, what is on the register has an applied    *)
(* recommendation behind it, and a reviewed one where a reviewer decided.  *)
(* A session that ended between the two commits leaves it without.         *)
RegisterExplained ==
    \A k \in Kinds, r \in Risks :
        Settled(k, r) /\ <<k, r>> \notin raced \cup torn =>
            /\ register[k][r] # {} => \E x \in rows[k][r] : x.status = "applied"
            /\ chosen[k][r] # {} => \E x \in rows[k][r] : x.reviewed

(* A job that shows completed has done all the risks it counted, whatever  *)
(* became of its earlier deliveries.                                       *)
CompletedJobsAreDone ==
    \A j \in DOMAIN jobs : jobs[j].status = "completed" => jobs[j].done = jobs[j].total

(* "an existing owner is never replaced silently; send replace_existing:   *)
(* true" (mint-docs/flow/10).                                              *)
OwnerReplacedKnowingly ==
    [][\A r \in Risks :
         chosen["owner"][r] # {} /\ register["owner"][r]' # register["owner"][r] =>
            \E s \in Sessions : At(s, "write") /\ session[s].replace /\ ~At(s, "write")']_vars
=============================================================================
