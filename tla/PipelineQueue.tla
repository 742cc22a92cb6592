--------------------------- MODULE PipelineQueue ---------------------------
(***************************************************************************)
(* The queue of pipeline runs of ONE organisation: the ingest request that *)
(* admits a run (handlers/pipeline.py), the row of the run and its status  *)
(* (repositories/pipeline_repository.py), the Celery tasks that drive the  *)
(* run from one stage to the next (pipeline/tasks_v2.py), the error        *)
(* callback (pipeline/tasks.py), and the cancel request.                   *)
(*                                                                         *)
(* Every action is one database commit, one publication to the broker or   *)
(* one read whose result is used later; the steps of two requests or two   *)
(* workers interleave freely, as they do between the awaits of the code.   *)
(* A stage is seen from outside: the task that dispatches it and the task  *)
(* that finalises it.  StageMachine models what happens between the two.   *)
(*                                                                         *)
(* Celery is external: a task message is redelivered when its worker is    *)
(* lost (task_acks_late, task_reject_on_worker_lost), and it is dropped,   *)
(* after its error callbacks have been published, when the task raises.    *)
(***************************************************************************)
EXTENDS Integers, FiniteSets

CONSTANTS
  Runs,         \* the ingest requests, each with the run it may create
  Workers,      \* the worker processes of the queue pipeline.orchestrator
  NoRun,        \* "no run was popped", "no run is being cancelled"
  Ephemeral,    \* the runs whose uploads are temporary (save_to_storage=false)
  NStages,      \* how many stages follow ingest_register
  Critical,     \* the stages of _CRITICAL_STAGES
  MaxQueued,    \* settings.pipeline_max_queued_runs
  MaxInFlight,  \* bound: ingest requests handled at the same time
  MaxCancels,   \* bound: cancel requests
  MaxCrashes,   \* bound: workers lost while they hold a task
  MaxErrors     \* bound: exceptions that escape a request or a task

ASSUME RunsAssumption    == NoRun \notin Runs /\ Ephemeral \subseteq Runs
ASSUME StagesAssumption  == NStages \in Nat \ {0} /\ Critical \subseteq 1..NStages
ASSUME WorkersAssumption == IsFiniteSet(Workers) /\ IsFiniteSet(Runs)
ASSUME BoundsAssumption  == /\ MaxQueued \in Nat
                            /\ MaxInFlight \in Nat \ {0}
                            /\ MaxCancels \in Nat
                            /\ MaxCrashes \in Nat
                            /\ MaxErrors \in Nat

VARIABLES
  status,       \* pipeline_runs.status, "absent" before the row exists
  stamp,        \* pipeline_runs.created_at
  docsRow,      \* documents on the latest run-level ingest_register step
  planned,      \* some plan of the first stage saw the documents of the run
  uploads,      \* the upload directory of the run exists
  ingest,       \* where the ingest request of the run is
  queueThis,    \* its local variable queue_this_run
  cancelling,   \* the run a cancel request has selected
  pending,      \* how many copies of each task message the broker holds
  wtask,        \* the task each worker executes
  wpc,          \* where in that task the worker is
  wpop,         \* the run the task has taken off the queue
  clock, cancels, crashes, errors

rowVars    == <<status, stamp, docsRow, planned, uploads, clock>>
ingestVars == <<ingest, queueThis>>
workerVars == <<wtask, wpc, wpop>>
faultVars  == <<crashes, errors>>
cancelVars == <<cancelling, cancels>>
vars == <<rowVars, ingestVars, pending, workerVars, faultVars, cancelVars>>

-----------------------------------------------------------------------------
(* Statuses, tasks and program counters.                                   *)

Active   == {"queued", "running"}         \* what has_active_run looks for
Terminal == {"completed", "failed"}
Statuses == {"absent", "waiting"} \cup Active \cup Terminal

DocsRow == {"none", "empty", "documents"}

\* pipeline_v2_start(run, documents); full says the documents are not [].
StartTask(r, full)     == [kind |-> "start", run |-> r, stage |-> 0, full |-> full]
\* dispatch_stage(run, stage)
DispatchTask(r, k)     == [kind |-> "dispatch", run |-> r, stage |-> k, full |-> FALSE]
\* finalize_stage(run, stage); full says it is the guarded callback of a chord.
FinalizeTask(r, k, full) == [kind |-> "finalize", run |-> r, stage |-> k, full |-> full]
\* pipeline_v2_complete(run) and pipeline_failed(run)
CompleteTask(r)        == [kind |-> "complete", run |-> r, stage |-> 0, full |-> FALSE]
FailedTask(r)          == [kind |-> "failed", run |-> r, stage |-> 0, full |-> FALSE]

Tasks == {StartTask(r, b) : r \in Runs, b \in BOOLEAN}
    \cup {DispatchTask(r, k) : r \in Runs, k \in 1..NStages}
    \cup {FinalizeTask(r, k, b) : r \in Runs, k \in 1..NStages, b \in BOOLEAN}
    \cup {CompleteTask(r) : r \in Runs}
    \cup {FailedTask(r) : r \in Runs}

NoTask == [kind |-> "none", run |-> NoRun, stage |-> 0, full |-> FALSE]

\* The first step of each kind of task.
Entry(kind) == CASE kind = "start"    -> "set_running"
                 [] kind = "dispatch" -> "set_running"
                 [] kind = "finalize" -> "join"
                 [] kind = "complete" -> "mark_completed"
                 [] kind = "failed"   -> "load"

\* The steps of a task between its first one and the end of its transaction
\* or publication; at "ack" the task has returned and only the broker has not
\* yet heard of it.
TaskSteps == {"set_running", "record", "send", "join", "send_failed", "send_next",
              "mark_completed", "load", "mark_failed", "select", "flip",
              "cleanup", "start_next"}
WorkerPCs == TaskSteps \cup {"idle", "ack"}

IngestPCs == {"idle", "count", "create", "register", "finish",
              "accepted", "rejected", "died"}
InFlight  == {"count", "create", "register", "finish"}

Waiting == {r \in Runs : status[r] = "waiting"}

Init ==
  /\ status = [r \in Runs |-> "absent"]
  /\ stamp = [r \in Runs |-> 0]
  /\ docsRow = [r \in Runs |-> "none"]
  /\ planned = [r \in Runs |-> FALSE]
  /\ uploads = [r \in Runs |-> FALSE]
  /\ ingest = [r \in Runs |-> "idle"]
  /\ queueThis = [r \in Runs |-> FALSE]
  /\ cancelling = NoRun
  /\ pending = [t \in Tasks |-> 0]
  /\ wtask = [w \in Workers |-> NoTask]
  /\ wpc = [w \in Workers |-> "idle"]
  /\ wpop = [w \in Workers |-> NoRun]
  /\ clock = 0 /\ cancels = 0 /\ crashes = 0 /\ errors = 0

-----------------------------------------------------------------------------
(* POST /ingest: ingest().                                                 *)

IngestGoto(r, pc) == ingest' = [ingest EXCEPT ![r] = pc]

\* has_active_run.
SlotRunning == \E s \in Runs : status[s] = "running"     \* mutant of SlotTaken
SlotTaken   == \E s \in Runs : status[s] \in Active

\* The answer is read here and used by CreateRun.
CheckActive(r) ==
  /\ ingest[r] = "idle"
  /\ Cardinality({s \in Runs : ingest[s] \in InFlight}) < MaxInFlight
  /\ \/ /\ ~SlotTaken
        /\ IngestGoto(r, "create")
     \/ /\ SlotTaken
        /\ IngestGoto(r, IF MaxQueued = 0 THEN "rejected" ELSE "count")
  /\ UNCHANGED <<rowVars, queueThis, pending, workerVars, faultVars, cancelVars>>

\* count_waiting against pipeline_max_queued_runs.
QueueFull == Cardinality(Waiting) >= MaxQueued

\* 429, or queue this run.
CountWaiting(r) ==
  /\ ingest[r] = "count"
  /\ \/ /\ QueueFull
        /\ IngestGoto(r, "rejected")
        /\ UNCHANGED queueThis
     \/ /\ ~QueueFull
        /\ IngestGoto(r, "create")
        /\ queueThis' = [queueThis EXCEPT ![r] = TRUE]
  /\ UNCHANGED <<rowVars, pending, workerVars, faultVars, cancelVars>>

\* The status the row is created with.
StepStatus(r)    == "pending"                           \* mutants of
AlwaysWaiting(r) == "waiting"                           \* CreatedStatus
CreatedStatus(r) == IF queueThis[r] THEN "waiting" ELSE "queued"

\* run_repo.create commits the row, and with it its place in the queue.
CreateRun(r) ==
  /\ ingest[r] = "create"
  /\ status' = [status EXCEPT ![r] = CreatedStatus(r)]
  /\ stamp' = [stamp EXCEPT ![r] = clock]
  /\ clock' = clock + 1
  /\ IngestGoto(r, "register")
  /\ UNCHANGED <<docsRow, planned, uploads, queueThis, pending, workerVars,
                 faultVars, cancelVars>>

\* mkdir of the upload directory, the files and their registry rows.
RegisterUploads(r) ==
  /\ ingest[r] = "register"
  /\ uploads' = [uploads EXCEPT ![r] = TRUE]
  /\ IngestGoto(r, "finish")
  /\ UNCHANGED <<status, stamp, docsRow, planned, clock, queueThis, pending,
                 workerVars, faultVars, cancelVars>>

\* A queued run keeps its documents on a pending ingest_register step.
RecordDocuments(r) ==
  /\ ingest[r] = "finish" /\ queueThis[r]
  /\ docsRow' = [docsRow EXCEPT ![r] = "documents"]
  /\ IngestGoto(r, "accepted")
  /\ UNCHANGED <<status, stamp, planned, uploads, clock, queueThis, pending,
                 workerVars, faultVars, cancelVars>>

\* Mutant of EnqueuePipeline: the documents are left out of the message.
EnqueueBare(r) ==
  /\ ingest[r] = "finish" /\ ~queueThis[r]
  /\ pending' = [pending EXCEPT ![StartTask(r, FALSE)] = @ + 1]
  /\ IngestGoto(r, "accepted")
  /\ UNCHANGED <<rowVars, queueThis, workerVars, faultVars, cancelVars>>

\* enqueue_pipeline: the start task carries the documents.
EnqueuePipeline(r) ==
  /\ ingest[r] = "finish" /\ ~queueThis[r]
  /\ pending' = [pending EXCEPT ![StartTask(r, TRUE)] = @ + 1]
  /\ IngestGoto(r, "accepted")
  /\ UNCHANGED <<rowVars, queueThis, workerVars, faultVars, cancelVars>>

\* Any step after the row is committed may raise (unique index, disk, broker):
\* the request answers 500 and the row stays as it is.
IngestRaises(r) ==
  /\ ingest[r] \in {"register", "finish"}
  /\ errors < MaxErrors /\ errors' = errors + 1
  /\ IngestGoto(r, "died")
  /\ UNCHANGED <<rowVars, queueThis, pending, workerVars, crashes, cancelVars>>

IngestStep(r) == \/ CountWaiting(r)
                 \/ CreateRun(r)
                 \/ RegisterUploads(r)
                 \/ RecordDocuments(r)
                 \/ EnqueuePipeline(r)

-----------------------------------------------------------------------------
(* POST /pipeline/cancel: cancel_pipeline().  One request at a time.       *)

CancelSelect(r) ==
  /\ cancelling = NoRun
  /\ cancels < MaxCancels
  /\ status[r] \in Active
  /\ cancelling' = r
  /\ cancels' = cancels + 1
  /\ UNCHANGED <<rowVars, ingestVars, pending, workerVars, faultVars>>

\* mark_failed("Cancelled by user"), whatever the run has become meanwhile.
CancelCommit ==
  /\ cancelling # NoRun
  /\ status' = [status EXCEPT ![cancelling] = "failed"]
  /\ uploads' = [uploads EXCEPT ![cancelling] = @ /\ cancelling \notin Ephemeral]
  /\ cancelling' = NoRun
  /\ UNCHANGED <<stamp, docsRow, planned, clock, ingestVars, pending, workerVars,
                 faultVars, cancels>>

-----------------------------------------------------------------------------
(* The workers.  A worker takes one message at a time (prefetch 1).        *)

Goto(w, pc) == wpc' = [wpc EXCEPT ![w] = pc]
At(w, kind, pc) == wtask[w].kind = kind /\ wpc[w] = pc

Publish(t) == pending' = [pending EXCEPT ![t] = @ + 1]

TakeTask(w) ==
  /\ wpc[w] = "idle"
  /\ \E t \in Tasks :
       /\ pending[t] > 0
       /\ pending' = [pending EXCEPT ![t] = @ - 1]
       /\ wtask' = [wtask EXCEPT ![w] = t]
       /\ Goto(w, Entry(t.kind))
  /\ UNCHANGED <<rowVars, ingestVars, wpop, faultVars, cancelVars>>

\* The task has returned: the message is acknowledged.
Acknowledge(w) ==
  /\ wpc[w] = "ack"
  /\ Goto(w, "idle")
  /\ wtask' = [wtask EXCEPT ![w] = NoTask]
  /\ wpop' = [wpop EXCEPT ![w] = NoRun]
  /\ UNCHANGED <<rowVars, ingestVars, pending, faultVars, cancelVars>>

\* set_stage(status="running") does not look at the status it overwrites.
SetRunning(w) ==
  /\ wpc[w] = "set_running"
  /\ status' = [status EXCEPT ![wtask[w].run] = "running"]
  /\ Goto(w, IF wtask[w].kind = "start" THEN "record" ELSE "send")
  /\ UNCHANGED <<stamp, docsRow, planned, uploads, clock, ingestVars, pending,
                 wtask, wpop, faultVars, cancelVars>>

\* pipeline_v2_start: the run-level ingest_register step, then the first stage.
RecordStart(w) ==
  /\ At(w, "start", "record")
  /\ docsRow' = [docsRow EXCEPT ![wtask[w].run] =
                   IF wtask[w].full THEN "documents" ELSE "empty"]
  /\ Goto(w, "send")
  /\ UNCHANGED <<status, stamp, planned, uploads, clock, ingestVars, pending,
                 wtask, wpop, faultVars, cancelVars>>

SendFirstDispatch(w) ==
  /\ At(w, "start", "send")
  /\ Publish(DispatchTask(wtask[w].run, 1))
  /\ Goto(w, "ack")
  /\ UNCHANGED <<rowVars, ingestVars, wtask, wpop, faultVars, cancelVars>>

\* dispatch_stage plans the batches; with at least one it starts a chord whose
\* guarded callback is finalize_stage, with none it sends a bare finalize_stage.
\* The first stage plans from the documents on the ingest_register step.
PlanStage(w) ==
  /\ At(w, "dispatch", "send")
  /\ LET r == wtask[w].run
         k == wtask[w].stage
     IN \E full \in BOOLEAN :
          /\ k = 1 => full = (docsRow[r] = "documents")
          /\ planned' = [planned EXCEPT ![r] = @ \/ (k = 1 /\ full)]
          /\ Publish(FinalizeTask(r, k, full))
  /\ Goto(w, "ack")
  /\ UNCHANGED <<status, stamp, docsRow, uploads, clock, ingestVars, wtask, wpop,
                 faultVars, cancelVars>>

\* finalize_stage: fail the run when a critical stage lost all its batches,
\* which needs at least one; otherwise leave the row alone.
FailCritical(w) ==
  /\ At(w, "finalize", "join")
  /\ wtask[w].stage \in Critical /\ wtask[w].full
  /\ status' = [status EXCEPT ![wtask[w].run] = "failed"]
  /\ Goto(w, "send_failed")
  /\ UNCHANGED <<stamp, docsRow, planned, uploads, clock, ingestVars, pending,
                 wtask, wpop, faultVars, cancelVars>>

JoinStage(w) ==
  /\ At(w, "finalize", "join")
  /\ Goto(w, "send_next")
  /\ UNCHANGED <<rowVars, ingestVars, pending, wtask, wpop, faultVars, cancelVars>>

SendFailed(w) ==
  /\ At(w, "finalize", "send_failed")
  /\ Publish(FailedTask(wtask[w].run))
  /\ Goto(w, "ack")
  /\ UNCHANGED <<rowVars, ingestVars, wtask, wpop, faultVars, cancelVars>>

\* next_stage, and the task it leads to.
StageAgain(r, k) == DispatchTask(r, IF k < NStages THEN k + 1 ELSE k)  \* mutant of NextTask
NextTask(r, k) == IF k < NStages THEN DispatchTask(r, k + 1) ELSE CompleteTask(r)

SendNext(w) ==
  /\ At(w, "finalize", "send_next")
  /\ Publish(NextTask(wtask[w].run, wtask[w].stage))
  /\ Goto(w, "ack")
  /\ UNCHANGED <<rowVars, ingestVars, wtask, wpop, faultVars, cancelVars>>

\* Mutant of MarkCompleted: the queue is not popped.
CompleteWithoutPop(w) ==
  /\ At(w, "complete", "mark_completed")
  /\ status' = [status EXCEPT ![wtask[w].run] = "completed"]
  /\ Goto(w, "cleanup")
  /\ UNCHANGED <<stamp, docsRow, planned, uploads, clock, ingestVars, pending,
                 wtask, wpop, faultVars, cancelVars>>

\* pipeline_v2_complete: mark_completed does not look at the status either.
MarkCompleted(w) ==
  /\ At(w, "complete", "mark_completed")
  /\ status' = [status EXCEPT ![wtask[w].run] = "completed"]
  /\ Goto(w, "select")
  /\ UNCHANGED <<stamp, docsRow, planned, uploads, clock, ingestVars, pending,
                 wtask, wpop, faultVars, cancelVars>>

\* pipeline_failed leaves a terminal status alone, and goes on to the queue.
NeverMarks(st) == "select"                              \* mutant of AfterLoad
AfterLoad(st)  == IF st \in Terminal THEN "select" ELSE "mark_failed"

\* The status is read here and written in a later statement.
LoadStatus(w) ==
  /\ At(w, "failed", "load")
  /\ Goto(w, AfterLoad(status[wtask[w].run]))
  /\ UNCHANGED <<rowVars, ingestVars, pending, wtask, wpop, faultVars, cancelVars>>

MarkFailed(w) ==
  /\ At(w, "failed", "mark_failed")
  /\ status' = [status EXCEPT ![wtask[w].run] = "failed"]
  /\ Goto(w, "select")
  /\ UNCHANGED <<stamp, docsRow, planned, uploads, clock, ingestVars, pending,
                 wtask, wpop, faultVars, cancelVars>>

\* The order of pop_next_waiting.
Newest(r) == \A s \in Waiting : stamp[r] >= stamp[s]    \* mutant of Oldest
Oldest(r) == \A s \in Waiting : stamp[r] <= stamp[s]

\* pop_next_waiting: the oldest waiting run is selected without a lock ...
SelectWaiting(w) ==
  /\ wpc[w] = "select"
  /\ \/ /\ Waiting = {}
        /\ Goto(w, "cleanup")
        /\ UNCHANGED wpop
     \/ \E r \in Waiting :
          /\ Oldest(r)
          /\ wpop' = [wpop EXCEPT ![w] = r]
          /\ Goto(w, "flip")
  /\ UNCHANGED <<rowVars, ingestVars, pending, wtask, faultVars, cancelVars>>

\* Mutant of FlipToQueued: the new status is not committed.
FlipLost(w) ==
  /\ wpc[w] = "flip"
  /\ Goto(w, "cleanup")
  /\ UNCHANGED <<rowVars, ingestVars, pending, wtask, wpop, faultVars, cancelVars>>

\* ... and set to queued by a later statement.
FlipToQueued(w) ==
  /\ wpc[w] = "flip"
  /\ status' = [status EXCEPT ![wpop[w]] = "queued"]
  /\ Goto(w, "cleanup")
  /\ UNCHANGED <<stamp, docsRow, planned, uploads, clock, ingestVars, pending,
                 wtask, wpop, faultVars, cancelVars>>

\* Whether there is a run to start after the clean-up.
NothingToStart(r) == "ack"                              \* mutant of AfterCleanUp
AfterCleanUp(r)   == IF r = NoRun THEN "ack" ELSE "start_next"

\* cleanup_ephemeral_uploads of the finished run.
CleanUp(w) ==
  /\ wpc[w] = "cleanup"
  /\ LET r == wtask[w].run
     IN uploads' = [uploads EXCEPT ![r] = @ /\ r \notin Ephemeral]
  /\ Goto(w, AfterCleanUp(wpop[w]))
  /\ UNCHANGED <<status, stamp, docsRow, planned, clock, ingestVars, pending,
                 wtask, wpop, faultVars, cancelVars>>

\* The popped run is started with the documents its ingest_register step has
\* by now (_documents_for_waiting_run).
StartNext(w) ==
  /\ wpc[w] = "start_next"
  /\ Publish(StartTask(wpop[w], docsRow[wpop[w]] = "documents"))
  /\ Goto(w, "ack")
  /\ UNCHANGED <<rowVars, ingestVars, wtask, wpop, faultVars, cancelVars>>

\* One step of the task the worker holds; the take and the acknowledgement are
\* the broker's.
TaskStep(w) ==
  \/ SetRunning(w)    \/ RecordStart(w)   \/ SendFirstDispatch(w)
  \/ PlanStage(w)
  \/ FailCritical(w)  \/ JoinStage(w)     \/ SendFailed(w)  \/ SendNext(w)
  \/ MarkCompleted(w) \/ LoadStatus(w)    \/ MarkFailed(w)
  \/ SelectWaiting(w) \/ FlipToQueued(w)  \/ CleanUp(w)     \/ StartNext(w)

-----------------------------------------------------------------------------
(* Faults.                                                                 *)

Drop(w) == /\ wtask' = [wtask EXCEPT ![w] = NoTask]
           /\ wpop' = [wpop EXCEPT ![w] = NoRun]
           /\ Goto(w, "idle")

\* The worker is lost: its message goes back to the queue, what the task has
\* committed and published stays.
WorkerLost(w) ==
  /\ wpc[w] # "idle"
  /\ crashes < MaxCrashes /\ crashes' = crashes + 1
  /\ Publish(wtask[w])
  /\ Drop(w)
  /\ UNCHANGED <<rowVars, ingestVars, errors, cancelVars>>

\* The task raises: its message is acknowledged, and only the guarded callback
\* of a chord has an error callback.
TaskRaises(w) ==
  /\ wpc[w] \in TaskSteps \ {"cleanup"}
  /\ errors < MaxErrors /\ errors' = errors + 1
  /\ IF wtask[w].kind = "finalize" /\ wtask[w].full
     THEN Publish(FailedTask(wtask[w].run))
     ELSE UNCHANGED pending
  /\ Drop(w)
  /\ UNCHANGED <<rowVars, ingestVars, crashes, cancelVars>>

\* A batch raises (its failure could not be recorded): the chord is broken, its
\* callback never runs, and the error callbacks of the batch and of the chord
\* run instead.
ChordBreaks(r, k) ==
  /\ pending[FinalizeTask(r, k, TRUE)] > 0
  /\ errors < MaxErrors /\ errors' = errors + 1
  /\ \E copies \in 1..2 :
       pending' = [pending EXCEPT ![FinalizeTask(r, k, TRUE)] = @ - 1,
                                  ![FailedTask(r)] = @ + copies]
  /\ UNCHANGED <<rowVars, ingestVars, workerVars, crashes, cancelVars>>

Next ==
  \/ \E r \in Runs : CheckActive(r) \/ IngestStep(r) \/ IngestRaises(r) \/ CancelSelect(r)
  \/ CancelCommit
  \/ \E w \in Workers : TakeTask(w) \/ TaskStep(w) \/ Acknowledge(w)
  \/ \E w \in Workers : WorkerLost(w) \/ TaskRaises(w)
  \/ \E r \in Runs, k \in 1..NStages : ChordBreaks(r, k)

Spec == Init /\ [][Next]_vars

\* A request that was admitted and a task that was taken go on; workers keep
\* taking messages.  Nobody has to upload or to cancel, and nothing has to fail.
Fairness == /\ \A r \in Runs : WF_vars(IngestStep(r))
            /\ WF_vars(CancelCommit)
            /\ \A w \in Workers : WF_vars(TakeTask(w) \/ TaskStep(w) \/ Acknowledge(w))

FairSpec == Spec /\ Fairness

-----------------------------------------------------------------------------
(* Properties.                                                             *)

(* The type of every variable. *)
TypeOK ==
  /\ status \in [Runs -> Statuses]
  /\ stamp \in [Runs -> Nat]
  /\ docsRow \in [Runs -> DocsRow]
  /\ planned \in [Runs -> BOOLEAN]
  /\ uploads \in [Runs -> BOOLEAN]
  /\ ingest \in [Runs -> IngestPCs]
  /\ queueThis \in [Runs -> BOOLEAN]
  /\ cancelling \in Runs \cup {NoRun}
  /\ pending \in [Tasks -> Nat]
  /\ wtask \in [Workers -> Tasks \cup {NoTask}]
  /\ wpc \in [Workers -> WorkerPCs]
  /\ wpop \in [Workers -> Runs \cup {NoRun}]
  /\ clock \in Nat /\ cancels \in Nat /\ crashes \in Nat /\ errors \in Nat

(* A run that is still waiting, or that has no row yet, is driven by nobody: *)
(* no message names it, no worker executes a task of it.  Whatever is lost,  *)
(* redelivered, popped twice or cancelled, the queue is never jumped.        *)
NoTaskBeforeQueued ==
  \A r \in Runs : status[r] \in {"absent", "waiting"} =>
    /\ \A t \in Tasks : t.run = r => pending[t] = 0
    /\ \A w \in Workers : wtask[w].run # r

(* The task through which worker w will still hand run r on, or end it. *)
Drives(w, r) ==
  \/ wtask[w].run = r /\ wpc[w] \in {"set_running", "record", "send", "join",
                                     "send_failed", "send_next",
                                     "mark_completed", "load", "mark_failed"}
  \/ wpop[w] = r /\ wpc[w] \in {"cleanup", "start_next"}

(* Every queued or running run has something that will carry it on: its      *)
(* ingest request, a message, a worker, or the worker that popped it.        *)
(* Otherwise has_active_run would hold the organisation's slot for ever.     *)
(* It is claimed for executions in which no worker is lost and nothing       *)
(* raises: cancels, double pops and overlapping uploads are included.        *)
ActiveRunIsDriven ==
  \A r \in Runs : status[r] \in Active =>
    \/ ingest[r] \in {"register", "finish"}
    \/ \E t \in Tasks : t.run = r /\ pending[t] > 0
    \/ \E w \in Workers : Drives(w, r)

(* The queue is first in, first out, whoever pops it: a run leaves the state *)
(* waiting only when no older run is waiting, although the run is chosen in  *)
(* one statement and updated in a later one.                                 *)
PopsOldest ==
  [][\A r, s \in Runs :
       (status[r] = "waiting" /\ status'[r] # "waiting" /\ status[s] = "waiting")
         => stamp[r] <= stamp[s]]_vars

\* Where the row of a run puts it in RunQueue.
PlaceOf(st) == CASE st = "absent"  -> "outside"
                 [] st = "waiting" -> "line"
                 [] st \in Active  -> "active"
                 [] OTHER          -> "over"

Queue == INSTANCE RunQueue
           WITH place <- [r \in Runs |-> PlaceOf(status[r])], ticket <- stamp, next <- clock

(* The requests and tasks implement the queue: a run enters it once, the     *)
(* line is served first come first served although a run is chosen in one    *)
(* statement and updated in a later one, and no late task, cancel or double  *)
(* pop puts a run back into the line or ahead of it (pop_next_waiting,       *)
(* set_stage, mark_failed, mark_completed).                                  *)
ImplementsRunQueue == Queue!Spec

(* count_waiting and create are separate statements, so uploads that overlap *)
(* may overshoot the limit, but by no more than their number: each of them   *)
(* has seen room for one more.                                               *)
OvershootBounded ==
  Cardinality(Waiting \cup {r \in Runs : ingest[r] = "create" /\ queueThis[r]})
    <= MaxQueued + MaxInFlight - 1

(* At most one run of the organisation is active (backend/README.md:223).    *)
AtMostOneActive ==
  \A r, s \in Runs : status[r] \in Active /\ status[s] \in Active => r = s

(* A run that completed has planned the extraction of the documents it was   *)
(* uploaded with: "Its documents were recorded at ingest time"               *)
(* (pipeline_v2_complete).                                                   *)
CompletedRunPlannedItsDocuments ==
  \A r \in Runs : status[r] = "completed" => planned[r]

(* A run whose tasks are still to plan or execute keeps its temporary        *)
(* uploads: only the end of the run itself deletes them.                     *)
ActiveRunKeepsUploads ==
  \A r \in Runs : status[r] \in Active /\ ingest[r] = "accepted" => uploads[r]

(* Every active run ends, even when it is cancelled half-way or popped by    *)
(* two workers.                                                              *)
ActiveRunEnds ==
  \A r \in Runs : status[r] \in Active ~> status[r] \in Terminal

(* A run that waits behind an active one is started: the run in front ends   *)
(* and its last task pops the queue, also after a cancel.                    *)
QueuedBehindActiveStarts ==
  \A r \in Runs :
    (status[r] = "waiting" /\ \E s \in Runs : status[s] \in Active)
      ~> status[r] # "waiting"

(* Every waiting run is started ("It will start automatically", handlers/    *)
(* pipeline.py:336).                                                         *)
WaitingRunStarts == \A r \in Runs : status[r] = "waiting" ~> status[r] # "waiting"
=============================================================================
