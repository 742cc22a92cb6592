---------------------------- MODULE StageMachine ----------------------------
(***************************************************************************)
(* The batched state machine of ONE pipeline run (pipeline/tasks_v2.py     *)
(* over the registry of pipeline/stages.py): a stage is planned into       *)
(* batches, the batches run on the workers, retry and fail on their own,   *)
(* a chord waits for all of them, and the stage is joined and the next one *)
(* dispatched.  What the rows of pipeline_document_steps and the column    *)
(* pipeline_runs.stage_totals_json go through is modelled commit by        *)
(* commit; PipelineQueue models the queue the run came from.               *)
(*                                                                         *)
(* An item stands for a document and for what the stages derive from it    *)
(* (its control, the issue of the control, ...).  A session returns the    *)
(* run object it has already loaded (expire_on_commit=False), so a counter *)
(* is written from the value the session read first.                       *)
(*                                                                         *)
(* Celery is external: a message is redelivered when its worker is lost,   *)
(* and a chord sends its callback when the last part reports.              *)
(***************************************************************************)
EXTENDS Integers, Sequences, FiniteSets, Bags

CONSTANTS
  Items,           \* the documents of the run (integers: they have an order)
  Workers,
  NStages,         \* the stages after ingest_register, which is stage 0
  Input,           \* Input[k]: the stage whose result stage k plans from
  BatchSize,       \* BatchSize[k]: items per batch of stage k
  Single,          \* the stages planned as one batch without items
  Critical,        \* _CRITICAL_STAGES
  MaxRetries,      \* settings.celery_batch_max_retries
  MaxCrashes,      \* bound: workers lost while they hold a task
  MaxCommitErrors, \* bound: OperationalError while a counter is committed
  MaxAdvances,     \* bound: advance_pipeline requests
  MaxFaults        \* bound: crashes, commit errors and advances together

Stages    == 1..NStages
AllStages == 0..NStages

ASSUME ItemsAssumption == Items \subseteq Int /\ IsFiniteSet(Items)
ASSUME StagesAssumption ==
  /\ NStages \in Nat \ {0}
  /\ Input \in [Stages -> 0..NStages] /\ \A k \in Stages : Input[k] < k
  /\ BatchSize \in [Stages -> Nat \ {0}]
  /\ Single \subseteq Stages /\ Critical \subseteq Stages \ Single
ASSUME BoundsAssumption ==
  {MaxRetries, MaxCrashes, MaxCommitErrors, MaxAdvances, MaxFaults} \subseteq Nat

VARIABLES
  status,      \* pipeline_runs.status
  current,     \* pipeline_runs.current_stage
  totals,      \* pipeline_runs.stage_totals_json
  rows,        \* pipeline_document_steps of the run, oldest first
  chords,      \* the chords started so far: their stage, size and parts done
  msgs,        \* the bag of messages the broker holds
  worker,      \* the task of each worker, where it is and what it has read
  crashes, commitErrors, advances

faults == <<crashes, commitErrors, advances>>
FaultLeft == crashes + commitErrors + advances < MaxFaults
vars == <<status, current, totals, rows, chords, msgs, worker, faults>>

-----------------------------------------------------------------------------
(* Rows.  The batch index is 1.. here; a run-level row has batch 0.  The     *)
(* JSON result of a batch row holds its item ids until the batch completes,  *)
(* and only the output of the batch afterwards.                              *)

Row(k, i, st, ids, out) ==
  [stage |-> k, batch |-> i, status |-> st, itemIds |-> ids, out |-> out]

RowsOf(k, i) == {j \in DOMAIN rows : rows[j].stage = k /\ rows[j].batch = i}
BatchRows(k) == {j \in DOMAIN rows : rows[j].stage = k /\ rows[j].batch # 0}

\* Mutant of FindBatchStep: the batch index is not compared.
FirstStep(k, i) == CHOOSE j \in BatchRows(k) : \A h \in BatchRows(k) : j <= h

\* _find_batch_step: the first of list_for_stage.
FindBatchStep(k, i) == CHOOSE j \in RowsOf(k, i) : \A h \in RowsOf(k, i) : j <= h

\* get_run_level: the latest run-level row, or the empty result.
StageResult(k) ==
  IF RowsOf(k, 0) = {} THEN {}
  ELSE rows[CHOOSE j \in RowsOf(k, 0) : \A h \in RowsOf(k, 0) : j >= h].out

\* _chunk: the i-th batch of at most size items.
Rank(x, S) == Cardinality({y \in S : y <= x})
Chunk(S, size, i) == {x \in S : (i - 1) * size < Rank(x, S) /\ Rank(x, S) <= i * size}
ChunkCount(S, size) == (Cardinality(S) + size - 1) \div size

\* StageSpec.plan of stage k: the items it reads, how many batches it makes of
\* them, and the items of each.  Stage 0 (_ingest_plan) is one empty batch.
Unplanned == Single \cup {0}
PlanSource(k) == IF k \in Unplanned THEN {} ELSE StageResult(Input[k])
BatchCount(k, S) == IF k \in Unplanned THEN 1 ELSE ChunkCount(S, BatchSize[k])
BatchItems(k, S, i) == IF k \in Unplanned THEN {} ELSE Chunk(S, BatchSize[k], i)

(* Messages.                                                               *)

Task(kind, k, c, i, tries) ==
  [kind |-> kind, stage |-> k, chord |-> c, batch |-> i, tries |-> tries]
DispatchTask(k)           == Task("dispatch", k, 0, 0, 0)
BatchTask(k, c, i, tries) == Task("batch", k, c, i, tries)
FinalizeTask(k, c)        == Task("finalize", k, c, 0, 0)
CompleteTask              == Task("complete", 0, 0, 0, 0)
FailedTask                == Task("failed", 0, 0, 0, 0)

One(t) == SetToBag({t})
NoEntry == [total |-> 0, completed |-> 0, failed |-> 0]
NoTotals == [k \in AllStages |-> NoEntry]

\* A worker between tasks.  snap is the stage_totals_json its session holds,
\* ids the item ids it read (all of the plan's in a dispatch), next the next
\* batch row a dispatch has to create.
Idle == [task |-> FailedTask, pc |-> "idle", snap |-> NoTotals,
         ids |-> {}, next |-> 0]

Entry(kind) == CASE kind = "dispatch" -> "set_stage"
                 [] kind = "batch"    -> "load"
                 [] kind = "finalize" -> "join"
                 [] kind = "complete" -> "mark_completed"
                 [] kind = "failed"   -> "mark_failed"

Init ==
  /\ status = "queued" /\ current = 0
  /\ totals = NoTotals
  /\ \E docs \in SUBSET Items : rows = <<Row(0, 0, "completed", {}, docs)>>
  /\ chords = <<>>
  /\ msgs = One(DispatchTask(1))
  /\ worker = [w \in Workers |-> Idle]
  /\ crashes = 0 /\ commitErrors = 0 /\ advances = 0

-----------------------------------------------------------------------------
(* Taking and returning a task.                                            *)

Pc(w) == worker[w].pc
Of(w) == worker[w].task
At(w, pc) == Pc(w) = pc
Goto(w, pc) == worker' = [worker EXCEPT ![w].pc = pc]

TakeTask(w) ==
  /\ At(w, "idle")
  /\ \E t \in BagToSet(msgs) :
       /\ msgs' = msgs (-) One(t)
       /\ worker' = [worker EXCEPT ![w] = [Idle EXCEPT !.task = t, !.pc = Entry(t.kind)]]
  /\ UNCHANGED <<status, current, totals, rows, chords, faults>>

Acknowledge(w) ==
  /\ At(w, "ack")
  /\ worker' = [worker EXCEPT ![w] = Idle]
  /\ UNCHANGED <<status, current, totals, rows, chords, msgs, faults>>

-----------------------------------------------------------------------------
(* dispatch_stage.                                                         *)

SetStage(w) ==
  /\ At(w, "set_stage")
  /\ status' = "running" /\ current' = Of(w).stage
  /\ worker' = [worker EXCEPT ![w].pc = "plan", ![w].snap = totals]
  /\ UNCHANGED <<totals, rows, chords, msgs, faults>>

\* spec.plan and init_stage_total, on the totals loaded with the run.
PlanStage(w) ==
  /\ At(w, "plan")
  /\ LET k == Of(w).stage
         S == PlanSource(k)
     IN /\ totals' = [worker[w].snap EXCEPT ![k] = [NoEntry EXCEPT !.total = BatchCount(k, S)]]
        /\ worker' = [worker EXCEPT ![w].pc = "rows", ![w].ids = S, ![w].next = 1]
  /\ UNCHANGED <<status, current, rows, chords, msgs, faults>>

\* One batch row per commit.
CreateBatchRow(w) ==
  /\ At(w, "rows")
  /\ LET k == Of(w).stage
         i == worker[w].next
         S == worker[w].ids
     IN /\ i <= BatchCount(k, S)
        /\ rows' = Append(rows, Row(k, i, "pending", BatchItems(k, S, i), {}))
        /\ worker' = [worker EXCEPT ![w].next = i + 1]
  /\ UNCHANGED <<status, current, totals, chords, msgs, faults>>

\* Mutant of StartChord: finalize_stage is sent along with the batches.
StartGroup(w) ==
  /\ At(w, "rows")
  /\ LET k == Of(w).stage
         n == BatchCount(k, worker[w].ids)
         c == Len(chords) + 1
     IN /\ worker[w].next = n + 1
        /\ msgs' = msgs (+) SetToBag({BatchTask(k, c, i, 0) : i \in 1..n})
                        (+) One(FinalizeTask(k, c))
        /\ chords' = Append(chords, [size |-> n, done |-> {}])
  /\ Goto(w, "ack")
  /\ UNCHANGED <<status, current, totals, rows, faults>>

\* Mutant of StartChord: a stage without batches is not finalised.
StartNonEmptyChord(w) ==
  /\ At(w, "rows")
  /\ LET k == Of(w).stage
         n == BatchCount(k, worker[w].ids)
         c == Len(chords) + 1
     IN /\ worker[w].next = n + 1
        /\ msgs' = msgs (+) SetToBag({BatchTask(k, c, i, 0) : i \in 1..n})
        /\ chords' = Append(chords, [size |-> n, done |-> {}])
  /\ Goto(w, "ack")
  /\ UNCHANGED <<status, current, totals, rows, faults>>

\* Finalise at once when there is nothing to do, otherwise start the chord.
StartChord(w) ==
  /\ At(w, "rows")
  /\ LET k == Of(w).stage
         n == BatchCount(k, worker[w].ids)
         c == Len(chords) + 1
     IN /\ worker[w].next = n + 1
        /\ IF n = 0
           THEN /\ msgs' = msgs (+) One(FinalizeTask(k, 0))
                /\ UNCHANGED chords
           ELSE /\ msgs' = msgs (+) SetToBag({BatchTask(k, c, i, 0) : i \in 1..n})
                /\ chords' = Append(chords, [size |-> n, done |-> {}])
  /\ Goto(w, "ack")
  /\ UNCHANGED <<status, current, totals, rows, faults>>

-----------------------------------------------------------------------------
(* run_stage_batch.                                                        *)

\* The session loads the run and the row of the batch, and starts the row.
LoadBatch(w) ==
  /\ At(w, "load")
  /\ LET j == FindBatchStep(Of(w).stage, Of(w).batch)
     IN /\ rows' = [rows EXCEPT ![j].status = "running"]
        /\ worker' = [worker EXCEPT ![w].pc = "run", ![w].snap = totals,
                                    ![w].ids = rows[j].itemIds]
  /\ UNCHANGED <<status, current, totals, chords, msgs, faults>>

\* spec.run_batch succeeds, and its row is completed: any of the items may have
\* yielded something.  The extraction (stage 1) takes item_ids[0] and cannot
\* succeed without one.
RunSucceeds(w) ==
  /\ At(w, "run")
  /\ Of(w).stage = 1 => worker[w].ids # {}
  /\ LET j == FindBatchStep(Of(w).stage, Of(w).batch)
     IN \E out \in SUBSET worker[w].ids :
          rows' = [rows EXCEPT ![j].status = "completed", ![j].itemIds = {}, ![j].out = out]
  /\ Goto(w, "bump")
  /\ UNCHANGED <<status, current, totals, chords, msgs, faults>>

\* bump_stage_batch writes the whole column from the value first loaded.
BumpCompleted(w) ==
  /\ At(w, "bump")
  /\ totals' = [worker[w].snap EXCEPT ![Of(w).stage].completed = @ + 1]
  /\ Goto(w, "report")
  /\ UNCHANGED <<status, current, rows, chords, msgs, faults>>

\* self.retry raises MaxRetriesExceededError when the retries are used up.
RetriesAtMost(t) == t.tries <= MaxRetries                \* mutant of MayRetry
MayRetry(t)      == t.tries < MaxRetries

\* A transient error: retry with the next count, or give the batch up.
RetryOrFail(w) ==
  LET t == Of(w)
  IN IF MayRetry(t)
     THEN /\ msgs' = msgs (+) One([t EXCEPT !.tries = @ + 1])
          /\ Goto(w, "ack")
     ELSE /\ Goto(w, "fail")
          /\ UNCHANGED msgs

RunTransient(w) ==
  /\ At(w, "run")
  /\ RetryOrFail(w)
  /\ UNCHANGED <<status, current, totals, rows, chords, faults>>

BumpTransient(w) ==
  /\ At(w, "bump")
  /\ FaultLeft /\ commitErrors < MaxCommitErrors /\ commitErrors' = commitErrors + 1
  /\ RetryOrFail(w)
  /\ UNCHANGED <<status, current, totals, rows, chords, crashes, advances>>

\* _record_batch_failure, at once after an exception that is not transient: a
\* session of its own fails the row, keeping its result, then loads the run ...
FailRow(w) ==
  /\ Pc(w) \in {"run", "fail"}
  /\ LET j == FindBatchStep(Of(w).stage, Of(w).batch)
     IN rows' = [rows EXCEPT ![j].status = "failed"]
  /\ worker' = [worker EXCEPT ![w].pc = "bump_failed", ![w].snap = totals]
  /\ UNCHANGED <<status, current, totals, chords, msgs, faults>>

\* Mutant of BumpFailed: the failure is raised again, and the chord not told.
BumpAndRaise(w) ==
  /\ At(w, "bump_failed")
  /\ totals' = [worker[w].snap EXCEPT ![Of(w).stage].failed = @ + 1]
  /\ Goto(w, "ack")
  /\ UNCHANGED <<status, current, rows, chords, msgs, faults>>

\* ... and writes its counters.
BumpFailed(w) ==
  /\ At(w, "bump_failed")
  /\ totals' = [worker[w].snap EXCEPT ![Of(w).stage].failed = @ + 1]
  /\ Goto(w, "report")
  /\ UNCHANGED <<status, current, rows, chords, msgs, faults>>

\* The chord (external) counts the part, and sends finalize_stage after the last.
ReportPart(w) ==
  /\ At(w, "report")
  /\ LET t    == Of(w)
         done == chords[t.chord].done \cup {t.batch}
     IN /\ chords' = [chords EXCEPT ![t.chord].done = done]
        /\ IF /\ t.batch \notin chords[t.chord].done
              /\ Cardinality(done) = chords[t.chord].size
           THEN msgs' = msgs (+) One(FinalizeTask(t.stage, t.chord))
           ELSE UNCHANGED msgs
  /\ Goto(w, "ack")
  /\ UNCHANGED <<status, current, totals, rows, faults>>

-----------------------------------------------------------------------------
(* finalize_stage, and the end of the run.                                 *)

\* What the join makes of the batch rows, those with a batch index.
TruthyJoin(k) == UNION {rows[j].out : j \in BatchRows(k) \ RowsOf(k, 1)}  \* mutant of JoinResult
JoinResult(k) == UNION {rows[j].out : j \in BatchRows(k)}

\* Mutant of JoinStage: a stage without batches leaves no result.
JoinNonEmpty(w) ==
  /\ At(w, "join")
  /\ LET k == Of(w).stage
     IN rows' = IF BatchRows(k) = {} THEN rows
                ELSE Append(rows, Row(k, 0, "completed", {}, JoinResult(k)))
  /\ worker' = [worker EXCEPT ![w].pc = "decide", ![w].snap = totals]
  /\ UNCHANGED <<status, current, totals, chords, msgs, faults>>

\* The run is loaded, the batch rows are joined into a run-level row.
JoinStage(w) ==
  /\ At(w, "join")
  /\ LET k == Of(w).stage
     IN rows' = Append(rows, Row(k, 0, "completed", {}, JoinResult(k)))
  /\ worker' = [worker EXCEPT ![w].pc = "decide", ![w].snap = totals]
  /\ UNCHANGED <<status, current, totals, chords, msgs, faults>>

\* A critical stage produced nothing.
AnyBatchFailed(k, tot) == k \in Critical /\ tot[k].failed > 0  \* mutant of AllBatchesFailed
AllBatchesFailed(k, tot) ==
  k \in Critical /\ tot[k].total > 0 /\ tot[k].failed >= tot[k].total

\* mark_failed ...
DecideFailed(w) ==
  /\ At(w, "decide")
  /\ AllBatchesFailed(Of(w).stage, worker[w].snap)
  /\ status' = "failed"
  /\ Goto(w, "send_failed")
  /\ UNCHANGED <<current, totals, rows, chords, msgs, faults>>

SendFailed(w) ==
  /\ At(w, "send_failed")
  /\ msgs' = msgs (+) One(FailedTask)
  /\ Goto(w, "ack")
  /\ UNCHANGED <<status, current, totals, rows, chords, faults>>

\* ... otherwise the task next_stage leads to.
NextTask(k)   == IF k < NStages THEN DispatchTask(k + 1) ELSE CompleteTask

SendNext(w) ==
  /\ At(w, "decide")
  /\ ~AllBatchesFailed(Of(w).stage, worker[w].snap)
  /\ msgs' = msgs (+) One(NextTask(Of(w).stage))
  /\ Goto(w, "ack")
  /\ UNCHANGED <<status, current, totals, rows, chords, faults>>

MarkCompleted(w) ==
  /\ At(w, "mark_completed")
  /\ status' = "completed" /\ current' = NStages + 1
  /\ Goto(w, "ack")
  /\ UNCHANGED <<totals, rows, chords, msgs, faults>>

\* pipeline_failed leaves a terminal status alone.
MarkFailed(w) ==
  /\ At(w, "mark_failed")
  /\ status' = IF status \in {"completed", "failed"} THEN status ELSE "failed"
  /\ Goto(w, "ack")
  /\ UNCHANGED <<current, totals, rows, chords, msgs, faults>>

-----------------------------------------------------------------------------
(* Outside the normal course.                                              *)

\* The worker is lost; its message is redelivered.
WorkerLost(w) ==
  /\ Pc(w) # "idle"
  /\ FaultLeft /\ crashes < MaxCrashes /\ crashes' = crashes + 1
  /\ msgs' = msgs (+) One(Of(w))
  /\ worker' = [worker EXCEPT ![w] = Idle]
  /\ UNCHANGED <<status, current, totals, rows, chords, commitErrors, advances>>

\* advance_pipeline: dispatch the current stage again.  ingest_register is in
\* STAGE_SPECS, so a run that is still there is dispatched at stage 0.
AdvancePipeline ==
  /\ FaultLeft /\ advances < MaxAdvances /\ advances' = advances + 1
  /\ current \in AllStages
  /\ msgs' = msgs (+) One(DispatchTask(current))
  /\ UNCHANGED <<status, current, totals, rows, chords, worker, crashes, commitErrors>>

TaskStep(w) ==
  \/ TakeTask(w)     \/ Acknowledge(w)
  \/ SetStage(w)     \/ PlanStage(w)     \/ CreateBatchRow(w) \/ StartChord(w)
  \/ LoadBatch(w)    \/ RunSucceeds(w)   \/ RunTransient(w)   \/ BumpCompleted(w)
  \/ FailRow(w)      \/ BumpFailed(w)    \/ ReportPart(w)
  \/ JoinStage(w)    \/ DecideFailed(w)  \/ SendFailed(w)     \/ SendNext(w)
  \/ MarkCompleted(w) \/ MarkFailed(w)

Next ==
  \/ \E w \in Workers : TaskStep(w)
  \/ \E w \in Workers : BumpTransient(w) \/ WorkerLost(w)
  \/ AdvancePipeline

Spec == Init /\ [][Next]_vars

\* The workers keep working; nothing has to crash and nobody has to advance.
FairSpec == Spec /\ \A w \in Workers : WF_vars(TaskStep(w))

-----------------------------------------------------------------------------
(* Properties.                                                             *)

Entry3 == [total : Nat, completed : Nat, failed : Nat]
TaskSet == [kind : {"dispatch", "batch", "finalize", "complete", "failed"},
            stage : AllStages, chord : Nat, batch : Nat, tries : 0..MaxRetries]

(* The type of every variable. *)
TypeOK ==
  /\ status \in {"queued", "running", "completed", "failed"}
  /\ current \in 0..(NStages + 1)
  /\ totals \in [AllStages -> Entry3]
  /\ \A j \in DOMAIN rows :
       /\ rows[j].stage \in AllStages /\ rows[j].batch \in Nat
       /\ rows[j].status \in {"pending", "running", "completed", "failed"}
       /\ rows[j].itemIds \subseteq Items /\ rows[j].out \subseteq Items
  /\ \A c \in DOMAIN chords : chords[c].done \subseteq 1..chords[c].size
  /\ IsABag(msgs) /\ BagToSet(msgs) \subseteq TaskSet
  /\ \A w \in Workers : /\ Of(w) \in TaskSet
                        /\ worker[w].snap \in [AllStages -> Entry3]
                        /\ worker[w].ids \subseteq Items

Terminal == {"completed", "failed"}

(* A message is with the broker or in the hands of a worker.               *)
InSystem(t) == BagIn(t, msgs) \/ \E w \in Workers : Pc(w) # "idle" /\ Of(w) = t

(* The barrier: when finalize_stage of a chord exists, no batch of its stage *)
(* is pending, running or between its row and its counter, so the join reads *)
(* final rows.                                                               *)
JoinSeesFinalRows ==
  \A k \in Stages, c \in DOMAIN chords : InSystem(FinalizeTask(k, c)) =>
    /\ \A j \in BatchRows(k) : rows[j].status \in Terminal
    /\ \A w \in Workers :
         ~(Of(w).kind = "batch" /\ Of(w).stage = k /\ Pc(w) \notin {"idle", "ack"})

(* A batch works on the items it was planned with, on its first attempt and  *)
(* on every other: the retry and the redelivery of a batch find its item ids *)
(* on the step row ("Item id lists live on the batch step rows", tasks_v2).  *)
BatchRunsPlannedItems ==
  \A w \in Workers : Pc(w) = "run" =>
    worker[w].ids = BatchItems(Of(w).stage, PlanSource(Of(w).stage), Of(w).batch)

(* What a batch has stored on its step row as output is never overwritten.   *)
OutputIsKept ==
  [][\A j \in DOMAIN rows : rows[j].out \subseteq rows'[j].out]_vars

(* The result the next stages read holds the output of every batch.          *)
ResultIsComplete ==
  status = "completed" =>
    \A k \in Stages : StageResult(k) = UNION {rows[j].out : j \in BatchRows(k)}

(* A stage is planned only when the stage it reads has been joined, so a     *)
(* stage never runs ahead of its input, whatever is redelivered.             *)
InputIsJoined ==
  \A k \in Stages : (InSystem(DispatchTask(k)) \/ BatchRows(k) # {})
    => RowsOf(k - 1, 0) # {}

(* "Fail the whole run only if a critical stage produced nothing at all"     *)
(* (tasks_v2.py:248): a failed run has a critical stage all of whose batches *)
(* failed.                                                                   *)
FailsOnlyOnTotalFailure ==
  status = "failed" => \E k \in Critical :
    BatchRows(k) # {} /\ \A j \in BatchRows(k) : rows[j].status = "failed"

(* "Stages whose total failure means nothing downstream can run -> fail the  *)
(* run" (tasks_v2.py:51): a run does not complete when a critical stage lost *)
(* all its batches.                                                          *)
TotalFailureFails ==
  status = "completed" => \A k \in Critical :
    BatchRows(k) = {} \/ \E j \in BatchRows(k) : rows[j].status # "failed"

(* Every run comes to an end and stays there, with no message left: batches  *)
(* may fail and retry, workers may be lost and an operator may dispatch a    *)
(* stage again, but no stage waits for ever at its chord and no late task    *)
(* leaves the run running.                                                   *)
RunEnds == <>[](status \in Terminal /\ msgs = EmptyBag)
=============================================================================
