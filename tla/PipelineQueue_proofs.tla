------------------------ MODULE PipelineQueue_proofs ------------------------
(***************************************************************************)
(* Theorems about PipelineQueue, for every set of runs and workers, every  *)
(* limit and every number of cancels, lost workers and exceptions.         *)
(*                                                                         *)
(* QInv is the inductive invariant.  Its parts say which task a worker can *)
(* hold at each step (WorkerOK), which rows an ingest request can have     *)
(* created (IngestOK), that nothing names a run before it is queued        *)
(* (UnstartedOK), and that the run a worker is about to take off the queue *)
(* is still the oldest one there (PopOK).                                  *)
(*                                                                         *)
(* The last three theorems hold in regimes that are named where they are   *)
(* used, each as wide as it can be: RejectMode (no queue), Undisturbed (no *)
(* cancel and no lost worker either), OneAtATime (and one upload at a      *)
(* time).  Their invariants are NothingQueued /\ PlannedOK, Serial, SlotOK. *)
(***************************************************************************)
EXTENDS PipelineQueue, FiniteSetTheorems, TLAPS

Unstarted == {"absent", "waiting"}

\* A busy worker holds a task, an idle one nothing, and a worker that is about
\* to queue or to start a run has selected one.
WorkerOK ==
  \A w \in Workers :
    /\ wpc[w] = "idle" => wtask[w] = NoTask /\ wpop[w] = NoRun
    /\ wpc[w] # "idle" => wtask[w] \in Tasks
    /\ wpc[w] \in {"flip", "start_next"} => wpop[w] \in Runs

\* A request that has not reached create has no row; one that has passed it
\* has a row, which is not waiting unless the request queued it; a cancel has
\* selected a run that was active.
IngestOK ==
  /\ \A r \in Runs :
       /\ ingest[r] \in {"idle", "count", "create", "rejected"} => status[r] = "absent"
       /\ ingest[r] \in {"register", "finish", "accepted", "died"} /\ ~queueThis[r]
            => status[r] \notin Unstarted
  /\ cancelling # NoRun => status[cancelling] \notin Unstarted

\* A run that was not queued yet is named by no message and no task, and a
\* worker that has selected it is about to queue it.
UnstartedOK ==
  \A r \in Runs : status[r] \in Unstarted =>
    /\ \A t \in Tasks : t.run = r => pending[t] = 0
    /\ \A w \in Workers : wtask[w].run # r
    /\ \A w \in Workers : wpop[w] = r => wpc[w] = "flip"

\* The run a worker has selected has a row, and is no younger than any run that
\* waits.  Stamps are given out in order.
PopOK ==
  /\ \A r \in Runs : stamp[r] <= clock
  /\ \A w \in Workers : wpc[w] = "flip" =>
       /\ status[wpop[w]] # "absent"
       /\ \A s \in Runs : status[s] = "waiting" => stamp[wpop[w]] <= stamp[s]

QInv == TypeOK /\ WorkerOK /\ IngestOK /\ UnstartedOK /\ PopOK

-----------------------------------------------------------------------------
(* Facts about tasks.                                                      *)

(* Every task message names a run, has one of the five kinds, and carries a *)
(* stage of the registry when it is a dispatch_stage or a finalize_stage.   *)
LEMMA TaskFacts ==
  /\ \A t \in Tasks : /\ t.run \in Runs /\ t.full \in BOOLEAN
                      /\ t.kind \in {"start", "dispatch", "finalize", "complete", "failed"}
                      /\ t.kind \in {"dispatch", "finalize"} => t.stage \in 1..NStages
  /\ NoTask.run = NoRun /\ NoTask.kind = "none"
  /\ NoTask \notin Tasks
<1>1. ASSUME NEW t \in Tasks
      PROVE  /\ t.run \in Runs /\ t.full \in BOOLEAN
             /\ t.kind \in {"start", "dispatch", "finalize", "complete", "failed"}
             /\ t.kind \in {"dispatch", "finalize"} => t.stage \in 1..NStages
  <2>1. CASE \E r \in Runs, b \in BOOLEAN : t = StartTask(r, b)
    BY <2>1 DEF StartTask
  <2>2. CASE \E r \in Runs, k \in 1..NStages : t = DispatchTask(r, k)
    BY <2>2 DEF DispatchTask
  <2>3. CASE \E r \in Runs, k \in 1..NStages, b \in BOOLEAN : t = FinalizeTask(r, k, b)
    BY <2>3 DEF FinalizeTask
  <2>4. CASE \E r \in Runs : t = CompleteTask(r)
    BY <2>4 DEF CompleteTask
  <2>5. CASE \E r \in Runs : t = FailedTask(r)
    BY <2>5 DEF FailedTask
  <2> QED
    BY <2>1, <2>2, <2>3, <2>4, <2>5 DEF Tasks
<1>2. NoTask.run = NoRun /\ NoTask.kind = "none"
  BY DEF NoTask
<1> QED
  BY <1>1, <1>2

(* The messages the code builds are task messages, about the run they are   *)
(* built for.                                                               *)
LEMMA BuiltTasks ==
  ASSUME NEW r \in Runs
  PROVE  /\ \A b \in BOOLEAN : StartTask(r, b) \in Tasks /\ StartTask(r, b).run = r
         /\ \A k \in 1..NStages : DispatchTask(r, k) \in Tasks /\ DispatchTask(r, k).run = r
         /\ \A k \in 1..NStages, b \in BOOLEAN :
              FinalizeTask(r, k, b) \in Tasks /\ FinalizeTask(r, k, b).run = r
         /\ CompleteTask(r) \in Tasks /\ CompleteTask(r).run = r
         /\ FailedTask(r) \in Tasks /\ FailedTask(r).run = r
<1>1. /\ \A b \in BOOLEAN : StartTask(r, b) \in Tasks
      /\ \A k \in 1..NStages : DispatchTask(r, k) \in Tasks
  BY DEF Tasks
<1>2. \A k \in 1..NStages, b \in BOOLEAN : FinalizeTask(r, k, b) \in Tasks
  BY DEF Tasks
<1>3. CompleteTask(r) \in Tasks /\ FailedTask(r) \in Tasks
  BY DEF Tasks
<1>4. /\ \A b \in BOOLEAN : StartTask(r, b).run = r
      /\ \A k \in 1..NStages : DispatchTask(r, k).run = r
      /\ \A k \in 1..NStages, b \in BOOLEAN : FinalizeTask(r, k, b).run = r
      /\ CompleteTask(r).run = r /\ FailedTask(r).run = r
  BY DEF StartTask, DispatchTask, FinalizeTask, CompleteTask, FailedTask
<1> QED
  BY <1>1, <1>2, <1>3, <1>4

(* A task starts at a step of its own.                                      *)
LEMMA EntryFacts ==
  ASSUME NEW t \in Tasks
  PROVE  Entry(t.kind) \in {"set_running", "join", "mark_completed", "load"}
BY TaskFacts DEF Entry

(* Publishing a task message changes the count of that message only.        *)
LEMMA PublishFacts ==
  ASSUME pending \in [Tasks -> Nat], NEW t \in Tasks, Publish(t)
  PROVE  /\ pending' \in [Tasks -> Nat]
         /\ pending'[t] > 0
         /\ \A u \in Tasks : u # t => pending'[u] = pending[u]
BY DEF Publish

-----------------------------------------------------------------------------
(* Types.                                                                  *)

(* Every step keeps the types and the workers' bookkeeping.                 *)
LEMMA TypeStep == TypeOK /\ WorkerOK /\ [Next]_vars => TypeOK' /\ WorkerOK'
<1> SUFFICES ASSUME TypeOK, WorkerOK, [Next]_vars
             PROVE  TypeOK' /\ WorkerOK'
  OBVIOUS
<1> USE DEF TypeOK, WorkerOK, rowVars, ingestVars, workerVars, faultVars, cancelVars
<1>1. ASSUME NEW r \in Runs, CheckActive(r) \/ CountWaiting(r)
      PROVE  TypeOK' /\ WorkerOK'
  BY <1>1 DEF CheckActive, CountWaiting, IngestGoto, IngestPCs
<1>2. ASSUME NEW r \in Runs, CreateRun(r)
      PROVE  TypeOK' /\ WorkerOK'
  BY <1>2 DEF CreatedStatus, CreateRun, IngestGoto, IngestPCs, Statuses, Active
<1>3. ASSUME NEW r \in Runs, RegisterUploads(r) \/ RecordDocuments(r)
      PROVE  TypeOK' /\ WorkerOK'
  <2>1. CASE RegisterUploads(r)
    BY <2>1 DEF RegisterUploads, IngestGoto, IngestPCs
  <2>2. CASE RecordDocuments(r)
    BY <2>2 DEF RecordDocuments, IngestGoto, IngestPCs, DocsRow
  <2> QED
    BY <1>3, <2>1, <2>2
<1>4. ASSUME NEW r \in Runs, EnqueuePipeline(r)
      PROVE  TypeOK' /\ WorkerOK'
  <2>1. pending' \in [Tasks -> Nat]
    BY <1>4, BuiltTasks, PublishFacts DEF EnqueuePipeline, Publish
  <2> QED
    BY <1>4, <2>1 DEF EnqueuePipeline, IngestGoto, IngestPCs
<1>5. ASSUME NEW r \in Runs, IngestRaises(r)
      PROVE  TypeOK' /\ WorkerOK'
  BY <1>5 DEF IngestRaises, IngestGoto, IngestPCs
<1>6. ASSUME NEW r \in Runs, CancelSelect(r)
      PROVE  TypeOK' /\ WorkerOK'
  BY <1>6 DEF CancelSelect
<1>7. CASE CancelCommit
  BY <1>7 DEF CancelCommit, Statuses, Terminal
<1>8. ASSUME NEW w \in Workers, TakeTask(w)
      PROVE  TypeOK' /\ WorkerOK'
  BY <1>8, EntryFacts DEF TakeTask, Goto, WorkerPCs, TaskSteps
<1>9. ASSUME NEW w \in Workers, Acknowledge(w)
      PROVE  TypeOK' /\ WorkerOK'
  BY <1>9 DEF Acknowledge, Goto, WorkerPCs
<1>10. ASSUME NEW w \in Workers, TaskStep(w)
       PROVE  TypeOK' /\ WorkerOK'
  <2> USE DEF At, Goto, WorkerPCs, TaskSteps
  <2>1. CASE SetRunning(w)
    BY <2>1, TaskFacts DEF SetRunning, Statuses, Active
  <2>2. CASE RecordStart(w)
    BY <2>2, TaskFacts DEF RecordStart, DocsRow
  <2>3. CASE SendFirstDispatch(w)
    <3>1. \E t \in Tasks : Publish(t)
      <4>1. wtask[w].run \in Runs /\ 1 \in 1..NStages
        BY <2>3, TaskFacts, StagesAssumption DEF SendFirstDispatch
      <4>2. DispatchTask(wtask[w].run, 1) \in Tasks
        BY <4>1, BuiltTasks
      <4> QED
        BY <2>3, <4>2 DEF SendFirstDispatch
    <3>2. pending' \in [Tasks -> Nat]
      BY <3>1, PublishFacts
    <3> QED
      BY <2>3, <3>2 DEF SendFirstDispatch
  <2>4. CASE PlanStage(w)
    <3>1. \E t \in Tasks : Publish(t)
      BY <2>4, TaskFacts, BuiltTasks DEF PlanStage
    <3>2. pending' \in [Tasks -> Nat]
      BY <3>1, PublishFacts
    <3> QED
      BY <2>4, <3>2 DEF PlanStage
  <2>5. CASE FailCritical(w)
    BY <2>5, TaskFacts DEF FailCritical, Statuses, Terminal
  <2>6. CASE JoinStage(w)
    BY <2>6 DEF JoinStage
  <2>7. CASE SendFailed(w)
    <3>1. \E t \in Tasks : Publish(t)
      BY <2>7, TaskFacts, BuiltTasks DEF SendFailed
    <3>2. pending' \in [Tasks -> Nat]
      BY <3>1, PublishFacts
    <3> QED
      BY <2>7, <3>2 DEF SendFailed
  <2>8. CASE SendNext(w)
    <3>1. \E t \in Tasks : Publish(t)
      <4> DEFINE r == wtask[w].run
                 k == wtask[w].stage
      <4>1. r \in Runs /\ k \in 1..NStages
        BY <2>8, TaskFacts DEF SendNext
      <4>2. CASE k < NStages
        <5>1. k + 1 \in 1..NStages
          BY <4>1, <4>2, StagesAssumption
        <5>2. DispatchTask(r, k + 1) \in Tasks
          BY <4>1, <5>1, BuiltTasks
        <5> QED
          BY <2>8, <4>2, <5>2 DEF NextTask, SendNext
      <4>3. CASE ~(k < NStages)
        <5>1. CompleteTask(r) \in Tasks
          BY <4>1, BuiltTasks
        <5> QED
          BY <2>8, <4>3, <5>1 DEF NextTask, SendNext
      <4> QED
        BY <4>2, <4>3
    <3>2. pending' \in [Tasks -> Nat]
      BY <3>1, PublishFacts
    <3> QED
      BY <2>8, <3>2 DEF SendNext
  <2>9. CASE MarkCompleted(w)
    BY <2>9, TaskFacts DEF MarkCompleted, Statuses, Terminal
  <2>10. CASE LoadStatus(w)
    BY <2>10 DEF AfterLoad, LoadStatus
  <2>11. CASE MarkFailed(w)
    BY <2>11, TaskFacts DEF MarkFailed, Statuses, Terminal
  <2>12. CASE SelectWaiting(w)
    BY <2>12 DEF SelectWaiting, Waiting
  <2>13. CASE FlipToQueued(w)
    BY <2>13 DEF FlipToQueued, Statuses, Active
  <2>14. CASE CleanUp(w)
    BY <2>14, TaskFacts DEF AfterCleanUp, CleanUp
  <2>15. CASE StartNext(w)
    <3>1. \E t \in Tasks : Publish(t)
      BY <2>15, TaskFacts, BuiltTasks DEF StartNext
    <3>2. pending' \in [Tasks -> Nat]
      BY <3>1, PublishFacts
    <3> QED
      BY <2>15, <3>2 DEF StartNext
  <2> QED
    BY <1>10, <2>1, <2>2, <2>3, <2>4, <2>5, <2>6, <2>7, <2>8, <2>9, <2>10, <2>11,
       <2>12, <2>13, <2>14, <2>15 DEF TaskStep
<1>11. ASSUME NEW w \in Workers, WorkerLost(w)
       PROVE  TypeOK' /\ WorkerOK'
  BY <1>11, BoundsAssumption DEF WorkerLost, Drop, Goto, Publish, WorkerPCs
<1>12. ASSUME NEW w \in Workers, TaskRaises(w)
       PROVE  TypeOK' /\ WorkerOK'
  <2>1. wtask[w] \in Tasks
    BY <1>12 DEF TaskRaises, TaskSteps
  <2>2. pending' \in [Tasks -> Nat]
    <3>1. CASE UNCHANGED pending
      BY <3>1
    <3>2. CASE Publish(FailedTask(wtask[w].run))
      BY <2>1, <3>2, TaskFacts, BuiltTasks, PublishFacts
    <3> QED
      BY <1>12, <3>1, <3>2 DEF TaskRaises
  <2> QED
    BY <1>12, <2>2 DEF TaskRaises, Drop, Goto, WorkerPCs
<1>13. ASSUME NEW r \in Runs, NEW k \in 1..NStages, ChordBreaks(r, k)
       PROVE  TypeOK' /\ WorkerOK'
  <2>1. FinalizeTask(r, k, TRUE) \in Tasks /\ FailedTask(r) \in Tasks
    BY <1>13, BuiltTasks
  <2>2. pending' \in [Tasks -> Nat]
    <3> DEFINE f == FinalizeTask(r, k, TRUE)
               g == FailedTask(r)
    <3>1. PICK copies \in 1..2 :
            pending' = [pending EXCEPT ![f] = @ - 1, ![g] = @ + copies]
      BY <1>13 DEF ChordBreaks
    <3>2. f \in Tasks /\ g \in Tasks /\ f # g /\ pending[f] > 0
      BY <1>13, <2>1 DEF ChordBreaks, FinalizeTask, FailedTask
    <3> HIDE DEF f, g
    <3>3. pending[f] - 1 \in Nat /\ pending[g] + copies \in Nat
      BY <3>1, <3>2
    <3> QED
      BY <3>1, <3>2, <3>3
  <2>3. errors' \in Nat
    BY <1>13 DEF ChordBreaks
  <2> QED
    BY <1>13, <2>2, <2>3 DEF ChordBreaks
<1>14. CASE UNCHANGED vars
  BY <1>14 DEF vars
<1> QED
  BY <1>1, <1>2, <1>3, <1>4, <1>5, <1>6, <1>7, <1>8, <1>9, <1>10, <1>11, <1>12,
     <1>13, <1>14 DEF Next, IngestStep

-----------------------------------------------------------------------------
(* Who is named by messages and tasks.                                     *)

(* A busy worker works for a run that has left the queue.                   *)
LEMMA BusyRun ==
  ASSUME TypeOK, WorkerOK, UnstartedOK, NEW w \in Workers, wpc[w] # "idle"
  PROVE  wtask[w].run \in Runs /\ status[wtask[w].run] \notin Unstarted
BY TaskFacts DEF WorkerOK, UnstartedOK

(* What the steps of a task, the acknowledgement and the faults have in     *)
(* common is enough for the three parts of QInv: a status changes only from *)
(* one that has a row to one beyond the queue; a message is published only  *)
(* for a run beyond the queue; a worker keeps its run or drops it, and when *)
(* it leaves the step flip the run it has selected is beyond the queue.     *)
LEMMA FrameStep ==
  ASSUME TypeOK, WorkerOK, IngestOK, UnstartedOK, PopOK,
         \A r \in Runs : \/ status'[r] = status[r]
                         \/ status[r] # "absent" /\ status'[r] \notin Unstarted,
         \A t \in Tasks : status'[t.run] \in Unstarted => pending'[t] = pending[t],
         \A w \in Workers : wtask'[w].run = wtask[w].run \/ wtask'[w].run = NoRun,
         \A w \in Workers :
           \/ wpop'[w] = wpop[w] /\ wpc'[w] = wpc[w]
           \/ /\ wpc'[w] # "flip"
              /\ wpop'[w] \in {wpop[w], NoRun}
              /\ wpop'[w] # NoRun => wpc[w] # "flip" \/ status'[wpop[w]] \notin Unstarted,
         UNCHANGED <<stamp, clock, ingest, queueThis, cancelling>>
  PROVE  IngestOK' /\ UnstartedOK' /\ PopOK'
<1>1. \A r \in Runs : status'[r] \in Unstarted => status[r] \in Unstarted /\ status'[r] = status[r]
  BY DEF Unstarted
<1>2. IngestOK'
  BY DEF IngestOK, TypeOK, Unstarted
<1>3. UnstartedOK'
  <2> SUFFICES ASSUME NEW r \in Runs, status'[r] \in Unstarted
               PROVE  /\ \A t \in Tasks : t.run = r => pending'[t] = 0
                      /\ \A w \in Workers : wtask'[w].run # r
                      /\ \A w \in Workers : wpop'[w] = r => wpc'[w] = "flip"
    BY DEF UnstartedOK
  <2>1. status[r] \in Unstarted
    BY <1>1
  <2>2. \A t \in Tasks : t.run = r => pending'[t] = 0
    BY <2>1 DEF UnstartedOK
  <2>3. \A w \in Workers : wtask'[w].run # r
    BY <2>1, RunsAssumption DEF UnstartedOK
  <2>4. \A w \in Workers : wpop'[w] = r => wpc'[w] = "flip"
    BY <2>1, RunsAssumption DEF UnstartedOK
  <2> QED
    BY <2>2, <2>3, <2>4
<1>4. PopOK'
  <2>1. \A r \in Runs : stamp'[r] <= clock'
    BY DEF PopOK
  <2>2. ASSUME NEW w \in Workers, wpc'[w] = "flip"
        PROVE  /\ status'[wpop'[w]] # "absent"
               /\ \A s \in Runs : status'[s] = "waiting" => stamp'[wpop'[w]] <= stamp'[s]
    <3>1. wpc[w] = "flip" /\ wpop'[w] = wpop[w]
      BY <2>2
    <3>2. status[wpop[w]] # "absent" /\ wpop[w] \in Runs
      BY <3>1 DEF PopOK, WorkerOK
    <3>3. \A s \in Runs : status'[s] = "waiting" => status[s] = "waiting"
      BY <1>1 DEF Unstarted
    <3>4. \A s \in Runs : status'[s] = "waiting" => stamp'[wpop'[w]] <= stamp'[s]
      BY <3>1, <3>3 DEF PopOK
    <3>5. status'[wpop[w]] # "absent"
      BY <3>2 DEF Unstarted
    <3> QED
      BY <3>1, <3>4, <3>5
  <2> QED
    BY <2>1, <2>2 DEF PopOK
<1> QED
  BY <1>2, <1>3, <1>4

(* Every step keeps the other three parts of the invariant.                 *)
LEMMA QueueStep == QInv /\ [Next]_vars => IngestOK' /\ UnstartedOK' /\ PopOK'
<1> SUFFICES ASSUME QInv, [Next]_vars
             PROVE  IngestOK' /\ UnstartedOK' /\ PopOK'
  OBVIOUS
<1> USE DEF QInv, rowVars, ingestVars, workerVars, faultVars, cancelVars
<1>1. ASSUME NEW r \in Runs, CheckActive(r) \/ CountWaiting(r)
      PROVE  IngestOK' /\ UnstartedOK' /\ PopOK'
  <2>1. IngestOK'
    BY <1>1 DEF CheckActive, CountWaiting, IngestGoto, IngestOK, TypeOK
  <2>2. UnstartedOK' /\ PopOK'
    BY <1>1 DEF CheckActive, CountWaiting, UnstartedOK, PopOK
  <2> QED
    BY <2>1, <2>2
<1>2. ASSUME NEW r \in Runs, CreateRun(r)
      PROVE  IngestOK' /\ UnstartedOK' /\ PopOK'
  <2>1. status[r] = "absent"
    BY <1>2 DEF CreateRun, IngestOK
  <2>2. \A s \in Runs \ {r} : status'[s] = status[s] /\ stamp'[s] = stamp[s]
    BY <1>2 DEF CreateRun, TypeOK
  <2>3. status'[r] # "absent" /\ (status'[r] = "waiting" => queueThis[r]) /\ stamp'[r] = clock
    BY <1>2 DEF CreatedStatus, CreateRun, TypeOK
  <2>4. IngestOK'
    BY <1>2, <2>1, <2>2, <2>3 DEF CreateRun, IngestGoto, IngestOK, TypeOK, Unstarted
  <2>5. UnstartedOK'
    BY <1>2, <2>1, <2>2 DEF CreateRun, UnstartedOK, Unstarted
  <2>6. PopOK'
    <3>1. \A s \in Runs : stamp'[s] <= clock'
      BY <1>2, <2>2, <2>3 DEF CreateRun, PopOK, TypeOK
    <3>2. ASSUME NEW w \in Workers, wpc'[w] = "flip"
          PROVE  /\ status'[wpop'[w]] # "absent"
                 /\ \A s \in Runs : status'[s] = "waiting" => stamp'[wpop'[w]] <= stamp'[s]
      <4>1. wpc[w] = "flip" /\ wpop'[w] = wpop[w]
        BY <1>2, <3>2 DEF CreateRun
      <4>2. wpop[w] \in Runs \ {r} /\ status[wpop[w]] # "absent"
        BY <4>1, <2>1 DEF PopOK, WorkerOK
      <4>3. \A s \in Runs \ {r} : status'[s] = "waiting" => stamp'[wpop[w]] <= stamp'[s]
        BY <2>2, <4>1, <4>2 DEF PopOK
      <4>4. stamp'[wpop[w]] <= stamp'[r]
        BY <2>2, <2>3, <4>2 DEF PopOK
      <4> QED
        BY <2>2, <4>1, <4>2, <4>3, <4>4
    <3> QED
      BY <3>1, <3>2 DEF PopOK
  <2> QED
    BY <2>4, <2>5, <2>6
<1>3. ASSUME NEW r \in Runs, RegisterUploads(r) \/ RecordDocuments(r) \/ IngestRaises(r)
      PROVE  IngestOK' /\ UnstartedOK' /\ PopOK'
  <2>1. IngestOK'
    BY <1>3 DEF RegisterUploads, RecordDocuments, IngestRaises, IngestGoto, IngestOK, TypeOK
  <2>2. UnstartedOK' /\ PopOK'
    BY <1>3 DEF RegisterUploads, RecordDocuments, IngestRaises, UnstartedOK, PopOK
  <2> QED
    BY <2>1, <2>2
<1>4. ASSUME NEW r \in Runs, EnqueuePipeline(r)
      PROVE  IngestOK' /\ UnstartedOK' /\ PopOK'
  <2>1. IngestOK'
    BY <1>4 DEF EnqueuePipeline, IngestGoto, IngestOK, TypeOK
  <2>2. PopOK'
    BY <1>4 DEF EnqueuePipeline, PopOK
  <2>3. UnstartedOK'
    <3>1. status[r] \notin Unstarted
      BY <1>4 DEF EnqueuePipeline, IngestOK
    <3>2. StartTask(r, TRUE) \in Tasks /\ StartTask(r, TRUE).run = r /\ Publish(StartTask(r, TRUE))
      BY <1>4, BuiltTasks DEF EnqueuePipeline, Publish
    <3>3. \A t \in Tasks : t.run # r => pending'[t] = pending[t]
      BY <3>2, PublishFacts DEF TypeOK
    <3> QED
      BY <1>4, <3>1, <3>3 DEF EnqueuePipeline, UnstartedOK
  <2> QED
    BY <2>1, <2>2, <2>3
<1>5. ASSUME NEW r \in Runs, CancelSelect(r)
      PROVE  IngestOK' /\ UnstartedOK' /\ PopOK'
  BY <1>5 DEF CancelSelect, IngestOK, UnstartedOK, PopOK, Unstarted, Active
<1>6. CASE CancelCommit
  <2>1. cancelling \in Runs /\ status[cancelling] \notin Unstarted
    BY <1>6 DEF CancelCommit, IngestOK, TypeOK
  <2>2. status'[cancelling] = "failed" /\ \A s \in Runs \ {cancelling} : status'[s] = status[s]
    BY <1>6, <2>1 DEF CancelCommit, TypeOK
  <2>3. IngestOK'
    BY <1>6, <2>1, <2>2 DEF CancelCommit, IngestOK, Unstarted
  <2>4. UnstartedOK'
    BY <1>6, <2>1, <2>2 DEF CancelCommit, UnstartedOK, Unstarted
  <2>5. PopOK'
    <3>1. ASSUME NEW w \in Workers, wpc[w] = "flip"
          PROVE  status'[wpop[w]] # "absent"
      BY <2>2, <3>1 DEF PopOK, WorkerOK
    <3> QED
      BY <1>6, <2>2, <3>1 DEF CancelCommit, PopOK
  <2> QED
    BY <2>3, <2>4, <2>5
<1>7. ASSUME NEW w \in Workers, TakeTask(w)
      PROVE  IngestOK' /\ UnstartedOK' /\ PopOK'
  <2>1. PICK t \in Tasks : /\ pending[t] > 0
                           /\ pending' = [pending EXCEPT ![t] = @ - 1]
                           /\ wtask' = [wtask EXCEPT ![w] = t]
                           /\ wpc' = [wpc EXCEPT ![w] = Entry(t.kind)]
    BY <1>7 DEF TakeTask, Goto
  <2>2. wpop[w] = NoRun /\ Entry(t.kind) # "flip"
    BY <1>7, EntryFacts DEF TakeTask, WorkerOK
  <2>3. status[t.run] \notin Unstarted
    BY <2>1, TaskFacts DEF UnstartedOK, TypeOK
  <2>4. IngestOK'
    BY <1>7 DEF TakeTask, IngestOK
  <2>5. PopOK'
    BY <1>7, <2>1, <2>2 DEF TakeTask, PopOK, TypeOK
  <2>6. UnstartedOK'
    <3> SUFFICES ASSUME NEW r \in Runs, status[r] \in Unstarted
                 PROVE  /\ \A u \in Tasks : u.run = r => pending'[u] = 0
                        /\ \A v \in Workers : wtask'[v].run # r
                        /\ \A v \in Workers : wpop[v] = r => wpc'[v] = "flip"
      BY <1>7 DEF TakeTask, UnstartedOK
    <3>1. \A u \in Tasks : u.run = r => pending'[u] = 0
      BY <2>1, <2>3 DEF UnstartedOK, TypeOK
    <3>2. \A v \in Workers : wtask'[v].run # r
      BY <2>1, <2>3 DEF UnstartedOK, TypeOK
    <3>3. \A v \in Workers : wpop[v] = r => wpc'[v] = "flip"
      BY <2>1, <2>2, RunsAssumption DEF UnstartedOK, TypeOK
    <3> QED
      BY <3>1, <3>2, <3>3
  <2> QED
    BY <2>4, <2>5, <2>6
<1>8. ASSUME NEW w \in Workers, SelectWaiting(w)
      PROVE  IngestOK' /\ UnstartedOK' /\ PopOK'
  <2>1. IngestOK'
    BY <1>8 DEF SelectWaiting, IngestOK
  <2>2. CASE Waiting = {} /\ Goto(w, "cleanup") /\ UNCHANGED wpop
    <3>1. wpc[w] = "select"
      BY <1>8 DEF SelectWaiting
    <3>2. UnstartedOK'
      BY <1>8, <2>2, <3>1 DEF SelectWaiting, Goto, UnstartedOK, TypeOK
    <3>3. PopOK'
      BY <1>8, <2>2, <3>1 DEF SelectWaiting, Goto, PopOK, TypeOK
    <3> QED
      BY <2>1, <3>2, <3>3
  <2>3. ASSUME NEW r \in Waiting, \A s \in Waiting : stamp[r] <= stamp[s],
               wpop' = [wpop EXCEPT ![w] = r], Goto(w, "flip")
        PROVE  UnstartedOK' /\ PopOK'
    <3>1. r \in Runs /\ status[r] = "waiting"
      BY DEF Waiting
    <3>2. UnstartedOK'
      BY <1>8, <2>3 DEF SelectWaiting, Goto, UnstartedOK, TypeOK
    <3>3. \A s \in Runs : status[s] = "waiting" => stamp[r] <= stamp[s]
      BY <2>3 DEF Waiting
    <3>4. PopOK'
      BY <1>8, <2>3, <3>1, <3>3 DEF SelectWaiting, Goto, PopOK, TypeOK
    <3> QED
      BY <3>2, <3>4
  <2> QED
    BY <1>8, <2>1, <2>2, <2>3 DEF Oldest, SelectWaiting
<1>9. ASSUME NEW w \in Workers, TaskStep(w)
      PROVE  IngestOK' /\ UnstartedOK' /\ PopOK'
  <2> DEFINE r0 == wtask[w].run
             Published(r) == \E t \in Tasks : t.run = r /\ Publish(t)
  <2>1. wpc[w] # "idle"
    BY <1>9 DEF TaskStep, SetRunning, RecordStart, SendFirstDispatch, PlanStage,
                FailCritical, JoinStage, SendFailed, SendNext, MarkCompleted, LoadStatus,
                MarkFailed, SelectWaiting, FlipToQueued, CleanUp, StartNext, At
  <2>2. r0 \in Runs /\ status[r0] \notin Unstarted
    BY <2>1, BusyRun
  <2> HIDE DEF r0
  <2>3. CASE SetRunning(w) \/ FailCritical(w) \/ MarkCompleted(w) \/ MarkFailed(w)
    <3>1. \E v \in Active \cup Terminal : status' = [status EXCEPT ![r0] = v]
      BY <2>3 DEF SetRunning, FailCritical, MarkCompleted, MarkFailed, Active, Terminal, r0
    <3>2. \A r \in Runs : \/ status'[r] = status[r]
                          \/ status[r] # "absent" /\ status'[r] \notin Unstarted
      BY <2>2, <3>1 DEF TypeOK, Active, Terminal, Unstarted
    <3>3. wpc[w] # "flip" /\ \E pc \in WorkerPCs \ {"flip"} : wpc' = [wpc EXCEPT ![w] = pc]
      BY <2>3 DEF SetRunning, FailCritical, MarkCompleted, MarkFailed, At, Goto,
                  WorkerPCs, TaskSteps
    <3>4. UNCHANGED <<pending, wtask, wpop, stamp, clock, ingest, queueThis, cancelling>>
      BY <2>3 DEF SetRunning, FailCritical, MarkCompleted, MarkFailed
    <3>5. \A v \in Workers : wpc'[v] = wpc[v] \/ (wpc'[v] # "flip" /\ wpc[v] # "flip")
      BY <3>3 DEF TypeOK
    <3> QED
      BY <3>2, <3>4, <3>5, FrameStep
  <2>4. CASE RecordStart(w) \/ JoinStage(w) \/ LoadStatus(w) \/ CleanUp(w)
    <3>1. wpc[w] # "flip" /\ \E pc \in WorkerPCs \ {"flip"} : wpc' = [wpc EXCEPT ![w] = pc]
      BY <2>4 DEF RecordStart, JoinStage, LoadStatus, AfterLoad, CleanUp, AfterCleanUp, At, Goto,
                  WorkerPCs, TaskSteps
    <3>2. UNCHANGED <<status, pending, wtask, wpop, stamp, clock, ingest, queueThis, cancelling>>
      BY <2>4 DEF RecordStart, JoinStage, LoadStatus, CleanUp
    <3>3. \A v \in Workers : wpc'[v] = wpc[v] \/ (wpc'[v] # "flip" /\ wpc[v] # "flip")
      BY <3>1 DEF TypeOK
    <3> QED
      BY <3>2, <3>3, FrameStep
  <2>5. CASE SendFirstDispatch(w) \/ PlanStage(w) \/ SendFailed(w) \/ SendNext(w)
    <3>1. Published(r0)
      <4>1. CASE SendFirstDispatch(w)
        <5>1. 1 \in 1..NStages
          BY StagesAssumption
        <5>2. DispatchTask(r0, 1) \in Tasks /\ DispatchTask(r0, 1).run = r0
          BY <2>2, <5>1, BuiltTasks
        <5> QED
          BY <4>1, <5>2 DEF SendFirstDispatch, r0
      <4>2. CASE PlanStage(w)
        <5> DEFINE k == wtask[w].stage
        <5>1. k \in 1..NStages
          BY <2>1, <4>2, TaskFacts DEF PlanStage, At, WorkerOK
        <5>2. \A b \in BOOLEAN : FinalizeTask(r0, k, b) \in Tasks /\ FinalizeTask(r0, k, b).run = r0
          BY <2>2, <5>1, BuiltTasks
        <5> QED
          BY <4>2, <5>2 DEF PlanStage, r0
      <4>3. CASE SendFailed(w)
        <5>1. FailedTask(r0) \in Tasks /\ FailedTask(r0).run = r0
          BY <2>2, BuiltTasks
        <5> QED
          BY <4>3, <5>1 DEF SendFailed, r0
      <4>4. CASE SendNext(w)
        <5> DEFINE k == wtask[w].stage
        <5>1. k \in 1..NStages
          BY <2>1, <4>4, TaskFacts DEF SendNext, At, WorkerOK
        <5>2. CASE k < NStages
          <6>1. k + 1 \in 1..NStages
            BY <5>1, <5>2, StagesAssumption
          <6>2. DispatchTask(r0, k + 1) \in Tasks /\ DispatchTask(r0, k + 1).run = r0
            BY <2>2, <6>1, BuiltTasks
          <6> QED
            BY <4>4, <5>2, <6>2 DEF NextTask, SendNext, r0
        <5>3. CASE ~(k < NStages)
          <6>1. CompleteTask(r0) \in Tasks /\ CompleteTask(r0).run = r0
            BY <2>2, BuiltTasks
          <6> QED
            BY <4>4, <5>3, <6>1 DEF NextTask, SendNext, r0
        <5> QED
          BY <5>2, <5>3
      <4> QED
        BY <2>5, <4>1, <4>2, <4>3, <4>4
    <3>2. UNCHANGED <<status, wtask, wpop, stamp, clock, ingest, queueThis, cancelling>>
      BY <2>5 DEF SendFirstDispatch, PlanStage, SendFailed, SendNext
    <3>3. \A t \in Tasks : status'[t.run] \in Unstarted => pending'[t] = pending[t]
      BY <2>2, <3>1, <3>2, PublishFacts DEF TypeOK
    <3>4. \A v \in Workers : wpc'[v] = wpc[v] \/ (wpc'[v] # "flip" /\ wpc[v] # "flip")
      BY <2>5 DEF SendFirstDispatch, PlanStage, SendFailed, SendNext, At, Goto, TypeOK
    <3> QED
      BY <3>2, <3>3, <3>4, FrameStep
  <2>6. CASE SelectWaiting(w)
    BY <1>8, <2>6
  <2>7. CASE FlipToQueued(w)
    <3>1. wpop[w] \in Runs /\ status[wpop[w]] # "absent" /\ wpc[w] = "flip"
      BY <2>7 DEF FlipToQueued, WorkerOK, PopOK
    <3>2. status' = [status EXCEPT ![wpop[w]] = "queued"]
      BY <2>7 DEF FlipToQueued
    <3>3. \A r \in Runs : \/ status'[r] = status[r]
                          \/ status[r] # "absent" /\ status'[r] \notin Unstarted
      BY <3>1, <3>2 DEF TypeOK, Unstarted
    <3>4. status'[wpop[w]] \notin Unstarted
      BY <3>1, <3>2 DEF TypeOK, Unstarted
    <3>5. UNCHANGED <<pending, wtask, wpop, stamp, clock, ingest, queueThis, cancelling>>
      BY <2>7 DEF FlipToQueued
    <3>6. \A v \in Workers : wpc'[v] = wpc[v] \/ (wpc'[v] # "flip" /\ v = w)
      BY <2>7 DEF FlipToQueued, Goto, TypeOK
    <3> QED
      BY <3>3, <3>4, <3>5, <3>6, FrameStep
  <2>8. CASE StartNext(w)
    <3>1. wpop[w] \in Runs /\ wpc[w] = "start_next"
      BY <2>8 DEF StartNext, WorkerOK
    <3>2. status[wpop[w]] \notin Unstarted
      BY <3>1 DEF UnstartedOK
    <3>3. Published(wpop[w])
      <4>1. \A b \in BOOLEAN : /\ StartTask(wpop[w], b) \in Tasks
                               /\ StartTask(wpop[w], b).run = wpop[w]
        BY <3>1, BuiltTasks
      <4> QED
        BY <2>8, <4>1 DEF StartNext
    <3>4. UNCHANGED <<status, wtask, wpop, stamp, clock, ingest, queueThis, cancelling>>
      BY <2>8 DEF StartNext
    <3>5. \A t \in Tasks : status'[t.run] \in Unstarted => pending'[t] = pending[t]
      BY <3>2, <3>3, <3>4, PublishFacts DEF TypeOK
    <3>6. \A v \in Workers : wpc'[v] = wpc[v] \/ (wpc'[v] # "flip" /\ wpc[v] # "flip")
      BY <2>8, <3>1 DEF StartNext, Goto, TypeOK
    <3> QED
      BY <3>4, <3>5, <3>6, FrameStep
  <2> QED
    BY <1>9, <2>3, <2>4, <2>5, <2>6, <2>7, <2>8 DEF TaskStep
<1>10. ASSUME NEW w \in Workers, Acknowledge(w) \/ WorkerLost(w) \/ TaskRaises(w)
       PROVE  IngestOK' /\ UnstartedOK' /\ PopOK'
  <2> DEFINE r0 == wtask[w].run
  <2>1. wpc[w] # "idle" /\ wtask[w] \in Tasks
    BY <1>10 DEF Acknowledge, WorkerLost, TaskRaises, TaskSteps, WorkerOK
  <2>2. r0 \in Runs /\ status[r0] \notin Unstarted
    BY <2>1, BusyRun
  <2>3. UNCHANGED <<status, stamp, clock, ingest, queueThis, cancelling>>
    BY <1>10 DEF Acknowledge, WorkerLost, TaskRaises
  <2>4. UNCHANGED pending \/ \E t \in Tasks : t.run = r0 /\ Publish(t)
    <3>1. FailedTask(r0) \in Tasks /\ FailedTask(r0).run = r0
      BY <2>2, BuiltTasks
    <3> QED
      BY <1>10, <2>1, <3>1 DEF Acknowledge, WorkerLost, TaskRaises
  <2>5. \A t \in Tasks : status'[t.run] \in Unstarted => pending'[t] = pending[t]
    BY <2>2, <2>3, <2>4, PublishFacts DEF TypeOK
  <2>6. /\ wtask' = [wtask EXCEPT ![w] = NoTask]
        /\ wpop' = [wpop EXCEPT ![w] = NoRun]
        /\ wpc' = [wpc EXCEPT ![w] = "idle"]
    BY <1>10 DEF Acknowledge, WorkerLost, TaskRaises, Drop, Goto
  <2>7. /\ \A v \in Workers : wtask'[v].run = wtask[v].run \/ wtask'[v].run = NoRun
        /\ \A v \in Workers : \/ wpop'[v] = wpop[v] /\ wpc'[v] = wpc[v]
                              \/ wpop'[v] = NoRun /\ wpc'[v] # "flip"
    BY <2>6, TaskFacts DEF TypeOK
  <2> QED
    BY <2>3, <2>5, <2>7, FrameStep
<1>11. ASSUME NEW r \in Runs, NEW k \in 1..NStages, ChordBreaks(r, k)
       PROVE  IngestOK' /\ UnstartedOK' /\ PopOK'
  <2> DEFINE f == FinalizeTask(r, k, TRUE)
             g == FailedTask(r)
  <2>1. f \in Tasks /\ f.run = r /\ g \in Tasks /\ g.run = r
    BY <1>11, BuiltTasks
  <2>2. PICK copies \in 1..2 :
          pending' = [pending EXCEPT ![f] = @ - 1, ![g] = @ + copies]
    BY <1>11 DEF ChordBreaks
  <2>3. pending[f] > 0
    BY <1>11 DEF ChordBreaks
  <2> HIDE DEF f, g
  <2>4. status[r] \notin Unstarted
    BY <2>1, <2>3 DEF UnstartedOK
  <2>5. \A t \in Tasks : t.run # r => pending'[t] = pending[t]
    BY <2>1, <2>2 DEF TypeOK
  <2>6. UNCHANGED <<status, wtask, wpop, wpc, stamp, clock, ingest, queueThis, cancelling>>
    BY <1>11 DEF ChordBreaks
  <2> QED
    BY <2>4, <2>5, <2>6, FrameStep
<1>12. CASE UNCHANGED vars
  BY <1>12 DEF vars, IngestOK, UnstartedOK, PopOK
<1> QED
  BY <1>1, <1>2, <1>3, <1>4, <1>5, <1>6, <1>7, <1>9, <1>10, <1>11, <1>12 DEF Next, IngestStep

-----------------------------------------------------------------------------
(* The invariant holds.                                                    *)

(* The invariant holds before the first request: there is no row, no        *)
(* message and no task.                                                     *)
LEMMA QueueInit == Init => QInv
<1> SUFFICES ASSUME Init PROVE QInv
  OBVIOUS
<1>1. TypeOK
  BY DEF Init, TypeOK, Statuses, DocsRow, IngestPCs, WorkerPCs
<1>2. WorkerOK /\ IngestOK /\ PopOK
  BY DEF Init, WorkerOK, IngestOK, PopOK
<1>3. UnstartedOK
  BY TaskFacts, RunsAssumption DEF Init, UnstartedOK
<1> QED
  BY <1>1, <1>2, <1>3 DEF QInv

(* QInv is inductive.                                                       *)
LEMMA QueueInvariant == Spec => []QInv
<1>1. QInv /\ [Next]_vars => QInv'
  BY TypeStep, QueueStep DEF QInv
<1> QED
  BY QueueInit, <1>1, PTL DEF Spec

(* Every variable keeps its type, and the counts of messages stay natural   *)
(* numbers: no message is taken that was not published.                     *)
THEOREM TypeCorrect == Spec => []TypeOK
<1>1. QInv => TypeOK
  BY DEF QInv
<1> QED
  BY <1>1, QueueInvariant, PTL

(* The queue is never jumped: whatever is lost, redelivered, cancelled or   *)
(* popped by two workers, no message and no task names a run before the     *)
(* commit that took it off the queue (ingest, pop_next_waiting).            *)
THEOREM QueueNotJumped == Spec => []NoTaskBeforeQueued
<1>1. QInv => NoTaskBeforeQueued
  BY DEF QInv, UnstartedOK, NoTaskBeforeQueued, Unstarted
<1> QED
  BY <1>1, QueueInvariant, PTL

(* A run leaves the state waiting only in pop_next_waiting, through the     *)
(* worker that selected it: set_stage, mark_failed and mark_completed never *)
(* reach a waiting run.                                                     *)
LEMMA LeavesWaiting ==
  ASSUME QInv, [Next]_vars, NEW r \in Runs, status[r] = "waiting", status'[r] # "waiting"
  PROVE  \E w \in Workers : wpc[w] = "flip" /\ wpop[w] = r
<1> USE DEF QInv
<1>1. ASSUME NEW x \in Runs, CheckActive(x) \/ IngestStep(x) \/ IngestRaises(x) \/ CancelSelect(x)
      PROVE  FALSE
  <2>1. CASE CreateRun(x)
    <3>1. status[x] = "absent"
      BY <2>1 DEF CreateRun, IngestOK
    <3> QED
      BY <2>1, <3>1 DEF CreateRun, TypeOK
  <2>2. CASE ~CreateRun(x)
    BY <1>1, <2>2 DEF CheckActive, IngestStep, CountWaiting, RegisterUploads, RecordDocuments,
                      EnqueuePipeline, IngestRaises, CancelSelect, rowVars
  <2> QED
    BY <2>1, <2>2
<1>2. CASE CancelCommit
  BY <1>2 DEF CancelCommit, IngestOK, TypeOK, Unstarted
<1>3. ASSUME NEW w \in Workers, TakeTask(w) \/ Acknowledge(w) \/ WorkerLost(w) \/ TaskRaises(w)
      PROVE  FALSE
  BY <1>3 DEF TakeTask, Acknowledge, WorkerLost, TaskRaises, rowVars
<1>4. ASSUME NEW w \in Workers, TaskStep(w)
      PROVE  wpc[w] = "flip" /\ wpop[w] = r
  <2>1. CASE SetRunning(w) \/ FailCritical(w) \/ MarkCompleted(w) \/ MarkFailed(w)
    <3>1. wpc[w] # "idle"
      BY <2>1 DEF SetRunning, FailCritical, MarkCompleted, MarkFailed, At
    <3>2. wtask[w].run # r
      BY <3>1, BusyRun DEF Unstarted
    <3> QED
      BY <2>1, <3>2 DEF SetRunning, FailCritical, MarkCompleted, MarkFailed, TypeOK
  <2>2. CASE FlipToQueued(w)
    BY <2>2 DEF FlipToQueued, TypeOK
  <2>3. CASE RecordStart(w) \/ SendFirstDispatch(w) \/ PlanStage(w) \/ JoinStage(w)
             \/ SendFailed(w) \/ SendNext(w) \/ LoadStatus(w) \/ SelectWaiting(w)
             \/ CleanUp(w) \/ StartNext(w)
    BY <2>3 DEF RecordStart, SendFirstDispatch, PlanStage, JoinStage, SendFailed, SendNext,
                LoadStatus, SelectWaiting, CleanUp, StartNext, rowVars
  <2> QED
    BY <1>4, <2>1, <2>2, <2>3 DEF TaskStep
<1>5. ASSUME NEW x \in Runs, NEW k \in 1..NStages, ChordBreaks(x, k)
      PROVE  FALSE
  BY <1>5 DEF ChordBreaks, rowVars
<1>6. CASE UNCHANGED vars
  BY <1>6 DEF vars, rowVars
<1> QED
  BY <1>1, <1>2, <1>3, <1>4, <1>5, <1>6 DEF Next

(* The queue is first in, first out: pop_next_waiting picks the oldest run  *)
(* in one statement and updates it in a later one, and still no older run   *)
(* is waiting when it does.                                                 *)
THEOREM QueueIsFifo == Spec => PopsOldest
<1>1. QInv /\ [Next]_vars =>
        \A r, s \in Runs :
          (status[r] = "waiting" /\ status'[r] # "waiting" /\ status[s] = "waiting")
            => stamp[r] <= stamp[s]
  BY LeavesWaiting DEF QInv, PopOK
<1> QED
  BY <1>1, QueueInvariant, PTL DEF Spec, PopsOldest

-----------------------------------------------------------------------------
(* The requests and tasks implement the abstract queue.                    *)

\* The three variables of RunQueue.
AbstractPlace == [r \in Runs |-> PlaceOf(status[r])]

(* The statuses before a run is called, while it is active and after it     *)
(* have the place RunQueue gives them.                                      *)
LEMMA PlaceFacts ==
  /\ PlaceOf("absent") = "outside" /\ PlaceOf("waiting") = "line"
  /\ \A st \in Active : PlaceOf(st) = "active"
  /\ \A st \in Terminal : PlaceOf(st) = "over"
BY DEF PlaceOf, Active, Terminal

(* A step that leaves every row alone is a stutter of the abstract queue.   *)
LEMMA NoRunMoves ==
  ASSUME UNCHANGED <<status, stamp, clock>>
  PROVE  UNCHANGED Queue!vars
BY DEF Queue!vars

(* A step that gives one run that has been called another such status ends  *)
(* it, resumes it, or is a stutter (set_stage, mark_failed and              *)
(* mark_completed do not look at the status they overwrite).                *)
LEMMA CalledRunMoves ==
  ASSUME TypeOK, NEW r \in Runs, NEW st \in Active \cup Terminal, status[r] \notin Unstarted,
         status' = [status EXCEPT ![r] = st], UNCHANGED <<stamp, clock>>
  PROVE  [Queue!Next]_(Queue!vars)
<1>1. status[r] \in Active \cup Terminal
  BY DEF TypeOK, Statuses, Unstarted
<1>2. AbstractPlace' = [AbstractPlace EXCEPT ![r] = PlaceOf(st)]
  BY DEF AbstractPlace, TypeOK
<1>3. AbstractPlace[r] = PlaceOf(status[r])
  BY DEF AbstractPlace
<1>4. CASE PlaceOf(st) = AbstractPlace[r]
  <2>1. AbstractPlace' = AbstractPlace
    BY <1>2, <1>4 DEF AbstractPlace
  <2> QED
    BY <2>1 DEF Queue!vars, AbstractPlace
<1>5. CASE status[r] \in Active /\ st \in Terminal
  <2>1. Queue!Moves(r, "active", "over")
    BY <1>2, <1>3, <1>5, PlaceFacts DEF Queue!Moves, AbstractPlace
  <2> QED
    BY <2>1 DEF Queue!Next, Queue!End
<1>6. CASE status[r] \in Terminal /\ st \in Active
  <2>1. Queue!Moves(r, "over", "active")
    BY <1>2, <1>3, <1>6, PlaceFacts DEF Queue!Moves, AbstractPlace
  <2> QED
    BY <2>1 DEF Queue!Next, Queue!Resume
<1> QED
  BY <1>1, <1>3, <1>4, <1>5, <1>6, PlaceFacts

(* Every step of a request, a task, a cancel or a fault is a step of the    *)
(* abstract queue, or a stutter.                                            *)
LEMMA QueueStepRefines == QInv /\ [Next]_vars => [Queue!Next]_(Queue!vars)
<1> SUFFICES ASSUME QInv, [Next]_vars PROVE [Queue!Next]_(Queue!vars)
  OBVIOUS
<1> USE DEF QInv
<1>1. ASSUME NEW x \in Runs, CreateRun(x)
      PROVE  [Queue!Next]_(Queue!vars)
  <2>1. status[x] = "absent"
    BY <1>1 DEF CreateRun, IngestOK
  <2>2. /\ status' = [status EXCEPT ![x] = CreatedStatus(x)]
        /\ stamp' = [stamp EXCEPT ![x] = clock] /\ clock' = clock + 1
        /\ CreatedStatus(x) \in {"waiting", "queued"}
    BY <1>1 DEF CreateRun, CreatedStatus
  <2>3. AbstractPlace' = [AbstractPlace EXCEPT ![x] = PlaceOf(CreatedStatus(x))]
    BY <2>2 DEF AbstractPlace, TypeOK
  <2>4. AbstractPlace[x] = "outside"
    BY <2>1, PlaceFacts DEF AbstractPlace
  <2>5. PlaceOf(CreatedStatus(x)) \in {"line", "active"}
    BY <2>2, PlaceFacts DEF Active
  <2>6. Queue!Moves(x, "outside", "line") \/ Queue!Moves(x, "outside", "active")
    BY <2>3, <2>4, <2>5 DEF Queue!Moves, AbstractPlace
  <2> QED
    BY <2>2, <2>6 DEF Queue!Next, Queue!Enter
<1>2. ASSUME NEW x \in Runs,
             \/ CheckActive(x) \/ CountWaiting(x) \/ RegisterUploads(x) \/ RecordDocuments(x)
             \/ EnqueuePipeline(x) \/ IngestRaises(x) \/ CancelSelect(x)
      PROVE  [Queue!Next]_(Queue!vars)
  BY <1>2, NoRunMoves DEF CheckActive, CountWaiting, RegisterUploads, RecordDocuments,
       EnqueuePipeline, IngestRaises, CancelSelect, rowVars
<1>3. CASE CancelCommit
  <2>1. cancelling \in Runs /\ status[cancelling] \notin Unstarted
    BY <1>3 DEF CancelCommit, IngestOK, TypeOK
  <2>2. status' = [status EXCEPT ![cancelling] = "failed"] /\ UNCHANGED <<stamp, clock>>
    BY <1>3 DEF CancelCommit
  <2> QED
    BY <2>1, <2>2, CalledRunMoves DEF Terminal
<1>4. ASSUME NEW w \in Workers, TakeTask(w) \/ Acknowledge(w) \/ WorkerLost(w) \/ TaskRaises(w)
      PROVE  [Queue!Next]_(Queue!vars)
  BY <1>4, NoRunMoves DEF TakeTask, Acknowledge, WorkerLost, TaskRaises, rowVars
<1>5. ASSUME NEW w \in Workers, TaskStep(w)
      PROVE  [Queue!Next]_(Queue!vars)
  <2>1. CASE SetRunning(w) \/ FailCritical(w) \/ MarkCompleted(w) \/ MarkFailed(w)
    <3> DEFINE r == wtask[w].run
    <3>1. wpc[w] # "idle"
      BY <2>1 DEF SetRunning, FailCritical, MarkCompleted, MarkFailed, At
    <3>2. r \in Runs /\ status[r] \notin Unstarted
      BY <3>1, BusyRun
    <3>3. \E st \in {"running", "failed", "completed"} : status' = [status EXCEPT ![r] = st]
      BY <2>1 DEF SetRunning, FailCritical, MarkCompleted, MarkFailed
    <3>4. UNCHANGED <<stamp, clock>>
      BY <2>1 DEF SetRunning, FailCritical, MarkCompleted, MarkFailed
    <3> HIDE DEF r
    <3> QED
      BY <3>2, <3>3, <3>4, CalledRunMoves DEF Active, Terminal
  <2>2. CASE FlipToQueued(w)
    <3> DEFINE r == wpop[w]
    <3>1. r \in Runs /\ status[r] # "absent"
      BY <2>2 DEF FlipToQueued, WorkerOK, PopOK
    <3>2. status' = [status EXCEPT ![r] = "queued"] /\ UNCHANGED <<stamp, clock>>
      BY <2>2 DEF FlipToQueued
    <3>3. \A s \in Runs : status[s] = "waiting" => stamp[r] <= stamp[s]
      BY <2>2 DEF FlipToQueued, PopOK
    <3> HIDE DEF r
    <3>4. CASE status[r] = "waiting"
      <4>1. AbstractPlace' = [AbstractPlace EXCEPT ![r] = "active"]
        BY <3>1, <3>2, PlaceFacts DEF AbstractPlace, TypeOK, Active
      <4>2. AbstractPlace[r] = "line"
        BY <3>1, <3>4, PlaceFacts DEF AbstractPlace
      <4>3. \A s \in Runs : AbstractPlace[s] = "line" => status[s] = "waiting"
        BY PlaceFacts DEF AbstractPlace, TypeOK, Statuses, Active, Terminal
      <4>4. Queue!Call(r)
        BY <3>2, <3>3, <4>1, <4>2, <4>3 DEF Queue!Call, Queue!Moves, AbstractPlace
      <4> QED
        BY <3>1, <4>4 DEF Queue!Next
    <3>5. CASE status[r] # "waiting"
      BY <3>1, <3>2, <3>5, CalledRunMoves DEF Unstarted, Active
    <3> QED
      BY <3>4, <3>5
  <2>3. CASE RecordStart(w) \/ SendFirstDispatch(w) \/ PlanStage(w) \/ JoinStage(w)
             \/ SendFailed(w) \/ SendNext(w) \/ LoadStatus(w) \/ SelectWaiting(w)
             \/ CleanUp(w) \/ StartNext(w)
    BY <2>3, NoRunMoves DEF RecordStart, SendFirstDispatch, PlanStage, JoinStage, SendFailed,
         SendNext, LoadStatus, SelectWaiting, CleanUp, StartNext, rowVars
  <2> QED
    BY <1>5, <2>1, <2>2, <2>3 DEF TaskStep
<1>6. ASSUME NEW x \in Runs, NEW k \in 1..NStages, ChordBreaks(x, k)
      PROVE  [Queue!Next]_(Queue!vars)
  BY <1>6, NoRunMoves DEF ChordBreaks, rowVars
<1>7. CASE UNCHANGED vars
  BY <1>7, NoRunMoves DEF vars, rowVars
<1> QED
  BY <1>1, <1>2, <1>3, <1>4, <1>5, <1>6, <1>7 DEF Next, IngestStep

(* PipelineQueue implements RunQueue: through overlapping uploads, lost and *)
(* redelivered tasks, cancels and double pops the runs of an organisation   *)
(* are called in the order in which their rows were created.                *)
THEOREM QueueRefined == Spec => ImplementsRunQueue
<1>1. Init => Queue!Init
  BY PlaceFacts DEF Init, Queue!Init
<1> QED
  BY <1>1, QueueStepRefines, QueueInvariant, PTL DEF Spec, ImplementsRunQueue, Queue!Spec

-----------------------------------------------------------------------------
(* The organisation's slot is not leaked.                                  *)

\* An active run is carried on by something that still has to act: its request
\* when it did not queue the run, a message, or a worker.
DrivenStrong ==
  \A r \in Runs : status[r] \in Active =>
    \/ ingest[r] \in {"register", "finish"} /\ ~queueThis[r]
    \/ \E t \in Tasks : t.run = r /\ pending[t] > 0
    \/ \E w \in Workers : Drives(w, r)

(* A step of worker w that publishes or does nothing to the messages keeps  *)
(* every active run driven, provided the runs that w drove or made active   *)
(* still are.                                                               *)
LEMMA DrivenFrame ==
  ASSUME DrivenStrong, NEW w \in Workers,
         \A t \in Tasks : pending[t] > 0 => pending'[t] > 0,
         \A v \in Workers \ {w} : wtask'[v] = wtask[v] /\ wpc'[v] = wpc[v] /\ wpop'[v] = wpop[v],
         \A r \in Runs : status'[r] \in Active /\ (status[r] \notin Active \/ Drives(w, r)) =>
           \/ \E t \in Tasks : t.run = r /\ pending'[t] > 0
           \/ Drives(w, r)',
         UNCHANGED <<ingest, queueThis>>
  PROVE  DrivenStrong'
<1> SUFFICES ASSUME NEW r \in Runs, status'[r] \in Active
             PROVE  \/ ingest'[r] \in {"register", "finish"} /\ ~queueThis'[r]
                    \/ \E t \in Tasks : t.run = r /\ pending'[t] > 0
                    \/ \E v \in Workers : Drives(v, r)'
  BY DEF DrivenStrong
<1>1. CASE status[r] \notin Active \/ Drives(w, r)
  BY <1>1
<1>2. CASE \E v \in Workers \ {w} : Drives(v, r)
  BY <1>2 DEF Drives
<1>3. CASE status[r] \in Active /\ ~\E v \in Workers : Drives(v, r)
  BY <1>3 DEF DrivenStrong
<1> QED
  BY <1>1, <1>2, <1>3

(* Without lost workers and exceptions every step keeps every active run    *)
(* driven.                                                                  *)
LEMMA DrivenStep ==
  ASSUME MaxCrashes = 0, MaxErrors = 0, QInv, DrivenStrong, [Next]_vars
  PROVE  DrivenStrong'
<1> USE DEF QInv
<1>1. ASSUME NEW x \in Runs, CheckActive(x) \/ CountWaiting(x)
      PROVE  DrivenStrong'
  <2>1. UNCHANGED <<status, pending, workerVars>> /\ ingest[x] \in {"idle", "count"}
    BY <1>1 DEF CheckActive, CountWaiting, rowVars
  <2>2. \A r \in Runs : r # x => ingest'[r] = ingest[r] /\ queueThis'[r] = queueThis[r]
    BY <1>1 DEF CheckActive, CountWaiting, IngestGoto, TypeOK
  <2> QED
    BY <2>1, <2>2 DEF DrivenStrong, Drives, workerVars
<1>2. ASSUME NEW x \in Runs, CreateRun(x)
      PROVE  DrivenStrong'
  <2>1. \A r \in Runs : r # x => ingest'[r] = ingest[r] /\ status'[r] = status[r]
    BY <1>2 DEF CreateRun, IngestGoto, TypeOK
  <2>2. UNCHANGED <<pending, queueThis, workerVars>>
    BY <1>2 DEF CreateRun
  <2>3. status'[x] \in Active => ingest'[x] = "register" /\ ~queueThis'[x]
    BY <1>2 DEF CreatedStatus, CreateRun, IngestGoto, TypeOK, Active
  <2> QED
    BY <2>1, <2>2, <2>3 DEF DrivenStrong, Drives, workerVars
<1>3. ASSUME NEW x \in Runs, RegisterUploads(x) \/ RecordDocuments(x)
      PROVE  DrivenStrong'
  <2>1. UNCHANGED <<status, pending, queueThis, workerVars>>
    BY <1>3 DEF RegisterUploads, RecordDocuments
  <2>2. \A r \in Runs : \/ ingest'[r] = ingest[r]
                        \/ ingest'[r] = "finish" \/ queueThis[r]
    BY <1>3 DEF RegisterUploads, RecordDocuments, IngestGoto, TypeOK
  <2>3. \A r \in Runs : ingest[r] \in {"register", "finish"} /\ ~queueThis[r]
          => ingest'[r] \in {"register", "finish"}
    BY <2>2
  <2> QED
    BY <2>1, <2>3 DEF DrivenStrong, Drives, workerVars
<1>4. ASSUME NEW x \in Runs, EnqueuePipeline(x)
      PROVE  DrivenStrong'
  <2> DEFINE t == StartTask(x, TRUE)
  <2>1. t \in Tasks /\ t.run = x /\ Publish(t)
    BY <1>4, BuiltTasks DEF EnqueuePipeline, Publish
  <2> HIDE DEF t
  <2>2. pending'[t] > 0 /\ \A u \in Tasks : pending[u] > 0 => pending'[u] > 0
    BY <2>1, PublishFacts DEF TypeOK
  <2>3. UNCHANGED <<status, queueThis, workerVars>>
    BY <1>4 DEF EnqueuePipeline, rowVars
  <2>4. \A r \in Runs : r # x => ingest'[r] = ingest[r]
    BY <1>4 DEF EnqueuePipeline, IngestGoto, TypeOK
  <2> QED
    BY <2>1, <2>2, <2>3, <2>4 DEF DrivenStrong, Drives, workerVars
<1>5. ASSUME NEW x \in Runs, CancelSelect(x)
      PROVE  DrivenStrong'
  BY <1>5 DEF CancelSelect, DrivenStrong, Drives, rowVars, ingestVars, workerVars
<1>6. CASE CancelCommit
  <2>1. \A r \in Runs : status'[r] = status[r] \/ status'[r] \notin Active
    BY <1>6 DEF CancelCommit, TypeOK, Active
  <2>2. UNCHANGED <<pending, ingestVars, workerVars>>
    BY <1>6 DEF CancelCommit
  <2> QED
    BY <2>1, <2>2 DEF DrivenStrong, Drives, ingestVars, workerVars
<1>7. ASSUME NEW w \in Workers, TakeTask(w)
      PROVE  DrivenStrong'
  <2>1. PICK t \in Tasks : /\ pending' = [pending EXCEPT ![t] = @ - 1]
                           /\ wtask' = [wtask EXCEPT ![w] = t]
                           /\ wpc' = [wpc EXCEPT ![w] = Entry(t.kind)]
    BY <1>7 DEF TakeTask, Goto
  <2>2. UNCHANGED <<status, ingest, queueThis, wpop>> /\ wpc[w] = "idle"
    BY <1>7 DEF TakeTask, rowVars, ingestVars
  <2>3. Drives(w, t.run)'
    BY <2>1, EntryFacts DEF Drives, TypeOK
  <2>4. \A u \in Tasks : u # t => pending'[u] = pending[u]
    BY <2>1 DEF TypeOK
  <2>5. \A v \in Workers, r \in Runs : Drives(v, r) => Drives(v, r)'
    BY <2>1, <2>2 DEF Drives, TypeOK
  <2> QED
    BY <2>2, <2>3, <2>4, <2>5 DEF DrivenStrong
<1>8. ASSUME NEW w \in Workers, Acknowledge(w)
      PROVE  DrivenStrong'
  <2>1. UNCHANGED <<status, pending, ingest, queueThis>> /\ wpc[w] = "ack"
    BY <1>8 DEF Acknowledge, rowVars, ingestVars
  <2>2. \A v \in Workers, r \in Runs : Drives(v, r) => Drives(v, r)'
    BY <1>8 DEF Acknowledge, Goto, Drives, TypeOK
  <2> QED
    BY <2>1, <2>2 DEF DrivenStrong
<1>9. ASSUME NEW w \in Workers, TaskStep(w)
      PROVE  DrivenStrong'
  <2> DEFINE r0 == wtask[w].run
  <2> USE DEF At, Goto
  <2>1. wpc[w] # "idle"
    BY <1>9 DEF TaskStep, SetRunning, RecordStart, SendFirstDispatch, PlanStage,
                FailCritical, JoinStage, SendFailed, SendNext, MarkCompleted, LoadStatus,
                MarkFailed, SelectWaiting, FlipToQueued, CleanUp, StartNext
  <2>2. r0 \in Runs /\ wtask[w] \in Tasks
    BY <2>1, BusyRun DEF WorkerOK
  <2>3. UNCHANGED <<ingest, queueThis>> /\
        \A v \in Workers \ {w} : wtask'[v] = wtask[v] /\ wpc'[v] = wpc[v] /\ wpop'[v] = wpop[v]
    BY <1>9 DEF TaskStep, SetRunning, RecordStart, SendFirstDispatch, PlanStage,
                FailCritical, JoinStage, SendFailed, SendNext, MarkCompleted, LoadStatus,
                MarkFailed, SelectWaiting, FlipToQueued, CleanUp, StartNext, TypeOK, ingestVars
  \* The steps that leave the task at a step from which it still drives its run.
  <2>4. CASE SetRunning(w) \/ RecordStart(w) \/ JoinStage(w)
    <3>1. UNCHANGED pending /\ wtask'[w] = wtask[w] /\ wpop'[w] = wpop[w]
      BY <2>4 DEF SetRunning, RecordStart, JoinStage
    <3>2. wpc'[w] \in {"record", "send", "send_next"}
      BY <2>4 DEF SetRunning, RecordStart, JoinStage, TypeOK
    <3>3. Drives(w, r0)'
      BY <3>1, <3>2 DEF Drives
    <3>4. \A r \in Runs : status'[r] \in Active /\ (status[r] \notin Active \/ Drives(w, r)) => r = r0
      BY <2>4 DEF SetRunning, RecordStart, JoinStage, Drives, TypeOK, rowVars
    <3> QED
      BY <2>3, <3>1, <3>3, <3>4, DrivenFrame
  \* The steps that end the run.
  <2>5. CASE FailCritical(w) \/ MarkCompleted(w) \/ MarkFailed(w)
    <3>1. UNCHANGED pending
      BY <2>5 DEF FailCritical, MarkCompleted, MarkFailed
    <3>2. status'[r0] \notin Active /\ \A r \in Runs \ {r0} : status'[r] = status[r]
      BY <2>2, <2>5 DEF FailCritical, MarkCompleted, MarkFailed, TypeOK, Active
    <3>3. \A r \in Runs : Drives(w, r) => r = r0
      BY <2>5 DEF FailCritical, MarkCompleted, MarkFailed, Drives
    <3> QED
      BY <2>3, <3>1, <3>2, <3>3, DrivenFrame
  <2>6. CASE LoadStatus(w)
    <3>1. UNCHANGED <<pending, status>> /\ wtask'[w] = wtask[w]
      BY <2>6 DEF LoadStatus, rowVars
    <3>2. \A r \in Runs : status[r] \in Active /\ Drives(w, r) => r = r0 /\ wpc'[w] = "mark_failed"
      BY <2>6 DEF AfterLoad, LoadStatus, Drives, TypeOK, Active, Terminal
    <3>3. \A r \in Runs : status[r] \in Active /\ Drives(w, r) => Drives(w, r)'
      BY <3>1, <3>2 DEF Drives
    <3> QED
      BY <2>3, <3>1, <3>3, DrivenFrame
  <2>7. CASE SelectWaiting(w)
    <3>1. UNCHANGED <<pending, status>> /\ \A r \in Runs : ~Drives(w, r)
      BY <2>7 DEF SelectWaiting, Drives, rowVars
    <3> QED
      BY <2>3, <3>1, DrivenFrame
  <2>8. CASE FlipToQueued(w)
    <3>1. UNCHANGED <<pending, wpop>> /\ wpc'[w] = "cleanup" /\ \A r \in Runs : ~Drives(w, r)
      BY <2>8 DEF FlipToQueued, Drives, TypeOK
    <3>2. \A r \in Runs : status'[r] \in Active /\ status[r] \notin Active => r = wpop[w]
      BY <2>8 DEF FlipToQueued, TypeOK
    <3>3. Drives(w, wpop[w])'
      BY <3>1 DEF Drives
    <3> QED
      BY <2>3, <3>1, <3>2, <3>3, DrivenFrame
  <2>9. CASE CleanUp(w)
    <3>1. UNCHANGED <<pending, status, wpop>>
      BY <2>9 DEF CleanUp
    <3>2. \A r \in Runs : Drives(w, r) => r = wpop[w] /\ wpc'[w] = "start_next"
      BY <2>9, RunsAssumption DEF AfterCleanUp, CleanUp, Drives, TypeOK
    <3>3. \A r \in Runs : Drives(w, r) => Drives(w, r)'
      BY <3>1, <3>2 DEF Drives
    <3> QED
      BY <2>3, <3>1, <3>3, DrivenFrame
  \* The steps that hand the run on by a message.
  <2>10. CASE SendFirstDispatch(w) \/ PlanStage(w) \/ SendFailed(w) \/ SendNext(w) \/ StartNext(w)
    <3>1. \A r \in Runs : Drives(w, r) => \E t \in Tasks : t.run = r /\ Publish(t)
      <4>1. CASE SendFirstDispatch(w)
        <5>1. DispatchTask(r0, 1) \in Tasks /\ DispatchTask(r0, 1).run = r0
          BY <2>2, StagesAssumption, BuiltTasks
        <5> QED
          BY <4>1, <5>1 DEF SendFirstDispatch, Drives
      <4>2. CASE PlanStage(w)
        <5> DEFINE k == wtask[w].stage
        <5>1. k \in 1..NStages
          BY <2>2, <4>2, TaskFacts DEF PlanStage
        <5>2. \A b \in BOOLEAN : FinalizeTask(r0, k, b) \in Tasks /\ FinalizeTask(r0, k, b).run = r0
          BY <2>2, <5>1, BuiltTasks
        <5>3. \A r \in Runs : Drives(w, r) => r = r0
          BY <4>2 DEF PlanStage, Drives
        <5>4. \E b \in BOOLEAN : Publish(FinalizeTask(r0, k, b))
          BY <4>2 DEF PlanStage
        <5> QED
          BY <5>2, <5>3, <5>4
      <4>3. CASE SendFailed(w)
        <5>1. FailedTask(r0) \in Tasks /\ FailedTask(r0).run = r0
          BY <2>2, BuiltTasks
        <5> QED
          BY <4>3, <5>1 DEF SendFailed, Drives
      <4>4. CASE SendNext(w)
        <5> DEFINE k == wtask[w].stage
                   t == IF k < NStages THEN DispatchTask(r0, k + 1) ELSE CompleteTask(r0)
        <5>1. k \in 1..NStages
          BY <2>2, <4>4, TaskFacts DEF SendNext
        <5>2. t \in Tasks /\ t.run = r0
          <6>1. CASE k < NStages
            <7>1. k + 1 \in 1..NStages
              BY <5>1, <6>1, StagesAssumption
            <7> QED
              BY <2>2, <6>1, <7>1, BuiltTasks
          <6>2. CASE ~(k < NStages)
            BY <2>2, <6>2, BuiltTasks
          <6> QED
            BY <6>1, <6>2
        <5>3. Publish(t) /\ \A r \in Runs : Drives(w, r) => r = r0
          BY <4>4 DEF NextTask, SendNext, Drives
        <5> HIDE DEF t
        <5> QED
          BY <5>2, <5>3
      <4>5. CASE StartNext(w)
        <5>1. wpop[w] \in Runs
          BY <4>5 DEF StartNext, WorkerOK
        <5>2. \A b \in BOOLEAN : StartTask(wpop[w], b) \in Tasks /\ StartTask(wpop[w], b).run = wpop[w]
          BY <5>1, BuiltTasks
        <5> QED
          BY <4>5, <5>2 DEF StartNext, Drives
      <4> QED
        BY <2>10, <4>1, <4>2, <4>3, <4>4, <4>5
    <3>2. UNCHANGED status /\ \E t \in Tasks : Publish(t)
      <4>1. UNCHANGED status
        BY <2>10 DEF SendFirstDispatch, PlanStage, SendFailed, SendNext, StartNext, rowVars
      <4>2. \E r \in Runs : Drives(w, r)
        BY <2>2, <2>10 DEF SendFirstDispatch, PlanStage, SendFailed, SendNext, StartNext,
                           Drives, WorkerOK
      <4> QED
        BY <3>1, <4>1, <4>2
    <3>3. \A t \in Tasks : pending[t] > 0 => pending'[t] > 0
      BY <3>2, PublishFacts DEF TypeOK
    <3>4. \A r \in Runs : Drives(w, r) => \E t \in Tasks : t.run = r /\ pending'[t] > 0
      BY <3>1, PublishFacts DEF TypeOK
    <3> QED
      BY <2>3, <3>2, <3>3, <3>4, DrivenFrame
  <2> QED
    BY <1>9, <2>4, <2>5, <2>6, <2>7, <2>8, <2>9, <2>10 DEF TaskStep
\* The faults are excluded by their bounds.
<1>10. ~\E w \in Workers : WorkerLost(w) \/ TaskRaises(w)
  BY DEF WorkerLost, TaskRaises, TypeOK
<1>11. /\ ~\E r \in Runs : IngestRaises(r)
       /\ ~\E r \in Runs, k \in 1..NStages : ChordBreaks(r, k)
  <2>1. ~(errors < MaxErrors)
    BY DEF TypeOK
  <2> QED
    BY <2>1 DEF IngestRaises, ChordBreaks
<1>12. CASE UNCHANGED vars
  BY <1>12 DEF vars, rowVars, ingestVars, workerVars, DrivenStrong, Drives
<1> QED
  BY <1>1, <1>2, <1>3, <1>4, <1>5, <1>6, <1>7, <1>8, <1>9, <1>10, <1>11, <1>12
     DEF Next, IngestStep

(* As long as no worker is lost and nothing raises, every queued or running *)
(* run has something that will carry it on, so the slot that has_active_run *)
(* guards is given back: also when runs are cancelled half-way, revived by  *)
(* a late set_stage, or popped by two workers.                              *)
THEOREM ActiveRunsAreDriven ==
  ASSUME MaxCrashes = 0, MaxErrors = 0
  PROVE  Spec => []ActiveRunIsDriven
<1>1. Init => DrivenStrong
  BY DEF Init, DrivenStrong, Active
<1>2. QInv /\ DrivenStrong /\ [Next]_vars => DrivenStrong'
  BY DrivenStep
<1>3. DrivenStrong => ActiveRunIsDriven
  BY DEF DrivenStrong, ActiveRunIsDriven
<1> QED
  BY <1>1, <1>2, <1>3, QueueInvariant, PTL DEF Spec

-----------------------------------------------------------------------------
(* The limit of the queue.                                                 *)

\* The requests that have decided to queue their run and not yet created it,
\* and the requests that are being handled.
Joining   == {r \in Runs : ingest[r] = "create" /\ queueThis[r]}
Handling  == {r \in Runs : ingest[r] \in InFlight}

CountOK == /\ \A r \in Runs : ingest[r] \in {"idle", "count"} => ~queueThis[r]
           /\ Cardinality(Handling) <= MaxInFlight
           /\ OvershootBounded

(* A set of runs is finite, and a smaller one has no more elements.         *)
LEMMA RunSets ==
  /\ \A S \in SUBSET Runs : IsFiniteSet(S) /\ Cardinality(S) \in Nat
  /\ \A S, T \in SUBSET Runs : S \subseteq T => Cardinality(S) <= Cardinality(T)
  /\ \A S, T \in SUBSET Runs : Cardinality(S \cup T) <= Cardinality(S) + Cardinality(T)
<1>1. \A S \in SUBSET Runs : IsFiniteSet(S)
  BY FS_Subset, WorkersAssumption
<1>2. \A S \in SUBSET Runs : Cardinality(S) \in Nat
  BY <1>1, FS_CardinalityType
<1>3. \A S, T \in SUBSET Runs : S \subseteq T => Cardinality(S) <= Cardinality(T)
  BY <1>1, FS_Subset
<1>4. \A S, T \in SUBSET Runs : Cardinality(S \cup T) <= Cardinality(S) + Cardinality(T)
  <2> SUFFICES ASSUME NEW S \in SUBSET Runs, NEW T \in SUBSET Runs
               PROVE  Cardinality(S \cup T) <= Cardinality(S) + Cardinality(T)
    OBVIOUS
  <2>1. /\ Cardinality(S \cup T) = Cardinality(S) + Cardinality(T) - Cardinality(S \cap T)
        /\ Cardinality(S) \in Nat /\ Cardinality(T) \in Nat
    BY <1>1, <1>2, FS_Union
  <2>2. Cardinality(S \cap T) \in Nat
    BY <1>2
  <2> QED
    BY <2>1, <2>2
<1> QED
  BY <1>1, <1>2, <1>3, <1>4

(* Overlapping uploads keep the overshoot within their number.              *)
LEMMA CountStep == QInv /\ CountOK /\ [Next]_vars => CountOK'
<1> SUFFICES ASSUME QInv, CountOK, [Next]_vars PROVE CountOK'
  OBVIOUS
<1> USE DEF QInv
<1>1. ASSUME NEW x \in Runs, CheckActive(x)
      PROVE  CountOK'
  <2>1. UNCHANGED <<status, queueThis>> /\ ingest[x] = "idle" /\ ~queueThis[x]
    BY <1>1 DEF CheckActive, rowVars, CountOK
  <2>2. Cardinality(Handling) < MaxInFlight
    BY <1>1 DEF CheckActive, Handling
  <2>3. \A r \in Runs : r # x => ingest'[r] = ingest[r]
    BY <1>1 DEF CheckActive, IngestGoto, TypeOK
  <2>4. Handling' \subseteq Handling \cup {x}
    BY <2>3 DEF Handling
  <2>5. Cardinality(Handling') <= MaxInFlight
    <3>1. Cardinality(Handling \cup {x}) <= Cardinality(Handling) + 1
      <4>1. Handling \in SUBSET Runs
        BY DEF Handling
      <4> QED
        BY <4>1, RunSets, FS_AddElement
    <3>2. Handling \in SUBSET Runs /\ Handling' \in SUBSET Runs /\ Handling \cup {x} \in SUBSET Runs
      BY DEF Handling
    <3>3. Cardinality(Handling') <= Cardinality(Handling \cup {x})
      BY <2>4, <3>2, RunSets
    <3> QED
      BY <2>2, <3>1, <3>2, <3>3, RunSets, BoundsAssumption
  <2>6. Waiting' \cup Joining' \subseteq Waiting \cup Joining
    BY <2>1, <2>3 DEF Waiting, Joining
  <2>7. OvershootBounded'
    <3>1. Waiting \cup Joining \in SUBSET Runs /\ Waiting' \cup Joining' \in SUBSET Runs
      BY DEF Waiting, Joining
    <3>2. Cardinality(Waiting' \cup Joining') <= Cardinality(Waiting \cup Joining)
      BY <2>6, <3>1, RunSets
    <3> QED
      BY <3>1, <3>2, RunSets, BoundsAssumption DEF CountOK, OvershootBounded, Joining
  <2> QED
    BY <1>1, <2>1, <2>3, <2>5, <2>7 DEF CountOK, CheckActive, IngestGoto, TypeOK
<1>2. ASSUME NEW x \in Runs, CountWaiting(x)
      PROVE  CountOK'
  <2>1. UNCHANGED status /\ ingest[x] = "count"
    BY <1>2 DEF CountWaiting, rowVars
  <2>2. \A r \in Runs : r # x => ingest'[r] = ingest[r] /\ queueThis'[r] = queueThis[r]
    BY <1>2 DEF CountWaiting, IngestGoto, TypeOK
  <2>3. Handling' \subseteq Handling
    BY <2>1, <2>2 DEF Handling, InFlight
  <2>4. Cardinality(Handling') <= MaxInFlight
    <3>1. Handling \in SUBSET Runs /\ Handling' \in SUBSET Runs
      BY DEF Handling
    <3>2. Cardinality(Handling') <= Cardinality(Handling)
      BY <2>3, <3>1, RunSets
    <3> QED
      BY <3>1, <3>2, RunSets, BoundsAssumption DEF CountOK
  <2>5. \A r \in Runs : ingest'[r] \in {"idle", "count"} => ~queueThis'[r]
    BY <1>2, <2>2 DEF CountWaiting, IngestGoto, TypeOK, CountOK
  <2>6. OvershootBounded'
    <3>1. CASE Cardinality(Waiting) >= MaxQueued /\ UNCHANGED queueThis /\ IngestGoto(x, "rejected")
      <4>1. Waiting' \cup Joining' \subseteq Waiting \cup Joining
        BY <2>1, <3>1 DEF Waiting, Joining, IngestGoto, TypeOK
      <4>2. Waiting \cup Joining \in SUBSET Runs /\ Waiting' \cup Joining' \in SUBSET Runs
        BY DEF Waiting, Joining
      <4>3. Cardinality(Waiting' \cup Joining') <= Cardinality(Waiting \cup Joining)
        BY <4>1, <4>2, RunSets
      <4> QED
        BY <4>2, <4>3, RunSets, BoundsAssumption DEF CountOK, OvershootBounded, Joining
    <3>2. CASE ~(Cardinality(Waiting) >= MaxQueued)
      <4>1. Waiting \in SUBSET Runs /\ Joining' \in SUBSET Runs /\ Handling' \in SUBSET Runs
        BY DEF Waiting, Joining, Handling
      <4>2. Joining' \subseteq Handling' /\ Waiting' = Waiting
        BY <2>1 DEF Joining, Handling, InFlight, Waiting
      <4>3. Cardinality(Joining') <= MaxInFlight
        <5>1. Cardinality(Joining') <= Cardinality(Handling')
          BY <4>1, <4>2, RunSets
        <5> QED
          BY <2>4, <4>1, <5>1, RunSets, BoundsAssumption
      <4>4. /\ Cardinality(Waiting \cup Joining') <= Cardinality(Waiting) + Cardinality(Joining')
            /\ Cardinality(Waiting \cup Joining') \in Nat
            /\ Cardinality(Waiting) \in Nat /\ Cardinality(Joining') \in Nat
        <5>1. Waiting \cup Joining' \in SUBSET Runs
          BY <4>1
        <5> QED
          BY <4>1, <5>1, RunSets
      <4>5. Cardinality(Waiting' \cup Joining') <= MaxQueued + MaxInFlight - 1
        BY <3>2, <4>2, <4>3, <4>4, BoundsAssumption
      <4> QED
        BY <4>5 DEF OvershootBounded, Joining
    <3> QED
      BY <1>2, <3>1, <3>2 DEF QueueFull, CountWaiting
  <2> QED
    BY <2>4, <2>5, <2>6 DEF CountOK
\* No other step lets a request start, or adds a run to those that wait or join.
<1>3. ASSUME \A r \in Runs : r \in Handling' => r \in Handling,
             \A r \in Runs : r \in Waiting' \cup Joining' => r \in Waiting \cup Joining,
             \A r \in Runs : ingest'[r] \in {"idle", "count"} => ingest[r] = ingest'[r],
             UNCHANGED queueThis
      PROVE  CountOK'
  <2>1. /\ Handling \in SUBSET Runs /\ Handling' \in SUBSET Runs
        /\ Waiting \cup Joining \in SUBSET Runs /\ Waiting' \cup Joining' \in SUBSET Runs
    BY DEF Handling, Waiting, Joining
  <2>2. Handling' \subseteq Handling /\ Waiting' \cup Joining' \subseteq Waiting \cup Joining
    BY <1>3, <2>1
  <2>3. /\ Cardinality(Handling') <= Cardinality(Handling)
        /\ Cardinality(Waiting' \cup Joining') <= Cardinality(Waiting \cup Joining)
    BY <2>1, <2>2, RunSets
  <2>4. Cardinality(Handling') <= MaxInFlight
    BY <2>1, <2>3, RunSets, BoundsAssumption DEF CountOK
  <2>5. OvershootBounded'
    BY <2>1, <2>3, RunSets, BoundsAssumption DEF CountOK, OvershootBounded, Joining
  <2> QED
    BY <1>3, <2>4, <2>5 DEF CountOK
<1>4. ASSUME NEW x \in Runs,
             CreateRun(x) \/ RegisterUploads(x) \/ RecordDocuments(x) \/ EnqueuePipeline(x)
               \/ IngestRaises(x)
      PROVE  CountOK'
  <2>1. UNCHANGED queueThis
    BY <1>4 DEF CreateRun, RegisterUploads, RecordDocuments, EnqueuePipeline, IngestRaises
  <2>2. /\ ingest[x] \in InFlight /\ ingest'[x] \notin {"idle", "count", "create"}
        /\ \A r \in Runs : r # x => ingest'[r] = ingest[r]
    BY <1>4 DEF CreateRun, RegisterUploads, RecordDocuments, EnqueuePipeline, IngestRaises,
                IngestGoto, InFlight, TypeOK
  <2>3. \A r \in Runs : r \in Waiting' => r \in Waiting \cup Joining
    <3>1. CASE CreateRun(x)
      BY <3>1 DEF CreatedStatus, CreateRun, Waiting, Joining, TypeOK
    <3>2. CASE ~CreateRun(x)
      BY <1>4, <3>2 DEF RegisterUploads, RecordDocuments, EnqueuePipeline, IngestRaises,
                        Waiting, rowVars
    <3> QED
      BY <3>1, <3>2
  <2>4. \A r \in Runs : r \in Handling' => r \in Handling
    BY <2>2 DEF Handling
  <2>5. \A r \in Runs : r \in Joining' => r \in Joining
    BY <2>1, <2>2 DEF Joining
  <2> QED
    BY <1>3, <2>1, <2>2, <2>3, <2>4, <2>5
<1>5. ASSUME UNCHANGED <<ingest, queueThis>>,
             \A r \in Runs : status'[r] = status[r] \/ status'[r] # "waiting"
      PROVE  CountOK'
  BY <1>3, <1>5 DEF Handling, Waiting, Joining
<1>6. ASSUME NEW x \in Runs, CancelSelect(x)
      PROVE  CountOK'
  BY <1>5, <1>6 DEF CancelSelect, rowVars, ingestVars
<1>7. CASE CancelCommit
  BY <1>5, <1>7 DEF CancelCommit, ingestVars, TypeOK
<1>8. ASSUME NEW w \in Workers, TakeTask(w) \/ Acknowledge(w) \/ WorkerLost(w) \/ TaskRaises(w)
      PROVE  CountOK'
  BY <1>5, <1>8 DEF TakeTask, Acknowledge, WorkerLost, TaskRaises, rowVars, ingestVars
<1>9. ASSUME NEW w \in Workers, TaskStep(w)
      PROVE  CountOK'
  <2>1. CASE SetRunning(w) \/ FailCritical(w) \/ MarkCompleted(w) \/ MarkFailed(w) \/ FlipToQueued(w)
    BY <1>5, <2>1 DEF SetRunning, FailCritical, MarkCompleted, MarkFailed, FlipToQueued,
                      ingestVars, TypeOK
  <2>2. CASE RecordStart(w) \/ SendFirstDispatch(w) \/ PlanStage(w) \/ JoinStage(w)
             \/ SendFailed(w) \/ SendNext(w) \/ LoadStatus(w) \/ SelectWaiting(w)
             \/ CleanUp(w) \/ StartNext(w)
    BY <1>5, <2>2 DEF RecordStart, SendFirstDispatch, PlanStage, JoinStage, SendFailed, SendNext,
                      LoadStatus, SelectWaiting, CleanUp, StartNext, rowVars, ingestVars
  <2> QED
    BY <1>9, <2>1, <2>2 DEF TaskStep
<1>10. ASSUME NEW x \in Runs, NEW k \in 1..NStages, ChordBreaks(x, k)
       PROVE  CountOK'
  BY <1>5, <1>10 DEF ChordBreaks, rowVars, ingestVars
<1>11. CASE UNCHANGED vars
  BY <1>5, <1>11 DEF vars, rowVars, ingestVars
<1> QED
  BY <1>1, <1>2, <1>4, <1>6, <1>7, <1>8, <1>9, <1>10, <1>11 DEF Next, IngestStep

(* The check of the queue limit (count_waiting) and the commit of the run   *)
(* (create) are separate, and still the limit is exceeded by fewer runs     *)
(* than there are uploads handled at the same time.                         *)
THEOREM QueueLimit == Spec => []OvershootBounded
<1>1. Init => CountOK
  <2> SUFFICES ASSUME Init PROVE CountOK
    OBVIOUS
  <2>1. Handling = {} /\ Waiting \cup Joining = {}
    BY DEF Init, Handling, Waiting, Joining, InFlight
  <2>2. Cardinality({}) = 0
    BY FS_EmptySet
  <2>3. Cardinality(Handling) <= MaxInFlight
    BY <2>1, <2>2, BoundsAssumption
  <2>4. OvershootBounded
    <3>1. Cardinality(Waiting \cup Joining) <= MaxQueued + MaxInFlight - 1
      <4>1. Cardinality(Waiting \cup Joining) = 0
        BY <2>1, <2>2
      <4>2. 0 <= MaxQueued + MaxInFlight - 1
        BY BoundsAssumption
      <4> QED
        BY <4>1, <4>2
    <3> QED
      BY <3>1 DEF OvershootBounded, Joining
  <2> QED
    BY <2>3, <2>4 DEF Init, CountOK
<1>2. QInv /\ CountOK /\ [Next]_vars => CountOK'
  BY CountStep
<1>3. CountOK => OvershootBounded
  BY DEF CountOK
<1> QED
  BY <1>1, <1>2, <1>3, QueueInvariant, PTL DEF Spec

-----------------------------------------------------------------------------
(* No queue: with pipeline_max_queued_runs = 0 an upload that finds a run   *)
(* active is turned away (429), and pop_next_waiting finds nothing.         *)

RejectMode == MaxQueued = 0

NothingQueued ==
  /\ \A r \in Runs : ~queueThis[r] /\ ingest[r] # "count" /\ status[r] # "waiting"
  /\ \A w \in Workers : wpop[w] = NoRun

\* How far the documents of a run have come by the time of each of its tasks.
Owed(t) ==
  /\ t.kind = "start" => t.full
  /\ t.kind = "dispatch" => docsRow[t.run] = "documents" \/ planned[t.run]
  /\ t.kind = "dispatch" /\ t.stage # 1 => planned[t.run]
  /\ t.kind \in {"finalize", "complete"} => planned[t.run]
PlannedOK ==
  /\ \A t \in Tasks : pending[t] > 0 => Owed(t)
  /\ \A w \in Workers : Owed(wtask[w])
  /\ \A w \in Workers : At(w, "start", "send") => docsRow[wtask[w].run] = "documents"
  /\ CompletedRunPlannedItsDocuments

(* In reject mode nothing is ever queued or popped, whatever is lost,       *)
(* redelivered or cancelled.                                                *)
LEMMA NothingQueuedStep == QInv /\ RejectMode /\ NothingQueued /\ [Next]_vars => NothingQueued'
<1> SUFFICES ASSUME QInv, RejectMode, NothingQueued, [Next]_vars PROVE NothingQueued'
  OBVIOUS
<1> USE DEF rowVars, ingestVars, workerVars, faultVars, cancelVars, IngestGoto, Goto, At
<1>1. TypeOK
  BY DEF QInv
<1>2. /\ \A r \in Runs : ~queueThis[r] /\ ingest[r] # "count" /\ status[r] # "waiting"
      /\ \A w \in Workers : wpop[w] = NoRun
  BY DEF NothingQueued
<1>3. ASSUME NEW r \in Runs, CheckActive(r) \/ IngestStep(r) \/ IngestRaises(r)
      PROVE  NothingQueued'
  <2>1. ~CountWaiting(r)
    BY <1>2 DEF CountWaiting
  <2>2. UNCHANGED <<queueThis, wpop>>
    BY <1>3, <2>1 DEF IngestStep, CheckActive, CreateRun, RegisterUploads, RecordDocuments,
                      EnqueuePipeline, IngestRaises
  <2>3. \A s \in Runs : ingest'[s] # "count"
    BY <1>1, <1>2, <1>3, <2>1 DEF IngestStep, CheckActive, CreateRun, RegisterUploads,
           RecordDocuments, EnqueuePipeline, IngestRaises, RejectMode, TypeOK
  <2>4. \A s \in Runs : status'[s] # "waiting"
    BY <1>1, <1>2, <1>3, <2>1 DEF IngestStep, CheckActive, CreateRun, CreatedStatus,
           RegisterUploads, RecordDocuments, EnqueuePipeline, IngestRaises, TypeOK
  <2> QED
    BY <1>2, <2>2, <2>3, <2>4 DEF NothingQueued
<1>4. ASSUME UNCHANGED <<ingest, queueThis>>,
             \A w \in Workers : wpop'[w] \in {wpop[w], NoRun},
             \A r \in Runs : status'[r] # "waiting"
      PROVE  NothingQueued'
  BY <1>2, <1>4 DEF NothingQueued
<1>5. ASSUME NEW r \in Runs, CancelSelect(r)
      PROVE  NothingQueued'
  BY <1>2, <1>4, <1>5 DEF CancelSelect
<1>6. CASE CancelCommit
  BY <1>1, <1>2, <1>4, <1>6 DEF CancelCommit, TypeOK
<1>7. ASSUME NEW w \in Workers, TakeTask(w) \/ Acknowledge(w)
      PROVE  NothingQueued'
  BY <1>1, <1>2, <1>4, <1>7 DEF TakeTask, Acknowledge, TypeOK
<1>8. ASSUME NEW w \in Workers, TaskStep(w)
      PROVE  NothingQueued'
  <2>1. Waiting = {} /\ ~FlipToQueued(w)
    BY <1>2, RunsAssumption DEF Waiting, FlipToQueued, QInv, WorkerOK
  <2>2. UNCHANGED <<ingest, queueThis, wpop>>
    BY <1>8, <2>1 DEF TaskStep, SetRunning, RecordStart, SendFirstDispatch, PlanStage, FailCritical,
           JoinStage, SendFailed, SendNext, MarkCompleted, LoadStatus, MarkFailed, SelectWaiting,
           CleanUp, StartNext
  <2>3. \/ UNCHANGED status
        \/ \E r \in Runs \cup {NoRun}, st \in {"running", "completed", "failed"} :
             status' = [status EXCEPT ![r] = st]
    <3>1. wtask[w].run \in Runs \cup {NoRun}
      BY <1>1, TaskFacts DEF TypeOK
    <3> QED
      BY <1>8, <2>1, <3>1 DEF TaskStep, SetRunning, RecordStart, SendFirstDispatch, PlanStage,
             FailCritical, JoinStage, SendFailed, SendNext, MarkCompleted, LoadStatus, MarkFailed,
             SelectWaiting, CleanUp, StartNext
  <2>4. \A r \in Runs : status'[r] # "waiting"
    BY <1>1, <1>2, <2>3 DEF TypeOK
  <2> QED
    BY <1>4, <2>2, <2>4
<1>9. ASSUME NEW w \in Workers, WorkerLost(w) \/ TaskRaises(w)
      PROVE  NothingQueued'
  BY <1>1, <1>2, <1>4, <1>9 DEF WorkerLost, TaskRaises, Drop, TypeOK
<1>10. ASSUME NEW r \in Runs, NEW k \in 1..NStages, ChordBreaks(r, k)
       PROVE  NothingQueued'
  BY <1>2, <1>4, <1>10 DEF ChordBreaks
<1>11. CASE UNCHANGED vars
  BY <1>2, <1>4, <1>11 DEF vars
<1> QED
  BY <1>3, <1>5, <1>6, <1>7, <1>8, <1>9, <1>10, <1>11 DEF Next

(* The documents of a run, once recorded and planned, stay so; a step that  *)
(* publishes only what is owed, takes only what was published, and          *)
(* completes only what was planned keeps the promise.                       *)
LEMMA OwedFrame ==
  ASSUME QInv, PlannedOK,
         \A r \in Runs : /\ docsRow[r] = "documents" => docsRow'[r] = "documents"
                         /\ planned[r] => planned'[r]
                         /\ status'[r] = "completed" => status[r] = "completed" \/ planned'[r],
         \A t \in Tasks : pending'[t] > 0 => pending[t] > 0 \/ Owed(t)',
         \A w \in Workers : \/ wtask'[w] \in {wtask[w], NoTask}
                            \/ wtask'[w] \in Tasks /\ pending[wtask'[w]] > 0,
         \A w \in Workers :
           At(w, "start", "send")' => \/ docsRow'[wtask'[w].run] = "documents"
                                      \/ At(w, "start", "send") /\ wtask'[w] = wtask[w]
  PROVE  PlannedOK'
<1>1. ASSUME NEW t \in Tasks, Owed(t) PROVE Owed(t)'
  BY <1>1, TaskFacts DEF Owed
<1>2. \A t \in Tasks : pending'[t] > 0 => Owed(t)'
  BY <1>1 DEF PlannedOK
<1>3. ASSUME NEW w \in Workers PROVE Owed(wtask[w])'
  <2>1. wtask[w] \in Tasks \cup {NoTask}
    BY DEF QInv, TypeOK
  <2>2. CASE wtask'[w] = NoTask
    BY <2>2, TaskFacts DEF Owed
  <2>3. CASE wtask'[w] = wtask[w] /\ wtask[w] \in Tasks
    <3>1. Owed(wtask[w])
      BY DEF PlannedOK
    <3> QED
      BY <2>3, <3>1, TaskFacts DEF Owed
  <2>4. CASE wtask'[w] \in Tasks /\ pending[wtask'[w]] > 0
    <3>1. PICK t \in Tasks : t = wtask'[w] /\ Owed(t)
      BY <2>4 DEF PlannedOK
    <3>2. Owed(t)'
      BY <1>1, <3>1
    <3> QED
      BY <3>1, <3>2 DEF Owed
  <2> QED
    BY <2>1, <2>2, <2>3, <2>4
<1>4. ASSUME NEW w \in Workers, At(w, "start", "send")'
      PROVE  docsRow'[wtask'[w].run] = "documents"
  <2>1. CASE At(w, "start", "send") /\ wtask'[w] = wtask[w]
    <3>1. docsRow[wtask[w].run] = "documents"
      BY <2>1 DEF PlannedOK
    <3>2. wtask[w].run \in Runs
      BY <2>1, TaskFacts DEF At, QInv, TypeOK
    <3> QED
      BY <2>1, <3>1, <3>2
  <2> QED
    BY <1>4, <2>1
<1>5. CompletedRunPlannedItsDocuments'
  BY DEF PlannedOK, CompletedRunPlannedItsDocuments
<1> QED
  BY <1>2, <1>3, <1>4, <1>5 DEF PlannedOK

(* Every step keeps the promise, the faults and the cancels included.       *)
LEMMA PlannedStep == QInv /\ NothingQueued /\ PlannedOK /\ [Next]_vars => PlannedOK'
<1> SUFFICES ASSUME QInv, NothingQueued, PlannedOK, [Next]_vars PROVE PlannedOK'
  OBVIOUS
<1> USE DEF rowVars, ingestVars, workerVars, faultVars, cancelVars, IngestGoto, Goto
<1>1. TypeOK
  BY DEF QInv
\* The steps that leave the tasks, the messages and the documents alone.
<1>2. ASSUME UNCHANGED <<docsRow, planned, pending, wtask>>,
             \A r \in Runs : status'[r] = "completed" => status[r] = "completed" \/ planned'[r],
             \A w \in Workers : wpc'[w] = "send" => wpc[w] = "send" \/ wtask[w].kind # "start"
      PROVE  PlannedOK'
  <2>1. \A w \in Workers :
           At(w, "start", "send")' => \/ docsRow'[wtask'[w].run] = "documents"
                                      \/ At(w, "start", "send") /\ wtask'[w] = wtask[w]
    BY <1>2 DEF At
  <2> QED
    BY <1>2, <2>1, OwedFrame
\* The steps that publish a message that is owed, and finish the task.
<1>3. ASSUME UNCHANGED <<status, docsRow>>,
             \A r \in Runs : planned[r] => planned'[r],
             \E t \in Tasks : Publish(t) /\ Owed(t)',
             \A w \in Workers : \/ wtask'[w] = wtask[w] /\ wpc'[w] \in {wpc[w], "ack"}
                                \/ wtask'[w] = NoTask
      PROVE  PlannedOK'
  <2>1. PICK t \in Tasks : Publish(t) /\ Owed(t)'
    BY <1>3
  <2>2. \A u \in Tasks : u # t => pending'[u] = pending[u]
    BY <1>1, <2>1, PublishFacts DEF TypeOK
  <2>3. \A u \in Tasks : pending'[u] > 0 => pending[u] > 0 \/ Owed(u)'
    BY <2>1, <2>2
  <2>4. \A w \in Workers :
           At(w, "start", "send")' => \/ docsRow'[wtask'[w].run] = "documents"
                                      \/ At(w, "start", "send") /\ wtask'[w] = wtask[w]
    BY <1>3, TaskFacts DEF At
  <2> QED
    BY <1>3, <2>3, <2>4, OwedFrame
<1>4. ASSUME NEW r \in Runs, CheckActive(r) \/ CreateRun(r) \/ RegisterUploads(r) \/ IngestRaises(r)
      PROVE  PlannedOK'
  <2>1. /\ UNCHANGED <<docsRow, planned, pending, wtask, wpc>>
        /\ \A s \in Runs : status'[s] = "completed" => status[s] = "completed"
    BY <1>1, <1>4 DEF CheckActive, CreateRun, CreatedStatus, RegisterUploads, IngestRaises, TypeOK
  <2> QED
    BY <1>2, <2>1
<1>5. ASSUME NEW r \in Runs, CountWaiting(r) \/ RecordDocuments(r)
      PROVE  FALSE
  BY <1>5 DEF CountWaiting, RecordDocuments, NothingQueued
<1>6. ASSUME NEW r \in Runs, EnqueuePipeline(r)
      PROVE  PlannedOK'
  <2>1. PICK t \in Tasks : t = StartTask(r, TRUE)
    BY BuiltTasks
  <2>2. Publish(t) /\ Owed(t)'
    BY <1>6, <2>1 DEF EnqueuePipeline, Publish, StartTask, Owed
  <2> QED
    BY <1>3, <1>6, <2>2 DEF EnqueuePipeline
<1>7. ASSUME NEW r \in Runs, CancelSelect(r)
      PROVE  PlannedOK'
  BY <1>2, <1>7 DEF CancelSelect
<1>8. CASE CancelCommit
  <2>1. \A s \in Runs : status'[s] = "completed" => status[s] = "completed"
    BY <1>1, <1>8 DEF CancelCommit, TypeOK
  <2> QED
    BY <1>2, <1>8, <2>1 DEF CancelCommit
<1>9. ASSUME NEW w \in Workers, TakeTask(w)
      PROVE  PlannedOK'
  <2>1. PICK t \in Tasks : /\ pending[t] > 0
                           /\ pending' = [pending EXCEPT ![t] = @ - 1]
                           /\ wtask' = [wtask EXCEPT ![w] = t]
                           /\ wpc' = [wpc EXCEPT ![w] = Entry(t.kind)]
    BY <1>9 DEF TakeTask
  <2>2. /\ \A v \in Workers : \/ wtask'[v] \in {wtask[v], NoTask}
                              \/ wtask'[v] \in Tasks /\ pending[wtask'[v]] > 0
        /\ \A u \in Tasks : pending'[u] > 0 => pending[u] > 0
    BY <1>1, <2>1 DEF TypeOK
  <2>3. \A v \in Workers : At(v, "start", "send")' => At(v, "start", "send") /\ wtask'[v] = wtask[v]
    BY <1>1, <2>1, EntryFacts DEF At, TypeOK
  <2>4. UNCHANGED <<status, docsRow, planned>>
    BY <1>9 DEF TakeTask
  <2> QED
    BY <2>2, <2>3, <2>4, OwedFrame
<1>10. ASSUME UNCHANGED <<status, docsRow, planned, pending>>,
              \A v \in Workers : wtask'[v] = NoTask \/ (wtask'[v] = wtask[v] /\ wpc'[v] = wpc[v])
       PROVE  PlannedOK'
  <2>1. \A v \in Workers : At(v, "start", "send")' => At(v, "start", "send") /\ wtask'[v] = wtask[v]
    BY <1>10, TaskFacts DEF At
  <2> QED
    BY <1>10, <2>1, OwedFrame
<1>11. ASSUME NEW w \in Workers, Acknowledge(w)
       PROVE  PlannedOK'
  BY <1>1, <1>10, <1>11 DEF Acknowledge, TypeOK
<1>12. ASSUME NEW w \in Workers, WorkerLost(w)
       PROVE  PlannedOK'
  <2>1. PICK t \in Tasks : t = wtask[w] /\ Publish(t)
    BY <1>12 DEF WorkerLost, QInv, WorkerOK
  <2>2. UNCHANGED <<status, docsRow, planned>>
    BY <1>12 DEF WorkerLost
  <2>3. Owed(t)'
    <3>1. Owed(t)
      BY <2>1 DEF PlannedOK
    <3> QED
      BY <2>2, <3>1 DEF Owed
  <2>4. \A v \in Workers : \/ wtask'[v] = wtask[v] /\ wpc'[v] \in {wpc[v], "ack"}
                           \/ wtask'[v] = NoTask
    BY <1>1, <1>12 DEF WorkerLost, Drop, TypeOK
  <2> QED
    BY <1>3, <2>1, <2>2, <2>3, <2>4
<1>13. ASSUME NEW w \in Workers, TaskRaises(w)
       PROVE  PlannedOK'
  <2>1. /\ UNCHANGED <<status, docsRow, planned>>
        /\ \A v \in Workers : \/ wtask'[v] = wtask[v] /\ wpc'[v] = wpc[v]
                              \/ wtask'[v] = NoTask
    BY <1>1, <1>13 DEF TaskRaises, Drop, TypeOK
  <2>2. CASE UNCHANGED pending
    BY <1>10, <2>1, <2>2
  <2>3. CASE Publish(FailedTask(wtask[w].run))
    <3>1. wtask[w].run \in Runs
      BY <1>13, TaskFacts DEF TaskRaises, TaskSteps, QInv, WorkerOK
    <3>2. PICK t \in Tasks : t = FailedTask(wtask[w].run)
      BY <3>1, BuiltTasks
    <3>3. t.kind = "failed"
      BY <3>2 DEF FailedTask
    <3>4. Owed(t)'
      BY <3>3 DEF Owed
    <3> QED
      BY <1>3, <2>1, <2>3, <3>2, <3>4
  <2> QED
    BY <1>13, <2>2, <2>3 DEF TaskRaises
<1>14. ASSUME NEW r \in Runs, NEW k \in 1..NStages, ChordBreaks(r, k)
       PROVE  PlannedOK'
  <2>1. PICK f \in Tasks, g \in Tasks : f = FinalizeTask(r, k, TRUE) /\ g = FailedTask(r)
    BY BuiltTasks
  <2>2. PICK copies \in 1..2 : pending' = [pending EXCEPT ![f] = @ - 1, ![g] = @ + copies]
    BY <1>14, <2>1 DEF ChordBreaks
  <2>3. g.kind = "failed" /\ f # g
    BY <2>1 DEF FinalizeTask, FailedTask
  <2>4. Owed(g)'
    BY <2>3 DEF Owed
  <2>5. \A u \in Tasks : u # g => (pending'[u] > 0 => pending[u] > 0)
    BY <1>1, <2>2, <2>3 DEF TypeOK
  <2>6. \A u \in Tasks : pending'[u] > 0 => pending[u] > 0 \/ Owed(u)'
    BY <2>4, <2>5
  <2>7. UNCHANGED <<status, docsRow, planned, wtask, wpc>>
    BY <1>14 DEF ChordBreaks
  <2>8. \A v \in Workers : At(v, "start", "send")' => At(v, "start", "send") /\ wtask'[v] = wtask[v]
    BY <2>7 DEF At
  <2> QED
    BY <2>6, <2>7, <2>8, OwedFrame
<1>15. CASE UNCHANGED vars
  BY <1>2, <1>15 DEF vars
<1>16. ASSUME NEW w \in Workers, TaskStep(w)
       PROVE  PlannedOK'
  <2>1. wpc[w] # "idle"
    BY <1>16 DEF TaskStep, At, SetRunning, RecordStart, SendFirstDispatch, PlanStage, FailCritical,
           JoinStage, SendFailed, SendNext, MarkCompleted, LoadStatus, MarkFailed, SelectWaiting,
           FlipToQueued, CleanUp, StartNext
  <2>2. wtask[w] \in Tasks /\ wtask[w].run \in Runs /\ Owed(wtask[w])
    BY <2>1, TaskFacts DEF QInv, WorkerOK, PlannedOK
  <2> DEFINE r == wtask[w].run
  <2>3. CASE \/ SetRunning(w) \/ FailCritical(w) \/ JoinStage(w) \/ LoadStatus(w) \/ MarkFailed(w)
             \/ SelectWaiting(w) \/ CleanUp(w) \/ MarkCompleted(w)
    <3>1. UNCHANGED <<docsRow, planned, pending, wtask>>
      BY <2>3 DEF SetRunning, FailCritical, JoinStage, LoadStatus, MarkFailed, SelectWaiting, CleanUp,
             MarkCompleted
    <3>2. \A s \in Runs : status'[s] = "completed" => status[s] = "completed" \/ planned'[s]
      <4>1. CASE MarkCompleted(w)
        <5>1. planned[r]
          BY <2>2, <4>1 DEF MarkCompleted, At, Owed
        <5> QED
          BY <1>1, <4>1, <5>1 DEF MarkCompleted, TypeOK
      <4>2. CASE \/ SetRunning(w) \/ FailCritical(w) \/ JoinStage(w) \/ LoadStatus(w) \/ MarkFailed(w)
                 \/ SelectWaiting(w) \/ CleanUp(w)
        BY <1>1, <4>2 DEF SetRunning, FailCritical, JoinStage, LoadStatus, MarkFailed, SelectWaiting,
               CleanUp, TypeOK
      <4> QED
        BY <2>3, <4>1, <4>2
    <3>3. \A v \in Workers : wpc'[v] = "send" => wpc[v] = "send" \/ wtask[v].kind # "start"
      BY <1>1, <2>3 DEF SetRunning, FailCritical, JoinStage, LoadStatus, MarkFailed, SelectWaiting,
             CleanUp, MarkCompleted, AfterLoad, AfterCleanUp, TypeOK
    <3> QED
      BY <1>2, <3>1, <3>2, <3>3
  <2>4. CASE RecordStart(w)
    <3>1. wtask[w].kind = "start" /\ wtask[w].full
      BY <2>2, <2>4 DEF RecordStart, At, Owed
    <3>2. docsRow' = [docsRow EXCEPT ![r] = "documents"]
      BY <2>4, <3>1 DEF RecordStart
    <3>3. docsRow'[r] = "documents" /\ \A s \in Runs \ {r} : docsRow'[s] = docsRow[s]
      BY <1>1, <2>2, <3>2 DEF TypeOK
    <3>4. /\ UNCHANGED <<status, planned, pending, wtask>>
          /\ \A v \in Workers \ {w} : wpc'[v] = wpc[v]
      BY <1>1, <2>4 DEF RecordStart, TypeOK
    <3>5. \A v \in Workers :
             At(v, "start", "send")' => \/ docsRow'[wtask'[v].run] = "documents"
                                        \/ At(v, "start", "send") /\ wtask'[v] = wtask[v]
      BY <3>3, <3>4 DEF At
    <3> HIDE DEF r
    <3> QED
      BY <3>3, <3>4, <3>5, OwedFrame
  <2>5. CASE SendFirstDispatch(w) \/ PlanStage(w) \/ SendFailed(w) \/ SendNext(w)
    <3>1. /\ UNCHANGED <<status, docsRow, wtask>>
          /\ \A v \in Workers : wtask'[v] = wtask[v] /\ wpc'[v] \in {wpc[v], "ack"}
      BY <1>1, <2>5 DEF SendFirstDispatch, PlanStage, SendFailed, SendNext, TypeOK
    <3>2. \A s \in Runs : planned[s] => planned'[s]
      BY <1>1, <2>5 DEF SendFirstDispatch, PlanStage, SendFailed, SendNext, TypeOK
    <3>3. \E t \in Tasks : Publish(t) /\ Owed(t)'
      <4>1. CASE SendFirstDispatch(w)
        <5>1. PICK t \in Tasks : t = DispatchTask(r, 1)
          BY <2>2, BuiltTasks, StagesAssumption
        <5>2. docsRow[r] = "documents"
          BY <4>1 DEF SendFirstDispatch, PlannedOK
        <5>3. t.kind = "dispatch" /\ t.stage = 1 /\ t.run = r
          BY <5>1 DEF DispatchTask
        <5>4. Owed(t)'
          BY <3>1, <5>2, <5>3 DEF Owed
        <5> QED
          BY <4>1, <5>1, <5>4 DEF SendFirstDispatch
      <4>2. CASE PlanStage(w)
        <5> DEFINE k == wtask[w].stage
        <5>1. wtask[w].kind = "dispatch" /\ k \in 1..NStages
          BY <2>2, <4>2, TaskFacts DEF PlanStage, At
        <5>2. PICK full \in BOOLEAN :
                /\ k = 1 => full = (docsRow[r] = "documents")
                /\ planned' = [planned EXCEPT ![r] = @ \/ (k = 1 /\ full)]
                /\ Publish(FinalizeTask(r, k, full))
          BY <4>2 DEF PlanStage
        <5>3. PICK t \in Tasks : t = FinalizeTask(r, k, full)
          BY <2>2, <5>1, <5>2, BuiltTasks
        <5>4. t.kind = "finalize" /\ t.run = r
          BY <5>3 DEF FinalizeTask
        <5>5. planned'[r]
          <6>1. planned[r] \/ (k = 1 /\ full)
            BY <2>2, <5>1, <5>2 DEF Owed
          <6> HIDE DEF k, r
          <6>2. r \in Runs
            BY <2>2 DEF r
          <6> QED
            BY <1>1, <5>2, <6>1, <6>2 DEF TypeOK
        <5>6. Owed(t)'
          BY <5>4, <5>5 DEF Owed
        <5> QED
          BY <5>2, <5>3, <5>6
      <4>3. CASE SendFailed(w)
        <5>1. PICK t \in Tasks : t = FailedTask(r)
          BY <2>2, BuiltTasks
        <5>2. t.kind = "failed"
          BY <5>1 DEF FailedTask
        <5> QED
          BY <4>3, <5>1, <5>2 DEF SendFailed, Owed
      <4>4. CASE SendNext(w)
        <5> DEFINE k == wtask[w].stage
        <5>1. wtask[w].kind = "finalize" /\ k \in 1..NStages /\ planned[r]
          BY <2>2, <4>4, TaskFacts DEF SendNext, At, Owed
        <5>2. PICK t \in Tasks : t = NextTask(r, k) /\ t.run = r /\ t.kind \in {"complete", "dispatch"}
          <6>1. CASE k < NStages
            <7>1. k + 1 \in 1..NStages
              BY <5>1, <6>1, StagesAssumption
            <7>2. NextTask(r, k) = DispatchTask(r, k + 1)
              BY <6>1 DEF NextTask
            <7> QED
              BY <2>2, <7>1, <7>2, BuiltTasks DEF DispatchTask
          <6>2. CASE ~(k < NStages)
            <7>1. NextTask(r, k) = CompleteTask(r)
              BY <6>2 DEF NextTask
            <7> QED
              BY <2>2, <7>1, BuiltTasks DEF CompleteTask
          <6> QED
            BY <6>1, <6>2
        <5>3. planned'[r]
          BY <2>2, <3>2, <5>1
        <5>4. Owed(t)'
          BY <5>2, <5>3, <3>1 DEF Owed
        <5> QED
          BY <4>4, <5>2, <5>4 DEF SendNext
      <4> QED
        BY <2>5, <4>1, <4>2, <4>3, <4>4
    <3> QED
      BY <1>3, <3>1, <3>2, <3>3
  <2>6. ~FlipToQueued(w) /\ ~StartNext(w)
    BY RunsAssumption DEF FlipToQueued, StartNext, NothingQueued, QInv, WorkerOK
  <2> QED
    BY <1>16, <2>3, <2>4, <2>5, <2>6 DEF TaskStep
<1> QED
  BY <1>4, <1>5, <1>6, <1>7, <1>8, <1>9, <1>11, <1>12, <1>13, <1>14, <1>15, <1>16
     DEF Next, IngestStep

(* In reject mode a run is started by its own upload only, so nothing is    *)
(* ever queued and every task comes after what it is owed.                  *)
LEMMA PlannedInvariant == RejectMode => (Spec => [](QInv /\ NothingQueued /\ PlannedOK))
<1> SUFFICES ASSUME RejectMode PROVE Spec => [](QInv /\ NothingQueued /\ PlannedOK)
  OBVIOUS
<1>1. Init => NothingQueued /\ PlannedOK
  <2> SUFFICES ASSUME Init PROVE NothingQueued /\ PlannedOK
    OBVIOUS
  <2>1. NothingQueued /\ CompletedRunPlannedItsDocuments
    BY DEF Init, NothingQueued, CompletedRunPlannedItsDocuments
  <2>2. \A t \in Tasks : ~(pending[t] > 0)
    BY DEF Init
  <2>3. \A w \in Workers : Owed(wtask[w]) /\ ~At(w, "start", "send")
    BY TaskFacts DEF Init, Owed, At
  <2> QED
    BY <2>1, <2>2, <2>3 DEF PlannedOK
<1>2. QInv /\ NothingQueued /\ [Next]_vars => NothingQueued'
  BY NothingQueuedStep
<1>3. QInv /\ NothingQueued /\ PlannedOK /\ [Next]_vars => PlannedOK'
  BY PlannedStep
<1> QED
  BY <1>1, <1>2, <1>3, QueueInvariant, PTL DEF Spec

(* A run that completed has planned the documents of its upload             *)
(* (pipeline_v2_complete): with pipeline_max_queued_runs = 0 the message of *)
(* pipeline_v2_start carries them and no task overtakes the first stage,    *)
(* whatever is cancelled, lost, redelivered or raises.  With a queue it is  *)
(* false: see the run queue_documents.                                      *)
THEOREM CompletedRunsWerePlanned == RejectMode => (Spec => []CompletedRunPlannedItsDocuments)
<1> SUFFICES ASSUME RejectMode PROVE Spec => []CompletedRunPlannedItsDocuments
  OBVIOUS
<1>1. QInv /\ NothingQueued /\ PlannedOK => CompletedRunPlannedItsDocuments
  BY DEF PlannedOK
<1> QED
  BY <1>1, PlannedInvariant, PTL

-----------------------------------------------------------------------------
(* ... and nothing is cancelled and no worker is lost.  Requests and tasks  *)
(* may raise as often as they like.                                         *)

Undisturbed == RejectMode /\ MaxCancels = 0 /\ MaxCrashes = 0

\* The steps of each kind of task.
StepsOf(kind, pc) ==
  /\ pc = "set_running" => kind \in {"start", "dispatch"}
  /\ pc = "record" => kind = "start"
  /\ pc = "send" => kind \in {"start", "dispatch"}
  /\ pc \in {"join", "send_failed", "send_next"} => kind = "finalize"
  /\ pc = "mark_completed" => kind = "complete"
  /\ pc \in {"load", "mark_failed"} => kind = "failed"
  /\ pc \in {"select", "flip", "cleanup", "start_next"} => kind \in {"complete", "failed"}
StepsOK == \A w \in Workers : StepsOf(wtask[w].kind, wpc[w])

\* A run has one task at a time, as a message or in a worker; only
\* pipeline_failed may come twice.
Held(w) == wpc[w] \notin {"idle", "ack"}
TokensOK ==
  /\ \A t \in Tasks : t.kind # "failed" => pending[t] <= 1
  /\ \A t, u \in Tasks : pending[t] > 0 /\ pending[u] > 0 /\ t.run = u.run => t = u
  /\ \A t \in Tasks, w \in Workers : pending[t] > 0 /\ Held(w) /\ wtask[w].run = t.run =>
       t.kind = "failed" /\ wtask[w].kind = "failed"
  /\ \A v, w \in Workers : v # w /\ Held(v) /\ Held(w) /\ wtask[v].run = wtask[w].run =>
       wtask[v].kind = "failed" /\ wtask[w].kind = "failed"

\* A run whose request was not accepted has none, and is still active when the
\* request is about to enqueue it.
NoToken(r) ==
  /\ \A t \in Tasks : t.run = r => pending[t] = 0
  /\ \A w \in Workers : Held(w) => wtask[w].run # r
AcceptedOK ==
  /\ \A r \in Runs : ingest[r] # "accepted" => NoToken(r)
  /\ \A r \in Runs : ingest[r] \in {"register", "finish"} => status[r] \in Active

\* A task that drives its run finds it active, until it ends it.
Due(t) == t.kind # "failed" => status[t.run] \in Active
Doing(w) ==
  /\ wpc[w] \in {"set_running", "record", "send", "join", "send_next", "mark_completed"} =>
       Due(wtask[w])
  /\ wpc[w] \in {"send_failed", "select", "cleanup"} => status[wtask[w].run] \in Terminal
DueOK ==
  /\ \A t \in Tasks : pending[t] > 0 => Due(t)
  /\ \A w \in Workers : Doing(w)

\* An active run has its uploads from the moment they are registered.
UploadsOK == \A r \in Runs :
  status[r] \in Active /\ ingest[r] \in {"finish", "accepted"} => uploads[r]

Serial == /\ NothingQueued /\ cancelling = NoRun
          /\ StepsOK /\ TokensOK /\ AcceptedOK /\ DueOK /\ UploadsOK

(* The first state has nothing to order.                                    *)
LEMMA SerialInit == Init => Serial
<1> SUFFICES ASSUME Init PROVE Serial
  OBVIOUS
<1>1. NothingQueued /\ cancelling = NoRun
  BY DEF Init, NothingQueued
<1>2. \A w \in Workers : wpc[w] = "idle" /\ ~Held(w)
  BY DEF Init, Held
<1>3. StepsOK
  BY <1>2 DEF StepsOK, StepsOf
<1>4. \A t \in Tasks : pending[t] = 0
  BY DEF Init
<1>5. TokensOK /\ AcceptedOK
  BY <1>2, <1>4 DEF Init, TokensOK, AcceptedOK, NoToken
<1>6. DueOK
  BY <1>2, <1>4 DEF DueOK, Doing
<1>7. UploadsOK
  BY DEF Init, UploadsOK, Active
<1> QED
  BY <1>1, <1>3, <1>5, <1>6, <1>7 DEF Serial

(* Whatever one worker does to the row of its own run, a message that was   *)
(* due stays due and another worker that was right to go on stays right: if *)
(* they are about the same run, they are about its failure.                 *)
LEMMA OthersStayDue ==
  ASSUME QInv, Serial, NEW w \in Workers, Held(w), NEW r, r = wtask[w].run,
         \A s \in Runs \ {r} : status'[s] = status[s],
         wtask[w].kind = "failed" => status'[r] = status[r] \/ status'[r] \in Terminal
  PROVE  /\ \A t \in Tasks : pending[t] > 0 => Due(t)'
         /\ \A v \in Workers \ {w} :
              wtask'[v] = wtask[v] /\ wpc'[v] = wpc[v] => Doing(v)'
<1>1. ASSUME NEW t \in Tasks, pending[t] > 0
      PROVE  Due(t)'
  <2>1. t.run \in Runs /\ Due(t)
    BY <1>1, TaskFacts DEF Serial, DueOK
  <2>2. CASE t.run = r
    <3>1. t.kind = "failed"
      BY <1>1, <2>2 DEF Serial, TokensOK
    <3> QED
      BY <3>1 DEF Due
  <2>3. CASE t.run # r
    BY <2>1, <2>3 DEF Due
  <2> QED
    BY <2>2, <2>3
<1>2. ASSUME NEW v \in Workers \ {w}, wtask'[v] = wtask[v], wpc'[v] = wpc[v]
      PROVE  Doing(v)'
  <2>1. Doing(v)
    BY DEF Serial, DueOK
  <2>2. CASE ~Held(v)
    BY <1>2, <2>2 DEF Held, Doing
  <2>3. CASE Held(v) /\ wtask[v].run = r
    <3>1. wtask[v].kind = "failed" /\ wtask[w].kind = "failed"
      BY <2>3 DEF Serial, TokensOK
    <3>2. wpc[v] \in {"send_failed", "select", "cleanup"} => status'[r] \in Terminal
      BY <2>1, <2>3, <3>1 DEF Doing
    <3>3. wpc[v] \notin {"set_running", "record", "send", "join", "send_next", "mark_completed"}
      BY <3>1 DEF Serial, StepsOK, StepsOf
    <3> QED
      BY <1>2, <2>3, <3>1, <3>2, <3>3 DEF Doing
  <2>4. CASE Held(v) /\ wtask[v].run # r
    <3>1. wtask[v].run \in Runs \ {r}
      BY <2>4, TaskFacts DEF QInv, WorkerOK, Held
    <3>2. Due(wtask[v]) => Due(wtask[v])'
      BY <1>2, <3>1 DEF Due
    <3> QED
      BY <1>2, <2>1, <3>1, <3>2 DEF Doing, Due
  <2> QED
    BY <2>2, <2>3, <2>4
<1> QED
  BY <1>1, <1>2

(* A step of a worker that publishes nothing leaves every run with the one  *)
(* task it had, or without.                                                 *)
LEMMA TokensStay ==
  ASSUME Serial, pending' = pending, ingest' = ingest,
         \A v \in Workers : Held(v)' => Held(v) /\ wtask'[v] = wtask[v]
  PROVE  TokensOK' /\ \A s \in Runs : ingest'[s] # "accepted" => NoToken(s)'
<1>1. TokensOK'
  BY DEF Serial, TokensOK
<1>2. \A s \in Runs : ingest'[s] # "accepted" => NoToken(s)'
  BY DEF Serial, AcceptedOK, NoToken
<1> QED
  BY <1>1, <1>2

(* A worker that publishes the next task of its run and is done with its    *)
(* own hands the run over.                                                  *)
LEMMA TokenHandedOver ==
  ASSUME QInv, Serial, NEW w \in Workers, Held(w), wtask[w].kind # "failed",
         NEW t \in Tasks, t.run = wtask[w].run, Publish(t), ingest' = ingest, ~Held(w)',
         \A v \in Workers \ {w} : wtask'[v] = wtask[v] /\ wpc'[v] = wpc[v]
  PROVE  TokensOK' /\ \A s \in Runs : ingest'[s] # "accepted" => NoToken(s)'
<1> DEFINE r == wtask[w].run
<1>1. \A u \in Tasks : u.run = r => pending[u] = 0
  BY TaskFacts DEF Serial, TokensOK, QInv, TypeOK
<1>2. \A v \in Workers \ {w} : Held(v) => wtask[v].run # r
  BY DEF Serial, TokensOK
<1>3. /\ \A u \in Tasks : u # t => pending'[u] = pending[u]
      /\ pending'[t] = 1
  BY <1>1 DEF Publish, QInv, TypeOK
<1>4. \A v \in Workers : Held(v)' => v # w /\ Held(v) /\ wtask'[v] = wtask[v]
  BY DEF Held
<1>5. TokensOK'
  <2>1. \A u \in Tasks : u.kind # "failed" => pending'[u] <= 1
    BY <1>3 DEF Serial, TokensOK
  <2>2. \A u, x \in Tasks : pending'[u] > 0 /\ pending'[x] > 0 /\ u.run = x.run => u = x
    BY <1>1, <1>3 DEF Serial, TokensOK
  <2>3. \A u \in Tasks, v \in Workers : pending'[u] > 0 /\ Held(v)' /\ wtask'[v].run = u.run =>
          u.kind = "failed" /\ wtask'[v].kind = "failed"
    BY <1>2, <1>3, <1>4 DEF Serial, TokensOK
  <2>4. \A u, v \in Workers : u # v /\ Held(u)' /\ Held(v)' /\ wtask'[u].run = wtask'[v].run =>
          wtask'[u].kind = "failed" /\ wtask'[v].kind = "failed"
    BY <1>4 DEF Serial, TokensOK
  <2> QED
    BY <2>1, <2>2, <2>3, <2>4 DEF TokensOK
<1>6. \A s \in Runs : ingest'[s] # "accepted" => NoToken(s)'
  <2> SUFFICES ASSUME NEW s \in Runs, ingest[s] # "accepted"
               PROVE  NoToken(s)'
    OBVIOUS
  <2>1. NoToken(s)
    BY DEF Serial, AcceptedOK
  <2>2. s # r
    BY <2>1 DEF NoToken
  <2> QED
    BY <1>3, <1>4, <2>1, <2>2 DEF NoToken
<1> QED
  BY <1>5, <1>6

(* What the steps of a worker that executes a task have in common: the row  *)
(* of its own run changes, and no run becomes active by it; the other       *)
(* workers and the requests do not move; the run is kept, dropped or handed *)
(* over.                                                                    *)
LEMMA WorkerFrame ==
  ASSUME QInv, Serial, NEW w \in Workers, Held(w), NEW r, r = wtask[w].run,
         \A s \in Runs \ {r} : status'[s] = status[s] /\ uploads'[s] = uploads[s],
         status'[r] = status[r] \/ status'[r] \in Active \cup Terminal,
         status'[r] \in Active => status[r] \in Active,
         wtask[w].kind = "failed" => status'[r] = status[r] \/ status'[r] \in Terminal,
         status'[r] \in Active => uploads'[r] = uploads[r],
         UNCHANGED <<ingest, queueThis, cancelling>>,
         \A v \in Workers : wpop'[v] = NoRun,
         \A v \in Workers \ {w} : wtask'[v] = wtask[v] /\ wpc'[v] = wpc[v],
         StepsOf(wtask'[w].kind, wpc'[w]), Doing(w)',
         \/ pending' = pending /\ (Held(w)' => wtask'[w] = wtask[w])
         \/ \E t \in Tasks : /\ wtask[w].kind # "failed" /\ t.run = r
                             /\ Publish(t) /\ ~Held(w)' /\ Due(t)'
  PROVE  Serial'
<1>1. r \in Runs
  BY TaskFacts DEF QInv, WorkerOK, Held
<1>2. ingest[r] = "accepted"
  BY <1>1 DEF Serial, AcceptedOK, NoToken
<1>3. NothingQueued'
  BY <1>1 DEF Serial, NothingQueued, Active, Terminal
<1>4. \A s \in Runs : status'[s] \in Active => status[s] \in Active
  BY <1>1
<1>5. cancelling' = NoRun
  BY DEF Serial
<1>6. StepsOK'
  BY DEF Serial, StepsOK
<1>7. TokensOK' /\ \A s \in Runs : ingest'[s] # "accepted" => NoToken(s)'
  <2>1. CASE pending' = pending /\ (Held(w)' => wtask'[w] = wtask[w])
    <3>1. \A v \in Workers : Held(v)' => Held(v) /\ wtask'[v] = wtask[v]
      BY <2>1 DEF Held
    <3> QED
      BY <2>1, <3>1, TokensStay
  <2>2. CASE \E t \in Tasks : /\ wtask[w].kind # "failed" /\ t.run = r
                              /\ Publish(t) /\ ~Held(w)' /\ Due(t)'
    BY <2>2, TokenHandedOver
  <2> QED
    BY <2>1, <2>2
<1>8. AcceptedOK'
  <2>1. \A s \in Runs : ingest'[s] \in {"register", "finish"} => status'[s] \in Active
    BY <1>2 DEF Serial, AcceptedOK
  <2> QED
    BY <1>7, <2>1 DEF AcceptedOK
<1>9. DueOK'
  <2>1. \A t \in Tasks : pending[t] > 0 => Due(t)'
    BY OthersStayDue
  <2>2. \A v \in Workers \ {w} : Doing(v)'
    BY OthersStayDue
  <2>3. \A t \in Tasks : pending'[t] > 0 => Due(t)'
    <3>1. CASE pending' = pending
      BY <2>1, <3>1
    <3>2. CASE \E t \in Tasks : Publish(t) /\ Due(t)'
      <4>1. PICK t \in Tasks : Publish(t) /\ Due(t)'
        BY <3>2
      <4>2. \A u \in Tasks : u # t => pending'[u] = pending[u]
        BY <4>1, PublishFacts DEF QInv, TypeOK
      <4> QED
        BY <2>1, <4>1, <4>2
    <3> QED
      BY <3>1, <3>2
  <2> QED
    BY <2>2, <2>3 DEF DueOK
<1>10. UploadsOK'
  BY <1>4 DEF Serial, UploadsOK
<1> QED
  BY <1>3, <1>5, <1>6, <1>7, <1>8, <1>9, <1>10 DEF Serial

(* What a worker that executes a task knows.                                *)
LEMMA HeldFacts ==
  ASSUME QInv, Serial, NEW w \in Workers, wpc[w] \in TaskSteps
  PROVE  /\ Held(w) /\ wtask[w] \in Tasks /\ wtask[w].run \in Runs
         /\ wtask[w].kind \in {"start", "dispatch", "finalize", "complete", "failed"}
         /\ StepsOf(wtask[w].kind, wpc[w]) /\ Doing(w)
         /\ \A v \in Workers : wpop[v] = NoRun
<1>1. wpc[w] # "idle" /\ wpc[w] # "ack"
  BY DEF TaskSteps
<1>2. wtask[w] \in Tasks
  BY <1>1 DEF QInv, WorkerOK
<1> QED
  BY <1>1, <1>2, TaskFacts
     DEF Held, Serial, StepsOK, DueOK, NothingQueued

(* Every step of a task keeps the order.                                    *)
LEMMA SerialTaskStep ==
  ASSUME QInv, Serial, NEW w \in Workers, TaskStep(w)
  PROVE  Serial'
<1> USE DEF rowVars, ingestVars, workerVars, faultVars, cancelVars, At, Goto
<1>1. TypeOK
  BY DEF QInv
<1>2. wpc[w] \in TaskSteps
  BY DEF TaskStep, SetRunning, RecordStart, SendFirstDispatch, PlanStage, FailCritical, JoinStage,
         SendFailed, SendNext, MarkCompleted, LoadStatus, MarkFailed, SelectWaiting,
         FlipToQueued, CleanUp, StartNext, TaskSteps
<1>3. /\ Held(w) /\ wtask[w] \in Tasks /\ wtask[w].run \in Runs
      /\ wtask[w].kind \in {"start", "dispatch", "finalize", "complete", "failed"}
      /\ StepsOf(wtask[w].kind, wpc[w]) /\ Doing(w)
      /\ \A v \in Workers : wpop[v] = NoRun
  BY <1>2, HeldFacts
<1> DEFINE r == wtask[w].run
<1>4. r = wtask[w].run
  OBVIOUS
<1> HIDE DEF r
<1>5. \A v \in Workers : v # w => (wpc' = [wpc EXCEPT ![w] = wpc'[w]] => wpc'[v] = wpc[v])
  BY <1>1 DEF TypeOK
<1>6. CASE SetRunning(w)
  <2>1. Due(wtask[w]) /\ wtask[w].kind \in {"start", "dispatch"}
    BY <1>3, <1>6 DEF SetRunning, StepsOf, Doing
  <2>2. status[r] \in Active
    BY <1>4, <2>1 DEF Due
  <2>3. status' = [status EXCEPT ![r] = "running"]
    BY <1>4, <1>6 DEF SetRunning
  <2>4. Due(wtask[w])'
    BY <1>1, <1>3, <1>4, <1>6, <2>1, <2>3 DEF SetRunning, Due, TypeOK, Active
  <2>5. StepsOf(wtask'[w].kind, wpc'[w]) /\ Doing(w)'
    BY <1>1, <1>3, <1>6, <2>1, <2>4 DEF SetRunning, StepsOf, Doing, TypeOK
  <2>6. /\ \A s \in Runs \ {r} : status'[s] = status[s]
        /\ status'[r] = "running"
    BY <1>1, <1>3, <1>4, <2>3 DEF TypeOK
  <2>7. /\ UNCHANGED <<uploads, ingest, queueThis, cancelling, pending,
                       wtask, wpop>>
        /\ \A v \in Workers \ {w} : wpc'[v] = wpc[v]
    BY <1>1, <1>6 DEF SetRunning, TypeOK
  <2>8. wtask[w].kind # "failed" /\ "running" \in Active /\ "running" # "completed"
    BY <2>1 DEF Active
  <2> QED
    BY <1>3, <1>4, <2>2, <2>5, <2>6, <2>7, <2>8, WorkerFrame
<1>7. CASE RecordStart(w)
  <2>1. Due(wtask[w]) /\ wtask[w].kind = "start"
    BY <1>3, <1>7 DEF RecordStart, Doing
  <2>4. StepsOf(wtask'[w].kind, wpc'[w]) /\ Doing(w)'
    BY <1>1, <1>3, <1>4, <1>7, <2>1 DEF RecordStart, StepsOf, Doing, Due, TypeOK
  <2>5. /\ UNCHANGED <<status, uploads, ingest, queueThis, cancelling, pending,
                       wtask, wpop>>
        /\ \A v \in Workers \ {w} : wpc'[v] = wpc[v]
    BY <1>1, <1>7 DEF RecordStart, TypeOK
  <2> QED
    BY <1>3, <1>4, <2>1, <2>4, <2>5, WorkerFrame
<1>8. CASE SendFirstDispatch(w)
  <2>0. PICK t \in Tasks : t = DispatchTask(r, 1)
    BY <1>3, <1>4, BuiltTasks, StagesAssumption
  <2>1. Due(wtask[w]) /\ wtask[w].kind = "start"
    BY <1>3, <1>4, <1>8 DEF SendFirstDispatch, Doing
  <2>2. t.run = r /\ t.kind = "dispatch" /\ t.stage = 1
    BY <2>0 DEF DispatchTask
  <2>3. /\ UNCHANGED <<status, uploads, ingest, queueThis, cancelling,
                       wtask, wpop>>
        /\ \A v \in Workers \ {w} : wpc'[v] = wpc[v]
        /\ wpc'[w] = "ack"
    BY <1>1, <1>8 DEF SendFirstDispatch, TypeOK
  <2>4. Publish(t)
    BY <1>4, <1>8, <2>0 DEF SendFirstDispatch
  <2>5. Due(t)' /\ ~Held(w)'
    BY <1>4, <2>1, <2>2, <2>3 DEF Due, Held
  <2>6. StepsOf(wtask'[w].kind, wpc'[w]) /\ Doing(w)'
    BY <2>3 DEF StepsOf, Doing
  <2> QED
    BY <1>3, <1>4, <2>1, <2>2, <2>3, <2>4, <2>5, <2>6, WorkerFrame
<1>9. CASE PlanStage(w)
  <2> DEFINE k == wtask[w].stage
  <2>1. Due(wtask[w]) /\ wtask[w].kind = "dispatch" /\ k \in 1..NStages
    BY <1>3, <1>9, TaskFacts DEF PlanStage, Doing
  <2>2. PICK full \in BOOLEAN : Publish(FinalizeTask(r, k, full))
    BY <1>4, <1>9 DEF PlanStage
  <2>0. PICK t \in Tasks : t = FinalizeTask(r, k, full)
    BY <1>3, <1>4, <2>1, <2>2, BuiltTasks
  <2>3. t.run = r /\ t.kind = "finalize"
    BY <2>0 DEF FinalizeTask
  <2>4. /\ UNCHANGED <<status, stamp, docsRow, uploads, ingest, queueThis, cancelling,
                       wtask, wpop>>
        /\ \A v \in Workers \ {w} : wpc'[v] = wpc[v]
        /\ wpc'[w] = "ack"
    BY <1>1, <1>9 DEF PlanStage, TypeOK
  <2>6. Publish(t)
    BY <2>0, <2>2
  <2> HIDE DEF k
  <2>7. Due(t)' /\ ~Held(w)'
    BY <1>4, <2>1, <2>3, <2>4 DEF Due, Held
  <2>8. StepsOf(wtask'[w].kind, wpc'[w]) /\ Doing(w)'
    BY <2>4 DEF StepsOf, Doing
  <2> QED
    BY <1>3, <1>4, <2>1, <2>3, <2>4, <2>6, <2>7, <2>8, WorkerFrame
<1>10. CASE FailCritical(w)
  <2>1. status' = [status EXCEPT ![r] = "failed"] /\ wtask[w].kind = "finalize"
    BY <1>4, <1>10 DEF FailCritical
  <2>2. status'[r] = "failed" /\ \A s \in Runs \ {r} : status'[s] = status[s]
    BY <1>1, <1>3, <1>4, <2>1 DEF TypeOK
  <2>3. /\ UNCHANGED <<uploads, ingest, queueThis, cancelling, pending,
                       wtask, wpop>>
        /\ \A v \in Workers \ {w} : wpc'[v] = wpc[v]
        /\ wpc'[w] = "send_failed"
    BY <1>1, <1>10 DEF FailCritical, TypeOK
  <2>4. "failed" \in Terminal /\ "failed" \notin Active /\ "failed" # "completed"
    BY DEF Terminal, Active
  <2>5. StepsOf(wtask'[w].kind, wpc'[w]) /\ Doing(w)'
    BY <1>4, <2>1, <2>2, <2>3, <2>4 DEF StepsOf, Doing
  <2> QED
    BY <1>3, <1>4, <2>1, <2>2, <2>3, <2>4, <2>5, WorkerFrame
<1>11. CASE JoinStage(w)
  <2>1. wtask[w].kind = "finalize" /\ Due(wtask[w])
    BY <1>3, <1>11 DEF JoinStage, Doing
  <2>2. /\ UNCHANGED <<status, uploads, ingest, queueThis, cancelling,
                       pending, wtask, wpop>>
        /\ \A v \in Workers \ {w} : wpc'[v] = wpc[v]
        /\ wpc'[w] = "send_next"
    BY <1>1, <1>11 DEF JoinStage, TypeOK
  <2>3. StepsOf(wtask'[w].kind, wpc'[w]) /\ Doing(w)'
    BY <2>1, <2>2 DEF StepsOf, Doing, Due
  <2> QED
    BY <1>3, <1>4, <2>1, <2>2, <2>3, WorkerFrame
<1>12. CASE SendFailed(w)
  <2>0. PICK t \in Tasks : t = FailedTask(r)
    BY <1>3, <1>4, BuiltTasks
  <2>1. t.run = r /\ t.kind = "failed" /\ Publish(t) /\ wtask[w].kind = "finalize"
    BY <1>4, <1>12, <2>0 DEF SendFailed, FailedTask
  <2>2. /\ UNCHANGED <<status, uploads, ingest, queueThis, cancelling,
                       wtask, wpop>>
        /\ \A v \in Workers \ {w} : wpc'[v] = wpc[v]
        /\ wpc'[w] = "ack"
    BY <1>1, <1>12 DEF SendFailed, TypeOK
  <2>3. Due(t)' /\ ~Held(w)' /\ StepsOf(wtask'[w].kind, wpc'[w]) /\ Doing(w)'
    BY <2>1, <2>2 DEF Due, Held, StepsOf, Doing
  <2> QED
    BY <1>3, <1>4, <2>1, <2>2, <2>3, WorkerFrame
<1>13. CASE SendNext(w)
  <2> DEFINE k == wtask[w].stage
  <2>1. Due(wtask[w]) /\ wtask[w].kind = "finalize" /\ k \in 1..NStages
    BY <1>3, <1>13, TaskFacts DEF SendNext, Doing
  <2>2. PICK t \in Tasks : /\ t = NextTask(r, k) /\ t.run = r
                           /\ t.kind = "complete" \/ (t.kind = "dispatch" /\ t.stage # 1)
    <3>1. CASE k < NStages
      <4>1. k + 1 \in 1..NStages /\ k + 1 # 1
        BY <2>1, <3>1, StagesAssumption
      <4>2. NextTask(r, k) = DispatchTask(r, k + 1)
        BY <3>1 DEF NextTask
      <4> QED
        BY <1>3, <1>4, <4>1, <4>2, BuiltTasks DEF DispatchTask
    <3>2. CASE ~(k < NStages)
      <4>1. NextTask(r, k) = CompleteTask(r)
        BY <3>2 DEF NextTask
      <4> QED
        BY <1>3, <1>4, <4>1, BuiltTasks DEF CompleteTask
    <3> QED
      BY <3>1, <3>2
  <2>3. Publish(t)
    BY <1>4, <1>13, <2>2 DEF SendNext
  <2>4. /\ UNCHANGED <<status, uploads, ingest, queueThis, cancelling,
                       wtask, wpop>>
        /\ \A v \in Workers \ {w} : wpc'[v] = wpc[v]
        /\ wpc'[w] = "ack"
    BY <1>1, <1>13 DEF SendNext, TypeOK
  <2> HIDE DEF k
  <2>5. Due(t)' /\ ~Held(w)'
    BY <1>4, <2>1, <2>2, <2>4 DEF Due, Held
  <2>6. StepsOf(wtask'[w].kind, wpc'[w]) /\ Doing(w)'
    BY <2>4 DEF StepsOf, Doing
  <2> QED
    BY <1>3, <1>4, <2>1, <2>2, <2>3, <2>4, <2>5, <2>6, WorkerFrame
<1>14. CASE MarkCompleted(w)
  <2>1. /\ wtask[w].kind = "complete"
        /\ status' = [status EXCEPT ![r] = "completed"]
    BY <1>3, <1>4, <1>14 DEF MarkCompleted, Doing, Due
  <2>2. status'[r] = "completed" /\ \A s \in Runs \ {r} : status'[s] = status[s]
    BY <1>1, <1>3, <1>4, <2>1 DEF TypeOK
  <2>3. /\ UNCHANGED <<uploads, ingest, queueThis, cancelling, pending,
                       wtask, wpop>>
        /\ \A v \in Workers \ {w} : wpc'[v] = wpc[v]
        /\ wpc'[w] = "select"
    BY <1>1, <1>14 DEF MarkCompleted, TypeOK
  <2>4. "completed" \in Terminal /\ "completed" \notin Active
    BY DEF Terminal, Active
  <2>5. StepsOf(wtask'[w].kind, wpc'[w]) /\ Doing(w)'
    BY <1>4, <2>1, <2>2, <2>3, <2>4 DEF StepsOf, Doing
  <2> QED
    BY <1>3, <1>4, <2>1, <2>2, <2>3, <2>4, <2>5, WorkerFrame
<1>15. CASE LoadStatus(w)
  <2>1. /\ UNCHANGED <<status, uploads, ingest, queueThis, cancelling,
                       pending, wtask, wpop>>
        /\ \A v \in Workers \ {w} : wpc'[v] = wpc[v]
        /\ wpc'[w] = AfterLoad(status[r])
        /\ wtask[w].kind = "failed"
    BY <1>1, <1>4, <1>15 DEF LoadStatus, TypeOK
  <2>2. StepsOf(wtask'[w].kind, wpc'[w]) /\ Doing(w)'
    BY <1>4, <2>1 DEF AfterLoad, StepsOf, Doing
  <2> QED
    BY <1>3, <1>4, <2>1, <2>2, WorkerFrame
<1>16. CASE MarkFailed(w)
  <2>1. status' = [status EXCEPT ![r] = "failed"] /\ wtask[w].kind = "failed"
    BY <1>4, <1>16 DEF MarkFailed
  <2>2. status'[r] = "failed" /\ \A s \in Runs \ {r} : status'[s] = status[s]
    BY <1>1, <1>3, <1>4, <2>1 DEF TypeOK
  <2>3. /\ UNCHANGED <<uploads, ingest, queueThis, cancelling, pending,
                       wtask, wpop>>
        /\ \A v \in Workers \ {w} : wpc'[v] = wpc[v]
        /\ wpc'[w] = "select"
    BY <1>1, <1>16 DEF MarkFailed, TypeOK
  <2>4. "failed" \in Terminal /\ "failed" \notin Active /\ "failed" # "completed"
    BY DEF Terminal, Active
  <2>5. StepsOf(wtask'[w].kind, wpc'[w]) /\ Doing(w)'
    BY <1>4, <2>1, <2>2, <2>3, <2>4 DEF StepsOf, Doing
  <2> QED
    BY <1>3, <1>4, <2>1, <2>2, <2>3, <2>4, <2>5, WorkerFrame
<1>17. CASE SelectWaiting(w)
  <2>1. Waiting = {}
    BY DEF Serial, NothingQueued, Waiting
  <2>2. /\ UNCHANGED <<status, uploads, ingest, queueThis, cancelling,
                       pending, wtask, wpop>>
        /\ \A v \in Workers \ {w} : wpc'[v] = wpc[v]
        /\ wpc'[w] = "cleanup" /\ wpc[w] = "select"
    BY <1>1, <1>17, <2>1 DEF SelectWaiting, TypeOK
  <2>3. StepsOf(wtask'[w].kind, wpc'[w]) /\ Doing(w)'
    BY <1>3, <2>2 DEF StepsOf, Doing
  <2> QED
    BY <1>3, <1>4, <2>2, <2>3, WorkerFrame
<1>18. CASE CleanUp(w)
  <2>1. status[r] \in Terminal /\ wpop[w] = NoRun
    BY <1>3, <1>4, <1>18 DEF CleanUp, Doing
  <2>2. uploads' = [uploads EXCEPT ![r] = @ /\ r \notin Ephemeral]
    BY <1>4, <1>18 DEF CleanUp
  <2>3. \A s \in Runs \ {r} : uploads'[s] = uploads[s]
    BY <1>1, <1>3, <1>4, <2>2 DEF TypeOK
  <2>4. /\ UNCHANGED <<status, ingest, queueThis, cancelling,
                       pending, wtask, wpop>>
        /\ \A v \in Workers \ {w} : wpc'[v] = wpc[v]
        /\ wpc'[w] = "ack"
    BY <1>1, <1>18, <2>1 DEF AfterCleanUp, CleanUp, TypeOK
  <2>5. StepsOf(wtask'[w].kind, wpc'[w]) /\ Doing(w)'
    BY <2>4 DEF StepsOf, Doing
  <2>7. status'[r] \notin Active
    BY <2>1, <2>4 DEF Terminal, Active
  <2> QED
    BY <1>3, <1>4, <2>1, <2>3, <2>4, <2>5, <2>7, WorkerFrame
\* No run is ever popped.
<1>19. ~FlipToQueued(w) /\ ~StartNext(w)
  BY <1>3, RunsAssumption DEF FlipToQueued, StartNext, QInv, WorkerOK
<1> QED
  BY <1>6, <1>7, <1>8, <1>9, <1>10, <1>11, <1>12, <1>13, <1>14, <1>15, <1>16, <1>17,
     <1>18, <1>19 DEF TaskStep

(* A task that raises is dropped, and at most hands its run to              *)
(* pipeline_failed.                                                         *)
LEMMA SerialTaskRaises ==
  ASSUME QInv, Serial, NEW w \in Workers, TaskRaises(w)
  PROVE  Serial'
<1> USE DEF rowVars, ingestVars, workerVars, faultVars, cancelVars, Goto
<1>1. TypeOK
  BY DEF QInv
<1>2. wpc[w] \in TaskSteps
  BY DEF TaskRaises
<1>3. /\ Held(w) /\ wtask[w].run \in Runs
      /\ \A v \in Workers : wpop[v] = NoRun
  BY <1>2, HeldFacts
<1> DEFINE r == wtask[w].run
<1>4. r = wtask[w].run
  OBVIOUS
<1> HIDE DEF r
<1>5. /\ UNCHANGED <<status, uploads, ingest, queueThis, cancelling>>
      /\ \A v \in Workers \ {w} : wtask'[v] = wtask[v] /\ wpc'[v] = wpc[v]
      /\ wpc'[w] = "idle"
      /\ \A v \in Workers : wpop'[v] = NoRun
  BY <1>1, <1>3 DEF TaskRaises, Drop, TypeOK
<1>6. ~Held(w)' /\ StepsOf(wtask'[w].kind, wpc'[w]) /\ Doing(w)'
  BY <1>5 DEF Held, StepsOf, Doing
<1>8. CASE wtask[w].kind = "finalize" /\ wtask[w].full
  <2>1. PICK t \in Tasks : t = FailedTask(r)
    BY <1>3, <1>4, BuiltTasks
  <2>2. t.run = r /\ t.kind = "failed" /\ Publish(t) /\ wtask[w].kind # "failed"
    BY <1>4, <1>8, <2>1 DEF TaskRaises, FailedTask
  <2>3. Due(t)'
    BY <2>2 DEF Due
  <2> QED
    BY <1>3, <1>4, <1>5, <1>6, <2>2, <2>3, WorkerFrame
<1>9. CASE ~(wtask[w].kind = "finalize" /\ wtask[w].full)
  <2>1. pending' = pending
    BY <1>9 DEF TaskRaises
  <2> QED
    BY <1>3, <1>4, <1>5, <1>6, <2>1, WorkerFrame
<1> QED
  BY <1>8, <1>9

(* As long as no row, request or worker's selection changes, the order      *)
(* depends on the messages and tasks alone.                                 *)
LEMMA SameRows ==
  ASSUME Serial, UNCHANGED <<status, uploads, ingest, queueThis, cancelling>>,
         \A v \in Workers : wpop'[v] = NoRun,
         StepsOK', TokensOK', \A r \in Runs : ingest[r] # "accepted" => NoToken(r)', DueOK'
  PROVE  Serial'
<1>1. NothingQueued' /\ cancelling' = NoRun
  BY DEF Serial, NothingQueued
<1>2. AcceptedOK' /\ UploadsOK'
  BY DEF Serial, AcceptedOK, UploadsOK
<1> QED
  BY <1>1, <1>2 DEF Serial

(* A worker that takes a message finds what is due to it.                   *)
LEMMA SerialTakeTask ==
  ASSUME QInv, Serial, NEW w \in Workers, TakeTask(w)
  PROVE  Serial'
<1> USE DEF rowVars, ingestVars, workerVars, faultVars, cancelVars, Goto
<1>1. TypeOK
  BY DEF QInv
<1>2. PICK t \in Tasks : /\ pending[t] > 0
                         /\ pending' = [pending EXCEPT ![t] = @ - 1]
                         /\ wtask' = [wtask EXCEPT ![w] = t]
                         /\ wpc' = [wpc EXCEPT ![w] = Entry(t.kind)]
  BY DEF TakeTask
<1>3. /\ wpc[w] = "idle" /\ ~Held(w)
      /\ UNCHANGED <<status, uploads, ingest, queueThis, cancelling, wpop>>
  BY DEF TakeTask, Held
<1>4. /\ wtask'[w] = t /\ wpc'[w] = Entry(t.kind)
      /\ \A v \in Workers \ {w} : wtask'[v] = wtask[v] /\ wpc'[v] = wpc[v]
      /\ pending'[t] = pending[t] - 1
      /\ \A u \in Tasks \ {t} : pending'[u] = pending[u]
  BY <1>1, <1>2 DEF TypeOK
<1>5. \A v \in Workers \ {w} : Held(v)' <=> Held(v)
  BY <1>4 DEF Held
<1>6. \A u \in Tasks : pending'[u] > 0 => pending[u] > 0
  BY <1>1, <1>2, <1>4 DEF TypeOK
<1>7. \A v \in Workers : wpop'[v] = NoRun
  BY <1>3 DEF Serial, NothingQueued
<1>8. StepsOK'
  <2>1. StepsOf(t.kind, Entry(t.kind))
    BY TaskFacts DEF Entry, StepsOf
  <2> QED
    BY <1>4, <2>1 DEF Serial, StepsOK
<1>9. \A u \in Tasks : pending'[u] > 0 /\ u.run = t.run => u.kind = "failed" /\ t.kind = "failed"
  <2> SUFFICES ASSUME NEW u \in Tasks, pending'[u] > 0, u.run = t.run
               PROVE  u.kind = "failed" /\ t.kind = "failed"
    OBVIOUS
  <2>1. u = t
    BY <1>2, <1>6 DEF Serial, TokensOK
  <2>2. pending[t] <= 1 \/ t.kind = "failed"
    BY DEF Serial, TokensOK
  <2> QED
    BY <1>1, <1>4, <2>1, <2>2 DEF TypeOK
<1>10. \A v \in Workers \ {w} : Held(v) /\ wtask[v].run = t.run =>
         wtask[v].kind = "failed" /\ t.kind = "failed"
  BY <1>2 DEF Serial, TokensOK
<1>11. TokensOK'
  <2>1. \A u \in Tasks : u.kind # "failed" => pending'[u] <= 1
    BY <1>1, <1>4 DEF Serial, TokensOK, TypeOK
  <2>2. \A u, x \in Tasks : pending'[u] > 0 /\ pending'[x] > 0 /\ u.run = x.run => u = x
    BY <1>6 DEF Serial, TokensOK
  <2>3. \A u \in Tasks, v \in Workers : pending'[u] > 0 /\ Held(v)' /\ wtask'[v].run = u.run =>
          u.kind = "failed" /\ wtask'[v].kind = "failed"
    <3> SUFFICES ASSUME NEW u \in Tasks, NEW v \in Workers,
                        pending'[u] > 0, Held(v)', wtask'[v].run = u.run
                 PROVE  u.kind = "failed" /\ wtask'[v].kind = "failed"
      OBVIOUS
    <3>1. CASE v = w
      BY <1>4, <1>9, <3>1
    <3>2. CASE v # w
      BY <1>4, <1>5, <1>6, <3>2 DEF Serial, TokensOK
    <3> QED
      BY <3>1, <3>2
  <2>4. \A u, v \in Workers : u # v /\ Held(u)' /\ Held(v)' /\ wtask'[u].run = wtask'[v].run =>
          wtask'[u].kind = "failed" /\ wtask'[v].kind = "failed"
    <3> SUFFICES ASSUME NEW u \in Workers, NEW v \in Workers,
                        u # v, Held(u)', Held(v)', wtask'[u].run = wtask'[v].run
                 PROVE  wtask'[u].kind = "failed" /\ wtask'[v].kind = "failed"
      OBVIOUS
    <3>1. CASE u # w /\ v # w
      BY <1>4, <1>5, <3>1 DEF Serial, TokensOK
    <3>2. CASE u = w \/ v = w
      BY <1>4, <1>5, <1>10, <3>2
    <3> QED
      BY <3>1, <3>2
  <2> QED
    BY <2>1, <2>2, <2>3, <2>4 DEF TokensOK
<1>12. \A s \in Runs : ingest[s] # "accepted" => NoToken(s)'
  <2> SUFFICES ASSUME NEW s \in Runs, ingest[s] # "accepted"
               PROVE  NoToken(s)'
    OBVIOUS
  <2>1. NoToken(s)
    BY DEF Serial, AcceptedOK
  <2>2. t.run # s
    BY <1>2, <2>1 DEF NoToken
  <2>3. \A u \in Tasks : u.run = s => pending'[u] = 0
    BY <1>4, <2>1, <2>2 DEF NoToken
  <2>4. \A v \in Workers : Held(v)' => wtask'[v].run # s
    BY <1>4, <1>5, <2>1, <2>2 DEF NoToken
  <2> QED
    BY <2>3, <2>4 DEF NoToken
<1>13. DueOK'
  <2>1. \A u \in Tasks : pending'[u] > 0 => Due(u)'
    BY <1>3, <1>6 DEF Serial, DueOK, Due
  <2>2. \A v \in Workers \ {w} : Doing(v)'
    <3> SUFFICES ASSUME NEW v \in Workers \ {w} PROVE Doing(v)'
      OBVIOUS
    <3>1. Doing(v) /\ (Due(wtask[v]) => Due(wtask[v])')
      BY <1>3, <1>4 DEF Serial, DueOK, Due
    <3> QED
      BY <1>3, <1>4, <3>1 DEF Doing, Due
  <2>3. Doing(w)'
    <3>1. Due(t)' /\ Due(t)
      BY <1>2, <1>3 DEF Serial, DueOK, Due
    <3>2. Due(wtask[w])'
      BY <1>4, <3>1 DEF Due
    <3>3. Entry(t.kind) \in {"set_running", "join", "mark_completed", "load"}
      BY EntryFacts
    <3> QED
      BY <1>4, <3>2, <3>3 DEF Doing
  <2> QED
    BY <2>1, <2>2, <2>3 DEF DueOK
<1> QED
  BY <1>3, <1>7, <1>8, <1>11, <1>12, <1>13, SameRows

(* The acknowledgement of a finished task changes nothing.                  *)
LEMMA SerialAcknowledge ==
  ASSUME QInv, Serial, NEW w \in Workers, Acknowledge(w)
  PROVE  Serial'
<1> USE DEF rowVars, ingestVars, workerVars, faultVars, cancelVars, Goto
<1>1. TypeOK
  BY DEF QInv
<1>2. /\ UNCHANGED <<status, uploads, ingest, queueThis, cancelling, pending>>
      /\ \A v \in Workers \ {w} : wtask'[v] = wtask[v] /\ wpc'[v] = wpc[v]
      /\ wpc'[w] = "idle"
      /\ \A v \in Workers : wpop'[v] \in {wpop[v], NoRun}
  BY <1>1 DEF Acknowledge, TypeOK
<1>3. \A v \in Workers : wpop'[v] = NoRun
  BY <1>2 DEF Serial, NothingQueued
<1>4. StepsOK'
  BY <1>2 DEF Serial, StepsOK, StepsOf
<1>5. \A v \in Workers : Held(v)' => Held(v) /\ wtask'[v] = wtask[v]
  BY <1>2 DEF Held
<1>6. TokensOK' /\ \A r \in Runs : ingest'[r] # "accepted" => NoToken(r)'
  BY <1>2, <1>5, TokensStay
<1>7. DueOK'
  <2>1. \A t \in Tasks : pending'[t] > 0 => Due(t)'
    BY <1>2 DEF Serial, DueOK, Due
  <2>2. Doing(w)'
    BY <1>2 DEF Doing
  <2>3. \A v \in Workers \ {w} : Doing(v)'
    BY <1>2 DEF Serial, DueOK, Doing, Due
  <2> QED
    BY <2>1, <2>2, <2>3 DEF DueOK
<1> QED
  BY <1>2, <1>3, <1>4, <1>6, <1>7, SameRows

(* When a chord breaks, its callback gives way to one or two calls of       *)
(* pipeline_failed.                                                         *)
LEMMA SerialChordBreaks ==
  ASSUME QInv, Serial, NEW r \in Runs, NEW k \in 1..NStages, ChordBreaks(r, k)
  PROVE  Serial'
<1> USE DEF rowVars, ingestVars, workerVars, faultVars, cancelVars
<1>1. TypeOK
  BY DEF QInv
<1>2. PICK f \in Tasks, g \in Tasks : f = FinalizeTask(r, k, TRUE) /\ g = FailedTask(r)
  BY BuiltTasks
<1>3. f.run = r /\ f.kind = "finalize" /\ g.run = r /\ g.kind = "failed" /\ f # g
  BY <1>2 DEF FinalizeTask, FailedTask
<1>4. PICK copies \in 1..2 : pending' = [pending EXCEPT ![f] = @ - 1, ![g] = @ + copies]
  BY <1>2 DEF ChordBreaks
<1>5. pending[f] = 1 /\ \A u \in Tasks \ {f} : u.run = r => pending[u] = 0
  <2>1. pending[f] > 0
    BY <1>2 DEF ChordBreaks
  <2>2. \A u \in Tasks : pending[u] \in Nat
    BY <1>1 DEF TypeOK
  <2>3. pending[f] <= 1
    BY <1>3 DEF Serial, TokensOK
  <2>4. \A u \in Tasks : u.run = r /\ pending[u] > 0 => u = f
    BY <1>3, <2>1 DEF Serial, TokensOK
  <2> QED
    BY <2>1, <2>2, <2>3, <2>4
<1>6. \A v \in Workers : Held(v) => wtask[v].run # r
  BY <1>3, <1>5 DEF Serial, TokensOK
<1>7. /\ pending'[f] = 0
      /\ \A u \in Tasks \ {f, g} : pending'[u] = pending[u]
  BY <1>1, <1>3, <1>4, <1>5 DEF TypeOK
<1>8. \A u \in Tasks : pending'[u] > 0 => u = g \/ (u.run # r /\ pending'[u] = pending[u])
  BY <1>5, <1>7
<1>9. UNCHANGED <<status, uploads, ingest, queueThis, cancelling,
                  wtask, wpc, wpop>>
  BY DEF ChordBreaks
<1>10. \A v \in Workers : wpop'[v] = NoRun
  BY <1>9 DEF Serial, NothingQueued
<1>11. StepsOK'
  BY <1>9 DEF Serial, StepsOK
<1>12. TokensOK'
  <2>1. \A u \in Tasks : u.kind # "failed" => pending'[u] <= 1
    BY <1>3, <1>7 DEF Serial, TokensOK
  <2>2. \A u, x \in Tasks : pending'[u] > 0 /\ pending'[x] > 0 /\ u.run = x.run => u = x
    BY <1>3, <1>8 DEF Serial, TokensOK
  <2>3. \A u \in Tasks, v \in Workers : pending'[u] > 0 /\ Held(v)' /\ wtask'[v].run = u.run =>
          u.kind = "failed" /\ wtask'[v].kind = "failed"
    BY <1>3, <1>6, <1>8, <1>9 DEF Serial, TokensOK, Held
  <2>4. \A u, v \in Workers : u # v /\ Held(u)' /\ Held(v)' /\ wtask'[u].run = wtask'[v].run =>
          wtask'[u].kind = "failed" /\ wtask'[v].kind = "failed"
    BY <1>9 DEF Serial, TokensOK, Held
  <2> QED
    BY <2>1, <2>2, <2>3, <2>4 DEF TokensOK
<1>13. \A s \in Runs : ingest[s] # "accepted" => NoToken(s)'
  <2> SUFFICES ASSUME NEW s \in Runs, ingest[s] # "accepted"
               PROVE  NoToken(s)'
    OBVIOUS
  <2>1. NoToken(s)
    BY DEF Serial, AcceptedOK
  <2>2. s # r
    BY <1>3, <1>5, <2>1 DEF NoToken
  <2>3. \A u \in Tasks : u.run = s => pending'[u] = 0
    BY <1>3, <1>7, <2>1, <2>2 DEF NoToken
  <2> QED
    BY <1>9, <2>1, <2>3 DEF NoToken, Held
<1>14. DueOK'
  <2>1. \A u \in Tasks : pending'[u] > 0 => Due(u)'
    BY <1>3, <1>8, <1>9 DEF Serial, DueOK, Due
  <2>2. \A v \in Workers : Doing(v)'
    BY <1>9 DEF Serial, DueOK, Doing, Due
  <2> QED
    BY <2>1, <2>2 DEF DueOK
<1> QED
  BY <1>9, <1>10, <1>11, <1>12, <1>13, <1>14, SameRows

(* Every step of an upload keeps the order: its run is given a task when it *)
(* is accepted, and no one else works for it before.                        *)
LEMMA SerialIngest ==
  ASSUME QInv, RejectMode, Serial, NEW r \in Runs,
         CheckActive(r) \/ IngestStep(r) \/ IngestRaises(r)
  PROVE  Serial'
<1> USE DEF rowVars, ingestVars, workerVars, faultVars, cancelVars, IngestGoto
<1>1. TypeOK
  BY DEF QInv
<1>2. ~CountWaiting(r) /\ ~RecordDocuments(r)
  BY DEF CountWaiting, RecordDocuments, Serial, NothingQueued
<1>3. /\ NothingQueued /\ cancelling = NoRun
      /\ StepsOK /\ TokensOK /\ AcceptedOK /\ DueOK /\ UploadsOK
  BY DEF Serial
\* The workers do not move.
<1>4. UNCHANGED <<wtask, wpc, wpop, cancelling, queueThis>>
  BY <1>2 DEF IngestStep, CheckActive, CreateRun, RegisterUploads, EnqueuePipeline, IngestRaises
<1>5. StepsOK' /\ \A v \in Workers : Held(v)' = Held(v)
  BY <1>3, <1>4 DEF StepsOK, Held
<1>6. ingest' = [ingest EXCEPT ![r] = ingest'[r]] /\ \A s \in Runs \ {r} : ingest'[s] = ingest[s]
  BY <1>1, <1>2 DEF IngestStep, CheckActive, CreateRun, RegisterUploads, EnqueuePipeline,
                    IngestRaises, TypeOK
\* Before the request is accepted there is nobody to disturb.
<1>7. ingest[r] # "accepted" /\ NoToken(r)
  BY <1>2, <1>3 DEF IngestStep, CheckActive, CreateRun, RegisterUploads, EnqueuePipeline,
                    IngestRaises, AcceptedOK
<1>8. CASE CheckActive(r)
  <2>1. /\ UNCHANGED <<status, uploads, pending>>
        /\ ingest'[r] \in {"create", "rejected"}
    BY <1>1, <1>8 DEF CheckActive, RejectMode, TypeOK
  <2>3. NothingQueued'
    BY <1>3, <1>4, <1>6, <2>1 DEF NothingQueued
  <2>5. TokensOK' /\ DueOK'
    <3>1. TokensOK'
      BY <1>3, <1>4, <1>5, <2>1 DEF TokensOK
    <3>2. DueOK'
      BY <1>3, <1>4, <2>1 DEF DueOK, Due, Doing
    <3> QED
      BY <3>1, <3>2
  <2>6. AcceptedOK' /\ UploadsOK'
    <3>1. \A s \in Runs : NoToken(s) => NoToken(s)'
      BY <1>4, <1>5, <2>1 DEF NoToken
    <3>2. AcceptedOK'
      BY <1>3, <1>6, <1>7, <2>1, <3>1 DEF AcceptedOK
    <3> QED
      BY <1>3, <1>4, <1>6, <2>1, <3>2 DEF UploadsOK
  <2> QED
    BY <1>3, <1>4, <1>5, <2>3, <2>5, <2>6 DEF Serial
<1>9. CASE CreateRun(r)
  <2>1. /\ ingest[r] = "create" /\ ~queueThis[r]
        /\ status' = [status EXCEPT ![r] = "queued"]
        /\ ingest'[r] = "register"
        /\ UNCHANGED <<uploads, pending>>
    BY <1>1, <1>3, <1>9 DEF CreateRun, CreatedStatus, NothingQueued, TypeOK
  <2>2. status'[r] = "queued" /\ \A s \in Runs \ {r} : status'[s] = status[s]
    BY <1>1, <2>1 DEF TypeOK
  <2>4. NothingQueued'
    BY <1>3, <1>4, <1>6, <2>1, <2>2 DEF NothingQueued
  <2>6. TokensOK'
    BY <1>3, <1>4, <1>5, <2>1 DEF TokensOK
  <2>7. DueOK'
    <3>1. \A u \in Tasks : pending'[u] > 0 => Due(u)'
      <4> SUFFICES ASSUME NEW u \in Tasks, pending'[u] > 0 PROVE Due(u)'
        OBVIOUS
      <4>1. u.run # r /\ u.run \in Runs /\ Due(u)
        BY <1>3, <1>7, <2>1, TaskFacts DEF NoToken, DueOK
      <4> QED
        BY <1>4, <2>2, <4>1 DEF Due
    <3>2. \A v \in Workers : Doing(v)'
      <4> SUFFICES ASSUME NEW v \in Workers PROVE Doing(v)'
        OBVIOUS
      <4>1. CASE ~Held(v)
        BY <1>4, <4>1 DEF Held, Doing
      <4>2. CASE Held(v)
        <5>1. wtask[v].run # r /\ wtask[v].run \in Runs /\ Doing(v)
          BY <1>3, <1>7, <4>2, TaskFacts DEF NoToken, DueOK, Held, QInv, WorkerOK
        <5> QED
          BY <1>4, <2>2, <5>1 DEF Doing, Due
      <4> QED
        BY <4>1, <4>2
    <3> QED
      BY <3>1, <3>2 DEF DueOK
  <2>8. AcceptedOK'
    <3>1. \A s \in Runs : NoToken(s) => NoToken(s)'
      BY <1>4, <1>5, <2>1 DEF NoToken
    <3> QED
      BY <1>3, <1>6, <1>7, <2>1, <2>2, <3>1 DEF AcceptedOK, Active
  <2>9. UploadsOK'
    BY <1>3, <1>6, <2>1, <2>2 DEF UploadsOK
  <2> QED
    BY <1>3, <1>4, <1>5, <2>4, <2>6, <2>7, <2>8, <2>9 DEF Serial
<1>10. CASE RegisterUploads(r) \/ IngestRaises(r)
  <2>1. /\ ingest[r] \in {"register", "finish"}
        /\ ingest'[r] \in {"finish", "died"}
        /\ ingest'[r] = "finish" => ingest[r] = "register" /\ uploads'[r]
        /\ \A s \in Runs \ {r} : uploads'[s] = uploads[s]
        /\ UNCHANGED <<status, pending>>
    BY <1>1, <1>10 DEF RegisterUploads, IngestRaises, TypeOK
  <2>2. NothingQueued'
    BY <1>3, <1>4, <1>6, <2>1 DEF NothingQueued
  <2>4. TokensOK' /\ DueOK'
    <3>1. TokensOK'
      BY <1>3, <1>4, <1>5, <2>1 DEF TokensOK
    <3>2. DueOK'
      BY <1>3, <1>4, <2>1 DEF DueOK, Due, Doing
    <3> QED
      BY <3>1, <3>2
  <2>5. AcceptedOK'
    <3>1. \A s \in Runs : NoToken(s) => NoToken(s)'
      BY <1>4, <1>5, <2>1 DEF NoToken
    <3> QED
      BY <1>3, <1>6, <1>7, <2>1, <3>1 DEF AcceptedOK
  <2>6. UploadsOK'
    BY <1>3, <1>4, <1>6, <2>1 DEF UploadsOK
  <2> QED
    BY <1>3, <1>4, <1>5, <2>2, <2>4, <2>5, <2>6 DEF Serial
<1>11. CASE EnqueuePipeline(r)
  <2>1. /\ ingest[r] = "finish" /\ ingest'[r] = "accepted" /\ status[r] \in Active
        /\ UNCHANGED <<status, uploads>>
    BY <1>1, <1>3, <1>11 DEF EnqueuePipeline, AcceptedOK, TypeOK
  <2>2. PICK t \in Tasks : t = StartTask(r, TRUE)
    BY BuiltTasks
  <2>3. t.run = r /\ t.kind = "start" /\ t.full
    BY <2>2 DEF StartTask
  <2>4. pending'[t] = 1 /\ \A u \in Tasks \ {t} : pending'[u] = pending[u]
    <3>1. pending[t] = 0
      BY <1>7, <2>3 DEF NoToken
    <3>2. pending' = [pending EXCEPT ![t] = @ + 1]
      BY <1>11, <2>2 DEF EnqueuePipeline
    <3> QED
      BY <1>1, <3>1, <3>2 DEF TypeOK
  <2>5. NothingQueued'
    BY <1>3, <1>4, <1>6, <2>1 DEF NothingQueued
  <2>7. \A u \in Tasks : pending'[u] > 0 => u = t \/ (u.run # r /\ pending'[u] = pending[u])
    BY <1>7, <2>4 DEF NoToken
  <2>8. TokensOK'
    <3>1. \A u \in Tasks : u.kind # "failed" => pending'[u] <= 1
      BY <1>3, <2>4 DEF TokensOK
    <3>2. \A u, x \in Tasks : pending'[u] > 0 /\ pending'[x] > 0 /\ u.run = x.run => u = x
      BY <1>3, <2>3, <2>7 DEF TokensOK
    <3>3. \A u \in Tasks, v \in Workers : pending'[u] > 0 /\ Held(v)' /\ wtask'[v].run = u.run =>
            u.kind = "failed" /\ wtask'[v].kind = "failed"
      BY <1>3, <1>4, <1>5, <1>7, <2>3, <2>7 DEF TokensOK, NoToken
    <3>4. \A u, v \in Workers : u # v /\ Held(u)' /\ Held(v)' /\ wtask'[u].run = wtask'[v].run =>
            wtask'[u].kind = "failed" /\ wtask'[v].kind = "failed"
      BY <1>3, <1>4, <1>5 DEF TokensOK
    <3> QED
      BY <3>1, <3>2, <3>3, <3>4 DEF TokensOK
  <2>9. DueOK'
    <3>1. \A u \in Tasks : pending'[u] > 0 => Due(u)'
      BY <1>3, <1>4, <2>1, <2>3, <2>7 DEF DueOK, Due
    <3>2. \A v \in Workers : Doing(v)'
      BY <1>3, <1>4, <2>1 DEF DueOK, Due, Doing
    <3> QED
      BY <3>1, <3>2 DEF DueOK
  <2>10. AcceptedOK'
    <3>1. ASSUME NEW s \in Runs, ingest'[s] # "accepted"
          PROVE  NoToken(s)'
      <4>1. s # r /\ NoToken(s)
        BY <1>3, <1>6, <2>1, <3>1 DEF AcceptedOK
      <4>2. \A u \in Tasks : u.run = s => pending'[u] = 0
        BY <2>3, <2>4, <4>1 DEF NoToken
      <4> QED
        BY <1>4, <1>5, <4>1, <4>2 DEF NoToken
    <3>2. \A s \in Runs : ingest'[s] \in {"register", "finish"} => status'[s] \in Active
      BY <1>3, <1>6, <2>1 DEF AcceptedOK
    <3> QED
      BY <3>1, <3>2 DEF AcceptedOK
  <2>11. UploadsOK'
    BY <1>3, <1>4, <1>6, <2>1 DEF UploadsOK
  <2> QED
    BY <1>3, <1>4, <1>5, <2>5, <2>8, <2>9, <2>10, <2>11 DEF Serial
<1> QED
  BY <1>2, <1>8, <1>9, <1>10, <1>11 DEF IngestStep

(* Serial is inductive together with QInv.                                  *)
LEMMA SerialStep == QInv /\ Undisturbed /\ Serial /\ [Next]_vars => Serial'
<1> SUFFICES ASSUME QInv, Undisturbed, Serial, [Next]_vars PROVE Serial'
  OBVIOUS
<1>1. ASSUME NEW r \in Runs, CheckActive(r) \/ IngestStep(r) \/ IngestRaises(r)
      PROVE  Serial'
  BY <1>1, SerialIngest DEF Undisturbed
<1>2. ASSUME NEW w \in Workers, TakeTask(w) \/ TaskStep(w) \/ Acknowledge(w)
      PROVE  Serial'
  BY <1>2, SerialTakeTask, SerialTaskStep, SerialAcknowledge
<1>3. ASSUME NEW w \in Workers, TaskRaises(w)
      PROVE  Serial'
  BY <1>3, SerialTaskRaises
<1>4. ASSUME NEW r \in Runs, NEW k \in 1..NStages, ChordBreaks(r, k)
      PROVE  Serial'
  BY <1>4, SerialChordBreaks
\* Nothing is cancelled and no worker is lost.
<1>5. /\ \A r \in Runs : ~CancelSelect(r)
      /\ ~CancelCommit
      /\ \A w \in Workers : ~WorkerLost(w)
  BY DEF CancelSelect, CancelCommit, WorkerLost, Undisturbed, Serial, QInv, TypeOK
<1>6. CASE UNCHANGED vars
  <2>1. /\ UNCHANGED <<status, uploads, ingest, queueThis, cancelling>>
        /\ UNCHANGED <<pending, wtask, wpc, wpop>>
    BY <1>6 DEF vars, rowVars, ingestVars, workerVars, cancelVars
  <2>2. \A v \in Workers : wpop'[v] = NoRun
    BY <2>1 DEF Serial, NothingQueued
  <2>3. StepsOK' /\ DueOK'
    BY <2>1 DEF Serial, StepsOK, DueOK, Due, Doing
  <2>4. TokensOK' /\ \A r \in Runs : ingest'[r] # "accepted" => NoToken(r)'
    BY <2>1, TokensStay DEF Held
  <2> QED
    BY <2>1, <2>2, <2>3, <2>4, SameRows
<1> QED
  BY <1>1, <1>2, <1>3, <1>4, <1>5, <1>6 DEF Next

(* In an undisturbed behaviour a run has one task at a time.               *)
LEMMA SerialInvariant == Undisturbed => (Spec => [](QInv /\ Serial))
<1> SUFFICES ASSUME Undisturbed PROVE Spec => [](QInv /\ Serial)
  OBVIOUS
<1>1. QInv /\ Serial /\ [Next]_vars => Serial'
  BY SerialStep
<1> QED
  BY <1>1, SerialInit, QueueInvariant, PTL DEF Spec

(* cleanup_ephemeral_uploads runs only for a run that has ended, and nothing *)
(* makes the run active again after it: however many uploads overlap and    *)
(* whatever raises, an accepted run keeps its temporary uploads for as long *)
(* as a task may read them.  With a cancel, a redelivery, or two workers    *)
(* that pop the same run it is false.                                       *)
THEOREM UploadsAreKept == Undisturbed => (Spec => []ActiveRunKeepsUploads)
<1> SUFFICES ASSUME Undisturbed PROVE Spec => []ActiveRunKeepsUploads
  OBVIOUS
<1>1. QInv /\ Serial => ActiveRunKeepsUploads
  BY DEF Serial, UploadsOK, ActiveRunKeepsUploads
<1> QED
  BY <1>1, SerialInvariant, PTL

-----------------------------------------------------------------------------
(* ... and one upload is handled at a time.                                 *)

OneAtATime == Undisturbed /\ MaxInFlight = 1

\* The request that is about to create a run found no active one, and none can
\* have become active since.
SlotOK ==
  /\ AtMostOneActive
  /\ \A r, s \in Runs : ingest[r] \in InFlight /\ ingest[s] \in InFlight => r = s
  /\ \A r \in Runs : ingest[r] = "create" => ~SlotTaken

(* With one request at a time, a request that enters is alone.              *)
LEMMA EntersAlone ==
  ASSUME QInv, OneAtATime, NEW r \in Runs, CheckActive(r)
  PROVE  \A s \in Runs : ingest[s] \notin InFlight
<1> DEFINE H == {s \in Runs : ingest[s] \in InFlight}
<1>1. H \in SUBSET Runs
  OBVIOUS
<1>2. IsFiniteSet(H) /\ Cardinality(H) \in Nat
  BY <1>1, RunSets
<1>3. Cardinality(H) < 1
  BY DEF CheckActive, OneAtATime
<1>4. H = {}
  <2>1. Cardinality(H) = 0
    BY <1>2, <1>3
  <2> HIDE DEF H
  <2> QED
    BY <1>2, <2>1, FS_EmptySet
<1> QED
  BY <1>4

(* Only the commit of a run makes a run active that was not: set_stage      *)
(* overwrites the status of a run that is active already.                   *)
LEMMA OnlyCreateActivates ==
  ASSUME QInv, Undisturbed, Serial, [Next]_vars, \A r \in Runs : ~CreateRun(r)
  PROVE  \A s \in Runs : status'[s] \in Active => status[s] \in Active
<1> USE DEF rowVars, ingestVars, workerVars, faultVars, cancelVars, Goto, At
<1>1. TypeOK
  BY DEF QInv
<1>2. CASE UNCHANGED status
  BY <1>2
<1>3. CASE \E w \in Workers : TaskStep(w)
  <2>1. PICK w \in Workers : TaskStep(w)
    BY <1>3
  <2>2. CASE SetRunning(w)
    <3>1. wpc[w] \in TaskSteps /\ wpc[w] = "set_running"
      BY <2>2 DEF SetRunning, TaskSteps
    <3>2. wtask[w].run \in Runs /\ StepsOf(wtask[w].kind, wpc[w]) /\ Doing(w)
      BY <3>1, HeldFacts
    <3>3. status[wtask[w].run] \in Active
      BY <3>1, <3>2 DEF StepsOf, Doing, Due
    <3> QED
      BY <1>1, <2>2, <3>2, <3>3 DEF SetRunning, TypeOK
  <2>3. CASE FailCritical(w) \/ MarkCompleted(w) \/ MarkFailed(w)
    BY <1>1, <2>3 DEF FailCritical, MarkCompleted, MarkFailed, TypeOK, Active
  <2>4. CASE FlipToQueued(w)
    BY <2>4, RunsAssumption DEF FlipToQueued, Serial, NothingQueued, QInv, WorkerOK
  <2>5. CASE \/ RecordStart(w) \/ SendFirstDispatch(w) \/ PlanStage(w) \/ JoinStage(w)
             \/ SendFailed(w) \/ SendNext(w) \/ LoadStatus(w) \/ SelectWaiting(w)
             \/ CleanUp(w) \/ StartNext(w)
    BY <2>5 DEF RecordStart, SendFirstDispatch, PlanStage, JoinStage, SendFailed, SendNext,
                LoadStatus, SelectWaiting, CleanUp, StartNext
  <2> QED
    BY <2>1, <2>2, <2>3, <2>4, <2>5 DEF TaskStep
<1>4. ~CancelCommit
  BY DEF CancelCommit, Serial
<1>5. ASSUME NEW r \in Runs, CheckActive(r) \/ IngestStep(r) \/ IngestRaises(r) \/ CancelSelect(r)
      PROVE  UNCHANGED status
  BY <1>5 DEF CheckActive, IngestStep, CountWaiting, RegisterUploads, RecordDocuments,
              EnqueuePipeline, IngestRaises, CancelSelect
<1>6. ASSUME NEW w \in Workers, TakeTask(w) \/ Acknowledge(w) \/ WorkerLost(w) \/ TaskRaises(w)
      PROVE  UNCHANGED status
  BY <1>6 DEF TakeTask, Acknowledge, WorkerLost, TaskRaises
<1>7. ASSUME NEW r \in Runs, NEW k \in 1..NStages, ChordBreaks(r, k)
      PROVE  UNCHANGED status
  BY <1>7 DEF ChordBreaks
<1>8. CASE UNCHANGED vars
  BY <1>2, <1>8 DEF vars
<1> QED
  BY <1>2, <1>3, <1>4, <1>5, <1>6, <1>7, <1>8 DEF Next

(* One upload at a time takes the slot.                                     *)
LEMMA SlotStep == QInv /\ OneAtATime /\ Serial /\ SlotOK /\ [Next]_vars => SlotOK'
<1> SUFFICES ASSUME QInv, OneAtATime, Serial, SlotOK, [Next]_vars PROVE SlotOK'
  OBVIOUS
<1> USE DEF rowVars, ingestVars, workerVars, faultVars, cancelVars, IngestGoto
<1>1. TypeOK /\ Undisturbed
  BY DEF QInv, OneAtATime
<1>2. CASE \E r \in Runs : CreateRun(r)
  <2>1. PICK r \in Runs : CreateRun(r)
    BY <1>2
  <2>2. /\ ingest[r] = "create" /\ ingest'[r] = "register"
        /\ \A s \in Runs \ {r} : status'[s] = status[s] /\ ingest'[s] = ingest[s]
    BY <1>1, <2>1 DEF CreateRun, TypeOK
  <2>3. /\ \A s \in Runs : status[s] \notin Active
        /\ \A s \in Runs \ {r} : ingest[s] \notin InFlight
    BY <2>2 DEF SlotOK, SlotTaken, InFlight
  <2>4. AtMostOneActive'
    BY <2>2, <2>3 DEF AtMostOneActive
  <2>5. \A s \in Runs : ingest'[s] \in InFlight => s = r
    BY <2>2, <2>3
  <2>6. \A s \in Runs : ingest'[s] # "create"
    BY <2>2, <2>3 DEF InFlight
  <2> QED
    BY <2>4, <2>5, <2>6 DEF SlotOK
<1>3. CASE \A r \in Runs : ~CreateRun(r)
  <2>1. \A s \in Runs : status'[s] \in Active => status[s] \in Active
    BY <1>1, <1>3, OnlyCreateActivates
  <2>2. AtMostOneActive' /\ (SlotTaken' => SlotTaken)
    BY <2>1 DEF SlotOK, AtMostOneActive, SlotTaken
  <2>3. CASE \E r \in Runs : CheckActive(r)
    <3>1. PICK r \in Runs : CheckActive(r)
      BY <2>3
    <3>2. \A s \in Runs : ingest[s] \notin InFlight
      BY <3>1, EntersAlone
    <3>3. /\ \A s \in Runs \ {r} : ingest'[s] = ingest[s]
          /\ ingest'[r] = "create" => ~SlotTaken
      BY <1>1, <3>1 DEF CheckActive, OneAtATime, Undisturbed, RejectMode, TypeOK
    <3>4. \A s \in Runs : ingest'[s] \in InFlight => s = r
      BY <3>2, <3>3
    <3>5. \A s \in Runs : ingest'[s] = "create" => s = r
      BY <3>4 DEF InFlight
    <3> QED
      BY <2>2, <3>3, <3>4, <3>5 DEF SlotOK
  <2>4. CASE \A r \in Runs : ~CheckActive(r)
    <3>1. /\ \A s \in Runs : ingest'[s] \in InFlight => ingest[s] \in InFlight
          /\ \A s \in Runs : ingest'[s] = "create" => ingest[s] = "create"
      <4>1. CASE UNCHANGED ingest
        BY <4>1
      <4>2. ASSUME NEW r \in Runs, IngestStep(r) \/ IngestRaises(r)
            PROVE  /\ \A s \in Runs : ingest'[s] \in InFlight => ingest[s] \in InFlight
                   /\ \A s \in Runs : ingest'[s] = "create" => ingest[s] = "create"
        <5>1. ~CountWaiting(r)
          BY DEF CountWaiting, Serial, NothingQueued
        <5> QED
          BY <1>1, <1>3, <4>2, <5>1 DEF IngestStep, RegisterUploads, RecordDocuments,
                 EnqueuePipeline, IngestRaises, InFlight, TypeOK
      <4>3. CASE CancelCommit \/ \E r \in Runs : CancelSelect(r)
        BY <4>1, <4>3 DEF CancelSelect, CancelCommit
      <4>4. ASSUME NEW w \in Workers, TakeTask(w) \/ Acknowledge(w) \/ WorkerLost(w) \/ TaskRaises(w)
            PROVE  UNCHANGED ingest
        BY <4>4 DEF TakeTask, Acknowledge, WorkerLost, TaskRaises
      <4>5. ASSUME NEW w \in Workers, TaskStep(w)
            PROVE  UNCHANGED ingest
        BY <4>5 DEF TaskStep, SetRunning, RecordStart, SendFirstDispatch, PlanStage, FailCritical,
               JoinStage, SendFailed, SendNext, MarkCompleted, LoadStatus, MarkFailed, SelectWaiting,
               FlipToQueued, CleanUp, StartNext
      <4>6. ASSUME NEW r \in Runs, NEW k \in 1..NStages, ChordBreaks(r, k)
            PROVE  UNCHANGED ingest
        BY <4>6 DEF ChordBreaks
      <4>7. CASE UNCHANGED vars
        BY <4>1, <4>7 DEF vars
      <4> QED
        BY <2>4, <4>1, <4>2, <4>3, <4>4, <4>5, <4>6, <4>7 DEF Next
    <3> QED
      BY <2>2, <3>1 DEF SlotOK
  <2> QED
    BY <2>3, <2>4
<1> QED
  BY <1>2, <1>3

(* "At most one run of the organisation is active" (backend/README.md:223): *)
(* has_active_run and create are separate statements, and the tasks write   *)
(* the status without a look at it, and still no second run becomes active, *)
(* whatever raises.  Each part of OneAtATime is needed: two uploads at once *)
(* both find the slot free, an upload slips in between the select and the   *)
(* update of pop_next_waiting, and a task of a run that was cancelled, or   *)
(* one that is delivered again, sets its run running beside the next.       *)
THEOREM OneRunIsActive == OneAtATime => (Spec => []AtMostOneActive)
<1> SUFFICES ASSUME OneAtATime PROVE Spec => []AtMostOneActive
  OBVIOUS
<1>1. Init => SlotOK
  BY DEF Init, SlotOK, AtMostOneActive, SlotTaken, Active, InFlight
<1>2. QInv /\ Serial /\ SlotOK /\ [Next]_vars => SlotOK'
  BY SlotStep
<1>3. SlotOK => AtMostOneActive
  BY DEF SlotOK
<1>4. Undisturbed
  BY DEF OneAtATime
<1>5. Spec => [](QInv /\ Serial)
  BY <1>4, SerialInvariant
<1> QED
  BY <1>1, <1>2, <1>3, <1>5, PTL DEF Spec
=============================================================================
