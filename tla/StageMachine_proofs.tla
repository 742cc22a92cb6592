------------------------ MODULE StageMachine_proofs ------------------------
(***************************************************************************)
(* Theorems about StageMachine, for every set of items and workers, every  *)
(* registry of stages and every batch size.                                *)
(*                                                                         *)
(* The types and the order of the stages hold whatever is redelivered.     *)
(* The barrier and what follows from it do not: a redelivered batch runs   *)
(* beside the join of its stage.  They are theorems about the runs without *)
(* a lost worker or an advance (NoRedelivery), and, where a retry must     *)
(* find its items, without a failed commit (Clean).                        *)
(*                                                                         *)
(* The invariant is built in layers.  Inv says what every message and      *)
(* every worker refers to; InputOK that dispatched stages have their       *)
(* input.  BarrierInv says where the run is: TokensOK that live tasks are  *)
(* the parts of one chord or a single other task, PhaseOK which rows there *)
(* are when a task is at a step, RowsOK that a joined stage does not       *)
(* change.  ResultOK, CountsOK, SizesOK, VerdictOK and ItemsOK are the     *)
(* results, the counters, the totals, the verdict and the items on top.    *)
(***************************************************************************)
EXTENDS StageMachine, SequenceTheorems, FunctionTheorems, FiniteSetTheorems,
        WellFoundedInduction, TLAPS

\* What the variables range over.
RowStatus == {"pending", "running", "completed", "failed"}
RowSet    == [stage : AllStages, batch : Nat, status : RowStatus,
              itemIds : SUBSET Items, out : SUBSET Items]
TotalsSet == [AllStages -> Entry3]
ChordSet  == [size : Nat, done : SUBSET Nat]

DispatchPcs == {"set_stage", "plan", "rows"}
BatchPcs    == {"load", "run", "bump", "fail", "bump_failed", "report"}
FinalizePcs == {"join", "decide", "send_failed"}
Pcs == {"idle", "ack", "mark_completed", "mark_failed"}
         \cup DispatchPcs \cup BatchPcs \cup FinalizePcs
WorkerSet == [task : TaskSet, pc : Pcs, snap : TotalsSet, ids : SUBSET Items, next : Nat]

Types ==
  /\ status \in {"queued", "running", "completed", "failed"}
  /\ current \in 0..(NStages + 1)
  /\ totals \in TotalsSet
  /\ rows \in Seq(RowSet)
  /\ chords \in Seq(ChordSet)
  /\ IsABag(msgs) /\ BagToSet(msgs) \subseteq TaskSet
  /\ worker \in [Workers -> WorkerSet]

\* The tasks in the system.
Tasks == BagToSet(msgs) \cup {Of(w) : w \in {v \in Workers : Pc(v) # "idle"}}

\* A worker is at a step of its task.
Fits(pc, kind) ==
  /\ pc \in DispatchPcs => kind = "dispatch"
  /\ pc \in BatchPcs => kind = "batch"
  /\ pc \in FinalizePcs => kind = "finalize"
  /\ pc = "mark_completed" => kind = "complete"
  /\ pc = "mark_failed" => kind = "failed"
KindsOK == \A w \in Workers : Fits(Pc(w), Of(w).kind)

\* A batch belongs to a chord, and its row was created before it was sent.
HasChord(t) == t.chord \in DOMAIN chords /\ t.batch \in 1..chords[t.chord].size
HasRow(t) == RowsOf(t.stage, t.batch) # {}
Creating(w) == At(w, "rows") =>
  /\ worker[w].next \in 1..(BatchCount(Of(w).stage, worker[w].ids) + 1)
  /\ \A i \in 1..(worker[w].next - 1) : RowsOf(Of(w).stage, i) # {}
BatchesOK ==
  /\ \A c \in DOMAIN chords : chords[c].done \subseteq 1..chords[c].size
  /\ \A t \in Tasks : t.kind = "batch" => HasChord(t) /\ HasRow(t)
  /\ \A w \in Workers : Creating(w)

Inv == Types /\ KindsOK /\ BatchesOK

\* What is dispatched, planned or to be dispatched next has its input.
Ready(k) == k \in Stages => RowsOf(k - 1, 0) # {}
HasResult(w) == Pc(w) \in {"decide", "send_failed"} => RowsOf(Of(w).stage, 0) # {}
InputOK ==
  /\ \A t \in Tasks : t.kind = "dispatch" => Ready(t.stage)
  /\ \A k \in Stages : BatchRows(k) # {} => Ready(k)
  /\ Ready(current)
  /\ \A w \in Workers : HasResult(w)
-----------------------------------------------------------------------------
(* Runs without redelivery: no lost worker, no advance.                    *)

NoRedelivery == MaxCrashes = 0 /\ MaxAdvances = 0

Live(w) == Pc(w) \notin {"idle", "ack"}
\* Two tasks may be live at the same time if they are batches of one chord.
Together(t, u) ==
  /\ t.kind = "batch" /\ u.kind = "batch" /\ t.stage = u.stage /\ t.chord = u.chord
  /\ t.batch # u.batch

TokensOK ==
  /\ \A t \in BagToSet(msgs) : msgs[t] = 1
  /\ \A t, u \in BagToSet(msgs) : t # u => Together(t, u)
  /\ \A t \in BagToSet(msgs), w \in Workers : Live(w) => Together(t, Of(w))
  /\ \A v, w \in Workers : v # w /\ Live(v) /\ Live(w) => Together(Of(v), Of(w))

LiveTasks == BagToSet(msgs) \cup {Of(w) : w \in {v \in Workers : Live(v)}}
Joined(k)   == RowsOf(k, 0) # {}
Past(k)     == \A h \in 0..(k - 1) : Joined(h)
Final(j)    == rows[j].status \in Terminal

\* Where the run is when task t is to be done, or being done at step pc.
Before(k)     == \A j \in DOMAIN rows : rows[j].stage < k
Planned(k, n) == \A j \in DOMAIN rows : /\ rows[j].stage <= k
                                        /\ rows[j].stage = k => rows[j].batch \in 1..n
Batching(t) ==
  /\ t.stage \in Stages /\ Past(t.stage)
  /\ Planned(t.stage, chords[t.chord].size)
  /\ t.chord = Len(chords) /\ t.batch \notin chords[t.chord].done
  /\ \A j \in BatchRows(t.stage) : rows[j].batch \in chords[t.chord].done => Final(j)
Waiting(t) ==
  /\ t.kind = "dispatch" => t.stage \in Stages /\ Past(t.stage) /\ Before(t.stage)
  /\ t.kind = "batch" =>
       Batching(t) /\ \A j \in RowsOf(t.stage, t.batch) : rows[j].status # "failed"
  /\ t.kind = "finalize" =>
       /\ t.stage \in Stages /\ Past(t.stage)
       /\ \A j \in DOMAIN rows :
            /\ rows[j].stage <= t.stage
            /\ rows[j].stage = t.stage => rows[j].batch # 0 /\ Final(j)
  /\ t.kind = "complete" => Past(NStages + 1)
  /\ t.kind = "failed" => status = "failed"

Phase(w) ==
  /\ Pc(w) \in {"set_stage", "plan", "load", "run", "bump", "fail", "join",
                "mark_completed", "mark_failed"} => Waiting(Of(w))
  /\ At(w, "rows") => /\ Of(w).stage \in Stages /\ Past(Of(w).stage)
                      /\ Planned(Of(w).stage, worker[w].next - 1)
                      /\ \A j \in BatchRows(Of(w).stage) : rows[j].status = "pending"
  /\ Pc(w) \in {"bump_failed", "report"} => Batching(Of(w))
  /\ Pc(w) \in {"bump", "bump_failed", "report"} =>
       \A j \in RowsOf(Of(w).stage, Of(w).batch) : Final(j)
  /\ Pc(w) \in {"decide", "send_failed"} =>
       /\ Of(w).stage \in Stages /\ Past(Of(w).stage + 1)
       /\ Before(Of(w).stage + 1)
  /\ At(w, "send_failed") => status = "failed"
  /\ At(w, "ack") /\ Of(w).kind = "finalize" => Joined(Of(w).stage)
PhaseOK ==
  /\ \A t \in BagToSet(msgs) : Waiting(t)
  /\ \A w \in Workers : Phase(w)
RowsOK ==
  /\ \A i, j \in DOMAIN rows :
       rows[i].stage = rows[j].stage /\ rows[i].batch = rows[j].batch => i = j
  /\ \A k \in AllStages : Joined(k) => \A j \in BatchRows(k) : Final(j)
FaultsOK == crashes \in Nat /\ advances \in Nat /\ commitErrors \in Nat
BarrierInv == FaultsOK /\ TokensOK /\ PhaseOK /\ RowsOK

ResultOK ==
  /\ \A k \in Stages : Joined(k) => StageResult(k) = JoinResult(k)
  /\ status = "completed" => Past(NStages + 1)

\* The failed batches of stage k whose failure has been counted.
Counting(k, i) == \E w \in Workers :
  At(w, "bump_failed") /\ Of(w).stage = k /\ Of(w).batch = i
Counted(k) == {j \in BatchRows(k) : rows[j].status = "failed" /\ ~Counting(k, rows[j].batch)}
AtMostCounted(tot) == \A k \in AllStages : tot[k].failed <= Cardinality(Counted(k))
HasFailed(w) == At(w, "bump_failed") =>
  \A j \in RowsOf(Of(w).stage, Of(w).batch) : rows[j].status = "failed"
CountsOK == /\ AtMostCounted(totals)
            /\ \A w \in Workers : AtMostCounted(worker[w].snap) /\ HasFailed(w)

\* The total of a stage is the number of its batches.
SizedTask(t) ==
  /\ t.kind = "batch" => totals[t.stage].total = chords[t.chord].size
  /\ t.kind = "finalize" =>
       \A j \in BatchRows(t.stage) : rows[j].batch \in 1..totals[t.stage].total
Sized(w) ==
  /\ At(w, "rows") => totals[Of(w).stage].total = BatchCount(Of(w).stage, worker[w].ids)
  /\ Pc(w) \in {"run", "bump", "fail", "bump_failed"} =>
       worker[w].snap[Of(w).stage].total = chords[Of(w).chord].size
  /\ At(w, "decide") => \A j \in BatchRows(Of(w).stage) :
       rows[j].batch \in 1..worker[w].snap[Of(w).stage].total
SizesOK == (\A t \in LiveTasks : SizedTask(t)) /\ \A w \in Workers : Sized(w)

\* A failed run has lost all the batches of a critical stage.
VerdictOK == status = "failed" => \E k \in Critical :
  /\ Joined(k) /\ BatchRows(k) # {}
  /\ \A j \in BatchRows(k) : rows[j].status = "failed"

Clean == NoRedelivery /\ MaxCommitErrors = 0
Unfinished(t) == \A j \in RowsOf(t.stage, t.batch) : rows[j].status \in {"pending", "running"}
PlannedItems(k, i) == BatchItems(k, PlanSource(k), i)
RowItems(j) == rows[j].batch # 0 /\ rows[j].status # "completed" =>
  rows[j].itemIds = PlannedItems(rows[j].stage, rows[j].batch) /\ rows[j].out = {}
WorkItems(w) ==
  /\ Pc(w) \in {"load", "run", "fail"} => Unfinished(Of(w))
  /\ At(w, "rows") => worker[w].ids = PlanSource(Of(w).stage)
  /\ At(w, "run") => worker[w].ids = PlannedItems(Of(w).stage, Of(w).batch)
ItemsOK ==
  /\ \A j \in DOMAIN rows : RowItems(j)
  /\ \A t \in BagToSet(msgs) : t.kind = "batch" => Unfinished(t)
  /\ \A w \in Workers : WorkItems(w)
-----------------------------------------------------------------------------
(* A non-empty set of natural numbers has a least one, ...                 *)
LEMMA LeastExists ==
  ASSUME NEW S \in SUBSET Nat, S # {}
  PROVE  \E x \in S : \A y \in S : x <= y
<1> DEFINE T == {0..n : n \in S}
           R == StrictSubsetOrdering(Nat)
<1>1. T \subseteq FiniteSubsetsOf(Nat)
  <2>1. ASSUME NEW n \in S  PROVE 0..n \in FiniteSubsetsOf(Nat)
    <3>1. n \in Int /\ 0..n \in SUBSET Nat
      OBVIOUS
    <3>2. IsFiniteSet(0..n)
      BY <3>1, FS_Interval
    <3> QED
      BY <3>1, <3>2 DEF FiniteSubsetsOf
  <2> QED
    BY <2>1
<1>2. T # {}
  OBVIOUS
<1>3. IsWellFoundedOn(R, FiniteSubsetsOf(Nat))
  BY FS_StrictSubsetOrderingWellFounded
<1> HIDE DEF T, R
<1>4. \E X \in T : \A Y \in T : ~(<<Y, X>> \in R)
  BY <1>1, <1>2, <1>3, WFMin
<1>5. PICK x \in S : \A y \in S : ~(<<0..y, 0..x>> \in R)
  BY <1>4 DEF T
<1>6. ASSUME NEW y \in S, ~(x <= y)  PROVE FALSE
  <2>1. 0..y \subseteq 0..x
    BY <1>6
  <2>2. x \in 0..x /\ x \notin 0..y
    BY <1>6
  <2>3. <<0..y, 0..x>> \in (SUBSET Nat) \X (SUBSET Nat)
    OBVIOUS
  <2>4. <<0..y, 0..x>> \in R
    BY <2>1, <2>2, <2>3 DEF R, StrictSubsetOrdering
  <2> QED
    BY <2>4, <1>5
<1> QED
  BY <1>6

(* ... and, if it is bounded, a greatest one.                              *)
LEMMA GreatestExists ==
  ASSUME NEW n \in Nat, NEW S \in SUBSET (0..n), S # {}
  PROVE  \E x \in S : \A y \in S : x >= y
<1> DEFINE T == {n - x : x \in S}
<1>1. T \in SUBSET Nat /\ T # {}
  <2>1. \A x \in S : n - x \in Nat
    OBVIOUS
  <2> QED
    BY <2>1
<1>2. PICK d \in T : \A e \in T : d <= e
  BY <1>1, LeastExists
<1>3. PICK x \in S : d = n - x
  BY <1>2
<1>4. ASSUME NEW y \in S  PROVE x >= y
  BY <1>2, <1>3
<1> QED
  BY <1>4

(* A bag after one message is sent, ...                                    *)
LEMMA BagSend ==
  ASSUME NEW m, IsABag(m), NEW t
  PROVE  /\ IsABag(m (+) One(t))
         /\ BagToSet(m (+) One(t)) = BagToSet(m) \cup {t}
         /\ \A u \in BagToSet(m) \ {t} : (m (+) One(t))[u] = m[u]
         /\ t \notin BagToSet(m) => (m (+) One(t))[t] = 1
BY DEF IsABag, (+), One, SetToBag, BagToSet

(* ... after a set of messages is sent, each of them once, ...             *)
LEMMA BagSendAll ==
  ASSUME NEW m, IsABag(m), NEW S
  PROVE  /\ IsABag(m (+) SetToBag(S))
         /\ BagToSet(m (+) SetToBag(S)) = BagToSet(m) \cup S
         /\ \A u \in BagToSet(m) \ S : (m (+) SetToBag(S))[u] = m[u]
         /\ \A u \in S \ BagToSet(m) : (m (+) SetToBag(S))[u] = 1
BY DEF IsABag, (+), SetToBag, BagToSet

(* ... and after one is taken.                                             *)
LEMMA BagTake ==
  ASSUME NEW m, IsABag(m), NEW t \in BagToSet(m)
  PROVE  /\ IsABag(m (-) One(t))
         /\ BagToSet(m (-) One(t)) \subseteq BagToSet(m)
         /\ BagToSet(m) \subseteq BagToSet(m (-) One(t)) \cup {t}
         /\ \A u \in BagToSet(m (-) One(t)) \ {t} : (m (-) One(t))[u] = m[u]
         /\ m[t] = 1 => t \notin BagToSet(m (-) One(t))
BY DEF IsABag, (-), One, SetToBag, BagToSet

(* What the assumptions say of the stages.                                 *)
LEMMA StageFacts ==
  /\ NStages \in Nat /\ AllStages \subseteq Nat /\ Stages \subseteq AllStages
  /\ 0 \in AllStages /\ MaxRetries \in Nat
  /\ \A k \in AllStages : k \in Stages <=> k # 0
  /\ \A k \in Stages : k - 1 \in AllStages /\ Input[k] \in AllStages /\ Input[k] < k
BY StagesAssumption, BoundsAssumption DEF Stages, AllStages

(* A batch count is a number, and the items of a batch are items.          *)
LEMMA PlanFacts ==
  ASSUME NEW k \in AllStages, NEW S \in SUBSET Items
  PROVE  BatchCount(k, S) \in Nat /\ \A i : BatchItems(k, S, i) \in SUBSET Items
<1>1. IsFiniteSet(S)
  BY ItemsAssumption, FS_Subset
<1>2. Cardinality(S) \in Nat
  BY <1>1, FS_CardinalityType
<1>3. CASE k \in Unplanned
  BY <1>3 DEF BatchCount, BatchItems
<1>4. CASE k \notin Unplanned
  <2>1. BatchSize[k] \in Nat /\ BatchSize[k] > 0
    BY <1>4, StageFacts, StagesAssumption DEF Unplanned
  <2>2. ASSUME NEW n \in Nat, NEW b \in Nat, b > 0  PROVE (n + b - 1) \div b \in Nat
    BY <2>2
  <2>3. ChunkCount(S, BatchSize[k]) \in Nat
    BY <1>2, <2>1, <2>2 DEF ChunkCount
  <2> QED
    BY <1>4, <2>3 DEF BatchCount, BatchItems, Chunk
<1> QED
  BY <1>3, <1>4

(* The first row of a batch, and the result of a stage.                    *)
LEMMA RowFacts ==
  ASSUME rows \in Seq(RowSet)
  PROVE  /\ Len(rows) \in Nat /\ DOMAIN rows = 1..Len(rows)
         /\ \A j \in DOMAIN rows : rows[j] \in RowSet
         /\ \A k, i : RowsOf(k, i) # {} => FindBatchStep(k, i) \in RowsOf(k, i)
         /\ \A k : StageResult(k) \in SUBSET Items
<1>1. /\ Len(rows) \in Nat /\ DOMAIN rows = 1..Len(rows)
      /\ \A j \in DOMAIN rows : rows[j] \in RowSet
  OBVIOUS
<1>2. ASSUME NEW k, NEW i, RowsOf(k, i) # {}  PROVE FindBatchStep(k, i) \in RowsOf(k, i)
  <2>1. RowsOf(k, i) \in SUBSET Nat
    BY <1>1 DEF RowsOf
  <2>2. \E x \in RowsOf(k, i) : \A y \in RowsOf(k, i) : x <= y
    BY <1>2, <2>1, LeastExists
  <2> QED
    BY <2>2 DEF FindBatchStep
<1>3. ASSUME NEW k  PROVE StageResult(k) \in SUBSET Items
  <2>1. CASE RowsOf(k, 0) = {}
    BY <2>1 DEF StageResult
  <2>2. CASE RowsOf(k, 0) # {}
    <3>1. RowsOf(k, 0) \in SUBSET (0..Len(rows))
      BY <1>1 DEF RowsOf
    <3>2. \E x \in RowsOf(k, 0) : \A y \in RowsOf(k, 0) : x >= y
      BY <1>1, <2>2, <3>1, GreatestExists
    <3> DEFINE j == CHOOSE x \in RowsOf(k, 0) : \A y \in RowsOf(k, 0) : x >= y
    <3>3. j \in RowsOf(k, 0)
      BY <3>2
    <3>4. j \in DOMAIN rows
      BY <3>3 DEF RowsOf
    <3>5. StageResult(k) = rows[j].out
      BY <2>2 DEF StageResult
    <3> HIDE DEF j
    <3>6. rows[j].out \in SUBSET Items
      BY <1>1, <3>4 DEF RowSet
    <3> QED
      BY <3>5, <3>6
  <2> QED
    BY <2>1, <2>2
<1> QED
  BY <1>1, <1>2, <1>3
-----------------------------------------------------------------------------
(* What a message is.                                                      *)
LEMMA TaskFacts ==
  /\ \A k \in AllStages : DispatchTask(k) \in TaskSet /\ DispatchTask(k).kind = "dispatch"
                          /\ DispatchTask(k).stage = k
  /\ \A k \in AllStages, c \in Nat :
       FinalizeTask(k, c) \in TaskSet /\ FinalizeTask(k, c).kind = "finalize"
       /\ FinalizeTask(k, c).stage = k /\ FinalizeTask(k, c).chord = c
  /\ \A k \in AllStages, c \in Nat, i \in Nat, n \in 0..MaxRetries :
       LET t == BatchTask(k, c, i, n)
       IN  t \in TaskSet /\ t.kind = "batch" /\ t.stage = k /\ t.chord = c /\ t.batch = i
           /\ t.tries = n
  /\ CompleteTask \in TaskSet /\ CompleteTask.kind = "complete"
  /\ FailedTask \in TaskSet /\ FailedTask.kind = "failed"
BY StageFacts
   DEF DispatchTask, FinalizeTask, BatchTask, CompleteTask, FailedTask, Task, TaskSet

(* A worker between tasks.                                                 *)
LEMMA IdleFacts == Idle \in WorkerSet /\ Idle.pc = "idle" /\ Idle.task = FailedTask
<1>1. NoEntry \in Entry3
  BY DEF NoEntry, Entry3
<1>2. NoTotals \in TotalsSet
  BY <1>1 DEF NoTotals, TotalsSet
<1> QED
  BY <1>2, TaskFacts DEF Idle, WorkerSet, Pcs

(* A worker goes to another step of its task.                              *)
LEMMA GotoFacts ==
  ASSUME worker \in [Workers -> WorkerSet], NEW w \in Workers, NEW pc \in Pcs, Goto(w, pc)
  PROVE  /\ worker' \in [Workers -> WorkerSet]
         /\ worker'[w].pc = pc /\ worker'[w].task = worker[w].task
         /\ worker'[w].snap = worker[w].snap /\ worker'[w].ids = worker[w].ids
         /\ worker'[w].next = worker[w].next
         /\ \A v \in Workers \ {w} : worker'[v] = worker[v]
BY DEF Goto, WorkerSet

(* A task that is sent again with its next count.                          *)
Again(t) == [t EXCEPT !.tries = @ + 1]

(* It differs in the count only.                                           *)
LEMMA AgainFacts ==
  ASSUME NEW t \in TaskSet, MayRetry(t)
  PROVE  /\ Again(t) \in TaskSet
         /\ Again(t).kind = t.kind /\ Again(t).stage = t.stage
         /\ Again(t).chord = t.chord /\ Again(t).batch = t.batch
BY StageFacts DEF Again, TaskSet, MayRetry

(* A task of a worker that is not idle is in the system.                   *)
LEMMA Held == ASSUME NEW w \in Workers, Pc(w) # "idle"  PROVE Of(w) \in Tasks
BY DEF Tasks

(* The chord and the row of a batch that a worker has in hand.             *)
LEMMA BatchRowExists ==
  ASSUME Types, KindsOK, BatchesOK, NEW w \in Workers, Pc(w) \in BatchPcs
  PROVE  /\ Of(w).chord \in DOMAIN chords /\ Of(w).batch \in 1..chords[Of(w).chord].size
         /\ Of(w).kind = "batch"
         /\ FindBatchStep(Of(w).stage, Of(w).batch) \in RowsOf(Of(w).stage, Of(w).batch)
         /\ FindBatchStep(Of(w).stage, Of(w).batch) \in DOMAIN rows
<1>1. Of(w).kind = "batch" /\ Of(w) \in Tasks
  BY Held DEF KindsOK, Fits, BatchPcs
<1>2. RowsOf(Of(w).stage, Of(w).batch) # {}
  BY <1>1 DEF BatchesOK, HasRow
<1>3. FindBatchStep(Of(w).stage, Of(w).batch) \in RowsOf(Of(w).stage, Of(w).batch)
  BY <1>2, RowFacts DEF Types
<1> QED
  BY <1>1, <1>3 DEF BatchesOK, HasChord, RowsOf

(* A row gets another status.                                              *)
LEMMA RowUpdates ==
  ASSUME rows \in Seq(RowSet), NEW j \in DOMAIN rows, NEW st \in RowStatus
  PROVE  [rows EXCEPT ![j].status = st] \in Seq(RowSet)
<1> DEFINE new == [rows[j] EXCEPT !.status = st]
<1>1. new \in RowSet
  BY RowFacts DEF RowSet
<1>2. [rows EXCEPT ![j].status = st] = [rows EXCEPT ![j] = new]
  OBVIOUS
<1> HIDE DEF new
<1> QED
  BY <1>1, <1>2, ExceptSeq, RowFacts

(* A retry keeps the types of the messages and of the workers.             *)
LEMMA RetryTypes ==
  ASSUME Types, NEW w \in Workers, RetryOrFail(w)
  PROVE  /\ worker' \in [Workers -> WorkerSet]
         /\ IsABag(msgs') /\ BagToSet(msgs') \subseteq TaskSet
<1>1. Of(w) \in TaskSet
  BY DEF Types, Of, WorkerSet
<1>2. CASE MayRetry(Of(w))
  <2>1. msgs' = msgs (+) One(Again(Of(w))) /\ Goto(w, "ack")
    BY <1>2 DEF RetryOrFail, Again
  <2>2. worker' \in [Workers -> WorkerSet]
    BY <2>1, GotoFacts DEF Types, Pcs
  <2>3. IsABag(msgs') /\ BagToSet(msgs') \subseteq TaskSet
    BY <1>1, <1>2, <2>1, AgainFacts, BagSend DEF Types
  <2> QED
    BY <2>2, <2>3
<1>3. CASE ~MayRetry(Of(w))
  <2>1. msgs' = msgs /\ Goto(w, "fail")
    BY <1>3 DEF RetryOrFail
  <2>2. worker' \in [Workers -> WorkerSet]
    BY <2>1, GotoFacts DEF Types, Pcs, BatchPcs
  <2> QED
    BY <2>1, <2>2 DEF Types
<1> QED
  BY <1>2, <1>3

(* The types hold at first ...                                             *)
LEMMA TypesInit == Init => Types
<1> SUFFICES ASSUME Init  PROVE Types
  OBVIOUS
<1>1. NoTotals \in TotalsSet
  BY IdleFacts DEF NoTotals, TotalsSet, NoEntry, Entry3
<1>2. rows \in Seq(RowSet)
  <2>1. PICK docs \in SUBSET Items : rows = <<Row(0, 0, "completed", {}, docs)>>
    BY DEF Init
  <2>2. Row(0, 0, "completed", {}, docs) \in RowSet
    BY StageFacts DEF Row, RowSet, RowStatus
  <2> QED
    BY <2>1, <2>2
<1>3. 1 \in AllStages
  BY StagesAssumption DEF AllStages
<1>4. IsABag(msgs) /\ BagToSet(msgs) = {DispatchTask(1)}
  BY DEF Init, One, SetToBag, IsABag, BagToSet
<1> QED
  BY <1>1, <1>2, <1>3, <1>4, TaskFacts, IdleFacts, StageFacts DEF Init, Types

(* ... and after every step: a row, a chord, a message and what a worker   *)
(* holds are what the columns and arguments of the code are.               *)
LEMMA TypesStep == ASSUME Inv, [Next]_vars  PROVE Types'
<1> USE DEF Inv
<1>0. CASE UNCHANGED vars
  BY <1>0 DEF Types, vars, faults
<1>1. ASSUME NEW w \in Workers, TakeTask(w)  PROVE Types'
  <2>1. PICK t \in BagToSet(msgs) :
          /\ msgs' = msgs (-) One(t)
          /\ worker' = [worker EXCEPT ![w] = [Idle EXCEPT !.task = t, !.pc = Entry(t.kind)]]
    BY <1>1 DEF TakeTask
  <2>2. t \in TaskSet
    BY DEF Types
  <2>3. Entry(t.kind) \in Pcs
    BY <2>2 DEF Entry, TaskSet, Pcs, DispatchPcs, BatchPcs, FinalizePcs
  <2>4. [Idle EXCEPT !.task = t, !.pc = Entry(t.kind)] \in WorkerSet
    BY <2>2, <2>3, IdleFacts DEF WorkerSet
  <2>5. worker' \in [Workers -> WorkerSet]
    BY <2>1, <2>4 DEF Types
  <2>6. IsABag(msgs') /\ BagToSet(msgs') \subseteq TaskSet
    BY <2>1, BagTake DEF Types
  <2> QED
    BY <1>1, <2>5, <2>6 DEF Types, TakeTask
<1>2. ASSUME NEW w \in Workers, Acknowledge(w)  PROVE Types'
  BY <1>2, IdleFacts DEF Types, Acknowledge
<1>3. ASSUME NEW w \in Workers, SetStage(w)  PROVE Types'
  <2>1. Of(w).stage \in AllStages
    BY DEF Types, Of, WorkerSet, TaskSet
  <2>2. current' \in 0..(NStages + 1)
    BY <1>3, <2>1, StageFacts DEF SetStage, AllStages
  <2>3. worker' \in [Workers -> WorkerSet]
    BY <1>3 DEF SetStage, Types, WorkerSet, Pcs, DispatchPcs
  <2> QED
    BY <1>3, <2>2, <2>3 DEF Types, SetStage
<1>4. ASSUME NEW w \in Workers, PlanStage(w)  PROVE Types'
  <2> DEFINE k == Of(w).stage
  <2>1. k \in AllStages /\ worker[w].snap \in TotalsSet
    BY DEF Types, Of, WorkerSet, TaskSet
  <2>2. PlanSource(k) \in SUBSET Items
    BY RowFacts DEF PlanSource, Types
  <2>3. BatchCount(k, PlanSource(k)) \in Nat
    BY <2>1, <2>2, PlanFacts
  <2>4. [NoEntry EXCEPT !.total = BatchCount(k, PlanSource(k))] \in Entry3
    BY <2>3 DEF NoEntry, Entry3
  <2>5. totals' \in TotalsSet
    BY <1>4, <2>1, <2>4 DEF PlanStage, TotalsSet
  <2>6. worker' \in [Workers -> WorkerSet]
    BY <1>4, <2>2 DEF PlanStage, Types, WorkerSet, Pcs, DispatchPcs
  <2> QED
    BY <1>4, <2>5, <2>6 DEF Types, PlanStage
<1>5. ASSUME NEW w \in Workers, CreateBatchRow(w)  PROVE Types'
  <2> DEFINE k == Of(w).stage
             i == worker[w].next
             new == Row(k, i, "pending", BatchItems(k, worker[w].ids, i), {})
  <2>1. k \in AllStages /\ i \in Nat /\ worker[w].ids \in SUBSET Items
    BY DEF Types, Of, WorkerSet, TaskSet
  <2>2. new \in RowSet
    BY <2>1, PlanFacts DEF Row, RowSet, RowStatus
  <2>3. rows' = Append(rows, new)
    BY <1>5 DEF CreateBatchRow
  <2> HIDE DEF new
  <2>4. rows' \in Seq(RowSet)
    BY <2>2, <2>3 DEF Types
  <2>5. worker' \in [Workers -> WorkerSet]
    <3>1. worker' = [worker EXCEPT ![w].next = worker[w].next + 1]
      BY <1>5 DEF CreateBatchRow
    <3> QED
      BY <2>1, <3>1 DEF Types, WorkerSet
  <2> QED
    BY <1>5, <2>4, <2>5 DEF Types, CreateBatchRow
<1>6. ASSUME NEW w \in Workers, StartChord(w)  PROVE Types'
  <2> DEFINE k == Of(w).stage
             n == BatchCount(k, worker[w].ids)
             c == Len(chords) + 1
             S == {BatchTask(k, c, i, 0) : i \in 1..n}
  <2>1. k \in AllStages /\ worker[w].ids \in SUBSET Items
    BY DEF Types, Of, WorkerSet, TaskSet
  <2>2. n \in Nat /\ c \in Nat
    BY <2>1, PlanFacts DEF Types
  <2>3. worker' \in [Workers -> WorkerSet]
    BY <1>6, GotoFacts DEF StartChord, Types, Pcs
  <2>4. CASE n = 0
    <3>1. msgs' = msgs (+) One(FinalizeTask(k, 0)) /\ chords' = chords
      BY <1>6, <2>4 DEF StartChord
    <3>2. IsABag(msgs') /\ BagToSet(msgs') \subseteq TaskSet
      BY <2>1, <3>1, TaskFacts, BagSend DEF Types
    <3> QED
      BY <1>6, <2>3, <3>1, <3>2 DEF Types, StartChord
  <2>5. CASE n # 0
    <3>1. msgs' = msgs (+) SetToBag(S) /\ chords' = Append(chords, [size |-> n, done |-> {}])
      BY <1>6, <2>5 DEF StartChord
    <3>2. S \subseteq TaskSet
      <4>1. 0 \in 0..MaxRetries
        BY StageFacts
      <4> QED
        BY <2>1, <2>2, <4>1, TaskFacts
    <3>3. IsABag(msgs') /\ BagToSet(msgs') \subseteq TaskSet
      BY <3>1, <3>2, BagSendAll DEF Types
    <3>4. chords' \in Seq(ChordSet)
      BY <2>2, <3>1 DEF Types, ChordSet
    <3> QED
      BY <1>6, <2>3, <3>3, <3>4 DEF Types, StartChord
  <2> QED
    BY <2>4, <2>5
<1>7. ASSUME NEW w \in Workers, LoadBatch(w)  PROVE Types'
  <2> DEFINE j == FindBatchStep(Of(w).stage, Of(w).batch)
  <2>1. j \in DOMAIN rows
    BY <1>7, BatchRowExists DEF LoadBatch, At, BatchPcs
  <2>2. rows[j] \in RowSet
    BY <2>1, RowFacts DEF Types
  <2>3. rows' = [rows EXCEPT ![j].status = "running"]
    BY <1>7 DEF LoadBatch
  <2> HIDE DEF j
  <2>4. rows' \in Seq(RowSet)
    BY <2>1, <2>3, RowUpdates DEF Types, RowStatus
  <2>5. worker' \in [Workers -> WorkerSet]
    <3> DEFINE new == [worker[w] EXCEPT !.pc = "run", !.snap = totals, !.ids = rows[j].itemIds]
    <3>1. worker' = [worker EXCEPT ![w] = new]
      BY <1>7 DEF LoadBatch, j
    <3>2. rows[j].itemIds \in SUBSET Items /\ totals \in TotalsSet /\ worker[w] \in WorkerSet
      BY <2>2 DEF Types, RowSet
    <3>3. new \in WorkerSet
      BY <3>2 DEF WorkerSet, Pcs, BatchPcs
    <3> HIDE DEF new
    <3> QED
      BY <3>1, <3>3 DEF Types
  <2> QED
    BY <1>7, <2>4, <2>5 DEF Types, LoadBatch
<1>8. ASSUME NEW w \in Workers, RunSucceeds(w)  PROVE Types'
  <2> DEFINE j == FindBatchStep(Of(w).stage, Of(w).batch)
  <2>1. j \in DOMAIN rows
    BY <1>8, BatchRowExists DEF RunSucceeds, At, BatchPcs
  <2>2. PICK out \in SUBSET worker[w].ids :
          rows' = [rows EXCEPT ![j].status = "completed", ![j].itemIds = {}, ![j].out = out]
    BY <1>8 DEF RunSucceeds
  <2>3. out \in SUBSET Items
    BY DEF Types, WorkerSet
  <2> HIDE DEF j
  <2>4. rows' \in Seq(RowSet)
    <3> DEFINE new == [rows[j] EXCEPT !.status = "completed", !.itemIds = {}, !.out = out]
    <3>1. new \in RowSet
      BY <2>1, <2>3, RowFacts DEF RowSet, RowStatus, Types
    <3>2. rows' = [rows EXCEPT ![j] = new]
      BY <2>1, <2>2
    <3> HIDE DEF new
    <3> QED
      BY <2>1, <3>1, <3>2, ExceptSeq, RowFacts DEF Types
  <2>5. worker' \in [Workers -> WorkerSet]
    BY <1>8, GotoFacts DEF RunSucceeds, Types, Pcs, BatchPcs
  <2> QED
    BY <1>8, <2>4, <2>5 DEF Types, RunSucceeds
<1>9. ASSUME NEW w \in Workers, RunTransient(w)  PROVE Types'
  <2>1. RetryOrFail(w) /\ Pc(w) = "run"
    BY <1>9 DEF RunTransient, At
  <2>2. /\ worker' \in [Workers -> WorkerSet]
        /\ IsABag(msgs') /\ BagToSet(msgs') \subseteq TaskSet
    BY <2>1, RetryTypes
  <2> QED
    BY <1>9, <2>2 DEF Types, RunTransient
<1>10. ASSUME NEW w \in Workers, BumpTransient(w)  PROVE Types'
  <2>1. RetryOrFail(w) /\ Pc(w) = "bump"
    BY <1>10 DEF BumpTransient, At
  <2>2. /\ worker' \in [Workers -> WorkerSet]
        /\ IsABag(msgs') /\ BagToSet(msgs') \subseteq TaskSet
    BY <2>1, RetryTypes
  <2> QED
    BY <1>10, <2>2 DEF Types, BumpTransient
<1>11. ASSUME NEW w \in Workers, BumpCompleted(w)  PROVE Types'
  <2>1. Of(w).stage \in AllStages /\ worker[w].snap \in TotalsSet
    BY DEF Types, Of, WorkerSet, TaskSet
  <2>2. totals' \in TotalsSet
    BY <1>11, <2>1 DEF BumpCompleted, TotalsSet, Entry3
  <2>3. worker' \in [Workers -> WorkerSet]
    BY <1>11, GotoFacts DEF BumpCompleted, Types, Pcs, BatchPcs
  <2> QED
    BY <1>11, <2>2, <2>3 DEF Types, BumpCompleted
<1>12. ASSUME NEW w \in Workers, FailRow(w)  PROVE Types'
  <2> DEFINE j == FindBatchStep(Of(w).stage, Of(w).batch)
  <2>1. j \in DOMAIN rows
    BY <1>12, BatchRowExists DEF FailRow, BatchPcs
  <2>3. rows' = [rows EXCEPT ![j].status = "failed"]
    BY <1>12 DEF FailRow
  <2> HIDE DEF j
  <2>4. rows' \in Seq(RowSet)
    BY <2>1, <2>3, RowUpdates DEF Types, RowStatus
  <2>5. worker' \in [Workers -> WorkerSet]
    BY <1>12 DEF FailRow, Types, WorkerSet, Pcs, BatchPcs
  <2> QED
    BY <1>12, <2>4, <2>5 DEF Types, FailRow
<1>13. ASSUME NEW w \in Workers, BumpFailed(w)  PROVE Types'
  <2>1. Of(w).stage \in AllStages /\ worker[w].snap \in TotalsSet
    BY DEF Types, Of, WorkerSet, TaskSet
  <2>2. totals' \in TotalsSet
    BY <1>13, <2>1 DEF BumpFailed, TotalsSet, Entry3
  <2>3. worker' \in [Workers -> WorkerSet]
    BY <1>13, GotoFacts DEF BumpFailed, Types, Pcs, BatchPcs
  <2> QED
    BY <1>13, <2>2, <2>3 DEF Types, BumpFailed
<1>14. ASSUME NEW w \in Workers, ReportPart(w)  PROVE Types'
  <2> DEFINE t == Of(w)
             done == chords[t.chord].done \cup {t.batch}
  <2>1. t \in TaskSet /\ t.stage \in AllStages /\ t.chord \in Nat /\ t.batch \in Nat
    BY DEF Types, Of, WorkerSet, TaskSet
  <2>2. t.chord \in DOMAIN chords
    BY <1>14, BatchRowExists DEF ReportPart, At, BatchPcs
  <2>3. chords' = [chords EXCEPT ![t.chord].done = done]
    BY <1>14 DEF ReportPart
  <2>4. chords' \in Seq(ChordSet)
    <3> DEFINE new == [chords[t.chord] EXCEPT !.done = done]
    <3>0. Len(chords) \in Nat /\ DOMAIN chords = 1..Len(chords) /\ chords[t.chord] \in ChordSet
      BY <2>2 DEF Types
    <3>1. new \in ChordSet
      BY <2>1, <3>0 DEF ChordSet
    <3>2. chords' = [chords EXCEPT ![t.chord] = new]
      BY <2>2, <2>3
    <3> HIDE DEF new
    <3> QED
      BY <2>2, <3>0, <3>1, <3>2, ExceptSeq DEF Types
  <2>5. msgs' = msgs (+) One(FinalizeTask(t.stage, t.chord)) \/ msgs' = msgs
    BY <1>14 DEF ReportPart
  <2>6. IsABag(msgs') /\ BagToSet(msgs') \subseteq TaskSet
    BY <2>1, <2>5, TaskFacts, BagSend DEF Types
  <2>7. worker' \in [Workers -> WorkerSet]
    BY <1>14, GotoFacts DEF ReportPart, Types, Pcs
  <2> QED
    BY <1>14, <2>4, <2>6, <2>7 DEF Types, ReportPart
<1>15. ASSUME NEW w \in Workers, JoinStage(w)  PROVE Types'
  <2> DEFINE k == Of(w).stage
             new == Row(k, 0, "completed", {}, JoinResult(k))
  <2>1. k \in AllStages
    BY DEF Types, Of, WorkerSet, TaskSet
  <2>2. JoinResult(k) \in SUBSET Items
    <3>1. \A j \in BatchRows(k) : rows[j].out \in SUBSET Items
      BY RowFacts DEF Types, BatchRows, RowSet
    <3> QED
      BY <3>1 DEF JoinResult
  <2>3. new \in RowSet
    BY <2>1, <2>2 DEF Row, RowSet, RowStatus
  <2>4. rows' = Append(rows, new)
    BY <1>15 DEF JoinStage
  <2> HIDE DEF new
  <2>5. rows' \in Seq(RowSet)
    BY <2>3, <2>4 DEF Types
  <2>6. worker' \in [Workers -> WorkerSet]
    BY <1>15 DEF JoinStage, Types, WorkerSet, Pcs, FinalizePcs
  <2> QED
    BY <1>15, <2>5, <2>6 DEF Types, JoinStage
<1>16. ASSUME NEW w \in Workers, DecideFailed(w)  PROVE Types'
  <2>1. worker' \in [Workers -> WorkerSet]
    BY <1>16, GotoFacts DEF DecideFailed, Types, Pcs, FinalizePcs
  <2> QED
    BY <1>16, <2>1 DEF Types, DecideFailed
<1>17. ASSUME NEW w \in Workers, SendFailed(w)  PROVE Types'
  <2>1. worker' \in [Workers -> WorkerSet]
    BY <1>17, GotoFacts DEF SendFailed, Types, Pcs
  <2>2. IsABag(msgs') /\ BagToSet(msgs') \subseteq TaskSet
    BY <1>17, TaskFacts, BagSend DEF SendFailed, Types
  <2> QED
    BY <1>17, <2>1, <2>2 DEF Types, SendFailed
<1>18. ASSUME NEW w \in Workers, SendNext(w)  PROVE Types'
  <2>1. worker' \in [Workers -> WorkerSet]
    BY <1>18, GotoFacts DEF SendNext, Types, Pcs
  <2>2. Of(w).stage \in AllStages
    BY DEF Types, Of, WorkerSet, TaskSet
  <2>3. NextTask(Of(w).stage) \in TaskSet
    BY <2>2, TaskFacts, StageFacts DEF NextTask, AllStages
  <2>4. IsABag(msgs') /\ BagToSet(msgs') \subseteq TaskSet
    BY <1>18, <2>3, BagSend DEF SendNext, Types
  <2> QED
    BY <1>18, <2>1, <2>4 DEF Types, SendNext
<1>19. ASSUME NEW w \in Workers, MarkCompleted(w)  PROVE Types'
  <2>1. worker' \in [Workers -> WorkerSet]
    BY <1>19, GotoFacts DEF MarkCompleted, Types, Pcs
  <2> QED
    BY <1>19, <2>1, StageFacts DEF Types, MarkCompleted
<1>20. ASSUME NEW w \in Workers, MarkFailed(w)  PROVE Types'
  <2>1. worker' \in [Workers -> WorkerSet]
    BY <1>20, GotoFacts DEF MarkFailed, Types, Pcs
  <2> QED
    BY <1>20, <2>1 DEF Types, MarkFailed
<1>21. ASSUME NEW w \in Workers, WorkerLost(w)  PROVE Types'
  <2>1. worker' \in [Workers -> WorkerSet]
    BY <1>21, IdleFacts DEF WorkerLost, Types
  <2>2. Of(w) \in TaskSet
    BY DEF Types, Of, WorkerSet
  <2>3. IsABag(msgs') /\ BagToSet(msgs') \subseteq TaskSet
    BY <1>21, <2>2, BagSend DEF WorkerLost, Types
  <2> QED
    BY <1>21, <2>1, <2>3 DEF Types, WorkerLost
<1>22. ASSUME AdvancePipeline  PROVE Types'
  <2>1. IsABag(msgs') /\ BagToSet(msgs') \subseteq TaskSet
    BY <1>22, TaskFacts, BagSend DEF AdvancePipeline, Types
  <2> QED
    BY <1>22, <2>1 DEF Types, AdvancePipeline
<1> QED
  BY <1>0, <1>1, <1>2, <1>3, <1>4, <1>5, <1>6, <1>7, <1>8, <1>9, <1>10, <1>11, <1>12, <1>13,
     <1>14, <1>15, <1>16, <1>17, <1>18, <1>19, <1>20, <1>21, <1>22 DEF Next, TaskStep
-----------------------------------------------------------------------------
(* What each action does, in the terms of the invariants.                  *)

\* Worker w, and no other, goes from one step of its task to another.
Moves(w, from, to) ==
  /\ Pc(w) = from /\ Pc(w)' = to /\ Of(w)' = Of(w)
  /\ \A v \in Workers \ {w} : worker'[v] = worker[v]
KeepsLocals(w) == /\ worker'[w].snap = worker[w].snap /\ worker'[w].ids = worker[w].ids
                  /\ worker'[w].next = worker[w].next

\* The rows keep their place, and a row its stage and batch; one may be new.
RowsStay ==
  /\ DOMAIN rows' = DOMAIN rows
  /\ \A j \in DOMAIN rows : rows'[j].stage = rows[j].stage /\ rows'[j].batch = rows[j].batch
Adds(r) ==
  /\ DOMAIN rows' = DOMAIN rows \cup {Len(rows) + 1} /\ Len(rows) + 1 \notin DOMAIN rows
  /\ \A j \in DOMAIN rows : rows'[j] = rows[j] /\ j < Len(rows) + 1
  /\ rows'[Len(rows) + 1] = r
ChangesOnly(j) == \A h \in DOMAIN rows \ {j} : rows'[h] = rows[h]

(* Rows that keep stage and batch are found under the same stage and batch.*)
LEMMA RowsStayFacts ==
  ASSUME RowsStay
  PROVE  /\ \A k, i : RowsOf(k, i)' = RowsOf(k, i)
         /\ \A k : BatchRows(k)' = BatchRows(k)
BY DEF RowsStay, RowsOf, BatchRows

(* A row is appended: the others stay where they are, ...                  *)
LEMMA AddsFacts ==
  ASSUME rows \in Seq(RowSet), NEW r \in RowSet, rows' = Append(rows, r)
  PROVE  Adds(r)
BY DEF Adds

(* ... and only the rows of its stage and batch are more by one.           *)
LEMMA AddedFacts ==
  ASSUME NEW r, Adds(r)
  PROVE  /\ \A k, i : RowsOf(k, i) \subseteq RowsOf(k, i)'
         /\ \A k, i : k # r.stage \/ i # r.batch => RowsOf(k, i)' = RowsOf(k, i)
         /\ RowsOf(r.stage, r.batch)' = RowsOf(r.stage, r.batch) \cup {Len(rows) + 1}
         /\ \A k : k # r.stage \/ r.batch = 0 => BatchRows(k)' = BatchRows(k)
         /\ r.batch # 0 => BatchRows(r.stage)' = BatchRows(r.stage) \cup {Len(rows) + 1}
BY DEF Adds, RowsOf, BatchRows

(* dispatch_stage commits the run as running, and reads the totals.        *)
LEMMA SetStageFacts ==
  ASSUME Inv, NEW w \in Workers, SetStage(w)
  PROVE  /\ Moves(w, "set_stage", "plan")
         /\ worker'[w].snap = totals
         /\ status' = "running" /\ current' = Of(w).stage
         /\ UNCHANGED <<totals, rows, chords, msgs, faults>>
BY DEF SetStage, At, Pc, Of, Moves, Inv, Types, WorkerSet

(* The plan gives the stage its total and the worker the items to put into *)
(* batches.                                                                *)
LEMMA PlanStageFacts ==
  ASSUME Inv, NEW w \in Workers, PlanStage(w)
  PROVE  /\ Moves(w, "plan", "rows")
         /\ worker'[w].ids = PlanSource(Of(w).stage) /\ worker'[w].next = 1
         /\ worker'[w].snap = worker[w].snap
         /\ totals' = [worker[w].snap EXCEPT ![Of(w).stage] =
                         [NoEntry EXCEPT !.total = BatchCount(Of(w).stage, PlanSource(Of(w).stage))]]
         /\ UNCHANGED <<status, current, rows, chords, msgs, faults>>
BY DEF PlanStage, At, Pc, Of, Moves, Inv, Types, WorkerSet

NewBatchRow(w) ==
  Row(Of(w).stage, worker[w].next, "pending",
      BatchItems(Of(w).stage, worker[w].ids, worker[w].next), {})

(* One more pending batch row, with its items; the batch is one of the     *)
(* planned ones.                                                           *)
LEMMA CreateBatchRowFacts ==
  ASSUME Inv, NEW w \in Workers, CreateBatchRow(w)
  PROVE  /\ Moves(w, "rows", "rows")
         /\ worker'[w].ids = worker[w].ids /\ worker'[w].next = worker[w].next + 1
         /\ worker'[w].snap = worker[w].snap
         /\ worker[w].next \in 1..BatchCount(Of(w).stage, worker[w].ids)
         /\ Adds(NewBatchRow(w))
         /\ NewBatchRow(w).stage = Of(w).stage /\ NewBatchRow(w).batch = worker[w].next
         /\ NewBatchRow(w).status = "pending" /\ NewBatchRow(w).out = {}
         /\ NewBatchRow(w).itemIds =
              BatchItems(Of(w).stage, worker[w].ids, worker[w].next)
         /\ UNCHANGED <<status, current, totals, chords, msgs, faults>>
<1>1. /\ Of(w).stage \in AllStages /\ worker[w].next \in Nat
      /\ worker[w].ids \in SUBSET Items /\ rows \in Seq(RowSet)
  BY DEF Inv, Types, Of, WorkerSet, TaskSet
<1>2. NewBatchRow(w) \in RowSet
  BY <1>1, PlanFacts DEF NewBatchRow, Row, RowSet, RowStatus
<1>3. rows' = Append(rows, NewBatchRow(w))
  BY DEF CreateBatchRow, NewBatchRow
<1>4. Adds(NewBatchRow(w))
  BY <1>1, <1>2, <1>3, AddsFacts
<1>5. worker[w].next \in 1..BatchCount(Of(w).stage, worker[w].ids)
  <2>1. BatchCount(Of(w).stage, worker[w].ids) \in Nat
    BY <1>1, PlanFacts
  <2> QED
    BY <2>1 DEF CreateBatchRow, Inv, BatchesOK, Creating
<1>6. /\ worker'[w].ids = worker[w].ids /\ worker'[w].next = worker[w].next + 1
      /\ worker'[w].snap = worker[w].snap /\ Moves(w, "rows", "rows")
  BY DEF CreateBatchRow, At, Pc, Of, Moves, Inv, Types, WorkerSet
<1>7. UNCHANGED <<status, current, totals, chords, msgs, faults>>
  BY DEF CreateBatchRow
<1> QED
  BY <1>4, <1>5, <1>6, <1>7 DEF NewBatchRow, Row

ChordBatches(w) ==
  {BatchTask(Of(w).stage, Len(chords) + 1, i, 0) :
     i \in 1..BatchCount(Of(w).stage, worker[w].ids)}

(* A stage without batches is finalised at once; otherwise a new chord with*)
(* a message for each batch.                                               *)
LEMMA StartChordFacts ==
  ASSUME Inv, NEW w \in Workers, StartChord(w)
  PROVE  /\ Moves(w, "rows", "ack") /\ KeepsLocals(w)
         /\ BatchCount(Of(w).stage, worker[w].ids) \in Nat
         /\ worker[w].next = BatchCount(Of(w).stage, worker[w].ids) + 1
         /\ \/ /\ BatchCount(Of(w).stage, worker[w].ids) = 0
               /\ msgs' = msgs (+) One(FinalizeTask(Of(w).stage, 0))
               /\ UNCHANGED chords
            \/ /\ BatchCount(Of(w).stage, worker[w].ids) # 0
               /\ msgs' = msgs (+) SetToBag(ChordBatches(w))
               /\ Len(chords') = Len(chords) + 1 /\ DOMAIN chords' = 1..(Len(chords) + 1)
               /\ DOMAIN chords = 1..Len(chords) /\ Len(chords) \in Nat
               /\ \A c \in DOMAIN chords : chords'[c] = chords[c]
               /\ chords'[Len(chords) + 1] =
                    [size |-> BatchCount(Of(w).stage, worker[w].ids), done |-> {}]
         /\ UNCHANGED <<status, current, totals, rows, faults>>
<1>1. BatchCount(Of(w).stage, worker[w].ids) \in Nat
  BY PlanFacts DEF Inv, Types, Of, WorkerSet, TaskSet
<1>2. Moves(w, "rows", "ack") /\ KeepsLocals(w)
  BY GotoFacts DEF StartChord, At, Pc, Of, Moves, KeepsLocals, Inv, Types, Pcs
<1>3. worker[w].next = BatchCount(Of(w).stage, worker[w].ids) + 1
  BY DEF StartChord
<1>4. UNCHANGED <<status, current, totals, rows, faults>>
  BY DEF StartChord
<1>5. CASE BatchCount(Of(w).stage, worker[w].ids) = 0
  <2>1. msgs' = msgs (+) One(FinalizeTask(Of(w).stage, 0)) /\ chords' = chords
    BY <1>5 DEF StartChord
  <2> QED
    BY <1>1, <1>2, <1>3, <1>4, <1>5, <2>1
<1>6. CASE BatchCount(Of(w).stage, worker[w].ids) # 0
  <2> DEFINE new == [size |-> BatchCount(Of(w).stage, worker[w].ids), done |-> {}]
  <2>1. msgs' = msgs (+) SetToBag(ChordBatches(w)) /\ chords' = Append(chords, new)
    BY <1>6 DEF StartChord, ChordBatches
  <2>2. chords \in Seq(ChordSet)
    BY DEF Inv, Types
  <2> HIDE DEF new
  <2>3. /\ Len(chords') = Len(chords) + 1 /\ DOMAIN chords' = 1..(Len(chords) + 1)
        /\ DOMAIN chords = 1..Len(chords) /\ Len(chords) \in Nat
        /\ \A c \in DOMAIN chords : chords'[c] = chords[c]
        /\ chords'[Len(chords) + 1] = new
    BY <2>1, <2>2
  <2> QED
    BY <1>1, <1>2, <1>3, <1>4, <1>6, <2>1, <2>3 DEF new
<1> QED
  BY <1>5, <1>6

(* The worker holds a message that was with the broker.                    *)
LEMMA TakeTaskFacts ==
  ASSUME Inv, NEW w \in Workers, TakeTask(w)
  PROVE  /\ Pc(w) = "idle" /\ Of(w)' \in BagToSet(msgs) /\ Pc(w)' = Entry(Of(w)'.kind)
         /\ worker'[w].snap = NoTotals
         /\ \A v \in Workers \ {w} : worker'[v] = worker[v]
         /\ msgs' = msgs (-) One(Of(w)')
         /\ UNCHANGED <<status, current, totals, rows, chords, faults>>
BY DEF TakeTask, At, Pc, Of, Inv, Types, Idle

(* The worker is free again.                                               *)
LEMMA AcknowledgeFacts ==
  ASSUME Inv, NEW w \in Workers, Acknowledge(w)
  PROVE  /\ Pc(w) = "ack" /\ worker'[w] = Idle
         /\ \A v \in Workers \ {w} : worker'[v] = worker[v]
         /\ UNCHANGED <<status, current, totals, rows, chords, msgs, faults>>
BY DEF Acknowledge, At, Pc, Inv, Types

\* The row of the batch that worker w has in hand.
RowAt(w) == FindBatchStep(Of(w).stage, Of(w).batch)

(* The row of the batch runs; its items are what the worker holds.         *)
LEMMA LoadBatchFacts ==
  ASSUME Inv, NEW w \in Workers, LoadBatch(w)
  PROVE  /\ Moves(w, "load", "run")
         /\ worker'[w].snap = totals /\ worker'[w].ids = rows[RowAt(w)].itemIds
         /\ RowAt(w) \in RowsOf(Of(w).stage, Of(w).batch) /\ RowAt(w) \in DOMAIN rows
         /\ RowsStay /\ ChangesOnly(RowAt(w))
         /\ rows'[RowAt(w)].status = "running"
         /\ rows'[RowAt(w)].itemIds = rows[RowAt(w)].itemIds
         /\ rows'[RowAt(w)].out = rows[RowAt(w)].out
         /\ UNCHANGED <<status, current, totals, chords, msgs, faults>>
<1>1. Pc(w) \in BatchPcs
  BY DEF LoadBatch, At, BatchPcs
<1>2. RowAt(w) \in RowsOf(Of(w).stage, Of(w).batch) /\ RowAt(w) \in DOMAIN rows
  BY <1>1, BatchRowExists DEF Inv, RowAt
<1>3. \A j \in DOMAIN rows : rows[j] \in RowSet
  BY RowFacts DEF Inv, Types
<1>4. rows' = [rows EXCEPT ![RowAt(w)].status = "running"]
  BY DEF LoadBatch, RowAt
<1>5. /\ Moves(w, "load", "run")
      /\ worker'[w].snap = totals /\ worker'[w].ids = rows[RowAt(w)].itemIds
  BY DEF LoadBatch, At, Pc, Of, Moves, Inv, Types, WorkerSet, RowAt
<1>6. UNCHANGED <<status, current, totals, chords, msgs, faults>>
  BY DEF LoadBatch
<1> QED
  BY <1>2, <1>3, <1>4, <1>5, <1>6 DEF RowsStay, ChangesOnly, RowSet

(* The row of the batch is completed.                                      *)
LEMMA RunSucceedsFacts ==
  ASSUME Inv, NEW w \in Workers, RunSucceeds(w)
  PROVE  /\ Moves(w, "run", "bump") /\ KeepsLocals(w)
         /\ RowAt(w) \in RowsOf(Of(w).stage, Of(w).batch) /\ RowAt(w) \in DOMAIN rows
         /\ RowsStay /\ ChangesOnly(RowAt(w))
         /\ rows'[RowAt(w)].status = "completed"
         /\ UNCHANGED <<status, current, totals, chords, msgs, faults>>
<1>1. Pc(w) \in BatchPcs
  BY DEF RunSucceeds, At, BatchPcs
<1>2. RowAt(w) \in RowsOf(Of(w).stage, Of(w).batch) /\ RowAt(w) \in DOMAIN rows
  BY <1>1, BatchRowExists DEF Inv, RowAt
<1>3. \A j \in DOMAIN rows : rows[j] \in RowSet
  BY RowFacts DEF Inv, Types
<1>4. PICK out \in SUBSET worker[w].ids :
        rows' = [rows EXCEPT ![RowAt(w)].status = "completed", ![RowAt(w)].itemIds = {},
                             ![RowAt(w)].out = out]
  BY DEF RunSucceeds, RowAt
<1>5. Moves(w, "run", "bump") /\ KeepsLocals(w)
  BY GotoFacts
     DEF RunSucceeds, At, Pc, Of, Moves, KeepsLocals, Inv, Types, Pcs, BatchPcs
<1>6. UNCHANGED <<status, current, totals, chords, msgs, faults>>
  BY DEF RunSucceeds
<1> QED
  BY <1>2, <1>3, <1>4, <1>5, <1>6 DEF RowsStay, ChangesOnly, RowSet

(* The row of the batch is failed; its items and its output stay.          *)
LEMMA FailRowFacts ==
  ASSUME Inv, NEW w \in Workers, FailRow(w)
  PROVE  /\ Pc(w) \in {"run", "fail"} /\ Moves(w, Pc(w), "bump_failed")
         /\ worker'[w].snap = totals
         /\ RowAt(w) \in RowsOf(Of(w).stage, Of(w).batch) /\ RowAt(w) \in DOMAIN rows
         /\ RowsStay /\ ChangesOnly(RowAt(w))
         /\ rows'[RowAt(w)].status = "failed"
         /\ rows'[RowAt(w)].itemIds = rows[RowAt(w)].itemIds
         /\ rows'[RowAt(w)].out = rows[RowAt(w)].out
         /\ UNCHANGED <<status, current, totals, chords, msgs, faults>>
<1>1. Pc(w) \in BatchPcs
  BY DEF FailRow, BatchPcs
<1>2. RowAt(w) \in RowsOf(Of(w).stage, Of(w).batch) /\ RowAt(w) \in DOMAIN rows
  BY <1>1, BatchRowExists DEF Inv, RowAt
<1>3. \A j \in DOMAIN rows : rows[j] \in RowSet
  BY RowFacts DEF Inv, Types
<1>4. rows' = [rows EXCEPT ![RowAt(w)].status = "failed"]
  BY DEF FailRow, RowAt
<1>5. Pc(w) \in {"run", "fail"} /\ Moves(w, Pc(w), "bump_failed") /\ worker'[w].snap = totals
  BY DEF FailRow, Pc, Of, Moves, Inv, Types, WorkerSet
<1>6. UNCHANGED <<status, current, totals, chords, msgs, faults>>
  BY DEF FailRow
<1> QED
  BY <1>2, <1>3, <1>4, <1>5, <1>6 DEF RowsStay, ChangesOnly, RowSet

(* Either the task is sent once more, or the worker goes on to fail the    *)
(* batch.                                                                  *)
LEMMA RetryFacts ==
  ASSUME Inv, NEW w \in Workers, RetryOrFail(w)
  PROVE  \/ /\ Moves(w, Pc(w), "ack") /\ KeepsLocals(w)
            /\ MayRetry(Of(w)) /\ msgs' = msgs (+) One(Again(Of(w)))
         \/ /\ Moves(w, Pc(w), "fail") /\ KeepsLocals(w)
            /\ UNCHANGED msgs
<1>1. CASE MayRetry(Of(w))
  <2>1. msgs' = msgs (+) One(Again(Of(w))) /\ Goto(w, "ack")
    BY <1>1 DEF RetryOrFail, Again
  <2> QED
    BY <1>1, <2>1, GotoFacts DEF Moves, KeepsLocals, Inv, Types, Pcs, Pc, Of
<1>2. CASE ~MayRetry(Of(w))
  <2>1. msgs' = msgs /\ Goto(w, "fail")
    BY <1>2 DEF RetryOrFail
  <2> QED
    BY <1>2, <2>1, GotoFacts DEF Moves, KeepsLocals, Inv, Types, Pcs, BatchPcs, Pc, Of
<1> QED
  BY <1>1, <1>2

(* A counter is written from the totals the worker read.                   *)
LEMMA BumpFacts ==
  ASSUME Inv, NEW w \in Workers, BumpCompleted(w) \/ BumpFailed(w)
  PROVE  /\ Pc(w) \in {"bump", "bump_failed"} /\ Moves(w, Pc(w), "report") /\ KeepsLocals(w)
         /\ Pc(w) = "bump" =>
              totals' = [worker[w].snap EXCEPT ![Of(w).stage].completed = @ + 1]
         /\ Pc(w) = "bump_failed" =>
              totals' = [worker[w].snap EXCEPT ![Of(w).stage].failed = @ + 1]
         /\ UNCHANGED <<status, current, rows, chords, msgs, faults>>
BY GotoFacts DEF BumpCompleted, BumpFailed, At, Pc, Of, Moves, KeepsLocals, Inv, Types, Pcs,
   BatchPcs

(* The chord has one more part; the last one sends finalize_stage.         *)
LEMMA ReportPartFacts ==
  ASSUME Inv, NEW w \in Workers, ReportPart(w)
  PROVE  /\ Moves(w, "report", "ack") /\ KeepsLocals(w)
         /\ Of(w).chord \in DOMAIN chords /\ DOMAIN chords' = DOMAIN chords
         /\ Len(chords') = Len(chords)
         /\ \A c \in DOMAIN chords : chords'[c].size = chords[c].size
         /\ \A c \in DOMAIN chords \ {Of(w).chord} : chords'[c] = chords[c]
         /\ chords'[Of(w).chord].done = chords[Of(w).chord].done \cup {Of(w).batch}
         /\ \/ UNCHANGED msgs
            \/ /\ Cardinality(chords'[Of(w).chord].done) = chords[Of(w).chord].size
               /\ msgs' = msgs (+) One(FinalizeTask(Of(w).stage, Of(w).chord))
         /\ UNCHANGED <<status, current, totals, rows, faults>>
<1>1. Pc(w) \in BatchPcs
  BY DEF ReportPart, At, BatchPcs
<1>2. Of(w).chord \in DOMAIN chords
  BY <1>1, BatchRowExists DEF Inv
<1>3. \A c \in DOMAIN chords : chords[c] \in ChordSet
  BY DEF Inv, Types
<1>4. chords' = [chords EXCEPT ![Of(w).chord].done = chords[Of(w).chord].done \cup {Of(w).batch}]
  BY DEF ReportPart
<1>5. /\ DOMAIN chords' = DOMAIN chords
      /\ \A c \in DOMAIN chords : chords'[c].size = chords[c].size
      /\ \A c \in DOMAIN chords \ {Of(w).chord} : chords'[c] = chords[c]
      /\ chords'[Of(w).chord].done = chords[Of(w).chord].done \cup {Of(w).batch}
  BY <1>2, <1>3, <1>4 DEF ChordSet
<1>6. Len(chords') = Len(chords)
  BY <1>4 DEF Inv, Types
<1>7. Moves(w, "report", "ack") /\ KeepsLocals(w)
  BY GotoFacts DEF ReportPart, At, Pc, Of, Moves, KeepsLocals, Inv, Types, Pcs
<1>8. UNCHANGED <<status, current, totals, rows, faults>>
  BY DEF ReportPart
<1>9. \/ UNCHANGED msgs
      \/ /\ Cardinality(chords[Of(w).chord].done \cup {Of(w).batch}) = chords[Of(w).chord].size
         /\ msgs' = msgs (+) One(FinalizeTask(Of(w).stage, Of(w).chord))
  BY DEF ReportPart
<1> QED
  BY <1>2, <1>5, <1>6, <1>7, <1>8, <1>9

JoinRow(k) == Row(k, 0, "completed", {}, JoinResult(k))

(* One more run-level row, with the output of the batch rows.              *)
LEMMA JoinStageFacts ==
  ASSUME Inv, NEW w \in Workers, JoinStage(w)
  PROVE  /\ Moves(w, "join", "decide") /\ worker'[w].snap = totals
         /\ Adds(JoinRow(Of(w).stage))
         /\ JoinRow(Of(w).stage).stage = Of(w).stage /\ JoinRow(Of(w).stage).batch = 0
         /\ JoinRow(Of(w).stage).status = "completed"
         /\ JoinRow(Of(w).stage).out = JoinResult(Of(w).stage)
         /\ UNCHANGED <<status, current, totals, chords, msgs, faults>>
<1> DEFINE k == Of(w).stage
<1>1. k \in AllStages /\ rows \in Seq(RowSet)
  BY DEF Inv, Types, Of, WorkerSet, TaskSet
<1>2. JoinResult(k) \in SUBSET Items
  <2>1. \A j \in BatchRows(k) : rows[j].out \in SUBSET Items
    BY <1>1, RowFacts DEF BatchRows, RowSet
  <2> QED
    BY <2>1 DEF JoinResult
<1>3. JoinRow(k) \in RowSet
  BY <1>1, <1>2 DEF JoinRow, Row, RowSet, RowStatus
<1>4. rows' = Append(rows, JoinRow(k))
  BY DEF JoinStage, JoinRow
<1>5. Adds(JoinRow(k))
  BY <1>1, <1>3, <1>4, AddsFacts
<1>6. Moves(w, "join", "decide") /\ worker'[w].snap = totals
  BY DEF JoinStage, At, Pc, Of, Moves, Inv, Types, WorkerSet
<1>7. UNCHANGED <<status, current, totals, chords, msgs, faults>>
  BY DEF JoinStage
<1> QED
  BY <1>5, <1>6, <1>7 DEF JoinRow, Row

(* The run is failed on the totals the worker read.                        *)
LEMMA DecideFailedFacts ==
  ASSUME Inv, NEW w \in Workers, DecideFailed(w)
  PROVE  /\ Moves(w, "decide", "send_failed") /\ KeepsLocals(w)
         /\ AllBatchesFailed(Of(w).stage, worker[w].snap)
         /\ status' = "failed"
         /\ UNCHANGED <<current, totals, rows, chords, msgs, faults>>
BY GotoFacts DEF DecideFailed, At, Pc, Of, Moves, KeepsLocals, Inv, Types, Pcs, FinalizePcs

(* The message that follows the decision.                                  *)
LEMMA SendFacts ==
  ASSUME Inv, NEW w \in Workers, SendFailed(w) \/ SendNext(w)
  PROVE  /\ Pc(w) \in {"decide", "send_failed"} /\ Moves(w, Pc(w), "ack") /\ KeepsLocals(w)
         /\ Pc(w) = "send_failed" => msgs' = msgs (+) One(FailedTask)
         /\ Pc(w) = "decide" => msgs' = msgs (+) One(NextTask(Of(w).stage))
         /\ UNCHANGED <<status, current, totals, rows, chords, faults>>
BY GotoFacts DEF SendFailed, SendNext, At, Pc, Of, Moves, KeepsLocals, Inv, Types, Pcs

(* The end of the run is written; a failed run stays as it is.             *)
LEMMA MarkFacts ==
  ASSUME Inv, NEW w \in Workers, MarkCompleted(w) \/ MarkFailed(w)
  PROVE  /\ Pc(w) \in {"mark_completed", "mark_failed"} /\ Moves(w, Pc(w), "ack")
         /\ KeepsLocals(w)
         /\ Pc(w) = "mark_completed" => status' = "completed" /\ current' = NStages + 1
         /\ Pc(w) = "mark_failed" =>
              /\ current' = current
              /\ status' = IF status \in {"completed", "failed"} THEN status ELSE "failed"
         /\ UNCHANGED <<totals, rows, chords, msgs, faults>>
BY GotoFacts DEF MarkCompleted, MarkFailed, At, Pc, Of, Moves, KeepsLocals, Inv, Types, Pcs

(* The message of a lost worker is with the broker again.                  *)
LEMMA WorkerLostFacts ==
  ASSUME Inv, NEW w \in Workers, WorkerLost(w)
  PROVE  /\ Pc(w) # "idle" /\ worker'[w] = Idle
         /\ \A v \in Workers \ {w} : worker'[v] = worker[v]
         /\ msgs' = msgs (+) One(Of(w))
         /\ crashes < MaxCrashes
         /\ UNCHANGED <<status, current, totals, rows, chords>>
BY DEF WorkerLost, Inv, Types
-----------------------------------------------------------------------------
(* The tasks in the system after a step.                                   *)
LEMMA TasksMove ==
  ASSUME NEW w \in Workers, Pc(w) # "idle",
         \A v \in Workers \ {w} : worker'[v] = worker[v],
         Pc(w)' = "idle" \/ Of(w)' = Of(w),
         NEW S, BagToSet(msgs)' \subseteq BagToSet(msgs) \cup S
  PROVE  Tasks' \subseteq Tasks \cup S
BY DEF Tasks, Pc, Of

(* A task that is taken was in the system.                                 *)
LEMMA TasksTake ==
  ASSUME Inv, NEW w \in Workers, TakeTask(w)
  PROVE  Tasks' \subseteq Tasks /\ Of(w)' \in TaskSet
<1>1. BagToSet(msgs)' \subseteq BagToSet(msgs)
  BY TakeTaskFacts, BagTake DEF Inv, Types
<1>2. Of(w)' \in BagToSet(msgs) /\ \A v \in Workers \ {w} : worker'[v] = worker[v]
  BY TakeTaskFacts
<1>3. Tasks' \subseteq Tasks
  BY <1>1, <1>2 DEF Tasks, Pc, Of
<1> QED
  BY <1>2, <1>3 DEF Inv, Types

\* A worker that has a task goes on with it; ...
Works(w) == /\ Pc(w) # "idle" /\ Of(w)' = Of(w)
            /\ \A v \in Workers \ {w} : worker'[v] = worker[v]
\* ... it sends at most the tasks of S.
Sends(w, S) == BagToSet(msgs)' \subseteq BagToSet(msgs) \cup S /\ Tasks' \subseteq Tasks \cup S

(* What each action may send, and nothing else enters the system.          *)
LEMMA SentTasks ==
  ASSUME Inv, NEW w \in Workers
  PROVE  /\ SetStage(w) \/ PlanStage(w) \/ CreateBatchRow(w) \/ LoadBatch(w) \/ RunSucceeds(w)
            \/ BumpCompleted(w) \/ FailRow(w) \/ BumpFailed(w) \/ JoinStage(w)
            \/ DecideFailed(w) \/ MarkCompleted(w) \/ MarkFailed(w) \/ Acknowledge(w)
              => Sends(w, {})
         /\ StartChord(w) => Sends(w, ChordBatches(w) \cup {FinalizeTask(Of(w).stage, 0)})
         /\ RunTransient(w) \/ BumpTransient(w) => Sends(w, {Again(Of(w))})
         /\ ReportPart(w) => Sends(w, {FinalizeTask(Of(w).stage, Of(w).chord)})
         /\ SendFailed(w) => Sends(w, {FailedTask})
         /\ SendNext(w) => Sends(w, {NextTask(Of(w).stage)})
         /\ WorkerLost(w) => Tasks' \subseteq Tasks
<1>0. IsABag(msgs)
  BY DEF Inv, Types
<1>1. ASSUME SetStage(w) \/ PlanStage(w) \/ CreateBatchRow(w) \/ LoadBatch(w) \/ RunSucceeds(w)
            \/ BumpCompleted(w) \/ FailRow(w) \/ BumpFailed(w) \/ JoinStage(w)
            \/ DecideFailed(w) \/ MarkCompleted(w) \/ MarkFailed(w)
      PROVE Sends(w, {})
  <2>1. SetStage(w) \/ PlanStage(w) \/ CreateBatchRow(w) => Works(w) /\ msgs' = msgs
    BY SetStageFacts, PlanStageFacts, CreateBatchRowFacts DEF Moves, Works
  <2>2. LoadBatch(w) \/ RunSucceeds(w) => Works(w) /\ msgs' = msgs
    BY LoadBatchFacts, RunSucceedsFacts DEF Moves, Works
  <2>3. BumpCompleted(w) \/ BumpFailed(w) => Works(w) /\ msgs' = msgs
    BY BumpFacts DEF Moves, Works
  <2>4. FailRow(w) => Works(w) /\ msgs' = msgs
    BY FailRowFacts DEF Moves, Works
  <2>5. JoinStage(w) \/ DecideFailed(w) => Works(w) /\ msgs' = msgs
    BY JoinStageFacts, DecideFailedFacts DEF Moves, Works
  <2>6. MarkCompleted(w) \/ MarkFailed(w) => Works(w) /\ msgs' = msgs
    BY MarkFacts DEF Moves, Works
  <2>7. Works(w) /\ msgs' = msgs
    BY <1>1, <2>1, <2>2, <2>3, <2>4, <2>5, <2>6
  <2> QED
    BY <2>7, TasksMove DEF Sends, Works
<1>2. ASSUME Acknowledge(w)  PROVE Sends(w, {})
  <2>1. Pc(w)' = "idle"
    BY <1>2, AcknowledgeFacts, IdleFacts DEF Pc
  <2> QED
    BY <1>2, <2>1, AcknowledgeFacts, TasksMove DEF Sends
<1>3. ASSUME StartChord(w)
      PROVE  Sends(w, ChordBatches(w) \cup {FinalizeTask(Of(w).stage, 0)})
  <2>0. \/ msgs' = msgs (+) One(FinalizeTask(Of(w).stage, 0))
        \/ msgs' = msgs (+) SetToBag(ChordBatches(w))
    BY <1>3, StartChordFacts
  <2>1. BagToSet(msgs)' \subseteq
          BagToSet(msgs) \cup (ChordBatches(w) \cup {FinalizeTask(Of(w).stage, 0)})
    <3>1. CASE msgs' = msgs (+) One(FinalizeTask(Of(w).stage, 0))
      BY <1>0, <3>1, BagSend
    <3>2. CASE msgs' = msgs (+) SetToBag(ChordBatches(w))
      BY <1>0, <3>2, BagSendAll
    <3> QED
      BY <2>0, <3>1, <3>2
  <2> QED
    BY <1>3, <2>1, StartChordFacts, TasksMove DEF Sends, Moves
<1>4. ASSUME RunTransient(w) \/ BumpTransient(w)  PROVE Sends(w, {Again(Of(w))})
  <2>1. Pc(w) # "idle" /\ RetryOrFail(w)
    BY <1>4 DEF RunTransient, BumpTransient, At
  <2>2. BagToSet(msgs)' \subseteq BagToSet(msgs) \cup {Again(Of(w))}
    BY <1>0, <2>1, RetryFacts, BagSend
  <2> QED
    BY <2>1, <2>2, RetryFacts, TasksMove DEF Sends, Moves
<1>5. ASSUME ReportPart(w)  PROVE Sends(w, {FinalizeTask(Of(w).stage, Of(w).chord)})
  <2>2. BagToSet(msgs)' \subseteq BagToSet(msgs) \cup {FinalizeTask(Of(w).stage, Of(w).chord)}
    BY <1>0, <1>5, ReportPartFacts, BagSend
  <2> QED
    BY <1>5, <2>2, ReportPartFacts, TasksMove DEF Sends, Moves
<1>6. ASSUME SendFailed(w)  PROVE Sends(w, {FailedTask})
  <2>1. Pc(w) = "send_failed"
    BY <1>6 DEF SendFailed, At
  <2>2. BagToSet(msgs)' \subseteq BagToSet(msgs) \cup {FailedTask}
    BY <1>0, <1>6, <2>1, SendFacts, BagSend
  <2> QED
    BY <1>6, <2>1, <2>2, SendFacts, TasksMove DEF Sends, Moves
<1>7. ASSUME SendNext(w)  PROVE Sends(w, {NextTask(Of(w).stage)})
  <2>1. Pc(w) = "decide"
    BY <1>7 DEF SendNext, At
  <2>2. BagToSet(msgs)' \subseteq BagToSet(msgs) \cup {NextTask(Of(w).stage)}
    BY <1>0, <1>7, <2>1, SendFacts, BagSend
  <2> QED
    BY <1>7, <2>1, <2>2, SendFacts, TasksMove DEF Sends, Moves
<1>8. ASSUME WorkerLost(w)  PROVE Tasks' \subseteq Tasks
  <2>1. Pc(w)' = "idle" /\ Of(w) \in Tasks
    BY <1>8, WorkerLostFacts, IdleFacts, Held DEF Pc
  <2>2. BagToSet(msgs)' \subseteq BagToSet(msgs) \cup {Of(w)}
    BY <1>0, <1>8, WorkerLostFacts, BagSend
  <2>3. Tasks' \subseteq Tasks \cup {Of(w)}
    BY <1>8, <2>1, <2>2, WorkerLostFacts, TasksMove
  <2> QED
    BY <2>1, <2>3
<1> QED
  BY <1>1, <1>2, <1>3, <1>4, <1>5, <1>6, <1>7, <1>8

(* A worker stays at the steps of the kind of task it holds.               *)
LEMMA KindsStep == ASSUME Inv, [Next]_vars  PROVE KindsOK'
<1> USE DEF DispatchPcs, BatchPcs, FinalizePcs, Fits
<1>0. CASE UNCHANGED vars
  BY <1>0 DEF Inv, KindsOK, vars, Pc, Of
<1>1. ASSUME NEW w \in Workers, \A v \in Workers \ {w} : worker'[v] = worker[v],
             Fits(Pc(w)', Of(w)'.kind)
      PROVE  KindsOK'
  BY <1>1 DEF Inv, KindsOK, Pc, Of
<1>2. ASSUME NEW w \in Workers, TakeTask(w)  PROVE KindsOK'
  <2>1. Of(w)' \in TaskSet
    BY <1>2, TasksTake
  <2>2. Fits(Entry(Of(w)'.kind), Of(w)'.kind)
    BY <2>1 DEF Entry, TaskSet
  <2> QED
    BY <1>1, <1>2, <2>2, TakeTaskFacts
<1>3. ASSUME NEW w \in Workers, Acknowledge(w) \/ WorkerLost(w)  PROVE KindsOK'
  BY <1>1, <1>3, AcknowledgeFacts, WorkerLostFacts, IdleFacts DEF Pc
<1>4. ASSUME NEW w \in Workers, SetStage(w) \/ PlanStage(w) \/ CreateBatchRow(w) \/ StartChord(w)
      PROVE  KindsOK'
  <2>1. Of(w).kind = "dispatch"
    BY <1>4 DEF SetStage, PlanStage, CreateBatchRow, StartChord, At, Inv, KindsOK
  <2>2. /\ SetStage(w) => Moves(w, "set_stage", "plan")
        /\ PlanStage(w) => Moves(w, "plan", "rows")
        /\ CreateBatchRow(w) => Moves(w, "rows", "rows")
        /\ StartChord(w) => Moves(w, "rows", "ack")
    BY SetStageFacts, PlanStageFacts, CreateBatchRowFacts, StartChordFacts
  <2> QED
    BY <1>1, <1>4, <2>1, <2>2 DEF Moves
<1>5. ASSUME NEW w \in Workers, LoadBatch(w) \/ RunSucceeds(w) \/ FailRow(w) \/ ReportPart(w)
      PROVE  KindsOK'
  <2>1. Of(w).kind = "batch"
    BY <1>5 DEF LoadBatch, RunSucceeds, FailRow, ReportPart, At, Inv, KindsOK
  <2>2. /\ LoadBatch(w) => Moves(w, "load", "run")
        /\ RunSucceeds(w) => Moves(w, "run", "bump")
        /\ FailRow(w) => Moves(w, Pc(w), "bump_failed")
        /\ ReportPart(w) => Moves(w, "report", "ack")
    BY LoadBatchFacts, RunSucceedsFacts, FailRowFacts, ReportPartFacts
  <2> QED
    BY <1>1, <1>5, <2>1, <2>2 DEF Moves
<1>6. ASSUME NEW w \in Workers, BumpCompleted(w) \/ BumpFailed(w)  PROVE KindsOK'
  <2>1. Of(w).kind = "batch"
    BY <1>6 DEF BumpCompleted, BumpFailed, At, Inv, KindsOK
  <2> QED
    BY <1>1, <1>6, <2>1, BumpFacts DEF Moves
<1>7. ASSUME NEW w \in Workers, RunTransient(w) \/ BumpTransient(w)  PROVE KindsOK'
  <2>1. Of(w).kind = "batch" /\ RetryOrFail(w)
    BY <1>7 DEF RunTransient, BumpTransient, At, Inv, KindsOK
  <2> QED
    BY <1>1, <1>7, <2>1, RetryFacts DEF Moves
<1>8. ASSUME NEW w \in Workers, JoinStage(w) \/ DecideFailed(w)  PROVE KindsOK'
  <2>1. Of(w).kind = "finalize"
    BY <1>8 DEF JoinStage, DecideFailed, At, Inv, KindsOK
  <2> QED
    BY <1>1, <1>8, <2>1, JoinStageFacts, DecideFailedFacts DEF Moves
<1>9. ASSUME NEW w \in Workers,
             SendFailed(w) \/ SendNext(w) \/ MarkCompleted(w) \/ MarkFailed(w)
      PROVE  KindsOK'
  <2>1. Moves(w, Pc(w), "ack")
    BY <1>9, SendFacts, MarkFacts
  <2> QED
    BY <1>1, <2>1 DEF Moves
<1>10. ASSUME AdvancePipeline  PROVE KindsOK'
  BY <1>10 DEF AdvancePipeline, Inv, KindsOK, Pc, Of
<1> QED
  BY <1>0, <1>2, <1>3, <1>4, <1>5, <1>6, <1>7, <1>8, <1>9, <1>10 DEF Next, TaskStep

\* A chord keeps its size.
ChordsGrow ==
  /\ DOMAIN chords \subseteq DOMAIN chords'
  /\ \A c \in DOMAIN chords : chords'[c].size = chords[c].size
\* No row of a batch goes away.
RowsGrow == \A k, i : RowsOf(k, i) \subseteq RowsOf(k, i)'

\* The tasks of S are the new ones, and their chords and rows are there.
SoundSends(S) == /\ Tasks' \subseteq Tasks \cup S
                 /\ \A t \in S : t.kind = "batch" => HasChord(t)' /\ HasRow(t)'

(* What has to be shown of a step: of the new batches, and of the workers  *)
(* that moved.                                                             *)
LEMMA BatchesFrame ==
  ASSUME BatchesOK, RowsGrow, ChordsGrow,
         \A c \in DOMAIN chords' : chords'[c].done \subseteq 1..chords'[c].size,
         \A v \in Workers : worker'[v] = worker[v] \/ Creating(v)',
         NEW S, SoundSends(S)
  PROVE  BatchesOK'
<1>1. ASSUME NEW t \in Tasks, t.kind = "batch"  PROVE HasChord(t)' /\ HasRow(t)'
  BY <1>1 DEF BatchesOK, HasChord, HasRow, RowsGrow, ChordsGrow, SoundSends
<1>2. ASSUME NEW v \in Workers, worker'[v] = worker[v]  PROVE Creating(v)'
  <2>1. Creating(v)
    BY DEF BatchesOK
  <2> QED
    BY <1>2, <2>1 DEF Creating, At, Pc, Of, RowsGrow, BatchCount
<1> QED
  BY <1>1, <1>2 DEF BatchesOK, SoundSends

(* No step removes a row or a chord, or changes its place.                 *)
LEMMA GrowStep == ASSUME Inv, [Next]_vars  PROVE RowsGrow /\ ChordsGrow
<1>1. rows' = rows => RowsGrow
  BY DEF RowsGrow, RowsOf
<1>2. chords' = chords => ChordsGrow
  BY DEF ChordsGrow
<1>3. CASE UNCHANGED vars
  BY <1>1, <1>2, <1>3 DEF vars
<1>4. ASSUME NEW w \in Workers, CreateBatchRow(w) \/ JoinStage(w)
      PROVE  RowsGrow /\ ChordsGrow
  <2>1. chords' = chords
    BY <1>4, CreateBatchRowFacts, JoinStageFacts
  <2>2. \E r : Adds(r)
    BY <1>4, CreateBatchRowFacts, JoinStageFacts
  <2> QED
    BY <1>2, <2>1, <2>2, AddedFacts DEF RowsGrow
<1>5. ASSUME NEW w \in Workers, LoadBatch(w) \/ RunSucceeds(w) \/ FailRow(w)
      PROVE  RowsGrow /\ ChordsGrow
  <2>1. chords' = chords /\ RowsStay
    BY <1>5, LoadBatchFacts, RunSucceedsFacts, FailRowFacts
  <2> QED
    BY <1>2, <2>1, RowsStayFacts DEF RowsGrow
<1>6. ASSUME NEW w \in Workers, StartChord(w)  PROVE RowsGrow /\ ChordsGrow
  <2>1. rows' = rows
    BY <1>6, StartChordFacts
  <2>2. CASE chords' = chords
    BY <1>1, <1>2, <2>1, <2>2
  <2>3. CASE chords' # chords
    <3>1. /\ DOMAIN chords' = 1..(Len(chords) + 1) /\ Len(chords) \in Nat
          /\ DOMAIN chords = 1..Len(chords)
          /\ \A c \in DOMAIN chords : chords'[c] = chords[c]
      BY <1>6, <2>3, StartChordFacts
    <3>2. ChordsGrow
      BY <3>1 DEF ChordsGrow
    <3> QED
      BY <1>1, <2>1, <3>2
  <2> QED
    BY <2>2, <2>3
<1>7. ASSUME NEW w \in Workers, ReportPart(w)  PROVE RowsGrow /\ ChordsGrow
  BY <1>1, <1>7, ReportPartFacts DEF ChordsGrow
<1>8. ASSUME NEW w \in Workers, TakeTask(w) \/ Acknowledge(w) \/ SetStage(w) \/ PlanStage(w)
      PROVE RowsGrow /\ ChordsGrow
  BY <1>1, <1>2, <1>8 DEF TakeTask, Acknowledge, SetStage, PlanStage
<1>9. ASSUME NEW w \in Workers, RunTransient(w) \/ BumpTransient(w) \/ BumpCompleted(w)
                                \/ BumpFailed(w) \/ WorkerLost(w)
      PROVE RowsGrow /\ ChordsGrow
  BY <1>1, <1>2, <1>9 DEF RunTransient, BumpTransient, BumpCompleted, BumpFailed, WorkerLost
<1>10. ASSUME NEW w \in Workers, DecideFailed(w) \/ SendFailed(w) \/ SendNext(w)
                                 \/ MarkCompleted(w) \/ MarkFailed(w)
      PROVE RowsGrow /\ ChordsGrow
  BY <1>1, <1>2, <1>10 DEF DecideFailed, SendFailed, SendNext, MarkCompleted, MarkFailed
<1>11. ASSUME AdvancePipeline  PROVE RowsGrow /\ ChordsGrow
  BY <1>1, <1>2, <1>11 DEF AdvancePipeline
<1> QED
  BY <1>3, <1>4, <1>5, <1>6, <1>7, <1>8, <1>9, <1>10, <1>11 DEF Next, TaskStep

(* Every batch in the system has its chord and its row.                    *)
LEMMA BatchesStep == ASSUME Inv, [Next]_vars  PROVE BatchesOK'
<1>a. /\ BatchesOK /\ RowsGrow /\ ChordsGrow
      /\ chords' = chords => \A c \in DOMAIN chords' : chords'[c].done \subseteq 1..chords'[c].size
  BY GrowStep DEF Inv, BatchesOK
<1>b. ASSUME NEW w \in Workers, chords' = chords, Tasks' \subseteq Tasks,
             \A v \in Workers \ {w} : worker'[v] = worker[v], Creating(w)'
      PROVE  BatchesOK'
  <2>1. \A v \in Workers : worker'[v] = worker[v] \/ Creating(v)'
    BY <1>b
  <2>2. SoundSends({})
    BY <1>b DEF SoundSends
  <2> QED
    BY <1>a, <1>b, <2>1, <2>2, BatchesFrame
<1>c. ASSUME NEW t, t.kind # "batch", NEW w \in Workers, chords' = chords,
             Tasks' \subseteq Tasks \cup {t},
             \A v \in Workers \ {w} : worker'[v] = worker[v], Pc(w)' # "rows"
      PROVE  BatchesOK'
  <2>1. \A v \in Workers : worker'[v] = worker[v] \/ Creating(v)'
    BY <1>c DEF Creating, At
  <2>2. SoundSends({t})
    BY <1>c DEF SoundSends
  <2> QED
    BY <1>a, <1>c, <2>1, <2>2, BatchesFrame
<1>d. \A w \in Workers : Pc(w)' # "rows" => Creating(w)'
  BY DEF Creating, At
<1>0. CASE UNCHANGED vars
  <2>1. SoundSends({}) /\ chords' = chords /\ worker' = worker
    BY <1>0 DEF vars, Tasks, Pc, Of, SoundSends
  <2> QED
    BY <1>a, <2>1, BatchesFrame
<1>1. ASSUME NEW w \in Workers, TakeTask(w)  PROVE BatchesOK'
  <2>1. Of(w)' \in TaskSet /\ Tasks' \subseteq Tasks
    BY <1>1, TasksTake
  <2>2. Pc(w)' # "rows"
    BY <1>1, <2>1, TakeTaskFacts DEF Entry, TaskSet
  <2> QED
    BY <1>b, <1>d, <1>1, <2>1, <2>2, TakeTaskFacts
<1>2. ASSUME NEW w \in Workers, Acknowledge(w) \/ WorkerLost(w)  PROVE BatchesOK'
  <2>1. Tasks' \subseteq Tasks
    BY <1>2, SentTasks DEF Sends
  <2>2. Pc(w)' # "rows"
    BY <1>2, AcknowledgeFacts, WorkerLostFacts, IdleFacts DEF Pc
  <2> QED
    BY <1>b, <1>d, <1>2, <2>1, <2>2, AcknowledgeFacts, WorkerLostFacts
<1>3. ASSUME NEW w \in Workers, SetStage(w)  PROVE BatchesOK'
  <2>1. Tasks' \subseteq Tasks
    BY <1>3, SentTasks DEF Sends
  <2> QED
    BY <1>b, <1>d, <1>3, <2>1, SetStageFacts DEF Moves
<1>4. ASSUME NEW w \in Workers, PlanStage(w)  PROVE BatchesOK'
  <2>1. Tasks' \subseteq Tasks
    BY <1>4, SentTasks DEF Sends
  <2>2. worker'[w].next = 1 /\ worker'[w].ids \in SUBSET Items /\ Of(w)'.stage \in AllStages
    <3>1. /\ worker'[w].next = 1 /\ worker'[w].ids = PlanSource(Of(w).stage)
          /\ Of(w)' = Of(w)
      BY <1>4, PlanStageFacts DEF Moves
    <3>2. Of(w).stage \in AllStages /\ PlanSource(Of(w).stage) \in SUBSET Items
      BY RowFacts DEF Inv, Types, Of, WorkerSet, TaskSet, PlanSource
    <3> QED
      BY <3>1, <3>2
  <2>3. BatchCount(Of(w)'.stage, worker'[w].ids) \in Nat
    BY <2>2, PlanFacts
  <2>4. Creating(w)'
    BY <2>2, <2>3 DEF Creating, BatchCount
  <2> QED
    BY <1>b, <1>4, <2>1, <2>4, PlanStageFacts DEF Moves
<1>5. ASSUME NEW w \in Workers, CreateBatchRow(w)  PROVE BatchesOK'
  <2>0. PICK k, i, S : k = Of(w).stage /\ i = worker[w].next /\ S = worker[w].ids
    OBVIOUS
  <2>1. Tasks' \subseteq Tasks
    BY <1>5, SentTasks DEF Sends
  <2>2. /\ Of(w)'.stage = k /\ worker'[w].next = i + 1 /\ worker'[w].ids = S
        /\ i \in 1..BatchCount(k, S) /\ At(w, "rows")
    BY <1>5, <2>0, CreateBatchRowFacts DEF Moves, At
  <2>3. RowsOf(k, i)' # {}
    <3>1. /\ Adds(NewBatchRow(w))
          /\ NewBatchRow(w).stage = k /\ NewBatchRow(w).batch = i
      BY <1>5, <2>0, CreateBatchRowFacts
    <3>2. PICK r : r = NewBatchRow(w)
      OBVIOUS
    <3>3. RowsOf(r.stage, r.batch)' # {}
      BY <3>1, <3>2, AddedFacts
    <3> QED
      BY <3>1, <3>2, <3>3
  <2>4. k \in AllStages /\ S \in SUBSET Items
    BY <2>0 DEF Inv, Types, Of, WorkerSet, TaskSet
  <2>5. BatchCount(k, S) \in Nat
    BY <2>4, PlanFacts
  <2>6. \A h \in 1..i : RowsOf(k, h)' # {}
    <3>1. Creating(w)
      BY DEF Inv, BatchesOK
    <3>2. \A h \in 1..(i - 1) : RowsOf(k, h)' # {}
      BY <1>a, <2>0, <2>2, <3>1 DEF Creating, RowsGrow
    <3> QED
      BY <2>2, <2>3, <2>5, <3>2
  <2>7. Creating(w)'
    BY <2>2, <2>5, <2>6 DEF Creating, BatchCount
  <2> QED
    BY <1>b, <1>5, <2>1, <2>7, CreateBatchRowFacts DEF Moves
<1>6. ASSUME NEW w \in Workers, StartChord(w)  PROVE BatchesOK'
  <2>0. PICK k, n, c, S : /\ k = Of(w).stage /\ n = BatchCount(Of(w).stage, worker[w].ids)
                          /\ c = Len(chords) + 1
                          /\ S = ChordBatches(w) \cup {FinalizeTask(Of(w).stage, 0)}
    OBVIOUS
  <2>1. Tasks' \subseteq Tasks \cup S /\ n \in Nat
    BY <1>6, <2>0, SentTasks, StartChordFacts DEF Sends
  <2>2. \A v \in Workers : worker'[v] = worker[v] \/ Creating(v)'
    BY <1>d, <1>6, StartChordFacts DEF Moves
  <2>3. k \in AllStages /\ FinalizeTask(k, 0).kind # "batch"
    BY <2>0, TaskFacts DEF Inv, Types, Of, WorkerSet, TaskSet
  <2>4. \A i \in 1..n : RowsOf(k, i)' # {}
    <3>1. worker[w].next = n + 1 /\ At(w, "rows") /\ Creating(w)
      BY <1>6, <2>0, StartChordFacts DEF Moves, At, Inv, BatchesOK
    <3>2. \A i \in 1..n : RowsOf(k, i) # {}
      BY <2>0, <2>1, <3>1 DEF Creating
    <3> QED
      BY <1>a, <3>2 DEF RowsGrow
  <2>5. S = {BatchTask(k, c, i, 0) : i \in 1..n} \cup {FinalizeTask(k, 0)}
    BY <2>0 DEF ChordBatches
  <2>6. CASE n = 0
    <3>1. chords' = chords
      BY <1>6, <2>0, <2>6, StartChordFacts
    <3>2. \A t \in S : t.kind # "batch"
      BY <2>3, <2>5, <2>6
    <3>3. SoundSends(S)
      BY <2>1, <3>2 DEF SoundSends
    <3> QED
      BY <1>a, <2>2, <3>1, <3>3, BatchesFrame
  <2>7. CASE n # 0
    <3>1. /\ DOMAIN chords' = 1..c /\ DOMAIN chords = 1..Len(chords) /\ Len(chords) \in Nat
          /\ \A d \in DOMAIN chords : chords'[d] = chords[d]
          /\ chords'[c] = [size |-> n, done |-> {}]
      BY <1>6, <2>0, <2>7, StartChordFacts
    <3>2. \A d \in DOMAIN chords' : chords'[d].done \subseteq 1..chords'[d].size
      BY <1>a, <2>0, <3>1 DEF BatchesOK
    <3>3. ASSUME NEW i \in 1..n, NEW t, t = BatchTask(k, c, i, 0)
          PROVE  HasChord(t)' /\ HasRow(t)'
      <4>1. t.stage = k /\ t.batch = i /\ t.chord = c
        BY <3>3 DEF BatchTask, Task
      <4>2. c \in DOMAIN chords' /\ chords'[c].size = n
        BY <2>0, <3>1
      <4> QED
        BY <2>4, <4>1, <4>2 DEF HasChord, HasRow
    <3>4. \A t \in S : t.kind = "batch" => HasChord(t)' /\ HasRow(t)'
      BY <2>3, <2>5, <3>3
    <3>5. SoundSends(S)
      BY <2>1, <3>4 DEF SoundSends
    <3> QED
      BY <1>a, <2>2, <3>2, <3>5, BatchesFrame
  <2> QED
    BY <2>6, <2>7
<1>7. ASSUME NEW w \in Workers, LoadBatch(w) \/ RunSucceeds(w) \/ FailRow(w)
      PROVE  BatchesOK'
  <2>1. Tasks' \subseteq Tasks
    BY <1>7, SentTasks DEF Sends
  <2>2. /\ chords' = chords /\ Pc(w)' # "rows"
        /\ \A v \in Workers \ {w} : worker'[v] = worker[v]
    BY <1>7, LoadBatchFacts, RunSucceedsFacts, FailRowFacts DEF Moves
  <2> QED
    BY <1>b, <1>d, <2>1, <2>2
<1>8. ASSUME NEW w \in Workers, RunTransient(w) \/ BumpTransient(w)  PROVE BatchesOK'
  <2>1. RetryOrFail(w) /\ Pc(w) \in BatchPcs /\ Pc(w) # "idle" /\ chords' = chords
    BY <1>8 DEF RunTransient, BumpTransient, At, BatchPcs
  <2>2. \A v \in Workers \ {w} : worker'[v] = worker[v]
    BY <2>1, RetryFacts DEF Moves
  <2>3. Pc(w)' # "rows"
    BY <2>1, RetryFacts DEF Moves
  <2>4. CASE MayRetry(Of(w)) /\ msgs' = msgs (+) One(Again(Of(w)))
    <3>1. Tasks' \subseteq Tasks \cup {Again(Of(w))}
      BY <1>8, SentTasks DEF Sends
    <3>2. Of(w) \in TaskSet /\ Of(w) \in Tasks
      BY <2>1, Held DEF Inv, Types, Of, WorkerSet
    <3>3. HasChord(Of(w)) /\ HasRow(Of(w)) /\ Of(w).kind = "batch"
      BY <2>1, <3>2, BatchRowExists DEF Inv, BatchesOK
    <3>4. PICK t : t = Again(Of(w))
      OBVIOUS
    <3>5. HasChord(t)' /\ HasRow(t)'
      BY <1>a, <2>1, <2>4, <3>2, <3>3, <3>4, AgainFacts DEF HasChord, HasRow, RowsGrow
    <3>6. \A v \in Workers : worker'[v] = worker[v] \/ Creating(v)'
      BY <1>d, <2>2, <2>3
    <3>7. SoundSends({t})
      BY <3>1, <3>4, <3>5 DEF SoundSends
    <3> QED
      BY <1>a, <2>1, <3>6, <3>7, BatchesFrame
  <2>5. CASE msgs' = msgs
    <3>1. Works(w)
      BY <2>1, RetryFacts DEF Works, Moves
    <3>2. Tasks' \subseteq Tasks \cup {}
      BY <2>5, <3>1, TasksMove DEF Works
    <3> QED
      BY <1>b, <1>d, <2>1, <2>2, <2>3, <3>2
  <2> QED
    BY <2>1, <2>4, <2>5, RetryFacts
<1>9. ASSUME NEW w \in Workers, BumpCompleted(w) \/ BumpFailed(w)  PROVE BatchesOK'
  <2>1. Tasks' \subseteq Tasks
    BY <1>9, SentTasks DEF Sends
  <2> QED
    BY <1>b, <1>d, <1>9, <2>1, BumpFacts DEF Moves
<1>10. ASSUME NEW w \in Workers, ReportPart(w)  PROVE BatchesOK'
  <2> DEFINE t == FinalizeTask(Of(w).stage, Of(w).chord)
  <2>1. Tasks' \subseteq Tasks \cup {t}
    BY <1>10, SentTasks DEF Sends
  <2>2. t.kind # "batch"
    BY DEF FinalizeTask, Task
  <2>3. \A v \in Workers : worker'[v] = worker[v] \/ Creating(v)'
    BY <1>d, <1>10, ReportPartFacts DEF Moves
  <2>4. Of(w).batch \in 1..chords[Of(w).chord].size
    BY <1>10, BatchRowExists DEF Inv, ReportPart, At, BatchPcs
  <2>5. \A c \in DOMAIN chords' : chords'[c].done \subseteq 1..chords'[c].size
    <3>1. \A c \in DOMAIN chords : chords[c].done \subseteq 1..chords[c].size
      BY <1>a DEF BatchesOK
    <3> QED
      BY <1>10, <2>4, <3>1, ReportPartFacts
  <2>6. PICK S : S = {FinalizeTask(Of(w).stage, Of(w).chord)}
    OBVIOUS
  <2>7. SoundSends(S)
    BY <2>1, <2>2, <2>6 DEF SoundSends
  <2> QED
    BY <1>a, <2>3, <2>5, <2>7, BatchesFrame
<1>11. ASSUME NEW w \in Workers, JoinStage(w) \/ DecideFailed(w)  PROVE BatchesOK'
  <2>1. Tasks' \subseteq Tasks
    BY <1>11, SentTasks DEF Sends
  <2> QED
    BY <1>b, <1>d, <1>11, <2>1, JoinStageFacts, DecideFailedFacts DEF Moves
<1>12. ASSUME NEW w \in Workers, SendFailed(w)  PROVE BatchesOK'
  <2>1. Tasks' \subseteq Tasks \cup {FailedTask} /\ FailedTask.kind # "batch"
    BY <1>12, SentTasks, TaskFacts DEF Sends
  <2> QED
    BY <1>c, <1>12, <2>1, SendFacts DEF Moves
<1>13. ASSUME NEW w \in Workers, SendNext(w)  PROVE BatchesOK'
  <2>1. /\ Tasks' \subseteq Tasks \cup {NextTask(Of(w).stage)}
        /\ NextTask(Of(w).stage).kind # "batch"
    BY <1>13, SentTasks DEF Sends, NextTask, DispatchTask, CompleteTask, Task
  <2> QED
    BY <1>c, <1>13, <2>1, SendFacts DEF Moves
<1>14. ASSUME NEW w \in Workers, MarkCompleted(w) \/ MarkFailed(w)  PROVE BatchesOK'
  <2>1. Tasks' \subseteq Tasks
    BY <1>14, SentTasks DEF Sends
  <2> QED
    BY <1>b, <1>d, <1>14, <2>1, MarkFacts DEF Moves
<1>15. ASSUME AdvancePipeline  PROVE BatchesOK'
  <2>1. worker' = worker /\ chords' = chords /\ msgs' = msgs (+) One(DispatchTask(current))
    BY <1>15 DEF AdvancePipeline
  <2>2. Tasks' \subseteq Tasks \cup {DispatchTask(current)}
    BY <2>1, BagSend DEF Inv, Types, Tasks, Pc, Of
  <2>3. DispatchTask(current).kind # "batch"
    BY DEF DispatchTask, Task
  <2>4. PICK S : S = {DispatchTask(current)}
    OBVIOUS
  <2>5. SoundSends(S)
    BY <2>2, <2>3, <2>4 DEF SoundSends
  <2> QED
    BY <1>a, <2>1, <2>5, BatchesFrame
<1> QED
  BY <1>0, <1>1, <1>2, <1>3, <1>4, <1>5, <1>6, <1>7, <1>8, <1>9, <1>10, <1>11, <1>12, <1>13,
     <1>14, <1>15 DEF Next, TaskStep

(* The inductive invariant holds at first, ...                             *)
LEMMA InvInit == Init => Inv
<1> SUFFICES ASSUME Init  PROVE Inv
  OBVIOUS
<1>1. Types
  BY TypesInit
<1>2. \A w \in Workers : Pc(w) = "idle"
  BY IdleFacts DEF Init, Pc
<1>3. KindsOK
  BY <1>2 DEF KindsOK, Fits, DispatchPcs, BatchPcs, FinalizePcs
<1>4. Tasks = {DispatchTask(1)} /\ DispatchTask(1).kind = "dispatch"
  BY <1>2 DEF Init, One, SetToBag, BagToSet, Tasks, DispatchTask, Task
<1>5. BatchesOK
  BY <1>2, <1>4 DEF BatchesOK, Creating, At, Init
<1> QED
  BY <1>1, <1>3, <1>5 DEF Inv

(* ... after every step, ...                                               *)
LEMMA InvStep == Inv /\ [Next]_vars => Inv'
BY TypesStep, KindsStep, BatchesStep DEF Inv

(* ... and so always.                                                      *)
LEMMA InvHolds == Spec => []Inv
BY InvInit, InvStep, PTL DEF Spec

(* Every variable has its type, for any faults: a message carries a stage  *)
(* of the registry and a count of tries within the limit, and a chord no   *)
(* part it does not have.                                                  *)
THEOREM TypesHold == Spec => []TypeOK
<1>1. Inv => TypeOK
  <2> SUFFICES ASSUME Inv  PROVE TypeOK
    OBVIOUS
  <2>1. \A j \in DOMAIN rows : rows[j] \in RowSet
    BY RowFacts DEF Inv, Types
  <2>2. \A w \in Workers : worker[w] \in WorkerSet
    BY DEF Inv, Types
  <2> QED
    BY <2>1, <2>2
       DEF TypeOK, Inv, Types, BatchesOK, RowSet, RowStatus, WorkerSet, TotalsSet, Of
<1> QED
  BY <1>1, InvHolds, PTL
-----------------------------------------------------------------------------

\* The tasks of S are the new ones, and the stages they dispatch have their input.
ReadySends(S) == /\ Tasks' \subseteq Tasks \cup S
                 /\ \A t \in S : t.kind = "dispatch" => Ready(t.stage)'

(* What has to be shown of a step: the dispatches it sends, and where it   *)
(* leaves the worker.                                                      *)
LEMMA InputFrame ==
  ASSUME InputOK, RowsGrow, Ready(current)', NEW S, ReadySends(S),
         \A k \in Stages : BatchRows(k)' \subseteq BatchRows(k) \/ Ready(k)',
         \A v \in Workers : worker'[v] = worker[v] \/ HasResult(v)'
  PROVE  InputOK'
<1>1. \A k : Ready(k) => Ready(k)'
  BY DEF Ready, RowsGrow
<1>2. \A t \in Tasks' : t.kind = "dispatch" => Ready(t.stage)'
  BY <1>1 DEF InputOK, ReadySends
<1>3. \A k \in Stages : BatchRows(k)' # {} => Ready(k)'
  BY <1>1 DEF InputOK
<1>4. ASSUME NEW v \in Workers, worker'[v] = worker[v]  PROVE HasResult(v)'
  BY <1>4 DEF InputOK, RowsGrow, Pc, Of, HasResult
<1> QED
  BY <1>2, <1>3, <1>4 DEF InputOK

(* A stage is dispatched, whoever sends it and however often, only after   *)
(* the one before it has been joined.                                      *)
LEMMA InputStep == ASSUME Inv, InputOK, [Next]_vars  PROVE InputOK'
<1>a. /\ RowsGrow
      /\ \A k : Ready(k) => Ready(k)'
      /\ rows' = rows => \A k : BatchRows(k)' = BatchRows(k)
      /\ current' = current => Ready(current)'
  <2>1. RowsGrow
    BY GrowStep
  <2>2. \A k : Ready(k) => Ready(k)'
    BY <2>1 DEF Ready, RowsGrow
  <2>3. rows' = rows => \A k : BatchRows(k)' = BatchRows(k)
    BY DEF BatchRows
  <2>4. current' = current => Ready(current)'
    BY <2>1 DEF Ready, RowsGrow, InputOK
  <2> QED
    BY <2>1, <2>2, <2>3, <2>4
<1>b. ASSUME NEW w \in Workers, Tasks' \subseteq Tasks, current' = current,
             \A v \in Workers \ {w} : worker'[v] = worker[v], HasResult(w)',
             \A k \in Stages : BatchRows(k)' = BatchRows(k)
      PROVE  InputOK'
  <2>1. ReadySends({})
    BY <1>b DEF ReadySends
  <2>2. \A v \in Workers : worker'[v] = worker[v] \/ HasResult(v)'
    BY <1>b
  <2> QED
    BY <1>a, <1>b, <2>1, <2>2, InputFrame
<1>c. ASSUME NEW w \in Workers, NEW t, Tasks' \subseteq Tasks \cup {t}, current' = current,
             t.kind = "dispatch" => Ready(t.stage)',
             \A v \in Workers \ {w} : worker'[v] = worker[v], HasResult(w)', rows' = rows
      PROVE  InputOK'
  <2>1. ReadySends({t})
    BY <1>c DEF ReadySends
  <2>2. \A v \in Workers : worker'[v] = worker[v] \/ HasResult(v)'
    BY <1>c
  <2> QED
    BY <1>a, <1>c, <2>1, <2>2, InputFrame
<1>d. \A w \in Workers : Pc(w)' \notin {"decide", "send_failed"} => HasResult(w)'
  BY DEF HasResult
<1>0. CASE UNCHANGED vars
  <2>1. ReadySends({}) /\ rows' = rows /\ worker' = worker /\ current' = current
    BY <1>0 DEF vars, Tasks, Pc, Of, ReadySends
  <2> QED
    BY <1>a, <2>1, InputFrame
<1>1. ASSUME NEW w \in Workers, TakeTask(w)  PROVE InputOK'
  <2>1. Of(w)' \in TaskSet /\ Tasks' \subseteq Tasks
    BY <1>1, TasksTake
  <2>2. Pc(w)' \notin {"decide", "send_failed"}
    BY <1>1, <2>1, TakeTaskFacts DEF Entry, TaskSet
  <2> QED
    BY <1>a, <1>b, <1>d, <1>1, <2>1, <2>2, TakeTaskFacts
<1>2. ASSUME NEW w \in Workers, Acknowledge(w) \/ WorkerLost(w)  PROVE InputOK'
  <2>1. Tasks' \subseteq Tasks
    BY <1>2, SentTasks DEF Sends
  <2>2. Pc(w)' = "idle"
    BY <1>2, AcknowledgeFacts, WorkerLostFacts, IdleFacts DEF Pc
  <2> QED
    BY <1>a, <1>b, <1>d, <1>2, <2>1, <2>2, AcknowledgeFacts, WorkerLostFacts
<1>3. ASSUME NEW w \in Workers, SetStage(w)  PROVE InputOK'
  <2>1. Tasks' \subseteq Tasks
    BY <1>3, SentTasks DEF Sends
  <2>2. Of(w) \in Tasks /\ Of(w).kind = "dispatch"
    BY <1>3, Held DEF SetStage, At, Inv, KindsOK, Fits, DispatchPcs
  <2>3. Ready(current)'
    <3>1. PICK k : k = Of(w).stage
      OBVIOUS
    <3>2. Ready(k)' /\ current' = k
      BY <1>a, <1>3, <2>2, <3>1, SetStageFacts DEF InputOK
    <3> QED
      BY <3>2 DEF Ready
  <2>4. ReadySends({})
    BY <2>1 DEF ReadySends
  <2>5. \A v \in Workers : worker'[v] = worker[v] \/ HasResult(v)'
    BY <1>d, <1>3, SetStageFacts DEF Moves
  <2>6. rows' = rows
    BY <1>3, SetStageFacts
  <2> QED
    BY <1>a, <2>3, <2>4, <2>5, <2>6, InputFrame
<1>4. ASSUME NEW w \in Workers, PlanStage(w)  PROVE InputOK'
  <2>1. Tasks' \subseteq Tasks
    BY <1>4, SentTasks DEF Sends
  <2> QED
    BY <1>a, <1>b, <1>d, <1>4, <2>1, PlanStageFacts DEF Moves
<1>5. ASSUME NEW w \in Workers, CreateBatchRow(w)  PROVE InputOK'
  <2>1. Tasks' \subseteq Tasks
    BY <1>5, SentTasks DEF Sends
  <2>2. Of(w) \in Tasks /\ Of(w).kind = "dispatch"
    BY <1>5, Held DEF CreateBatchRow, At, Inv, KindsOK, Fits, DispatchPcs
  <2>3. \A k \in Stages : BatchRows(k)' \subseteq BatchRows(k) \/ Ready(k)'
    <3>1. PICK r : r = NewBatchRow(w)
      OBVIOUS
    <3>2. Adds(r) /\ r.stage = Of(w).stage
      BY <1>5, <3>1, CreateBatchRowFacts
    <3>3. \A k : k # r.stage => BatchRows(k)' = BatchRows(k)
      BY <3>2, AddedFacts
    <3>4. Ready(r.stage)'
      BY <1>a, <2>2, <3>2 DEF InputOK
    <3> QED
      BY <3>3, <3>4
  <2>4. ReadySends({})
    BY <2>1 DEF ReadySends
  <2>5. \A v \in Workers : worker'[v] = worker[v] \/ HasResult(v)'
    BY <1>d, <1>5, CreateBatchRowFacts DEF Moves
  <2>6. current' = current
    BY <1>5, CreateBatchRowFacts
  <2> QED
    BY <1>a, <2>3, <2>4, <2>5, <2>6, InputFrame
<1>6. ASSUME NEW w \in Workers, StartChord(w)  PROVE InputOK'
  <2>1. PICK S : S = ChordBatches(w) \cup {FinalizeTask(Of(w).stage, 0)}
    OBVIOUS
  <2>2. \A t \in S : t.kind # "dispatch"
    BY <2>1 DEF ChordBatches, BatchTask, FinalizeTask, Task
  <2>3. ReadySends(S)
    BY <1>6, <2>1, <2>2, SentTasks DEF Sends, ReadySends
  <2>4. \A v \in Workers : worker'[v] = worker[v] \/ HasResult(v)'
    BY <1>d, <1>6, StartChordFacts DEF Moves
  <2>5. rows' = rows /\ current' = current
    BY <1>6, StartChordFacts
  <2> QED
    BY <1>a, <2>3, <2>4, <2>5, InputFrame
<1>7. ASSUME NEW w \in Workers, LoadBatch(w) \/ RunSucceeds(w) \/ FailRow(w)
      PROVE  InputOK'
  <2>1. Tasks' \subseteq Tasks
    BY <1>7, SentTasks DEF Sends
  <2>2. /\ current' = current /\ Pc(w)' \notin {"decide", "send_failed"} /\ RowsStay
        /\ \A v \in Workers \ {w} : worker'[v] = worker[v]
    BY <1>7, LoadBatchFacts, RunSucceedsFacts, FailRowFacts DEF Moves
  <2> QED
    BY <1>b, <1>d, <2>1, <2>2, RowsStayFacts
<1>8. ASSUME NEW w \in Workers, RunTransient(w) \/ BumpTransient(w)  PROVE InputOK'
  <2>1. RetryOrFail(w) /\ Pc(w) \in BatchPcs /\ rows' = rows /\ current' = current
    BY <1>8 DEF RunTransient, BumpTransient, At, BatchPcs
  <2>2. /\ \A v \in Workers \ {w} : worker'[v] = worker[v]
        /\ Pc(w)' \notin {"decide", "send_failed"}
    BY <2>1, RetryFacts DEF Moves
  <2>3. PICK t : t = Again(Of(w))
    OBVIOUS
  <2>4. t.kind # "dispatch"
    <3>1. Of(w).kind = "batch"
      BY <2>1 DEF Inv, KindsOK, Fits
    <3> QED
      BY <2>3, <3>1 DEF Again, Inv, Types, Of, WorkerSet, TaskSet
  <2>5. Tasks' \subseteq Tasks \cup {t}
    BY <1>8, <2>3, SentTasks DEF Sends
  <2> QED
    BY <1>c, <1>d, <2>1, <2>2, <2>4, <2>5
<1>9. ASSUME NEW w \in Workers, BumpCompleted(w) \/ BumpFailed(w)  PROVE InputOK'
  <2>1. Tasks' \subseteq Tasks
    BY <1>9, SentTasks DEF Sends
  <2> QED
    BY <1>a, <1>b, <1>d, <1>9, <2>1, BumpFacts DEF Moves
<1>10. ASSUME NEW w \in Workers, ReportPart(w)  PROVE InputOK'
  <2>1. PICK t : t = FinalizeTask(Of(w).stage, Of(w).chord)
    OBVIOUS
  <2>2. Tasks' \subseteq Tasks \cup {t}
    BY <1>10, <2>1, SentTasks DEF Sends
  <2>3. t.kind # "dispatch"
    BY <2>1 DEF FinalizeTask, Task
  <2> QED
    BY <1>c, <1>d, <1>10, <2>2, <2>3, ReportPartFacts DEF Moves
<1>11. ASSUME NEW w \in Workers, JoinStage(w)  PROVE InputOK'
  <2>1. Tasks' \subseteq Tasks
    BY <1>11, SentTasks DEF Sends
  <2>2. PICK r : r = JoinRow(Of(w).stage)
    OBVIOUS
  <2>3. Adds(r) /\ r.stage = Of(w).stage /\ r.batch = 0 /\ Of(w)' = Of(w)
    BY <1>11, <2>2, JoinStageFacts DEF Moves
  <2>4. /\ \A k : BatchRows(k)' = BatchRows(k)
        /\ RowsOf(r.stage, r.batch)' # {}
    BY <2>3, AddedFacts
  <2>5. HasResult(w)'
    BY <2>3, <2>4 DEF HasResult
  <2> QED
    BY <1>b, <1>11, <2>1, <2>4, <2>5, JoinStageFacts DEF Moves
<1>12. ASSUME NEW w \in Workers, DecideFailed(w)  PROVE InputOK'
  <2>1. Tasks' \subseteq Tasks
    BY <1>12, SentTasks DEF Sends
  <2>2. HasResult(w)'
    BY <1>a, <1>12, DecideFailedFacts DEF Moves, HasResult, InputOK, RowsGrow
  <2> QED
    BY <1>a, <1>b, <1>12, <2>1, <2>2, DecideFailedFacts DEF Moves
<1>13. ASSUME NEW w \in Workers, SendFailed(w)  PROVE InputOK'
  <2>1. Tasks' \subseteq Tasks \cup {FailedTask} /\ FailedTask.kind # "dispatch"
    BY <1>13, SentTasks, TaskFacts DEF Sends
  <2> QED
    BY <1>c, <1>d, <1>13, <2>1, SendFacts DEF Moves
<1>14. ASSUME NEW w \in Workers, SendNext(w)  PROVE InputOK'
  <2>1. PICK t, k : t = NextTask(Of(w).stage) /\ k = Of(w).stage
    OBVIOUS
  <2>2. Tasks' \subseteq Tasks \cup {t}
    BY <1>14, <2>1, SentTasks DEF Sends
  <2>3. k \in AllStages /\ Pc(w) = "decide"
    BY <1>14, <2>1 DEF SendNext, At, Inv, Types, Of, WorkerSet, TaskSet
  <2>4. RowsOf(k, 0)' # {}
    BY <1>a, <2>1, <2>3 DEF InputOK, HasResult, RowsGrow
  <2>5. t.kind = "dispatch" => t.stage = k + 1
    BY <2>1 DEF NextTask, DispatchTask, CompleteTask, Task
  <2>6. Ready(k + 1)'
    <3>1. (k + 1) - 1 = k
      BY <2>3, StageFacts
    <3> QED
      BY <2>4, <3>1 DEF Ready
  <2>7. t.kind = "dispatch" => Ready(t.stage)'
    BY <2>5, <2>6
  <2> QED
    BY <1>c, <1>d, <1>14, <2>2, <2>7, SendFacts DEF Moves
<1>15. ASSUME NEW w \in Workers, MarkCompleted(w)  PROVE InputOK'
  <2>1. Tasks' \subseteq Tasks
    BY <1>15, SentTasks DEF Sends
  <2>2. current' = NStages + 1 /\ rows' = rows
    BY <1>15 DEF MarkCompleted
  <2>3. Ready(current)'
    BY <2>2, StageFacts DEF Ready, Stages
  <2>4. ReadySends({})
    BY <2>1 DEF ReadySends
  <2>5. \A v \in Workers : worker'[v] = worker[v] \/ HasResult(v)'
    BY <1>d, <1>15, MarkFacts DEF Moves
  <2> QED
    BY <1>a, <2>2, <2>3, <2>4, <2>5, InputFrame
<1>16. ASSUME NEW w \in Workers, MarkFailed(w)  PROVE InputOK'
  <2>1. Tasks' \subseteq Tasks
    BY <1>16, SentTasks DEF Sends
  <2>2. current' = current
    BY <1>16 DEF MarkFailed
  <2> QED
    BY <1>a, <1>b, <1>d, <1>16, <2>1, <2>2, MarkFacts DEF Moves
<1>17. ASSUME AdvancePipeline  PROVE InputOK'
  <2>1. PICK t, k : t = DispatchTask(k) /\ k = current
    OBVIOUS
  <2>2. worker' = worker /\ rows' = rows /\ current' = current /\ msgs' = msgs (+) One(t)
    BY <1>17, <2>1 DEF AdvancePipeline
  <2>3. Tasks' \subseteq Tasks \cup {t}
    BY <2>2, BagSend DEF Inv, Types, Tasks, Pc, Of
  <2>4. Ready(k)' /\ t.stage = k
    BY <1>a, <2>1 DEF InputOK, DispatchTask, Task
  <2>5. ReadySends({t})
    BY <2>3, <2>4 DEF ReadySends
  <2> QED
    BY <1>a, <2>2, <2>5, InputFrame
<1> QED
  BY <1>0, <1>1, <1>2, <1>3, <1>4, <1>5, <1>6, <1>7, <1>8, <1>9, <1>10, <1>11, <1>12, <1>13,
     <1>14, <1>15, <1>16, <1>17 DEF Next, TaskStep

(* The first stage reads the row the registration left.                    *)
LEMMA InputInit == Init => InputOK
<1> SUFFICES ASSUME Init  PROVE InputOK
  OBVIOUS
<1>1. \A w \in Workers : Pc(w) = "idle"
  BY IdleFacts DEF Init, Pc
<1>2. Tasks = {DispatchTask(1)} /\ DispatchTask(1).stage = 1
  BY <1>1 DEF Init, One, SetToBag, BagToSet, Tasks, DispatchTask, Task
<1>3. PICK docs \in SUBSET Items : rows = <<Row(0, 0, "completed", {}, docs)>>
  BY DEF Init
<1>4. 1 \in RowsOf(0, 0) /\ \A k : BatchRows(k) = {}
  BY <1>3 DEF RowsOf, BatchRows, Row
<1>5. Ready(1) /\ Ready(current)
  BY <1>4 DEF Init, Ready, Stages
<1> QED
  BY <1>1, <1>2, <1>4, <1>5 DEF InputOK, HasResult

(* A stage is dispatched or planned only after the stage before it has been*)
(* joined (tasks_v2.py, dispatch_stage and finalize_stage), for any number *)
(* of lost workers, failed commits and advance requests.                   *)
THEOREM StagesReadTheirInput == Spec => []InputIsJoined
<1>1. Init => Inv /\ InputOK
  BY InvInit, InputInit
<1>2. Inv /\ InputOK /\ [Next]_vars => (Inv /\ InputOK)'
  BY InvStep, InputStep
<1>3. Inv /\ InputOK => InputIsJoined
  <2>1. \A t : InSystem(t) => t \in Tasks
    BY DEF InSystem, Tasks, BagIn
  <2>2. \A k \in Stages : DispatchTask(k).kind = "dispatch" /\ DispatchTask(k).stage = k
    BY DEF DispatchTask, Task
  <2> QED
    BY <2>1, <2>2 DEF InputIsJoined, InputOK, Ready
<1> QED
  BY <1>1, <1>2, <1>3, PTL DEF Spec
-----------------------------------------------------------------------------
(* No worker is lost, and nobody advances the run.                         *)
LEMMA NoFaults ==
  ASSUME NoRedelivery, FaultsOK
  PROVE  ~AdvancePipeline /\ \A w \in Workers : ~WorkerLost(w)
BY DEF NoRedelivery, FaultsOK, AdvancePipeline, WorkerLost

(* The counters of faults are numbers.                                     *)
LEMMA FaultsStep == ASSUME FaultsOK, [Next]_vars  PROVE FaultsOK'
<1>1. CASE UNCHANGED vars
  BY <1>1 DEF vars, faults, FaultsOK
<1>2. ASSUME NEW w \in Workers, TaskStep(w)  PROVE FaultsOK'
  <2>1. UNCHANGED faults
    BY <1>2 DEF TaskStep, TakeTask, Acknowledge, SetStage, PlanStage, CreateBatchRow, StartChord,
       LoadBatch, RunSucceeds, RunTransient, BumpCompleted, FailRow, BumpFailed, ReportPart,
       JoinStage, DecideFailed, SendFailed, SendNext, MarkCompleted, MarkFailed
  <2> QED
    BY <2>1 DEF faults, FaultsOK
<1>3. ASSUME NEW w \in Workers, BumpTransient(w) \/ WorkerLost(w)  PROVE FaultsOK'
  BY <1>3 DEF BumpTransient, WorkerLost, FaultsOK
<1>4. ASSUME AdvancePipeline  PROVE FaultsOK'
  BY <1>4 DEF AdvancePipeline, FaultsOK
<1> QED
  BY <1>1, <1>2, <1>3, <1>4 DEF Next

\* Worker w has the only live task.
Alone(w) == BagToSet(msgs) = {} /\ \A v \in Workers \ {w} : ~Live(v)

(* A live task that is not a batch is the only one.                        *)
LEMMA OneAtATime ==
  ASSUME TokensOK, NEW w \in Workers, Live(w), Of(w).kind # "batch"
  PROVE  Alone(w)
BY DEF TokensOK, Alone, Together

\* No new task is live.
LEMMA TokensKeep ==
  ASSUME TokensOK, msgs' = msgs,
         \A v \in Workers : Live(v)' => Live(v) /\ Of(v)' = Of(v)
  PROVE  TokensOK'
<1>1. \A t \in BagToSet(msgs), v \in Workers : Live(v)' => Together(t, Of(v)')
  BY DEF TokensOK
<1>2. \A u, v \in Workers : u # v /\ Live(u)' /\ Live(v)' => Together(Of(u)', Of(v)')
  BY DEF TokensOK
<1> QED
  BY <1>1, <1>2 DEF TokensOK, Together

\* The messages of S take the place of the task of worker w.
Replaced(w, S) ==
  /\ BagToSet(msgs)' = BagToSet(msgs) \cup S
  /\ \A u \in BagToSet(msgs) : msgs'[u] = msgs[u]
  /\ \A u \in S : msgs'[u] = 1
  /\ \A t, u \in S : t # u => Together(t, u)
  /\ \A t \in S, u \in BagToSet(msgs) : Together(t, u)
  /\ \A t \in S, v \in Workers \ {w} : Live(v) => Together(t, Of(v))

(* The new messages may take the place of the task of the worker that sends*)
(* them.                                                                   *)
LEMMA TokensReplace ==
  ASSUME TokensOK, NEW w \in Workers, ~Live(w)', NEW S, Replaced(w, S),
         \A v \in Workers \ {w} : worker'[v] = worker[v]
  PROVE  TokensOK'
<1>1. \A v \in Workers : Live(v)' => v # w /\ Live(v) /\ Of(v)' = Of(v)
  BY DEF Live, Pc, Of
<1>2. \A t, u : Together(t, u) <=> Together(u, t)
  BY DEF Together
<1>3. \A t \in BagToSet(msgs)' : msgs'[t] = 1
  BY DEF Replaced, TokensOK
<1>4. \A t, u \in BagToSet(msgs)' : t # u => Together(t, u)
  BY <1>2 DEF Replaced, TokensOK
<1>5. \A t \in BagToSet(msgs)', v \in Workers : Live(v)' => Together(t, Of(v)')
  BY <1>1 DEF Replaced, TokensOK
<1>6. \A u, v \in Workers : u # v /\ Live(u)' /\ Live(v)' => Together(Of(u)', Of(v)')
  BY <1>1 DEF TokensOK
<1> QED
  BY <1>3, <1>4, <1>5, <1>6 DEF TokensOK, Together

(* A taken message is live in the hands of the worker instead.             *)
LEMMA TokensTake ==
  ASSUME Inv, TokensOK, NEW w \in Workers, TakeTask(w)
  PROVE  TokensOK'
<1>1. PICK t \in BagToSet(msgs) : t = Of(w)' /\ msgs' = msgs (-) One(t)
  BY TakeTaskFacts
<1>2. /\ BagToSet(msgs)' \subseteq BagToSet(msgs) \ {t}
      /\ \A u \in BagToSet(msgs)' : msgs'[u] = msgs[u]
  <2>1. msgs[t] = 1
    BY DEF TokensOK
  <2> QED
    BY <1>1, <2>1, BagTake DEF Inv, Types
<1>3. \A v \in Workers \ {w} : Live(v)' = Live(v) /\ Of(v)' = Of(v)
  BY TakeTaskFacts DEF Live, Pc, Of
<1>4. \A t1, t2 : Together(t1, t2) <=> Together(t2, t1)
  BY DEF Together
<1>5. \A u \in BagToSet(msgs)', v \in Workers : Live(v)' => Together(u, Of(v)')
  BY <1>1, <1>2, <1>3 DEF TokensOK
<1>6. \A u, v \in Workers : u # v /\ Live(u)' /\ Live(v)' => Together(Of(u)', Of(v)')
  BY <1>1, <1>3, <1>4 DEF TokensOK
<1>7. /\ \A u \in BagToSet(msgs)' : msgs'[u] = 1
      /\ \A t1, t2 \in BagToSet(msgs)' : t1 # t2 => Together(t1, t2)
  BY <1>2 DEF TokensOK
<1> QED
  BY <1>5, <1>6, <1>7 DEF TokensOK, Together

(* A live batch is one of the running stage, and the chord still waits for *)
(* it.                                                                     *)
LEMMA LiveBatching ==
  ASSUME Inv, PhaseOK, NEW t \in LiveTasks, t.kind = "batch"
  PROVE  Batching(t) /\ HasChord(t)
<1>1. CASE t \in BagToSet(msgs)
  BY <1>1 DEF PhaseOK, Waiting, Inv, BatchesOK, Tasks
<1>2. ASSUME NEW w \in Workers, Live(w), t = Of(w)  PROVE Batching(t) /\ HasChord(t)
  <2>1. Pc(w) \in BatchPcs
    BY <1>2 DEF Inv, KindsOK, Fits, Types, WorkerSet, Pcs, Live, Pc
  <2>2. HasChord(t)
    BY <1>2, <2>1, BatchRowExists DEF Inv, HasChord
  <2> QED
    BY <1>2, <2>1, <2>2 DEF PhaseOK, Phase, Waiting, BatchPcs
<1> QED
  BY <1>1, <1>2 DEF LiveTasks

(* The part that fills a chord is that of its only live batch.             *)
LEMMA LastPart ==
  ASSUME Inv, TokensOK, PhaseOK, NEW w \in Workers, ReportPart(w), msgs' # msgs
  PROVE  /\ Alone(w)
         /\ chords[Of(w).chord].done \cup {Of(w).batch} = 1..chords[Of(w).chord].size
         /\ msgs' = msgs (+) One(FinalizeTask(Of(w).stage, Of(w).chord))
<1> DEFINE c == Of(w).chord
           n == chords[c].size
           done == chords[c].done \cup {Of(w).batch}
<1>1. /\ c \in DOMAIN chords /\ Cardinality(done) = n
      /\ msgs' = msgs (+) One(FinalizeTask(Of(w).stage, c))
  BY ReportPartFacts
<1>2. n \in Nat
  <2>1. \A d \in DOMAIN chords : chords[d] \in ChordSet
    BY DEF Inv, Types
  <2> QED
    BY <1>1, <2>1 DEF ChordSet
<1>3. Live(w) /\ Pc(w) \in BatchPcs
  BY DEF ReportPart, At, Live, BatchPcs
<1>4. done \in SUBSET (1..n)
  BY <1>1, <1>3, BatchRowExists DEF Inv, BatchesOK
<1> HIDE DEF n, done
<1>5. IsFiniteSet(1..n) /\ Cardinality(1..n) = n
  BY <1>2, FS_Interval
<1>6. done = 1..n
  BY <1>1, <1>4, <1>5, FS_Subset
<1>7. ASSUME NEW t \in LiveTasks, Together(t, Of(w))  PROVE FALSE
  <2>1. t.kind = "batch" /\ t.chord = c /\ t.batch # Of(w).batch
    BY <1>7 DEF Together
  <2>2. t.batch \notin chords[c].done /\ t.batch \in 1..n
    BY <2>1, LiveBatching DEF Batching, HasChord, n
  <2> QED
    BY <1>6, <2>1, <2>2 DEF done
<1>8. Alone(w)
  BY <1>3, <1>7 DEF Alone, TokensOK, LiveTasks, Together
<1> QED
  BY <1>1, <1>6, <1>8 DEF done, n

(* There is one copy of every message, and live tasks are parts of one     *)
(* chord or alone.                                                         *)
LEMMA TokensStep ==
  ASSUME Inv, FaultsOK, TokensOK, PhaseOK, NoRedelivery, [Next]_vars
  PROVE  TokensOK'
<1>a. IsABag(msgs) /\ ~AdvancePipeline /\ \A w \in Workers : ~WorkerLost(w)
  BY NoFaults DEF Inv, Types
<1>b. ASSUME NEW w \in Workers, msgs' = msgs, Live(w)' => Live(w) /\ Of(w)' = Of(w),
             \A v \in Workers \ {w} : worker'[v] = worker[v]
      PROVE  TokensOK'
  <2>1. \A v \in Workers : Live(v)' => Live(v) /\ Of(v)' = Of(v)
    BY <1>b DEF Live, Pc, Of
  <2> QED
    BY <1>b, <2>1, TokensKeep
<1>c. ASSUME NEW w \in Workers, NEW t, msgs' = msgs (+) One(t), ~Live(w)', Alone(w),
             \A v \in Workers \ {w} : worker'[v] = worker[v]
      PROVE  TokensOK'
  <2>1. BagToSet(msgs') = BagToSet(msgs) \cup {t} /\ t \notin BagToSet(msgs) /\ msgs'[t] = 1
    BY <1>a, <1>c, BagSend DEF Alone
  <2>2. Replaced(w, {t})
    BY <1>a, <1>c, <2>1, BagSend DEF Replaced, Alone
  <2> QED
    BY <1>c, <2>2, TokensReplace
<1>0. CASE UNCHANGED vars
  BY <1>0, TokensKeep DEF vars, Live, Pc, Of
<1>1. ASSUME NEW w \in Workers, TakeTask(w)  PROVE TokensOK'
  BY <1>1, TokensTake
<1>2. ASSUME NEW w \in Workers, Acknowledge(w)  PROVE TokensOK'
  <2>1. ~Live(w)'
    BY <1>2, AcknowledgeFacts, IdleFacts DEF Live, Pc
  <2> QED
    BY <1>b, <1>2, <2>1, AcknowledgeFacts
<1>3. ASSUME NEW w \in Workers, SetStage(w) \/ PlanStage(w) \/ CreateBatchRow(w)
      PROVE  TokensOK'
  <2>1. Live(w)
    BY <1>3 DEF SetStage, PlanStage, CreateBatchRow, At, Live
  <2> QED
    BY <1>b, <1>3, <2>1, SetStageFacts, PlanStageFacts, CreateBatchRowFacts DEF Moves
<1>4. ASSUME NEW w \in Workers, StartChord(w)  PROVE TokensOK'
  <2>1. Alone(w)
    <3>1. Live(w) /\ Of(w).kind = "dispatch"
      BY <1>4 DEF StartChord, At, Live, Inv, KindsOK, Fits, DispatchPcs
    <3> QED
      BY <3>1, OneAtATime
  <2>2. ~Live(w)' /\ \A v \in Workers \ {w} : worker'[v] = worker[v]
    BY <1>4, StartChordFacts DEF Moves, Live
  <2>3. PICK S, t : S = ChordBatches(w) /\ t = FinalizeTask(Of(w).stage, 0)
    OBVIOUS
  <2>4. CASE msgs' = msgs (+) One(t)
    BY <1>c, <2>1, <2>2, <2>4
  <2>5. CASE msgs' = msgs (+) SetToBag(S)
    <3>0. BagToSet(msgs) = {}
      BY <2>1 DEF Alone
    <3>a. /\ BagToSet(msgs (+) SetToBag(S)) = BagToSet(msgs) \cup S
          /\ \A u \in S \ BagToSet(msgs) : (msgs (+) SetToBag(S))[u] = 1
      BY <1>a, BagSendAll
    <3>1. BagToSet(msgs') = S /\ \A u \in S : msgs'[u] = 1
      BY <3>a, <3>0, <2>5
    <3>2. \A u1, u2 \in S : u1 # u2 => Together(u1, u2)
      BY <2>3 DEF ChordBatches, BatchTask, Task, Together
    <3>3. Replaced(w, S)
      BY <2>1, <3>1, <3>2 DEF Replaced, Alone
    <3> QED
      BY <2>2, <3>3, TokensReplace
  <2> QED
    BY <1>4, <2>3, <2>4, <2>5, StartChordFacts
<1>5. ASSUME NEW w \in Workers, LoadBatch(w) \/ RunSucceeds(w) \/ FailRow(w)
      PROVE  TokensOK'
  <2>1. Live(w)
    BY <1>5 DEF LoadBatch, RunSucceeds, FailRow, At, Live
  <2> QED
    BY <1>b, <1>5, <2>1, LoadBatchFacts, RunSucceedsFacts, FailRowFacts DEF Moves
<1>6. ASSUME NEW w \in Workers, RunTransient(w) \/ BumpTransient(w)  PROVE TokensOK'
  <2>1. RetryOrFail(w) /\ Live(w) /\ Pc(w) \in BatchPcs
    BY <1>6 DEF RunTransient, BumpTransient, At, Live, BatchPcs
  <2>2. CASE msgs' = msgs
    BY <1>b, <2>1, <2>2, RetryFacts DEF Moves, Live
  <2>3. CASE msgs' # msgs
    <3>1. PICK t : t = Again(Of(w))
      OBVIOUS
    <3>2. /\ ~Live(w)' /\ MayRetry(Of(w)) /\ msgs' = msgs (+) One(t)
          /\ \A v \in Workers \ {w} : worker'[v] = worker[v]
      BY <2>1, <2>3, <3>1, RetryFacts DEF Moves, Live
    <3>3. Of(w) \in TaskSet /\ Of(w).kind = "batch"
      BY <2>1, BatchRowExists DEF Inv, Types, Of, WorkerSet
    <3>4. \A u : Together(t, u) <=> Together(Of(w), u)
      BY <3>1, <3>2, <3>3, AgainFacts DEF Together
    <3>5. \A u \in BagToSet(msgs) : Together(t, u)
      BY <2>1, <3>4 DEF TokensOK, Together
    <3>6. t \notin BagToSet(msgs)
      BY <3>5 DEF Together
    <3>7. /\ BagToSet(msgs)' = BagToSet(msgs) \cup {t} /\ msgs'[t] = 1
          /\ \A u \in BagToSet(msgs) : msgs'[u] = msgs[u]
      BY <1>a, <3>2, <3>6, BagSend
    <3>8. \A v \in Workers \ {w} : Live(v) => Together(t, Of(v))
      BY <2>1, <3>4 DEF TokensOK
    <3>9. Replaced(w, {t})
      BY <3>5, <3>7, <3>8 DEF Replaced
    <3> QED
      BY <3>2, <3>9, TokensReplace
  <2> QED
    BY <2>2, <2>3
<1>7. ASSUME NEW w \in Workers, BumpCompleted(w) \/ BumpFailed(w)  PROVE TokensOK'
  <2>1. Live(w)
    BY <1>7 DEF BumpCompleted, BumpFailed, At, Live
  <2> QED
    BY <1>b, <1>7, <2>1, BumpFacts DEF Moves
<1>8. ASSUME NEW w \in Workers, ReportPart(w)  PROVE TokensOK'
  <2>1. ~Live(w)' /\ \A v \in Workers \ {w} : worker'[v] = worker[v]
    BY <1>8, ReportPartFacts DEF Moves, Live
  <2>2. CASE msgs' = msgs
    BY <1>b, <2>1, <2>2
  <2>3. CASE msgs' # msgs
    BY <1>c, <1>8, <2>1, <2>3, LastPart
  <2> QED
    BY <2>2, <2>3
<1>9. ASSUME NEW w \in Workers, JoinStage(w) \/ DecideFailed(w)  PROVE TokensOK'
  <2>1. Live(w)
    BY <1>9 DEF JoinStage, DecideFailed, At, Live
  <2> QED
    BY <1>b, <1>9, <2>1, JoinStageFacts, DecideFailedFacts DEF Moves
<1>10. ASSUME NEW w \in Workers, SendFailed(w) \/ SendNext(w)  PROVE TokensOK'
  <2>1. Live(w) /\ Of(w).kind = "finalize"
    BY <1>10 DEF SendFailed, SendNext, At, Live, Inv, KindsOK, Fits, FinalizePcs
  <2>2. Alone(w)
    BY <2>1, OneAtATime
  <2>3. ~Live(w)' /\ \A v \in Workers \ {w} : worker'[v] = worker[v]
    BY <1>10, SendFacts DEF Moves, Live
  <2>4. \E t : msgs' = msgs (+) One(t)
    BY <1>10, SendFacts
  <2> QED
    BY <1>c, <2>2, <2>3, <2>4
<1>11. ASSUME NEW w \in Workers, MarkCompleted(w) \/ MarkFailed(w)  PROVE TokensOK'
  <2>1. ~Live(w)'
    BY <1>11, MarkFacts DEF Moves, Live
  <2> QED
    BY <1>b, <1>11, <2>1, MarkFacts DEF Moves
<1> QED
  BY <1>a, <1>0, <1>1, <1>2, <1>3, <1>4, <1>5, <1>6, <1>7, <1>8, <1>9, <1>10, <1>11
     DEF Next, TaskStep
-----------------------------------------------------------------------------
(* The rows of a run without redelivery.                                   *)

(* A stage of which a batch is live has not been joined.                   *)
LEMMA BatchingNotJoined ==
  ASSUME NEW t, Batching(t)  PROVE ~Joined(t.stage)
BY DEF Batching, Planned, Joined, RowsOf

(* The only row of a batch.                                                *)
LEMMA OnlyRow ==
  ASSUME RowsOK, NEW k, NEW i, NEW j \in RowsOf(k, i)
  PROVE  RowsOf(k, i) = {j}
BY DEF RowsOK, RowsOf

(* A batch has one row, and a joined stage has no row that may still       *)
(* change.                                                                 *)
LEMMA RowsStep ==
  ASSUME Inv, PhaseOK, RowsOK, NoRedelivery, FaultsOK, [Next]_vars
  PROVE  RowsOK'
<1>a. ~AdvancePipeline /\ \A w \in Workers : ~WorkerLost(w)
  BY NoFaults
<1>b. rows' = rows => RowsOK'
  BY DEF RowsOK, Joined, RowsOf, BatchRows, Final
<1>1. ASSUME NEW w \in Workers, LoadBatch(w)  PROVE RowsOK'
  <2>1. /\ RowsStay /\ ChangesOnly(RowAt(w)) /\ RowAt(w) \in DOMAIN rows
        /\ rows[RowAt(w)].stage = Of(w).stage
    BY <1>1, LoadBatchFacts DEF RowsOf
  <2>2. ~Joined(Of(w).stage)
    <3>1. Pc(w) = "load" /\ Of(w).kind = "batch"
      BY <1>1 DEF LoadBatch, At, Inv, KindsOK, Fits, BatchPcs
    <3> QED
      BY <3>1, BatchingNotJoined DEF PhaseOK, Phase, Waiting
  <2>3. PICK h : h = RowAt(w)
    OBVIOUS
  <2>4. /\ DOMAIN rows' = DOMAIN rows
        /\ \A j \in DOMAIN rows :
             rows'[j].stage = rows[j].stage /\ rows'[j].batch = rows[j].batch
        /\ \A k : (Joined(k)' <=> Joined(k)) /\ BatchRows(k)' = BatchRows(k)
    BY <2>1, RowsStayFacts DEF RowsStay, Joined
  <2>5. ASSUME NEW k \in AllStages, Joined(k), NEW j \in BatchRows(k)  PROVE Final(j)'
    <3>1. j # h /\ Final(j) /\ j \in DOMAIN rows
      BY <2>1, <2>2, <2>3, <2>5 DEF RowsOK, BatchRows
    <3> QED
      BY <2>1, <2>3, <3>1 DEF Final, ChangesOnly
  <2> QED
    BY <2>4, <2>5 DEF RowsOK
<1>2. ASSUME NEW w \in Workers, RunSucceeds(w) \/ FailRow(w)  PROVE RowsOK'
  <2>1. /\ RowsStay /\ ChangesOnly(RowAt(w)) /\ RowAt(w) \in DOMAIN rows
        /\ rows'[RowAt(w)].status \in Terminal
    BY <1>2, RunSucceedsFacts, FailRowFacts DEF Terminal
  <2>2. PICK h : h = RowAt(w)
    OBVIOUS
  <2>3. \A j \in DOMAIN rows : Final(j) => Final(j)'
    BY <2>1, <2>2 DEF Final, ChangesOnly
  <2>4. /\ DOMAIN rows' = DOMAIN rows
        /\ \A j \in DOMAIN rows :
             rows'[j].stage = rows[j].stage /\ rows'[j].batch = rows[j].batch
        /\ \A k : (Joined(k)' <=> Joined(k)) /\ BatchRows(k)' = BatchRows(k)
    BY <2>1, RowsStayFacts DEF RowsStay, Joined
  <2>5. \A k \in AllStages : Joined(k) => \A j \in BatchRows(k) : Final(j)'
    BY <2>3 DEF RowsOK, BatchRows
  <2> QED
    BY <2>4, <2>5 DEF RowsOK
<1>3. ASSUME NEW r, Adds(r), NEW n, n = Len(rows) + 1,
             \A j \in DOMAIN rows : rows[j].stage = r.stage => rows[j].batch # r.batch,
             r.batch # 0 => ~Joined(r.stage),
             r.batch = 0 => \A j \in DOMAIN rows : rows[j].stage = r.stage => Final(j)
      PROVE  RowsOK'
  <2>1. /\ DOMAIN rows' = DOMAIN rows \cup {n} /\ n \notin DOMAIN rows
        /\ \A j \in DOMAIN rows : rows'[j] = rows[j]
        /\ rows'[n] = r
    BY <1>3 DEF Adds
  <2>2. \A i, j \in DOMAIN rows' :
          rows'[i].stage = rows'[j].stage /\ rows'[i].batch = rows'[j].batch => i = j
    BY <1>3, <2>1 DEF RowsOK
  <2>3. \A k : Joined(k)' => Joined(k) \/ (k = r.stage /\ r.batch = 0)
    BY <2>1 DEF Joined, RowsOf
  <2>4. \A j \in DOMAIN rows : Final(j)' <=> Final(j)
    BY <2>1 DEF Final
  <2>5. r.batch # 0 => ~Joined(r.stage)'
    BY <1>3, <2>3
  <2>6. ASSUME NEW k \in AllStages, Joined(k)', NEW j \in BatchRows(k)'  PROVE Final(j)'
    <3>1. CASE j = n
      BY <2>1, <2>5, <2>6, <3>1 DEF BatchRows
    <3>2. CASE j # n
      <4>1. j \in DOMAIN rows /\ rows[j].stage = k /\ rows[j].batch # 0
        BY <2>1, <2>6, <3>2 DEF BatchRows
      <4>2. CASE Joined(k)
        BY <2>4, <4>1, <4>2 DEF RowsOK, BatchRows
      <4>3. CASE ~Joined(k)
        BY <1>3, <2>3, <2>4, <2>6, <4>1, <4>3
      <4> QED
        BY <4>2, <4>3
    <3> QED
      BY <3>1, <3>2
  <2> QED
    BY <2>2, <2>6 DEF RowsOK
<1>4. ASSUME NEW w \in Workers, CreateBatchRow(w)  PROVE RowsOK'
  <2>1. PICK r : r = NewBatchRow(w)
    OBVIOUS
  <2>2. /\ Adds(r) /\ r.stage = Of(w).stage /\ r.batch = worker[w].next /\ r.batch \in Nat
        /\ r.batch # 0
    BY <1>4, <2>1, CreateBatchRowFacts
  <2>3. Planned(r.stage, r.batch - 1)
    BY <1>4, <2>2 DEF CreateBatchRow, PhaseOK, Phase
  <2>4. /\ \A j \in DOMAIN rows : rows[j].stage = r.stage => rows[j].batch # r.batch
        /\ ~Joined(r.stage)
    BY <2>2, <2>3 DEF Planned, Joined, RowsOf
  <2> QED
    BY <1>3, <2>2, <2>4
<1>5. ASSUME NEW w \in Workers, JoinStage(w)  PROVE RowsOK'
  <2>1. PICK r : r = JoinRow(Of(w).stage)
    OBVIOUS
  <2>2. Adds(r) /\ r.stage = Of(w).stage /\ r.batch = 0
    BY <1>5, <2>1, JoinStageFacts
  <2>3. Of(w).kind = "finalize" /\ Pc(w) = "join"
    BY <1>5 DEF JoinStage, At, Inv, KindsOK, Fits, FinalizePcs
  <2>4. \A j \in DOMAIN rows : rows[j].stage = r.stage => rows[j].batch # r.batch /\ Final(j)
    BY <2>2, <2>3 DEF PhaseOK, Phase, Waiting
  <2> QED
    BY <1>3, <2>2, <2>4
<1>6. ASSUME NEW w \in Workers, TakeTask(w) \/ Acknowledge(w) \/ SetStage(w) \/ PlanStage(w)
                               \/ StartChord(w)
      PROVE rows' = rows
  BY <1>6 DEF TakeTask, Acknowledge, SetStage, PlanStage, StartChord
<1>7. ASSUME NEW w \in Workers, RunTransient(w) \/ BumpTransient(w) \/ BumpCompleted(w)
                                \/ BumpFailed(w) \/ ReportPart(w)
      PROVE rows' = rows
  BY <1>7 DEF RunTransient, BumpTransient, BumpCompleted, BumpFailed, ReportPart
<1>8. ASSUME NEW w \in Workers, DecideFailed(w) \/ SendFailed(w) \/ SendNext(w)
                                 \/ MarkCompleted(w) \/ MarkFailed(w)
      PROVE rows' = rows
  BY <1>8 DEF DecideFailed, SendFailed, SendNext, MarkCompleted, MarkFailed
<1>9. CASE UNCHANGED vars
  BY <1>b, <1>9 DEF vars
<1> QED
  BY <1>a, <1>b, <1>1, <1>2, <1>4, <1>5, <1>6, <1>7, <1>8, <1>9 DEF Next, TaskStep
-----------------------------------------------------------------------------
(* Where a run without redelivery is.                                      *)

\* The messages of S are the new ones, and it is time for them.
WaitingSends(S) == /\ BagToSet(msgs)' \subseteq BagToSet(msgs) \cup S
                   /\ \A t \in S : Waiting(t)'

(* What waits goes on waiting when no row, no chord and no status changes; *)
(* ...                                                                     *)
LEMMA WaitingSame ==
  ASSUME rows' = rows, chords' = chords, NEW t, Waiting(t),
         status' = status \/ t.kind # "failed"
  PROVE  Waiting(t)'
BY DEF Waiting, Batching, Past, Joined, RowsOf, BatchRows, Planned, Before, Final

(* ... so does a worker where it is.                                       *)
LEMMA PhaseSame ==
  ASSUME rows' = rows, chords' = chords, status' = status,
         NEW v \in Workers, worker'[v] = worker[v], Phase(v)
  PROVE  Phase(v)'
<1>1. Of(v)' = Of(v) /\ Pc(v)' = Pc(v)
  BY DEF Of, Pc
<1>2. Waiting(Of(v)) => Waiting(Of(v))'
  BY <1>1 DEF Waiting, Batching, Past, Joined, RowsOf, BatchRows, Planned, Before, Final
<1>3. Batching(Of(v)) => Batching(Of(v))'
  BY <1>1 DEF Batching, Past, Joined, RowsOf, BatchRows, Planned, Final
<1> QED
  BY <1>1, <1>2, <1>3
     DEF Phase, At, Past, Joined, RowsOf, BatchRows, Planned, Before, Final

(* A step that changes no row and no chord.                                *)
LEMMA SameFrame ==
  ASSUME PhaseOK, rows' = rows, chords' = chords, status' = status, NEW w \in Workers,
         \A v \in Workers \ {w} : worker'[v] = worker[v], Phase(w)',
         NEW S, WaitingSends(S)
  PROVE  PhaseOK'
<1>1. \A t \in BagToSet(msgs)' : Waiting(t)'
  BY WaitingSame DEF PhaseOK, WaitingSends
<1>2. \A v \in Workers : Phase(v)'
  BY PhaseSame DEF PhaseOK
<1> QED
  BY <1>1, <1>2 DEF PhaseOK

(* A step of the only live task.                                           *)
LEMMA AloneFrame ==
  ASSUME PhaseOK, RowsGrow, NEW w \in Workers, Alone(w),
         \A v \in Workers \ {w} : worker'[v] = worker[v], Phase(w)',
         NEW S, WaitingSends(S)
  PROVE  PhaseOK'
<1>1. \A t \in BagToSet(msgs)' : Waiting(t)'
  BY DEF Alone, WaitingSends
<1>2. ASSUME NEW v \in Workers \ {w}  PROVE Phase(v)'
  <2>1. Pc(v)' = Pc(v) /\ Of(v)' = Of(v) /\ Pc(v) \in {"idle", "ack"}
    BY DEF Alone, Live, Pc, Of
  <2>2. At(v, "ack") /\ Of(v).kind = "finalize" => Joined(Of(v).stage)'
    BY <2>1 DEF PhaseOK, Phase, RowsGrow, Joined
  <2> QED
    BY <2>1, <2>2 DEF Phase, At
<1> QED
  BY <1>1, <1>2 DEF PhaseOK

\* The step of worker w is about its batch: its row, and the part of its chord.
OwnPart(w) ==
  /\ RowsStay
  /\ \A j \in DOMAIN rows \ RowsOf(Of(w).stage, Of(w).batch) : rows'[j] = rows[j]
  /\ Len(chords') = Len(chords) /\ Of(w).chord \in DOMAIN chords
  /\ \A c \in DOMAIN chords : chords'[c].size = chords[c].size
  /\ \A c \in DOMAIN chords \ {Of(w).chord} : chords'[c] = chords[c]
  /\ chords'[Of(w).chord].done \subseteq chords[Of(w).chord].done \cup {Of(w).batch}
  /\ Of(w).batch \in chords'[Of(w).chord].done =>
       \A j \in RowsOf(Of(w).stage, Of(w).batch) : Final(j)'

(* The step of a batch does not concern the other batches of its chord ... *)
LEMMA PartFacts ==
  ASSUME NEW w \in Workers, OwnPart(w), NEW t, Together(t, Of(w)), Batching(t)
  PROVE  /\ Batching(t)'
         /\ \A j \in RowsOf(t.stage, t.batch) : rows'[j] = rows[j]
         /\ RowsOf(t.stage, t.batch)' = RowsOf(t.stage, t.batch)
<1> DEFINE c == t.chord
<1>1. t.stage = Of(w).stage /\ c = Of(w).chord /\ t.batch # Of(w).batch
  BY DEF Together
<1>2. /\ DOMAIN rows' = DOMAIN rows
      /\ \A j \in DOMAIN rows : rows'[j].stage = rows[j].stage /\ rows'[j].batch = rows[j].batch
      /\ \A k, i : RowsOf(k, i)' = RowsOf(k, i)
      /\ \A k : BatchRows(k)' = BatchRows(k)
  BY RowsStayFacts DEF OwnPart, RowsStay
<1>3. \A j \in RowsOf(t.stage, t.batch) : rows'[j] = rows[j]
  BY <1>1 DEF OwnPart, RowsOf
<1>4. Past(t.stage)'
  BY <1>2 DEF Batching, Past, Joined
<1>5. Planned(t.stage, chords[c].size)' /\ chords'[c].size = chords[c].size
  BY <1>1, <1>2 DEF Batching, Planned, OwnPart
<1>6. ASSUME NEW j \in BatchRows(t.stage), rows[j].batch \in chords'[c].done  PROVE Final(j)'
  <2>1. j \in DOMAIN rows /\ rows[j].stage = t.stage
    BY DEF BatchRows
  <2>2. CASE rows[j].batch = Of(w).batch
    BY <1>1, <1>6, <2>1, <2>2 DEF OwnPart, RowsOf
  <2>3. CASE rows[j].batch # Of(w).batch
    <3>1. rows'[j] = rows[j]
      BY <2>1, <2>3 DEF OwnPart, RowsOf
    <3>2. rows[j].batch \in chords[c].done
      BY <1>1, <1>6, <2>3 DEF OwnPart
    <3> QED
      BY <3>1, <3>2 DEF Batching, Final
  <2> QED
    BY <2>2, <2>3
<1>7. t.batch \notin chords'[c].done /\ c = Len(chords')
  BY <1>1 DEF Batching, OwnPart
<1>8. Batching(t)'
  <2>1. \A j \in BatchRows(t.stage)' : rows'[j].batch \in chords'[c].done => Final(j)'
    BY <1>2, <1>6 DEF BatchRows
  <2>2. t.stage \in Stages
    BY DEF Batching
  <2> QED
    BY <1>4, <1>5, <1>7, <2>1, <2>2 DEF Batching
<1> QED
  BY <1>2, <1>3, <1>8

(* ... and leaves everybody else where he is.                              *)
LEMMA PartFrame ==
  ASSUME Inv, TokensOK, PhaseOK, NEW w \in Workers, Live(w), Of(w).kind = "batch",
         OwnPart(w), status' = status, Phase(w)', msgs' = msgs,
         \A v \in Workers \ {w} : worker'[v] = worker[v]
  PROVE  PhaseOK'
<1>1. ASSUME NEW t \in BagToSet(msgs)  PROVE Waiting(t)'
  <2>1. Together(t, Of(w)) /\ t.kind = "batch"
    BY DEF TokensOK, Together
  <2>2. Waiting(t) /\ Batching(t)
    BY <2>1 DEF PhaseOK, Waiting
  <2>3. /\ Batching(t)'
        /\ \A j \in RowsOf(t.stage, t.batch) : rows'[j] = rows[j]
        /\ RowsOf(t.stage, t.batch)' = RowsOf(t.stage, t.batch)
    BY <2>1, <2>2, PartFacts
  <2> QED
    BY <2>1, <2>2, <2>3 DEF Waiting
<1>2. ASSUME NEW v \in Workers \ {w}  PROVE Phase(v)'
  <2>1. Pc(v)' = Pc(v) /\ Of(v)' = Of(v) /\ Phase(v)
    BY DEF Pc, Of, PhaseOK
  <2>2. CASE Live(v)
    <3>1. PICK t : t = Of(v)
      OBVIOUS
    <3>2. Together(t, Of(w)) /\ t.kind = "batch" /\ t \in LiveTasks
      BY <2>2, <3>1 DEF TokensOK, Together, LiveTasks
    <3>3. Batching(t)
      BY <3>2, LiveBatching
    <3>4. /\ Batching(t)'
          /\ \A j \in RowsOf(t.stage, t.batch) : rows'[j] = rows[j]
          /\ RowsOf(t.stage, t.batch)' = RowsOf(t.stage, t.batch)
      BY <3>2, <3>3, PartFacts
    <3>5. Waiting(t) => Waiting(t)'
      BY <3>2, <3>4 DEF Waiting
    <3>6. (\A j \in RowsOf(t.stage, t.batch) : Final(j))
            => \A j \in RowsOf(t.stage, t.batch)' : Final(j)'
      BY <3>4 DEF Final
    <3>7. Pc(v) \notin {"set_stage", "plan", "rows", "join", "decide", "send_failed",
                        "mark_completed", "mark_failed", "ack"}
      BY <2>2, <3>1, <3>2
         DEF Inv, KindsOK, Fits, DispatchPcs, BatchPcs, FinalizePcs, Live
    <3> QED
      BY <2>1, <3>1, <3>4, <3>5, <3>6, <3>7 DEF Phase, At
  <2>3. CASE ~Live(v)
    <3>1. \A k : Joined(k)' <=> Joined(k)
      BY RowsStayFacts DEF OwnPart, Joined
    <3> QED
      BY <2>1, <2>3, <3>1 DEF Phase, At, Live
  <2> QED
    BY <2>2, <2>3
<1> QED
  BY <1>1, <1>2 DEF PhaseOK

(* A dispatch finds no row of its stage and leaves pending ones.           *)
LEMMA PhaseDispatch ==
  ASSUME Inv, TokensOK, PhaseOK, NEW w \in Workers,
         SetStage(w) \/ PlanStage(w) \/ CreateBatchRow(w) \/ StartChord(w)
  PROVE  PhaseOK'
<1>1. /\ Live(w) /\ Of(w).kind = "dispatch" /\ Pc(w) \in DispatchPcs
      /\ Of(w) \in TaskSet /\ Phase(w)
  BY DEF SetStage, PlanStage, CreateBatchRow, StartChord, At, Live, Inv, KindsOK, Fits,
     DispatchPcs, Types, WorkerSet, Of, PhaseOK
<1>2. Alone(w) /\ RowsGrow
  <2>1. [Next]_vars
    BY DEF Next, TaskStep
  <2> QED
    BY <1>1, <2>1, OneAtATime, GrowStep
<1>3. PICK k : k = Of(w).stage
  OBVIOUS
<1>4. k \in Nat /\ Past(k) /\ k \in Stages
  BY <1>1, <1>3, StageFacts DEF Phase, Waiting, At, DispatchPcs, TaskSet
<1>5. Past(k)'
  BY <1>2, <1>4 DEF Past, Joined, RowsGrow
<1>a. ASSUME msgs' = msgs, Phase(w)',
             \A v \in Workers \ {w} : worker'[v] = worker[v]
      PROVE  PhaseOK'
  <2>1. WaitingSends({})
    BY <1>a DEF WaitingSends
  <2> QED
    BY <1>2, <1>a, <2>1, AloneFrame
<1>6. CASE SetStage(w)
  <2>1. Waiting(Of(w)) /\ Pc(w)' = "plan" /\ Of(w)' = Of(w) /\ rows' = rows
    BY <1>1, <1>6, SetStageFacts DEF Phase, Moves
  <2>2. Waiting(Of(w))'
    BY <1>1, <1>3, <1>5, <2>1 DEF Waiting, Before
  <2>3. Phase(w)'
    BY <2>1, <2>2 DEF Phase, At
  <2> QED
    BY <1>a, <1>6, <2>3, SetStageFacts DEF Moves
<1>7. CASE PlanStage(w)
  <2>1. /\ Waiting(Of(w)) /\ Pc(w)' = "rows" /\ Of(w)' = Of(w) /\ rows' = rows
        /\ worker'[w].next = 1
    BY <1>1, <1>7, PlanStageFacts DEF Phase, Moves
  <2>2. \A j \in DOMAIN rows : rows[j].stage < k /\ rows[j].stage \in Nat
    BY <1>1, <1>3, <2>1, RowFacts, StageFacts DEF Waiting, Before, Inv, Types, RowSet
  <2>3. Planned(k, 0)' /\ \A j \in BatchRows(k)' : rows'[j].status = "pending"
    BY <1>4, <2>1, <2>2 DEF Planned, BatchRows
  <2>4. Phase(w)'
    BY <1>3, <1>4, <1>5, <2>1, <2>3 DEF Phase, At
  <2> QED
    BY <1>a, <1>7, <2>4, PlanStageFacts DEF Moves
<1>8. CASE CreateBatchRow(w)
  <2>1. PICK r, n : r = NewBatchRow(w) /\ n = Len(rows) + 1
    OBVIOUS
  <2>2. /\ Pc(w)' = "rows" /\ Of(w)' = Of(w) /\ worker'[w].next = r.batch + 1
        /\ r.stage = k /\ r.batch \in Nat /\ r.batch > 0 /\ r.status = "pending"
        /\ r.batch = worker[w].next /\ Adds(r)
    BY <1>3, <1>8, <2>1, CreateBatchRowFacts DEF Moves
  <2>3. /\ Planned(k, r.batch - 1)
        /\ \A j \in BatchRows(k) : rows[j].status = "pending"
    BY <1>1, <1>3, <1>8, <2>2 DEF CreateBatchRow, Phase
  <2>4. /\ DOMAIN rows' = DOMAIN rows \cup {n} /\ rows'[n] = r
        /\ \A j \in DOMAIN rows : rows'[j] = rows[j]
    BY <2>1, <2>2 DEF Adds
  <2>5. Planned(k, r.batch)'
    BY <1>4, <2>2, <2>3, <2>4 DEF Planned
  <2>6. \A j \in BatchRows(k)' : rows'[j].status = "pending"
    BY <2>2, <2>3, <2>4 DEF BatchRows
  <2>7. worker'[w].next - 1 = r.batch
    BY <2>2
  <2>8. Phase(w)'
    BY <1>3, <1>4, <1>5, <2>2, <2>5, <2>6, <2>7 DEF Phase, At
  <2> QED
    BY <1>a, <1>8, <2>8, CreateBatchRowFacts DEF Moves
<1>9. CASE StartChord(w)
  <2>1. PICK n, S, c : /\ n = BatchCount(Of(w).stage, worker[w].ids) /\ S = ChordBatches(w)
                       /\ c = Len(chords) + 1
    OBVIOUS
  <2>2. /\ Pc(w)' = "ack" /\ Of(w)' = Of(w) /\ n \in Nat /\ rows' = rows
        /\ worker[w].next = n + 1 /\ Pc(w) = "rows"
        /\ \A v \in Workers \ {w} : worker'[v] = worker[v]
    BY <1>9, <2>1, StartChordFacts DEF Moves
  <2>3. Phase(w)'
    BY <1>1, <2>2 DEF Phase, At
  <2>4. Planned(k, n) /\ \A j \in BatchRows(k) : rows[j].status = "pending"
    <3>1. worker[w].next - 1 = n
      BY <2>2
    <3> QED
      BY <1>1, <1>3, <2>2, <3>1 DEF Phase, At
  <2>5. \A j \in DOMAIN rows : rows[j].stage \in Nat
    BY RowFacts, StageFacts DEF Inv, Types, RowSet
  <2>6. CASE n = 0
    <3>1. PICK t : t = FinalizeTask(k, 0)
      OBVIOUS
    <3>2. msgs' = msgs (+) One(t) /\ t.kind = "finalize" /\ t.stage = k
      BY <1>3, <1>9, <2>1, <2>6, <3>1, StartChordFacts DEF FinalizeTask, Task
    <3>3. \A j \in DOMAIN rows : rows[j].stage <= k /\ rows[j].stage # k
      BY <2>4, <2>6 DEF Planned
    <3>4. Waiting(t)'
      BY <1>4, <1>5, <2>2, <3>2, <3>3 DEF Waiting
    <3>5. WaitingSends({t})
      BY <3>2, <3>4, BagSend DEF WaitingSends, Inv, Types
    <3> QED
      BY <1>2, <2>2, <2>3, <3>5, AloneFrame
  <2>7. CASE n # 0
    <3>1. /\ Len(chords') = c /\ DOMAIN chords' = 1..c /\ msgs' = msgs (+) SetToBag(S)
          /\ chords'[c] = [size |-> n, done |-> {}]
      BY <1>9, <2>1, <2>7, StartChordFacts
    <3>2. ASSUME NEW t \in S  PROVE Waiting(t)'
      <4>1. t.kind = "batch" /\ t.stage = k /\ t.chord = c /\ t.batch \in 1..n
        BY <1>3, <2>1 DEF ChordBatches, BatchTask, Task
      <4>2. Planned(t.stage, chords[t.chord].size)'
        BY <2>2, <2>4, <3>1, <4>1 DEF Planned
      <4>3. Batching(t)'
        BY <1>4, <1>5, <3>1, <4>1, <4>2 DEF Batching
      <4>4. \A j \in RowsOf(t.stage, t.batch)' : rows'[j].status # "failed"
        BY <2>2, <2>4, <4>1 DEF RowsOf, BatchRows
      <4> QED
        BY <4>1, <4>3, <4>4 DEF Waiting
    <3>3. WaitingSends(S)
      BY <3>1, <3>2, BagSendAll DEF WaitingSends, Inv, Types
    <3> QED
      BY <1>2, <2>2, <2>3, <3>3, AloneFrame
  <2> QED
    BY <2>6, <2>7
<1> QED
  BY <1>6, <1>7, <1>8, <1>9

(* A batch leaves its row running, completed or failed.                    *)
LEMMA PhaseBatch ==
  ASSUME Inv, TokensOK, PhaseOK, RowsOK, NEW w \in Workers,
         LoadBatch(w) \/ RunSucceeds(w) \/ FailRow(w)
  PROVE  PhaseOK'
<1>1. /\ Live(w) /\ Of(w).kind = "batch" /\ Pc(w) \in {"load", "run", "fail"}
      /\ Waiting(Of(w)) /\ Batching(Of(w)) /\ HasChord(Of(w))
  <2>1. Live(w) /\ Pc(w) \in {"load", "run", "fail"}
    BY DEF LoadBatch, RunSucceeds, FailRow, At, Live
  <2>2. Of(w).kind = "batch" /\ HasChord(Of(w))
    BY <2>1, BatchRowExists DEF Inv, BatchPcs, HasChord
  <2> QED
    BY <2>1, <2>2 DEF PhaseOK, Phase, Waiting
<1>2. /\ Of(w)' = Of(w) /\ UNCHANGED <<status, chords, msgs>>
      /\ \A v \in Workers \ {w} : worker'[v] = worker[v]
      /\ RowsStay /\ ChangesOnly(RowAt(w)) /\ RowAt(w) \in RowsOf(Of(w).stage, Of(w).batch)
  BY LoadBatchFacts, RunSucceedsFacts, FailRowFacts DEF Moves
<1>3. PICK t, h : t = Of(w) /\ h = RowAt(w)
  OBVIOUS
<1>4. RowsOf(t.stage, t.batch) = {h} /\ h \in DOMAIN rows
  BY <1>2, <1>3, OnlyRow DEF RowsOf
<1>5. /\ \A j \in DOMAIN rows \ {h} : rows'[j] = rows[j]
      /\ \A k, i : RowsOf(k, i)' = RowsOf(k, i)
      /\ \A k : BatchRows(k)' = BatchRows(k)
      /\ DOMAIN rows' = DOMAIN rows
      /\ \A j \in DOMAIN rows : rows'[j].stage = rows[j].stage /\ rows'[j].batch = rows[j].batch
  BY <1>2, <1>3, RowsStayFacts DEF ChangesOnly, RowsStay
<1>6. OwnPart(w)
  <2>1. Of(w).batch \notin chords[Of(w).chord].done
    BY <1>1 DEF Batching
  <2> QED
    BY <1>1, <1>2, <1>3, <1>4, <1>5, <2>1 DEF OwnPart, HasChord
<1>7. Batching(t)'
  <2>1. Past(t.stage)' /\ Planned(t.stage, chords[t.chord].size)'
    BY <1>1, <1>2, <1>3, <1>5 DEF Batching, Past, Joined, Planned
  <2>2. ASSUME NEW j \in BatchRows(t.stage), rows[j].batch \in chords[t.chord].done
        PROVE  Final(j)'
    <3>1. j # h
      BY <1>1, <1>3, <1>4, <2>2 DEF Batching, RowsOf
    <3> QED
      BY <1>1, <1>3, <1>5, <2>2, <3>1 DEF Batching, Final, BatchRows
  <2>3. \A j \in BatchRows(t.stage)' : rows'[j].batch \in chords'[t.chord].done => Final(j)'
    BY <1>2, <1>5, <2>2 DEF BatchRows
  <2> QED
    BY <1>1, <1>2, <1>3, <2>1, <2>3 DEF Batching
<1>8. Phase(w)'
  <2>1. CASE LoadBatch(w)
    <3>1. Pc(w)' = "run" /\ rows'[h].status = "running"
      BY <1>3, <2>1, LoadBatchFacts DEF Moves
    <3>2. Waiting(t)'
      BY <1>1, <1>3, <1>4, <1>5, <1>7, <3>1 DEF Waiting
    <3> QED
      BY <1>2, <1>3, <3>1, <3>2 DEF Phase, At
  <2>2. CASE RunSucceeds(w)
    <3>1. Pc(w)' = "bump" /\ rows'[h].status = "completed"
      BY <1>3, <2>2, RunSucceedsFacts DEF Moves
    <3>2. Waiting(t)'
      BY <1>1, <1>3, <1>4, <1>5, <1>7, <3>1 DEF Waiting
    <3>3. \A j \in RowsOf(t.stage, t.batch)' : Final(j)'
      BY <1>4, <1>5, <3>1 DEF Final, Terminal
    <3> QED
      BY <1>2, <1>3, <3>1, <3>2, <3>3 DEF Phase, At
  <2>3. CASE FailRow(w)
    <3>1. Pc(w)' = "bump_failed" /\ rows'[h].status = "failed"
      BY <1>3, <2>3, FailRowFacts DEF Moves
    <3>3. \A j \in RowsOf(t.stage, t.batch)' : Final(j)'
      BY <1>4, <1>5, <3>1 DEF Final, Terminal
    <3> QED
      BY <1>2, <1>3, <1>7, <3>1, <3>3 DEF Phase, At
  <2> QED
    BY <2>1, <2>2, <2>3
<1> QED
  BY <1>1, <1>2, <1>6, <1>8, PartFrame

(* A batch that is sent again has not failed its row.                      *)
LEMMA PhaseRetry ==
  ASSUME Inv, TokensOK, PhaseOK, NEW w \in Workers, RunTransient(w) \/ BumpTransient(w)
  PROVE  PhaseOK'
<1>1. /\ RetryOrFail(w) /\ Pc(w) \in {"run", "bump"} /\ Pc(w) \in BatchPcs
      /\ UNCHANGED <<status, rows, chords>>
  BY DEF RunTransient, BumpTransient, At, BatchPcs
<1>2. /\ Of(w)' = Of(w) /\ \A v \in Workers \ {w} : worker'[v] = worker[v]
  BY <1>1, RetryFacts DEF Moves
<1>3. /\ Of(w).kind = "batch" /\ Waiting(Of(w)) /\ Of(w) \in TaskSet
  BY <1>1, BatchRowExists DEF PhaseOK, Phase, Inv, Types, WorkerSet, Of
<1>4. CASE msgs' = msgs
  <2>1. Pc(w)' \in {"ack", "fail"}
    BY <1>1, RetryFacts DEF Moves
  <2>2. PICK t : t = Of(w)
    OBVIOUS
  <2>3. Waiting(t)'
    BY <1>1, <1>3, <2>2, WaitingSame
  <2>4. Phase(w)'
    BY <1>2, <1>3, <2>1, <2>2, <2>3 DEF Phase, At
  <2>5. WaitingSends({})
    BY <1>4 DEF WaitingSends
  <2> QED
    BY <1>1, <1>2, <2>4, <2>5, SameFrame
<1>5. CASE msgs' # msgs
  <2>1. PICK t, u : t = Again(Of(w)) /\ u = Of(w)
    OBVIOUS
  <2>2. Pc(w)' = "ack" /\ MayRetry(Of(w)) /\ msgs' = msgs (+) One(t)
    BY <1>1, <1>5, <2>1, RetryFacts DEF Moves
  <2>3. /\ t.kind = u.kind /\ t.stage = u.stage /\ t.chord = u.chord /\ t.batch = u.batch
    BY <1>3, <2>1, <2>2, AgainFacts
  <2>4. Waiting(t)
    BY <1>3, <2>1, <2>3 DEF Waiting, Batching
  <2>5. Waiting(t)'
    BY <1>1, <2>4, WaitingSame
  <2>6. WaitingSends({t})
    BY <2>2, <2>5, BagSend DEF WaitingSends, Inv, Types
  <2>7. Phase(w)'
    BY <1>2, <1>3, <2>2 DEF Phase, At
  <2> QED
    BY <1>1, <1>2, <2>6, <2>7, SameFrame
<1> QED
  BY <1>4, <1>5

(* A counter is written after the row, before the chord is told.           *)
LEMMA PhaseBump ==
  ASSUME Inv, PhaseOK, NEW w \in Workers, BumpCompleted(w) \/ BumpFailed(w)
  PROVE  PhaseOK'
<1>1. /\ Pc(w) \in {"bump", "bump_failed"} /\ Pc(w)' = "report" /\ Of(w)' = Of(w)
      /\ UNCHANGED <<status, rows, chords, msgs>>
      /\ \A v \in Workers \ {w} : worker'[v] = worker[v]
  BY BumpFacts DEF Moves
<1>2. Of(w).kind = "batch"
  BY <1>1, BatchRowExists DEF Inv, BatchPcs
<1>3. Batching(Of(w)) /\ \A j \in RowsOf(Of(w).stage, Of(w).batch) : Final(j)
  BY <1>1, <1>2 DEF PhaseOK, Phase, Waiting
<1>4. PICK t : t = Of(w)
  OBVIOUS
<1>5. Batching(t)' /\ \A j \in RowsOf(t.stage, t.batch)' : Final(j)'
  BY <1>1, <1>3, <1>4
     DEF Batching, Past, Joined, RowsOf, BatchRows, Planned, Final
<1>6. Phase(w)'
  BY <1>1, <1>4, <1>5 DEF Phase, At
<1>7. WaitingSends({})
  BY <1>1 DEF WaitingSends
<1> QED
  BY <1>1, <1>6, <1>7, SameFrame

(* The last part of a chord leaves only final rows.                        *)
LEMMA PhaseReport ==
  ASSUME Inv, TokensOK, PhaseOK, NEW w \in Workers, ReportPart(w)
  PROVE  PhaseOK'
<1>1. /\ Live(w) /\ Of(w).kind = "batch" /\ Pc(w) = "report" /\ Of(w).chord \in DOMAIN chords
      /\ Batching(Of(w)) /\ \A j \in RowsOf(Of(w).stage, Of(w).batch) : Final(j)
  <2>1. Live(w) /\ Pc(w) = "report"
    BY DEF ReportPart, At, Live
  <2>2. Of(w).kind = "batch" /\ Of(w).chord \in DOMAIN chords
    BY <2>1, BatchRowExists DEF Inv, BatchPcs
  <2> QED
    BY <2>1, <2>2 DEF PhaseOK, Phase
<1>2. /\ Of(w)' = Of(w) /\ Pc(w)' = "ack" /\ UNCHANGED <<status, rows>>
      /\ \A v \in Workers \ {w} : worker'[v] = worker[v]
  BY ReportPartFacts DEF Moves
<1>3. Phase(w)'
  BY <1>1, <1>2 DEF Phase, At
<1>4. CASE msgs' = msgs
  <2>1. RowsStay /\ \A j \in DOMAIN rows : Final(j)' <=> Final(j)
    BY <1>2 DEF RowsStay, Final
  <2>2. \A j \in RowsOf(Of(w).stage, Of(w).batch) : Final(j)'
    BY <1>1, <2>1 DEF RowsOf
  <2>3. OwnPart(w)
    BY <1>1, <1>2, <2>1, <2>2, ReportPartFacts DEF OwnPart
  <2> QED
    BY <1>1, <1>2, <1>3, <1>4, <2>3, PartFrame
<1>5. CASE msgs' # msgs
  <2>1. PICK t, k, n : /\ t = FinalizeTask(Of(w).stage, Of(w).chord) /\ k = Of(w).stage
                       /\ n = chords[Of(w).chord].size
    OBVIOUS
  <2>2. /\ Alone(w) /\ msgs' = msgs (+) One(t)
        /\ chords[Of(w).chord].done \cup {Of(w).batch} = 1..n
    BY <1>5, <2>1, LastPart
  <2>3. t.kind = "finalize" /\ t.stage = k
    BY <2>1 DEF FinalizeTask, Task
  <2>4. k \in Stages /\ Past(k) /\ Planned(k, n)
    BY <1>1, <2>1 DEF Batching
  <2>5. ASSUME NEW j \in DOMAIN rows, rows[j].stage = k  PROVE rows[j].batch # 0 /\ Final(j)
    <3>1. rows[j].batch \in 1..n
      BY <2>4, <2>5 DEF Planned
    <3>2. j \in BatchRows(k)
      BY <2>5, <3>1 DEF BatchRows
    <3>3. CASE rows[j].batch = Of(w).batch
      BY <1>1, <2>1, <2>5, <3>1, <3>3 DEF RowsOf
    <3>4. CASE rows[j].batch # Of(w).batch
      BY <1>1, <2>1, <2>2, <3>1, <3>2, <3>4 DEF Batching
    <3> QED
      BY <3>3, <3>4
  <2>6. Past(k)' /\ \A j \in DOMAIN rows : Final(j)' <=> Final(j)
    BY <1>2, <2>4 DEF Past, Joined, RowsOf, Final
  <2>7. Waiting(t)'
    BY <1>2, <2>3, <2>4, <2>5, <2>6 DEF Waiting, Planned
  <2>8. WaitingSends({t})
    BY <2>2, <2>7, BagSend DEF WaitingSends, Inv, Types
  <2>9. RowsGrow
    BY <1>2 DEF RowsGrow, RowsOf
  <2> QED
    BY <1>2, <1>3, <2>2, <2>8, <2>9, AloneFrame
<1> QED
  BY <1>4, <1>5

(* The stages up to stage k + 1 are those up to stage k, and stage k.      *)
LEMMA PastFacts ==
  ASSUME NEW k \in Nat
  PROVE  /\ Past(k + 1) <=> Past(k) /\ Joined(k)
         /\ Past(k + 1)' <=> Past(k)' /\ Joined(k)'
<1>1. 0..((k + 1) - 1) = 0..(k - 1) \cup {k}
  OBVIOUS
<1> QED
  BY <1>1 DEF Past

(* The join closes the stage, and the next one is dispatched after it.     *)
LEMMA PhaseFinalize ==
  ASSUME Inv, TokensOK, PhaseOK, NEW w \in Workers,
         JoinStage(w) \/ DecideFailed(w) \/ SendFailed(w) \/ SendNext(w)
  PROVE  PhaseOK'
<1>1. /\ Live(w) /\ Of(w).kind = "finalize" /\ Pc(w) \in FinalizePcs /\ Phase(w)
      /\ Of(w) \in TaskSet
  BY DEF JoinStage, DecideFailed, SendFailed, SendNext, At, Live, Inv, KindsOK, Fits,
     FinalizePcs, PhaseOK, Types, WorkerSet, Of
<1>2. Alone(w) /\ RowsGrow
  <2>1. [Next]_vars
    BY DEF Next, TaskStep
  <2> QED
    BY <1>1, <2>1, OneAtATime, GrowStep
<1>3. PICK k : k = Of(w).stage
  OBVIOUS
<1>4. k \in Stages /\ k \in Nat /\ Past(k)
  <2>1. k \in Stages /\ (Past(k) \/ Past(k + 1))
    BY <1>1, <1>3 DEF Phase, Waiting, FinalizePcs
  <2>2. k \in Nat
    BY <2>1, StageFacts
  <2> QED
    BY <2>1, <2>2, PastFacts
<1>5. \A h : Past(h) => Past(h)'
  BY <1>2 DEF Past, Joined, RowsGrow
<1>6. CASE JoinStage(w)
  <2>1. PICK r, n : r = JoinRow(Of(w).stage) /\ n = Len(rows) + 1
    OBVIOUS
  <2>2. /\ Pc(w)' = "decide" /\ Of(w)' = Of(w) /\ msgs' = msgs /\ Pc(w) = "join"
        /\ \A v \in Workers \ {w} : worker'[v] = worker[v]
        /\ Adds(r) /\ r.stage = k /\ r.batch = 0
    BY <1>3, <1>6, <2>1, JoinStageFacts DEF Moves
  <2>3. Joined(k)'
    BY <2>2, AddedFacts DEF Joined
  <2>4. Past(k + 1)'
    BY <1>4, <1>5, <2>3, PastFacts
  <2>5. Before(k + 1)'
    <3>1. \A j \in DOMAIN rows : rows[j].stage <= k /\ rows[j].stage \in Nat
      BY <1>1, <1>3, <2>2, RowFacts, StageFacts DEF Phase, Waiting, Inv, Types, RowSet
    <3>2. /\ DOMAIN rows' = DOMAIN rows \cup {n} /\ rows'[n] = r
          /\ \A j \in DOMAIN rows : rows'[j] = rows[j]
      BY <2>1, <2>2 DEF Adds
    <3> QED
      BY <1>4, <2>2, <3>1, <3>2 DEF Before
  <2>6. Phase(w)'
    BY <1>3, <1>4, <2>2, <2>4, <2>5 DEF Phase, At
  <2>7. WaitingSends({})
    BY <2>2 DEF WaitingSends
  <2> QED
    BY <1>2, <2>2, <2>6, <2>7, AloneFrame
<1>7. CASE DecideFailed(w)
  <2>1. /\ Pc(w)' = "send_failed" /\ Of(w)' = Of(w) /\ msgs' = msgs /\ Pc(w) = "decide"
        /\ \A v \in Workers \ {w} : worker'[v] = worker[v]
        /\ rows' = rows /\ status' = "failed"
    BY <1>7, DecideFailedFacts DEF Moves
  <2>2. Past(k + 1)' /\ Before(k + 1)'
    BY <1>1, <1>3, <1>5, <2>1 DEF Phase, Before
  <2>3. Phase(w)'
    BY <1>3, <1>4, <2>1, <2>2 DEF Phase, At
  <2>4. WaitingSends({})
    BY <2>1 DEF WaitingSends
  <2> QED
    BY <1>2, <2>1, <2>3, <2>4, AloneFrame
<1>8. CASE SendFailed(w)
  <2>1. /\ Pc(w) = "send_failed" /\ Pc(w)' = "ack" /\ Of(w)' = Of(w) /\ rows' = rows
        /\ \A v \in Workers \ {w} : worker'[v] = worker[v]
        /\ msgs' = msgs (+) One(FailedTask) /\ status' = status
    BY <1>8, SendFacts DEF Moves, SendFailed, At
  <2>2. Past(k + 1) /\ status = "failed"
    BY <1>1, <1>3, <2>1 DEF Phase, At
  <2>3. Joined(k)'
    BY <1>4, <1>5, <2>2, PastFacts
  <2>4. Phase(w)'
    BY <1>3, <2>1, <2>3 DEF Phase, At
  <2>5. Waiting(FailedTask)'
    BY <2>1, <2>2, TaskFacts DEF Waiting, FailedTask, Task
  <2>6. WaitingSends({FailedTask})
    BY <2>1, <2>5, BagSend DEF WaitingSends, Inv, Types, FailedTask, Task
  <2> QED
    BY <1>2, <2>1, <2>4, <2>6, AloneFrame
<1>9. CASE SendNext(w)
  <2>1. PICK t : t = NextTask(Of(w).stage)
    OBVIOUS
  <2>2. /\ Pc(w) = "decide" /\ Pc(w)' = "ack" /\ Of(w)' = Of(w) /\ rows' = rows
        /\ \A v \in Workers \ {w} : worker'[v] = worker[v]
        /\ msgs' = msgs (+) One(t) /\ status' = status
    BY <1>9, <2>1, SendFacts DEF Moves, SendNext, At
  <2>3. Past(k + 1) /\ Before(k + 1)
    BY <1>1, <1>3, <2>2 DEF Phase
  <2>4. Joined(k)'
    BY <1>4, <1>5, <2>3, PastFacts
  <2>5. Phase(w)'
    BY <1>3, <2>2, <2>4 DEF Phase, At
  <2>6. Past(k + 1)' /\ Before(k + 1)'
    BY <1>5, <2>2, <2>3 DEF Before
  <2>7. CASE k < NStages
    <3>1. t.kind = "dispatch" /\ t.stage = k + 1 /\ k + 1 \in Stages
      BY <1>3, <1>4, <2>1, <2>7, StageFacts DEF NextTask, DispatchTask, Task, Stages
    <3>2. Waiting(t)'
      BY <2>6, <3>1 DEF Waiting
    <3>3. WaitingSends({t})
      BY <2>2, <3>2, BagSend DEF WaitingSends, Inv, Types
    <3> QED
      BY <1>2, <2>2, <2>5, <3>3, AloneFrame
  <2>8. CASE ~(k < NStages)
    <3>1. t.kind = "complete" /\ k = NStages
      BY <1>3, <1>4, <2>1, <2>8, StageFacts DEF NextTask, CompleteTask, Task, Stages
    <3>2. Waiting(t)'
      BY <2>6, <3>1 DEF Waiting
    <3>3. WaitingSends({t})
      BY <2>2, <3>2, BagSend DEF WaitingSends, Inv, Types
    <3> QED
      BY <1>2, <2>2, <2>5, <3>3, AloneFrame
  <2> QED
    BY <2>7, <2>8
<1> QED
  BY <1>6, <1>7, <1>8, <1>9

(* The end of a run.                                                       *)
LEMMA PhaseMark ==
  ASSUME Inv, TokensOK, PhaseOK, NEW w \in Workers, MarkCompleted(w) \/ MarkFailed(w)
  PROVE  PhaseOK'
<1>1. /\ Pc(w) \in {"mark_completed", "mark_failed"} /\ Pc(w)' = "ack" /\ Of(w)' = Of(w)
      /\ \A v \in Workers \ {w} : worker'[v] = worker[v]
      /\ rows' = rows /\ msgs' = msgs
  BY MarkFacts DEF Moves
<1>2. Live(w) /\ Of(w).kind \in {"complete", "failed"}
  BY <1>1 DEF Live, Inv, KindsOK, Fits
<1>3. Alone(w) /\ RowsGrow
  BY <1>1, <1>2, OneAtATime DEF RowsGrow, RowsOf
<1>4. Phase(w)'
  BY <1>1, <1>2 DEF Phase, At
<1>5. WaitingSends({})
  BY <1>1 DEF WaitingSends
<1> QED
  BY <1>1, <1>3, <1>4, <1>5, AloneFrame

(* A worker begins where the task it takes says.                           *)
LEMMA PhaseTake ==
  ASSUME Inv, PhaseOK, NEW w \in Workers, TakeTask(w) \/ Acknowledge(w)
  PROVE  PhaseOK'
<1>1. CASE TakeTask(w)
  <2>1. PICK t \in BagToSet(msgs) : t = Of(w)'
    BY <1>1, TakeTaskFacts
  <2>2. /\ Pc(w)' = Entry(t.kind) /\ UNCHANGED <<status, rows, chords>>
        /\ \A v \in Workers \ {w} : worker'[v] = worker[v]
    BY <1>1, <2>1, TakeTaskFacts
  <2>3. Waiting(t)'
    BY <2>2, WaitingSame DEF PhaseOK
  <2>4. Pc(w)' \in {"set_stage", "load", "join", "mark_completed", "mark_failed"}
    BY <2>1, <2>2 DEF Entry, Inv, Types, TaskSet
  <2>5. Phase(w)'
    BY <2>1, <2>3, <2>4 DEF Phase, At
  <2>6. WaitingSends({})
    BY <1>1, TakeTaskFacts, BagTake DEF WaitingSends, Inv, Types
  <2> QED
    BY <2>2, <2>5, <2>6, SameFrame
<1>2. CASE Acknowledge(w)
  <2>1. /\ Pc(w)' = "idle" /\ UNCHANGED <<status, rows, chords, msgs>>
        /\ \A v \in Workers \ {w} : worker'[v] = worker[v]
    BY <1>2, AcknowledgeFacts, IdleFacts DEF Pc
  <2>2. Phase(w)'
    BY <2>1 DEF Phase, At
  <2>3. WaitingSends({})
    BY <2>1 DEF WaitingSends
  <2> QED
    BY <2>1, <2>2, <2>3, SameFrame
<1> QED
  BY <1>1, <1>2

(* Every step leads from one place in the run to the next.                 *)
LEMMA PhaseStep ==
  ASSUME Inv, FaultsOK, TokensOK, PhaseOK, RowsOK, NoRedelivery, [Next]_vars
  PROVE  PhaseOK'
<1>1. ~AdvancePipeline /\ \A w \in Workers : ~WorkerLost(w)
  BY NoFaults
<1>2. CASE UNCHANGED vars
  <2>1. /\ UNCHANGED <<status, rows, chords, msgs>> /\ worker' = worker
    BY <1>2 DEF vars
  <2>2. \A t \in BagToSet(msgs)' : Waiting(t)'
    BY <2>1, WaitingSame DEF PhaseOK
  <2>3. \A v \in Workers : Phase(v)'
    BY <2>1, PhaseSame DEF PhaseOK
  <2> QED
    BY <2>2, <2>3 DEF PhaseOK
<1> QED
  BY <1>1, <1>2, PhaseDispatch, PhaseBatch, PhaseRetry, PhaseBump, PhaseReport, PhaseFinalize,
     PhaseMark, PhaseTake DEF Next, TaskStep

(* The barrier holds when the run starts ...                               *)
LEMMA BarrierInit == Init => BarrierInv
<1> SUFFICES ASSUME Init  PROVE BarrierInv
  OBVIOUS
<1>1. \A w \in Workers : Pc(w) = "idle"
  BY IdleFacts DEF Init, Pc
<1>2. BagToSet(msgs) = {DispatchTask(1)} /\ msgs[DispatchTask(1)] = 1
  BY DEF Init, One, SetToBag, BagToSet
<1>3. DispatchTask(1).kind = "dispatch" /\ DispatchTask(1).stage = 1
  BY DEF DispatchTask, Task
<1>4. PICK docs \in SUBSET Items : rows = <<Row(0, 0, "completed", {}, docs)>>
  BY DEF Init
<1>5. /\ DOMAIN rows = {1} /\ rows[1].stage = 0 /\ rows[1].batch = 0
      /\ 1 \in RowsOf(0, 0) /\ \A k : BatchRows(k) = {}
  BY <1>4 DEF RowsOf, BatchRows, Row
<1>6. Waiting(DispatchTask(1))
  <2>1. 1 \in Stages
    BY StagesAssumption DEF Stages
  <2>2. Past(1) /\ Before(1)
    BY <1>5 DEF Past, Joined, Before
  <2> QED
    BY <1>3, <2>1, <2>2 DEF Waiting
<1>7. TokensOK
  BY <1>1, <1>2 DEF TokensOK, Live
<1>8. PhaseOK
  BY <1>1, <1>2, <1>6 DEF PhaseOK, Phase, At
<1>9. RowsOK
  BY <1>5 DEF RowsOK
<1> QED
  BY <1>7, <1>8, <1>9 DEF BarrierInv, FaultsOK, Init

(* ... and is kept, as long as nothing is redelivered.                     *)
LEMMA BarrierStep == NoRedelivery /\ Inv /\ BarrierInv /\ [Next]_vars => BarrierInv'
BY FaultsStep, TokensStep, PhaseStep, RowsStep DEF BarrierInv

(* The barrier of a chord (tasks_v2.py, finalize_stage): when a stage is   *)
(* finalised none of its batches is pending, running or uncounted, unless a*)
(* message was delivered twice.                                            *)
THEOREM JoinsSeeFinalRows == NoRedelivery => (Spec => []JoinSeesFinalRows)
<1> SUFFICES ASSUME NoRedelivery  PROVE Spec => []JoinSeesFinalRows
  OBVIOUS
<1>1. Init => Inv /\ BarrierInv
  BY InvInit, BarrierInit
<1>2. Inv /\ BarrierInv /\ [Next]_vars => (Inv /\ BarrierInv)'
  BY InvStep, BarrierStep
<1>3. Inv /\ BarrierInv => JoinSeesFinalRows
  <2> SUFFICES ASSUME Inv, BarrierInv, NEW k \in Stages, NEW c \in DOMAIN chords,
                      InSystem(FinalizeTask(k, c))
               PROVE  /\ \A j \in BatchRows(k) : rows[j].status \in Terminal
                      /\ \A w \in Workers : ~(/\ Of(w).kind = "batch" /\ Of(w).stage = k
                                             /\ Pc(w) \notin {"idle", "ack"})
    BY DEF JoinSeesFinalRows
  <2> DEFINE t == FinalizeTask(k, c)
  <2>1. t.kind = "finalize" /\ t.stage = k /\ k \in AllStages
    BY StageFacts DEF FinalizeTask, Task
  <2>2. \A w \in Workers : Live(w) /\ Of(w).kind = "batch" /\ Of(w).stage = k => ~Joined(k)
    <3>1. ASSUME NEW w \in Workers, Live(w), Of(w).kind = "batch", Of(w).stage = k
          PROVE  ~Joined(k)
      <4>1. Batching(Of(w))
        BY <3>1, LiveBatching DEF LiveTasks, BarrierInv
      <4> QED
        BY <3>1, <4>1, BatchingNotJoined
    <3> QED
      BY <3>1
  <2>3. CASE t \in BagToSet(msgs)
    <3>1. Waiting(t)
      BY <2>3 DEF BarrierInv, PhaseOK
    <3>2. \A j \in BatchRows(k) : rows[j].status \in Terminal
      BY <2>1, <3>1 DEF Waiting, BatchRows, Final
    <3>3. \A w \in Workers : ~Live(w)
      BY <2>1, <2>3 DEF BarrierInv, TokensOK, Together
    <3> QED
      BY <3>2, <3>3 DEF Live
  <2>4. ASSUME NEW v \in Workers, Pc(v) # "idle", Of(v) = t
        PROVE  /\ \A j \in BatchRows(k) : rows[j].status \in Terminal
               /\ \A w \in Workers : ~(Of(w).kind = "batch" /\ Of(w).stage = k /\ Live(w))
    <3>1. Pc(v) \in FinalizePcs \cup {"ack"}
      BY <2>1, <2>4 DEF Inv, Types, WorkerSet, Pcs, KindsOK, Fits, Pc
    <3>2. Phase(v)
      BY DEF BarrierInv, PhaseOK
    <3>3. CASE Pc(v) = "join"
      <4>1. \A j \in BatchRows(k) : rows[j].status \in Terminal
        BY <2>1, <2>4, <3>2, <3>3 DEF Phase, Waiting, BatchRows, Final
      <4>2. Alone(v)
        BY <2>1, <2>4, <3>3, OneAtATime DEF Live, BarrierInv
      <4> QED
        BY <2>1, <2>4, <4>1, <4>2 DEF Alone
    <3>4. CASE Pc(v) # "join"
      <4>1. k \in Nat
        BY StageFacts
      <4>2. Joined(k)
        BY <2>1, <2>4, <3>1, <3>2, <3>4, <4>1 DEF Phase, At, Past, FinalizePcs
      <4>3. \A j \in BatchRows(k) : rows[j].status \in Terminal
        BY <2>1, <4>2 DEF BarrierInv, RowsOK, Final
      <4> QED
        BY <2>2, <4>2, <4>3
    <3> QED
      BY <3>3, <3>4
  <2> QED
    BY <2>3, <2>4 DEF InSystem, BagIn, Live
<1> QED
  BY <1>1, <1>2, <1>3, PTL DEF Spec
-----------------------------------------------------------------------------
(* The result of a stage.                                                  *)

\* The row get_run_level returns.
LastRow(k) == CHOOSE j \in RowsOf(k, 0) : \A h \in RowsOf(k, 0) : j >= h

(* The result of a joined stage is the output of its last run-level row.   *)
LEMMA LastRowFacts ==
  ASSUME rows \in Seq(RowSet), NEW k
  PROVE  /\ Joined(k) => LastRow(k) \in RowsOf(k, 0) /\ StageResult(k) = rows[LastRow(k)].out
         /\ ~Joined(k) => StageResult(k) = {}
<1>1. CASE Joined(k)
  <2>1. RowsOf(k, 0) \in SUBSET (0..Len(rows)) /\ Len(rows) \in Nat
    BY RowFacts DEF RowsOf
  <2>2. \E x \in RowsOf(k, 0) : \A y \in RowsOf(k, 0) : x >= y
    BY <1>1, <2>1, GreatestExists DEF Joined
  <2>3. LastRow(k) \in RowsOf(k, 0)
    BY <2>2 DEF LastRow
  <2> QED
    BY <1>1, <2>3 DEF StageResult, LastRow, Joined
<1>2. CASE ~Joined(k)
  BY <1>2 DEF StageResult, Joined
<1> QED
  BY <1>1, <1>2

\* A step does not touch the rows of stage k.
Untouched(k) ==
  /\ RowsOf(k, 0)' = RowsOf(k, 0) /\ BatchRows(k)' = BatchRows(k)
  /\ \A j \in DOMAIN rows : rows[j].stage = k => rows'[j] = rows[j]

(* The result of a stage depends on its run-level rows only.               *)
LEMMA ResultKept ==
  ASSUME rows \in Seq(RowSet), NEW k, RowsOf(k, 0)' = RowsOf(k, 0),
         \A j \in RowsOf(k, 0) : rows'[j].out = rows[j].out
  PROVE  StageResult(k)' = StageResult(k) /\ (Joined(k)' <=> Joined(k))
<1>1. LastRow(k)' = LastRow(k)
  BY DEF LastRow
<1>2. Joined(k)' <=> Joined(k)
  BY DEF Joined
<1>3. CASE Joined(k)
  BY <1>1, <1>2, <1>3, LastRowFacts DEF StageResult, Joined, LastRow
<1>4. CASE ~Joined(k)
  BY <1>4 DEF StageResult, Joined
<1> QED
  BY <1>2, <1>3, <1>4

(* Results and outputs of a stage whose rows a step does not touch.        *)
LEMMA UntouchedFacts ==
  ASSUME rows \in Seq(RowSet), NEW k, Untouched(k)
  PROVE  /\ StageResult(k)' = StageResult(k) /\ JoinResult(k)' = JoinResult(k)
         /\ Joined(k)' <=> Joined(k)
<1>1. \A j \in RowsOf(k, 0) : rows'[j].out = rows[j].out
  BY DEF Untouched, RowsOf
<1>2. StageResult(k)' = StageResult(k) /\ (Joined(k)' <=> Joined(k))
  BY <1>1, ResultKept DEF Untouched
<1>3. \A j \in BatchRows(k) : rows'[j].out = rows[j].out
  BY DEF Untouched, BatchRows
<1>4. JoinResult(k)' = JoinResult(k)
  BY <1>3 DEF JoinResult, Untouched
<1> QED
  BY <1>2, <1>4

(* Only the last dispatched stage, which is not joined yet, has rows that change. *)
LEMMA TouchedStage ==
  ASSUME Inv, PhaseOK, RowsOK, NEW w \in Workers,
         CreateBatchRow(w) \/ LoadBatch(w) \/ RunSucceeds(w) \/ FailRow(w) \/ JoinStage(w)
  PROVE  /\ ~Joined(Of(w).stage)
         /\ \A k : k # Of(w).stage => Untouched(k)
<1>1. CASE CreateBatchRow(w)
  <2>1. ~Joined(Of(w).stage)
    <3>1. Planned(Of(w).stage, worker[w].next - 1)
      BY <1>1 DEF CreateBatchRow, PhaseOK, Phase
    <3>2. worker[w].next \in Nat
      BY DEF Inv, Types, WorkerSet
    <3> QED
      BY <3>1, <3>2 DEF Planned, Joined, RowsOf
  <2>2. PICK r : r = NewBatchRow(w)
    OBVIOUS
  <2>3. Adds(r) /\ r.stage = Of(w).stage
    BY <1>1, <2>2, CreateBatchRowFacts
  <2>4. \A j \in DOMAIN rows : rows'[j] = rows[j]
    BY <2>3 DEF Adds
  <2> QED
    BY <2>1, <2>3, <2>4, AddedFacts DEF Untouched
<1>2. CASE LoadBatch(w) \/ RunSucceeds(w) \/ FailRow(w)
  <2>1. Pc(w) \in {"load", "run", "fail"}
    BY <1>2 DEF LoadBatch, RunSucceeds, FailRow, At
  <2>2. ~Joined(Of(w).stage)
    <3>1. Batching(Of(w))
      BY <2>1 DEF PhaseOK, Phase, Waiting, Inv, KindsOK, Fits, BatchPcs
    <3> QED
      BY <3>1, BatchingNotJoined
  <2>3. PICK h : h = RowAt(w)
    OBVIOUS
  <2>4. RowsStay /\ ChangesOnly(h) /\ rows[h].stage = Of(w).stage
    BY <1>2, <2>3, LoadBatchFacts, RunSucceedsFacts, FailRowFacts DEF RowsOf
  <2>5. \A j \in DOMAIN rows : rows[j].stage # Of(w).stage => rows'[j] = rows[j]
    BY <2>4 DEF ChangesOnly
  <2> QED
    BY <2>2, <2>4, <2>5, RowsStayFacts DEF Untouched
<1>3. CASE JoinStage(w)
  <2>1. Pc(w) = "join" /\ Of(w).kind = "finalize"
    BY <1>3 DEF JoinStage, At, Inv, KindsOK, Fits, FinalizePcs
  <2>2. ~Joined(Of(w).stage)
    BY <2>1 DEF PhaseOK, Phase, Waiting, Joined, RowsOf
  <2>3. PICK r : r = JoinRow(Of(w).stage)
    OBVIOUS
  <2>4. Adds(r) /\ r.stage = Of(w).stage
    BY <1>3, <2>3, JoinStageFacts
  <2>5. \A j \in DOMAIN rows : rows'[j] = rows[j]
    BY <2>4 DEF Adds
  <2> QED
    BY <2>2, <2>4, <2>5, AddedFacts DEF Untouched
<1> QED
  BY <1>1, <1>2, <1>3

(* The join leaves its own result as the result of the stage.              *)
LEMMA JoinFacts ==
  ASSUME Inv, PhaseOK, RowsOK, NEW w \in Workers, JoinStage(w), NEW k, k = Of(w).stage
  PROVE  Joined(k)' /\ StageResult(k)' = JoinResult(k) /\ JoinResult(k)' = JoinResult(k)
<1>1. PICK r, n : r = JoinRow(k) /\ n = Len(rows) + 1
  OBVIOUS
<1>2. Adds(r) /\ r.stage = k /\ r.batch = 0 /\ r.out = JoinResult(k)
  BY <1>1, JoinStageFacts
<1>3. ~Joined(k)
  BY TouchedStage
<1>4. RowsOf(k, 0)' = {n} /\ BatchRows(k)' = BatchRows(k)
  <2>1. /\ RowsOf(r.stage, r.batch)' = RowsOf(r.stage, r.batch) \cup {n}
        /\ BatchRows(k)' = BatchRows(k)
    BY <1>1, <1>2, AddedFacts
  <2> QED
    BY <1>2, <1>3, <2>1 DEF Joined
<1>5. rows'[n] = r /\ \A j \in BatchRows(k) : rows'[j] = rows[j]
  BY <1>1, <1>2 DEF Adds, BatchRows
<1>6. LastRow(k)' = n
  <2>1. n >= n
    BY <1>1, RowFacts DEF Inv, Types
  <2> QED
    BY <1>4, <2>1 DEF LastRow
<1>7. Joined(k)' /\ StageResult(k)' = r.out
  BY <1>4, <1>5, <1>6 DEF Joined, StageResult, LastRow
<1>8. JoinResult(k)' = JoinResult(k)
  BY <1>4, <1>5 DEF JoinResult
<1> QED
  BY <1>2, <1>7, <1>8

(* The rows change in these steps only.                                    *)
LEMMA RowsChange ==
  ASSUME [Next]_vars, rows' # rows
  PROVE  \E w \in Workers : CreateBatchRow(w) \/ LoadBatch(w) \/ RunSucceeds(w) \/ FailRow(w)
                            \/ JoinStage(w)
<1>1. ~UNCHANGED vars
  BY DEF vars
<1>2. \A w \in Workers : ~(TakeTask(w) \/ Acknowledge(w) \/ SetStage(w) \/ PlanStage(w)
                            \/ StartChord(w))
  BY DEF TakeTask, Acknowledge, SetStage, PlanStage, StartChord
<1>3. \A w \in Workers : ~(RunTransient(w) \/ BumpTransient(w) \/ BumpCompleted(w)
                            \/ BumpFailed(w) \/ ReportPart(w) \/ WorkerLost(w))
  BY DEF RunTransient, BumpTransient, BumpCompleted, BumpFailed, ReportPart, WorkerLost
<1>4. \A w \in Workers : ~(DecideFailed(w) \/ SendFailed(w) \/ SendNext(w)
                            \/ MarkCompleted(w) \/ MarkFailed(w))
  BY DEF DecideFailed, SendFailed, SendNext, MarkCompleted, MarkFailed
<1>5. ~AdvancePipeline
  BY DEF AdvancePipeline
<1> QED
  BY <1>1, <1>2, <1>3, <1>4, <1>5 DEF Next, TaskStep

(* ... and the status in these.                                            *)
LEMMA StatusChange ==
  ASSUME [Next]_vars, status' # status
  PROVE  \E w \in Workers : SetStage(w) \/ DecideFailed(w) \/ MarkCompleted(w) \/ MarkFailed(w)
<1>1. ~UNCHANGED vars
  BY DEF vars
<1>2. \A w \in Workers : ~(TakeTask(w) \/ Acknowledge(w) \/ PlanStage(w) \/ CreateBatchRow(w)
                            \/ StartChord(w) \/ LoadBatch(w) \/ RunSucceeds(w))
  BY DEF TakeTask, Acknowledge, PlanStage, CreateBatchRow, StartChord, LoadBatch, RunSucceeds
<1>3. \A w \in Workers : ~(RunTransient(w) \/ BumpTransient(w) \/ BumpCompleted(w)
                            \/ BumpFailed(w) \/ ReportPart(w) \/ WorkerLost(w) \/ FailRow(w))
  BY DEF RunTransient, BumpTransient, BumpCompleted, BumpFailed, ReportPart, WorkerLost, FailRow
<1>4. \A w \in Workers : ~(JoinStage(w) \/ SendFailed(w) \/ SendNext(w))
  BY DEF JoinStage, SendFailed, SendNext
<1>5. ~AdvancePipeline
  BY DEF AdvancePipeline
<1> QED
  BY <1>1, <1>2, <1>3, <1>4, <1>5 DEF Next, TaskStep

(* The result of a joined stage stays the union of what its batches have   *)
(* put out.                                                                *)
LEMMA ResultStep ==
  ASSUME Inv, PhaseOK, RowsOK, ResultOK, [Next]_vars
  PROVE  ResultOK'
<1>0. rows \in Seq(RowSet) /\ RowsGrow
  BY GrowStep DEF Inv, Types
<1>1. ASSUME NEW k \in Stages, Joined(k)'  PROVE StageResult(k)' = JoinResult(k)'
  <2>1. CASE rows' = rows
    BY <1>1, <2>1 DEF ResultOK, StageResult, JoinResult, Joined, RowsOf, BatchRows
  <2>2. CASE rows' # rows
    <3>1. PICK w \in Workers : CreateBatchRow(w) \/ LoadBatch(w) \/ RunSucceeds(w) \/ FailRow(w)
                               \/ JoinStage(w)
      BY <2>2, RowsChange
    <3>2. CASE k # Of(w).stage
      <4>1. Untouched(k)
        BY <3>1, <3>2, TouchedStage
      <4> QED
        BY <1>0, <1>1, <4>1, UntouchedFacts DEF ResultOK
    <3>3. CASE k = Of(w).stage /\ JoinStage(w)
      BY <3>3, JoinFacts
    <3>4. CASE k = Of(w).stage /\ ~JoinStage(w)
      <4>1. ~Joined(k)
        BY <3>1, <3>4, TouchedStage
      <4>2. RowsOf(k, 0)' = RowsOf(k, 0)
        <5>1. CASE CreateBatchRow(w)
          <6>1. PICK r : r = NewBatchRow(w)
            OBVIOUS
          <6>2. Adds(r) /\ r.batch # 0
            BY <5>1, <6>1, CreateBatchRowFacts
          <6> QED
            BY <6>2, AddedFacts
        <5>2. CASE LoadBatch(w) \/ RunSucceeds(w) \/ FailRow(w)
          <6>1. RowsStay
            BY <5>2, LoadBatchFacts, RunSucceedsFacts, FailRowFacts
          <6> QED
            BY <6>1, RowsStayFacts
        <5> QED
          BY <3>1, <3>4, <5>1, <5>2
      <4> QED
        BY <1>1, <4>1, <4>2 DEF Joined
    <3> QED
      BY <3>2, <3>3, <3>4
  <2> QED
    BY <2>1, <2>2
<1>2. ASSUME status' = "completed"  PROVE Past(NStages + 1)'
  <2>1. CASE status = "completed"
    BY <1>0, <2>1 DEF ResultOK, Past, Joined, RowsGrow
  <2>2. CASE status # "completed"
    <3>1. PICK w \in Workers : MarkCompleted(w)
      BY <1>2, <2>2, StatusChange, SetStageFacts, DecideFailedFacts DEF MarkFailed
    <3>2. Of(w).kind = "complete" /\ Pc(w) = "mark_completed"
      BY <3>1 DEF MarkCompleted, At, Inv, KindsOK, Fits
    <3>3. Past(NStages + 1)
      BY <3>2 DEF PhaseOK, Phase, Waiting
    <3> QED
      BY <1>0, <3>3 DEF Past, Joined, RowsGrow
  <2> QED
    BY <2>1, <2>2
<1> QED
  BY <1>1, <1>2 DEF ResultOK

(* When a run completes, the result of every stage holds what all its      *)
(* batches have put out, and nothing else.                                 *)
THEOREM ResultsAreComplete == NoRedelivery => (Spec => []ResultIsComplete)
<1> SUFFICES ASSUME NoRedelivery  PROVE Spec => []ResultIsComplete
  OBVIOUS
<1>1. Init => Inv /\ BarrierInv /\ ResultOK
  <2> SUFFICES ASSUME Init  PROVE Inv /\ BarrierInv /\ ResultOK
    OBVIOUS
  <2>1. \A k \in Stages : ~Joined(k)
    <3>1. PICK docs \in SUBSET Items : rows = <<Row(0, 0, "completed", {}, docs)>>
      BY DEF Init
    <3> QED
      BY <3>1 DEF Stages, Joined, RowsOf, Row
  <2> QED
    BY <2>1, InvInit, BarrierInit DEF ResultOK, Init
<1>2. Inv /\ BarrierInv /\ ResultOK /\ [Next]_vars => (Inv /\ BarrierInv /\ ResultOK)'
  BY InvStep, BarrierStep, ResultStep DEF BarrierInv
<1>3. ResultOK => ResultIsComplete
  <2>1. \A k \in Stages : k \in 0..((NStages + 1) - 1)
    BY StageFacts DEF Stages
  <2> QED
    BY <2>1 DEF ResultOK, ResultIsComplete, Past, JoinResult
<1> QED
  BY <1>1, <1>2, <1>3, PTL DEF Spec
-----------------------------------------------------------------------------
(* The counters of a stage.                                                *)

(* A failed row stays failed.                                              *)
LEMMA FailedStays ==
  ASSUME Inv, PhaseOK, RowsOK, [Next]_vars, NEW j \in DOMAIN rows, rows[j].status = "failed"
  PROVE  /\ j \in DOMAIN rows' /\ rows'[j].status = "failed"
         /\ rows'[j].stage = rows[j].stage /\ rows'[j].batch = rows[j].batch
<1>1. CASE rows' = rows
  BY <1>1
<1>2. CASE rows' # rows
  <2>1. PICK w \in Workers : CreateBatchRow(w) \/ LoadBatch(w) \/ RunSucceeds(w) \/ FailRow(w)
                             \/ JoinStage(w)
    BY <1>2, RowsChange
  <2>2. CASE CreateBatchRow(w) \/ JoinStage(w)
    <3>1. \E r : Adds(r)
      BY <2>2, CreateBatchRowFacts, JoinStageFacts
    <3> QED
      BY <3>1 DEF Adds
  <2>3. CASE FailRow(w)
    BY <2>3, FailRowFacts DEF RowsStay, ChangesOnly
  <2>4. CASE LoadBatch(w) \/ RunSucceeds(w)
    <3>1. Pc(w) \in {"load", "run"}
      BY <2>4 DEF LoadBatch, RunSucceeds, At
    <3>2. Of(w).kind = "batch"
      BY <3>1 DEF Inv, KindsOK, Fits, BatchPcs
    <3>3. RowAt(w) \in RowsOf(Of(w).stage, Of(w).batch) /\ RowsStay /\ ChangesOnly(RowAt(w))
      BY <2>4, LoadBatchFacts, RunSucceedsFacts
    <3>4. j # RowAt(w)
      BY <3>1, <3>2, <3>3 DEF PhaseOK, Phase, Waiting
    <3>5. PICK h : h = RowAt(w)
      OBVIOUS
    <3> QED
      BY <3>3, <3>4, <3>5 DEF RowsStay, ChangesOnly
  <2> QED
    BY <2>1, <2>2, <2>3, <2>4
<1> QED
  BY <1>1, <1>2

(* A batch comes to its counter from the failure of its row only.          *)
LEMMA CountingStarts ==
  ASSUME Inv, [Next]_vars, NEW v \in Workers, Pc(v)' = "bump_failed"
  PROVE  FailRow(v) \/ (Pc(v) = "bump_failed" /\ Of(v)' = Of(v))
<1> DEFINE Kept(w) == worker'[w] = worker[w]
<1>1. Kept(v) => Pc(v) = "bump_failed" /\ Of(v)' = Of(v)
  BY DEF Pc, Of
<1>2. UNCHANGED vars \/ AdvancePipeline => Kept(v)
  BY DEF vars, AdvancePipeline
<1>3. ASSUME NEW w \in Workers, w # v, Works(w) \/ TakeTask(w) \/ Acknowledge(w) \/ WorkerLost(w)
      PROVE  Kept(v)
  BY <1>3, TakeTaskFacts, AcknowledgeFacts, WorkerLostFacts DEF Works
<1>4. ~TakeTask(v)
  <2>1. TakeTask(v) => Pc(v)' = Entry(Of(v)'.kind) /\ Of(v)' \in TaskSet
    BY TakeTaskFacts, TasksTake
  <2> QED
    BY <2>1 DEF Entry, TaskSet
<1>5. ~(Acknowledge(v) \/ WorkerLost(v))
  BY AcknowledgeFacts, WorkerLostFacts, IdleFacts DEF Pc
<1>6. ASSUME NEW w \in Workers, SetStage(w) \/ PlanStage(w) \/ CreateBatchRow(w) \/ StartChord(w)
                                \/ LoadBatch(w) \/ RunSucceeds(w) \/ ReportPart(w)
      PROVE  Works(w) /\ Pc(w)' # "bump_failed"
  <2>1. SetStage(w) \/ PlanStage(w) \/ CreateBatchRow(w) => Works(w) /\ Pc(w)' # "bump_failed"
    BY SetStageFacts, PlanStageFacts, CreateBatchRowFacts DEF Moves, Works
  <2>2. StartChord(w) \/ LoadBatch(w) => Works(w) /\ Pc(w)' # "bump_failed"
    BY StartChordFacts, LoadBatchFacts DEF Moves, Works
  <2>3. RunSucceeds(w) \/ ReportPart(w) => Works(w) /\ Pc(w)' # "bump_failed"
    BY RunSucceedsFacts, ReportPartFacts DEF Moves, Works
  <2> QED
    BY <1>6, <2>1, <2>2, <2>3
<1>7. ASSUME NEW w \in Workers, RunTransient(w) \/ BumpTransient(w) \/ BumpCompleted(w)
                                \/ BumpFailed(w)
      PROVE  Works(w) /\ Pc(w)' # "bump_failed"
  <2>1. RunTransient(w) \/ BumpTransient(w) => Works(w) /\ Pc(w)' # "bump_failed"
    <3>1. RunTransient(w) \/ BumpTransient(w) => RetryOrFail(w) /\ Pc(w) # "idle"
      BY DEF RunTransient, BumpTransient, At
    <3> QED
      BY <3>1, RetryFacts DEF Moves, Works
  <2>2. BumpCompleted(w) \/ BumpFailed(w) => Works(w) /\ Pc(w)' # "bump_failed"
    BY BumpFacts DEF Moves, Works
  <2> QED
    BY <1>7, <2>1, <2>2
<1>8. ASSUME NEW w \in Workers, JoinStage(w) \/ DecideFailed(w) \/ SendFailed(w) \/ SendNext(w)
                                \/ MarkCompleted(w) \/ MarkFailed(w)
      PROVE  Works(w) /\ Pc(w)' # "bump_failed"
  <2>1. JoinStage(w) \/ DecideFailed(w) => Works(w) /\ Pc(w)' # "bump_failed"
    BY JoinStageFacts, DecideFailedFacts DEF Moves, Works
  <2>2. SendFailed(w) \/ SendNext(w) => Works(w) /\ Pc(w)' # "bump_failed"
    BY SendFacts DEF Moves, Works
  <2>3. MarkCompleted(w) \/ MarkFailed(w) => Works(w) /\ Pc(w)' # "bump_failed"
    BY MarkFacts DEF Moves, Works
  <2> QED
    BY <1>8, <2>1, <2>2, <2>3
<1>9. \A w \in Workers : FailRow(w) => Works(w)
  BY FailRowFacts DEF Moves, Works
<1> HIDE DEF Kept
<1> QED
  BY <1>1, <1>2, <1>3, <1>4, <1>5, <1>6, <1>7, <1>8, <1>9 DEF Next, TaskStep

(* A failure that has been counted stays counted: its row is failed for    *)
(* good.                                                                   *)
LEMMA CountedGrows ==
  ASSUME Inv, PhaseOK, RowsOK, [Next]_vars, NEW k
  PROVE  Counted(k) \subseteq Counted(k)'
<1> SUFFICES ASSUME NEW j \in Counted(k)  PROVE j \in Counted(k)'
  OBVIOUS
<1>1. /\ j \in DOMAIN rows /\ rows[j].stage = k /\ rows[j].batch # 0
      /\ rows[j].status = "failed" /\ ~Counting(k, rows[j].batch)
  BY DEF Counted, BatchRows
<1>2. PICK i : i = rows[j].batch
  OBVIOUS
<1>3. /\ j \in DOMAIN rows' /\ rows'[j].status = "failed"
      /\ rows'[j].stage = k /\ rows'[j].batch = i
  BY <1>1, <1>2, FailedStays
<1>4. ASSUME NEW v \in Workers, Pc(v)' = "bump_failed", Of(v)'.stage = k, Of(v)'.batch = i
      PROVE  FALSE
  <2>1. CASE FailRow(v)
    <3>1. /\ Of(v)' = Of(v) /\ RowAt(v) \in RowsOf(k, i) /\ Pc(v) \in {"run", "fail"}
      BY <1>4, <2>1, FailRowFacts DEF Moves
    <3>2. Waiting(Of(v)) /\ Of(v).kind = "batch"
      BY <3>1 DEF PhaseOK, Phase, Inv, KindsOK, Fits, BatchPcs
    <3>3. j \in RowsOf(k, i)
      BY <1>1, <1>2 DEF RowsOf
    <3> QED
      BY <1>1, <1>4, <3>1, <3>2, <3>3 DEF Waiting
  <2>2. CASE ~FailRow(v)
    BY <1>1, <1>2, <1>4, <2>2, CountingStarts DEF Counting, At
  <2> QED
    BY <2>1, <2>2
<1>5. ~Counting(k, i)'
  BY <1>4 DEF Counting, At
<1> QED
  BY <1>1, <1>2, <1>3, <1>5 DEF Counted, BatchRows

(* What a session holds of the totals.                                     *)
LEMMA SnapChange ==
  ASSUME Inv, [Next]_vars, NEW v \in Workers
  PROVE  worker'[v].snap \in {worker[v].snap, totals, NoTotals}
<1> DEFINE Good(w) == /\ worker'[w].snap \in {worker[w].snap, totals, NoTotals}
                      /\ \A u \in Workers \ {w} : worker'[u] = worker[u]
<1>1. ASSUME NEW w \in Workers, Good(w)  PROVE worker'[v].snap \in {worker[v].snap, totals, NoTotals}
  BY <1>1
<1>2. UNCHANGED vars \/ AdvancePipeline => worker'[v].snap = worker[v].snap
  BY DEF vars, AdvancePipeline
<1>3. ASSUME NEW w \in Workers, TakeTask(w) \/ Acknowledge(w) \/ WorkerLost(w)  PROVE Good(w)
  BY <1>3, TakeTaskFacts, AcknowledgeFacts, WorkerLostFacts DEF Idle
<1>4. ASSUME NEW w \in Workers, SetStage(w) \/ PlanStage(w) \/ CreateBatchRow(w) \/ StartChord(w)
      PROVE  Good(w)
  <2>1. SetStage(w) \/ PlanStage(w) => Good(w)
    BY SetStageFacts, PlanStageFacts DEF Moves
  <2>2. CreateBatchRow(w) => Good(w)
    BY CreateBatchRowFacts DEF Moves
  <2>3. StartChord(w) => Good(w)
    BY StartChordFacts DEF Moves, KeepsLocals
  <2> QED
    BY <1>4, <2>1, <2>2, <2>3
<1>5. ASSUME NEW w \in Workers, LoadBatch(w) \/ RunSucceeds(w) \/ FailRow(w) \/ ReportPart(w)
      PROVE  Good(w)
  <2>1. LoadBatch(w) \/ FailRow(w) => Good(w)
    BY LoadBatchFacts, FailRowFacts DEF Moves
  <2>2. RunSucceeds(w) \/ ReportPart(w) => Good(w)
    BY RunSucceedsFacts, ReportPartFacts DEF Moves, KeepsLocals
  <2> QED
    BY <1>5, <2>1, <2>2
<1>6. ASSUME NEW w \in Workers, RunTransient(w) \/ BumpTransient(w) \/ BumpCompleted(w)
                                \/ BumpFailed(w)
      PROVE  Good(w)
  <2>1. RunTransient(w) \/ BumpTransient(w) => RetryOrFail(w)
    BY DEF RunTransient, BumpTransient
  <2>2. RetryOrFail(w) => Good(w)
    BY RetryFacts DEF Moves, KeepsLocals
  <2>3. BumpCompleted(w) \/ BumpFailed(w) => Good(w)
    BY BumpFacts DEF Moves, KeepsLocals
  <2> QED
    BY <1>6, <2>1, <2>2, <2>3
<1>7. ASSUME NEW w \in Workers, JoinStage(w) \/ DecideFailed(w) \/ SendFailed(w) \/ SendNext(w)
                                \/ MarkCompleted(w) \/ MarkFailed(w)
      PROVE  Good(w)
  <2>1. JoinStage(w) \/ DecideFailed(w) => Good(w)
    BY JoinStageFacts, DecideFailedFacts DEF Moves, KeepsLocals
  <2>2. SendFailed(w) \/ SendNext(w) => Good(w)
    BY SendFacts DEF Moves, KeepsLocals
  <2>3. MarkCompleted(w) \/ MarkFailed(w) => Good(w)
    BY MarkFacts DEF Moves, KeepsLocals
  <2> QED
    BY <1>7, <2>1, <2>2, <2>3
<1> HIDE DEF Good
<1> QED
  BY <1>1, <1>2, <1>3, <1>4, <1>5, <1>6, <1>7 DEF Next, TaskStep

(* The totals change in these steps only.                                  *)
LEMMA TotalsChange ==
  ASSUME [Next]_vars, totals' # totals
  PROVE  \E w \in Workers : PlanStage(w) \/ BumpCompleted(w) \/ BumpFailed(w)
<1>1. ~UNCHANGED vars
  BY DEF vars
<1>2. \A w \in Workers : ~(TakeTask(w) \/ Acknowledge(w) \/ SetStage(w) \/ CreateBatchRow(w)
                            \/ StartChord(w) \/ LoadBatch(w) \/ RunSucceeds(w))
  BY DEF TakeTask, Acknowledge, SetStage, CreateBatchRow, StartChord, LoadBatch, RunSucceeds
<1>3. \A w \in Workers : ~(RunTransient(w) \/ BumpTransient(w) \/ FailRow(w)
                            \/ ReportPart(w) \/ WorkerLost(w))
  BY DEF RunTransient, BumpTransient, FailRow, ReportPart, WorkerLost
<1>4. \A w \in Workers : ~(JoinStage(w) \/ DecideFailed(w) \/ SendFailed(w) \/ SendNext(w)
                            \/ MarkCompleted(w) \/ MarkFailed(w))
  BY DEF JoinStage, DecideFailed, SendFailed, SendNext, MarkCompleted, MarkFailed
<1>5. ~AdvancePipeline
  BY DEF AdvancePipeline
<1> QED
  BY <1>1, <1>2, <1>3, <1>4, <1>5 DEF Next, TaskStep

(* A set of rows is finite.                                                *)
LEMMA PlacesFinite ==
  ASSUME NEW s \in Seq(RowSet), NEW T \in SUBSET DOMAIN s
  PROVE  IsFiniteSet(T) /\ Cardinality(T) \in Nat
<1>1. DOMAIN s = 1..Len(s) /\ Len(s) \in Nat
  OBVIOUS
<1>2. IsFiniteSet(1..Len(s))
  BY <1>1, FS_Interval
<1>3. IsFiniteSet(T)
  BY <1>1, <1>2, FS_Subset
<1> QED
  BY <1>3, FS_CardinalityType

(* A counter of failures, stored or held by a session, is never above the  *)
(* number of failed rows: an update may be lost, but none is made twice.   *)
LEMMA CountsStep ==
  ASSUME Inv, TokensOK, PhaseOK, RowsOK, CountsOK, FaultsOK, NoRedelivery, [Next]_vars
  PROVE  CountsOK'
<1>0. Inv' /\ RowsOK'
  BY InvStep, RowsStep
<1>1. ASSUME NEW k
      PROVE  /\ IsFiniteSet(Counted(k)) /\ Cardinality(Counted(k)) \in Nat
             /\ IsFiniteSet(Counted(k)') /\ Cardinality(Counted(k))' \in Nat
             /\ Cardinality(Counted(k)) <= Cardinality(Counted(k))'
  <2>1. IsFiniteSet(Counted(k)) /\ Cardinality(Counted(k)) \in Nat
    BY PlacesFinite DEF Inv, Types, Counted, BatchRows
  <2>2. Counted(k)' \in SUBSET DOMAIN rows' /\ rows' \in Seq(RowSet)
    BY <1>0 DEF Inv, Types, Counted, BatchRows
  <2>3. PICK T : T = Counted(k)'
    OBVIOUS
  <2>4. IsFiniteSet(T) /\ Cardinality(T) \in Nat
    BY <2>2, <2>3, PlacesFinite
  <2>5. Cardinality(Counted(k)) <= Cardinality(T)
    BY <2>3, <2>4, CountedGrows, FS_Subset
  <2> QED
    BY <2>1, <2>3, <2>4, <2>5
<1>2. ASSUME NEW x \in TotalsSet, AtMostCounted(x)  PROVE AtMostCounted(x)'
  <2>1. ASSUME NEW k \in AllStages  PROVE x[k].failed <= Cardinality(Counted(k))'
    <3>1. x[k].failed \in Nat /\ x[k].failed <= Cardinality(Counted(k))
      BY <1>2 DEF AtMostCounted, TotalsSet, Entry3
    <3> QED
      BY <1>1, <3>1
  <2> QED
    BY <2>1 DEF AtMostCounted
<1>3. AtMostCounted(totals)'
  <2>1. CASE totals' = totals
    <3>1. PICK x \in TotalsSet : x = totals
      BY DEF Inv, Types
    <3>2. AtMostCounted(x)'
      BY <1>2, <3>1 DEF CountsOK
    <3> QED
      BY <2>1, <3>1, <3>2 DEF AtMostCounted
  <2>2. CASE totals' # totals
    <3>1. PICK w \in Workers : PlanStage(w) \/ BumpCompleted(w) \/ BumpFailed(w)
      BY <2>2, TotalsChange
    <3>2. PICK x, k : x = worker[w].snap /\ k = Of(w).stage
      OBVIOUS
    <3>3. x \in TotalsSet /\ k \in AllStages /\ AtMostCounted(x)
      BY <3>2 DEF Inv, Types, WorkerSet, Of, TaskSet, CountsOK
    <3>4. AtMostCounted(x)'
      BY <1>2, <3>3
    <3>5. ASSUME NEW h \in AllStages, totals'[h].failed = x[h].failed \/ totals'[h].failed = 0
          PROVE  totals'[h].failed <= Cardinality(Counted(h))'
      BY <1>1, <3>4, <3>5 DEF AtMostCounted
    <3>6. CASE PlanStage(w)
      <4>0. PICK e : totals' = [x EXCEPT ![k] = e] /\ e.failed = 0
        <5>1. totals' = [x EXCEPT ![k] = [NoEntry EXCEPT !.total = BatchCount(k, PlanSource(k))]]
          BY <3>2, <3>6, PlanStageFacts
        <5>2. [NoEntry EXCEPT !.total = BatchCount(k, PlanSource(k))].failed = 0
          BY DEF NoEntry
        <5> QED
          BY <5>1, <5>2
      <4>1. \A h \in AllStages : totals'[h].failed = x[h].failed \/ totals'[h].failed = 0
        BY <3>3, <4>0 DEF TotalsSet
      <4> QED
        BY <3>5, <4>1 DEF AtMostCounted
    <3>7. CASE BumpCompleted(w)
      <4>1. totals' = [x EXCEPT ![k].completed = @ + 1]
        BY <3>2, <3>7, BumpFacts DEF BumpCompleted, At
      <4>2. \A h \in AllStages : totals'[h].failed = x[h].failed
        BY <3>3, <4>1 DEF TotalsSet, Entry3
      <4> QED
        BY <3>5, <4>2 DEF AtMostCounted
    <3>8. CASE BumpFailed(w)
      <4>1. /\ totals' = [x EXCEPT ![k].failed = @ + 1] /\ rows' = rows
            /\ Pc(w) = "bump_failed" /\ Pc(w)' = "report" /\ Pc(w) \in BatchPcs
            /\ \A v \in Workers \ {w} : worker'[v] = worker[v]
        BY <3>2, <3>8, BumpFacts DEF BumpFailed, At, Moves, BatchPcs
      <4>2. \A h \in AllStages \ {k} : totals'[h].failed = x[h].failed
        BY <3>3, <4>1 DEF TotalsSet, Entry3
      <4>3. totals'[k].failed = x[k].failed + 1 /\ x[k].failed \in Nat
        BY <3>3, <4>1 DEF TotalsSet, Entry3
      <4>4. PICK j, i : j = RowAt(w) /\ i = Of(w).batch
        OBVIOUS
      <4>5. /\ j \in DOMAIN rows /\ rows[j].stage = k /\ rows[j].batch = i
            /\ i # 0 /\ rows[j].status = "failed" /\ Of(w).kind = "batch"
        <5>1. j \in RowsOf(k, i) /\ i \in 1..chords[Of(w).chord].size /\ Of(w).kind = "batch"
          BY <3>2, <4>1, <4>4, BatchRowExists DEF Inv, RowAt
        <5> QED
          BY <3>2, <4>1, <4>4, <5>1 DEF CountsOK, HasFailed, At, RowsOf
      <4>6. j \notin Counted(k)
        BY <3>2, <4>1, <4>4, <4>5 DEF Counted, Counting, At
      <4>7. ~Counting(k, i)'
        <5>1. ASSUME NEW v \in Workers, Pc(v)' = "bump_failed", Of(v)'.stage = k, Of(v)'.batch = i
              PROVE  FALSE
          <6>1. v # w /\ Pc(v) = "bump_failed" /\ Of(v).batch = i
            BY <4>1, <5>1 DEF Pc, Of
          <6>2. Together(Of(v), Of(w))
            BY <4>1, <6>1 DEF TokensOK, Live
          <6> QED
            BY <4>4, <6>1, <6>2 DEF Together
        <5> QED
          BY <5>1 DEF Counting, At
      <4>8. j \in Counted(k)'
        BY <4>1, <4>5, <4>7 DEF Counted, BatchRows
      <4>9. PICK T, U : T = Counted(k) \cup {j} /\ U = Counted(k)'
        OBVIOUS
      <4>10. Cardinality(T) = Cardinality(Counted(k)) + 1 /\ IsFiniteSet(U) /\ T \in SUBSET U
        BY <1>1, <4>6, <4>8, <4>9, CountedGrows, FS_AddElement
      <4>11. Cardinality(T) <= Cardinality(U)
        BY <4>10, FS_Subset
      <4>12. totals'[k].failed <= Cardinality(Counted(k))'
        <5>1. x[k].failed <= Cardinality(Counted(k))
          BY <3>3 DEF AtMostCounted
        <5> QED
          BY <1>1, <4>3, <4>9, <4>10, <4>11, <5>1
      <4> QED
        BY <3>5, <4>2, <4>12 DEF AtMostCounted
    <3> QED
      BY <3>1, <3>6, <3>7, <3>8
  <2> QED
    BY <2>1, <2>2
<1>4. ASSUME NEW v \in Workers  PROVE AtMostCounted(worker[v].snap)'
  <2>1. PICK x : x = worker'[v].snap
    OBVIOUS
  <2>2. x \in TotalsSet
    BY <1>0, <2>1 DEF Inv, Types, WorkerSet
  <2>3. AtMostCounted(NoTotals)
    <3>1. \A k \in AllStages : NoTotals[k].failed = 0
      BY DEF NoTotals, NoEntry
    <3> QED
      BY <1>1, <3>1 DEF AtMostCounted
  <2>4. AtMostCounted(x)
    BY <2>1, <2>3, SnapChange DEF CountsOK
  <2>5. AtMostCounted(x)'
    BY <1>2, <2>2, <2>4
  <2> QED
    BY <2>1, <2>5 DEF AtMostCounted
<1>5. ASSUME NEW v \in Workers, Pc(v)' = "bump_failed"
      PROVE  \A j \in RowsOf(Of(v).stage, Of(v).batch)' : rows'[j].status = "failed"
  <2>1. PICK t, h : t = Of(v) /\ h = RowAt(v)
    OBVIOUS
  <2>2. Pc(v) \in BatchPcs /\ Of(v)' = t
    BY <1>5, <2>1, CountingStarts, FailRowFacts DEF Moves, BatchPcs
  <2>3. h \in RowsOf(t.stage, t.batch) /\ h \in DOMAIN rows
    BY <2>1, <2>2, BatchRowExists DEF Inv, RowAt
  <2>4. /\ h \in DOMAIN rows' /\ rows'[h].status = "failed"
        /\ rows'[h].stage = t.stage /\ rows'[h].batch = t.batch
    <3>1. CASE FailRow(v)
      BY <2>1, <2>3, <3>1, FailRowFacts DEF RowsStay, RowsOf
    <3>2. CASE ~FailRow(v)
      <4>1. rows[h].status = "failed"
        BY <1>5, <2>1, <2>3, <3>2, CountingStarts DEF CountsOK, HasFailed, At
      <4> QED
        BY <2>3, <4>1, FailedStays DEF RowsOf
    <3> QED
      BY <3>1, <3>2
  <2>5. RowsOf(t.stage, t.batch)' \subseteq {h}
    BY <1>0, <2>4 DEF RowsOK, RowsOf
  <2> QED
    BY <2>2, <2>4, <2>5
<1> QED
  BY <1>3, <1>4, <1>5 DEF CountsOK, HasFailed, At
-----------------------------------------------------------------------------
(* The totals of a stage and its batches.                                  *)

\* The batch rows keep their place and their batch.
BatchRowsKept == \A k : /\ BatchRows(k)' = BatchRows(k)
                        /\ \A j \in BatchRows(k) : rows'[j].batch = rows[j].batch
\* The messages of S are the new ones, and agree with the totals.
SizedSends(S) == /\ BagToSet(msgs)' \subseteq BagToSet(msgs) \cup S
                 /\ \A t \in S : SizedTask(t)'

(* A step that leaves the totals alone.                                    *)
LEMMA SizeFrame ==
  ASSUME Inv, SizesOK, totals' = totals, BatchRowsKept, ChordsGrow, NEW w \in Workers,
         \A v \in Workers \ {w} : worker'[v] = worker[v],
         ~Live(w)' \/ (Live(w) /\ Of(w)' = Of(w)) \/ Of(w)' \in BagToSet(msgs),
         Sized(w)', NEW S, SizedSends(S)
  PROVE  SizesOK'
<1>1. LiveTasks' \subseteq LiveTasks \cup S
  <2>1. \A v \in Workers \ {w} : Live(v)' = Live(v) /\ Of(v)' = Of(v)
    BY DEF Live, Pc, Of
  <2> QED
    BY <2>1 DEF LiveTasks, SizedSends
<1>2. ASSUME NEW t \in LiveTasks  PROVE SizedTask(t)'
  <2>1. t \in Tasks /\ SizedTask(t)
    BY DEF LiveTasks, Tasks, Live, SizesOK
  <2>2. t.kind = "batch" => t.chord \in DOMAIN chords
    BY <2>1 DEF Inv, BatchesOK, HasChord
  <2> QED
    BY <2>1, <2>2 DEF SizedTask, BatchRowsKept, ChordsGrow
<1>3. ASSUME NEW v \in Workers \ {w}  PROVE Sized(v)'
  <2>1. worker'[v] = worker[v] /\ Sized(v) /\ Pc(v)' = Pc(v) /\ Of(v)' = Of(v)
    BY DEF SizesOK, Pc, Of
  <2>2. Pc(v) \in BatchPcs => Of(v).chord \in DOMAIN chords
    BY BatchRowExists DEF Inv
  <2> QED
    BY <2>1, <2>2 DEF Sized, At, BatchRowsKept, ChordsGrow, BatchPcs, BatchCount
<1> QED
  BY <1>1, <1>2, <1>3 DEF SizesOK, SizedSends

(* Of one live task, only the totals of its own stage matter.              *)
LEMMA SizeAlone ==
  ASSUME NEW w \in Workers, Alone(w), msgs' = msgs, Of(w)' = Of(w), Of(w).kind = "dispatch",
         \A v \in Workers \ {w} : worker'[v] = worker[v], Sized(w)'
  PROVE  SizesOK'
<1>1. \A v \in Workers \ {w} : Pc(v)' = Pc(v) /\ Pc(v) \in {"idle", "ack"}
  BY DEF Alone, Live, Pc
<1>2. \A t \in LiveTasks' : t = Of(w)
  BY <1>1 DEF Alone, LiveTasks, Live
<1>3. \A t \in LiveTasks' : SizedTask(t)'
  BY <1>2 DEF SizedTask
<1>4. \A v \in Workers : Sized(v)'
  BY <1>1 DEF Sized, At
<1> QED
  BY <1>3, <1>4 DEF SizesOK

(* The plan sets the total that the chord gets as its size; ...            *)
LEMMA SizesDispatch ==
  ASSUME Inv, TokensOK, PhaseOK, SizesOK, NEW w \in Workers,
         SetStage(w) \/ PlanStage(w) \/ CreateBatchRow(w) \/ StartChord(w)
  PROVE  SizesOK'
<1>1. /\ Live(w) /\ Of(w).kind = "dispatch" /\ Pc(w) \in DispatchPcs
      /\ Of(w).stage \in AllStages /\ Phase(w) /\ Sized(w)
  BY DEF SetStage, PlanStage, CreateBatchRow, StartChord, At, Live, Inv, KindsOK, Fits,
     DispatchPcs, Types, WorkerSet, Of, PhaseOK, TaskSet, SizesOK
<1>2. Alone(w)
  BY <1>1, OneAtATime
<1>3. PICK k : k = Of(w).stage
  OBVIOUS
<1>4. CASE SetStage(w)
  <2>1. Sized(w)'
    BY <1>4, SetStageFacts DEF Moves, Sized, At
  <2> QED
    BY <1>1, <1>2, <1>4, <2>1, SetStageFacts, SizeAlone DEF Moves
<1>5. CASE PlanStage(w)
  <2>1. PICK S, x, n : S = PlanSource(k) /\ x = worker[w].snap /\ n = BatchCount(k, S)
    OBVIOUS
  <2>2. /\ totals' = [x EXCEPT ![k] = [NoEntry EXCEPT !.total = n]] /\ worker'[w].ids = S
        /\ Moves(w, "plan", "rows") /\ msgs' = msgs
    BY <1>3, <1>5, <2>1, PlanStageFacts
  <2>3. x \in TotalsSet /\ k \in AllStages
    BY <1>1, <1>3, <2>1 DEF Inv, Types, WorkerSet
  <2>4. totals'[k].total = n
    BY <2>2, <2>3 DEF TotalsSet, NoEntry
  <2>5. BatchCount(k, worker[w].ids)' = n
    BY <2>1, <2>2 DEF BatchCount
  <2>6. Sized(w)'
    BY <1>3, <2>2, <2>4, <2>5 DEF Moves, Sized, At, BatchCount
  <2> QED
    BY <1>1, <1>2, <2>2, <2>6, SizeAlone DEF Moves
<1>6. CASE CreateBatchRow(w)
  <2>1. Moves(w, "rows", "rows") /\ worker'[w].ids = worker[w].ids /\ UNCHANGED <<totals, msgs>>
    BY <1>6, CreateBatchRowFacts
  <2>2. Sized(w)'
    BY <1>1, <2>1 DEF Moves, Sized, At, BatchCount
  <2> QED
    BY <1>1, <1>2, <2>1, <2>2, SizeAlone DEF Moves
<1>7. CASE StartChord(w)
  <2>1. PICK n, S, c : /\ n = BatchCount(Of(w).stage, worker[w].ids) /\ S = ChordBatches(w)
                       /\ c = Len(chords) + 1
    OBVIOUS
  <2>2. /\ Moves(w, "rows", "ack") /\ n \in Nat /\ rows' = rows /\ totals' = totals
        /\ worker[w].next = n + 1
    BY <1>7, <2>1, StartChordFacts
  <2>3. Sized(w)' /\ ~Live(w)'
    BY <2>2 DEF Moves, Sized, Live, At
  <2>4. totals[k].total = n
    BY <1>1, <1>3, <2>1, <2>2 DEF Sized, At, Moves
  <2>5. BatchRowsKept
    BY <2>2 DEF BatchRowsKept, BatchRows
  <2>6. ChordsGrow
    <3>1. [Next]_vars
      BY <1>7 DEF Next, TaskStep
    <3> QED
      BY <3>1, GrowStep
  <2>7. CASE n = 0
    <3>1. PICK t : t = FinalizeTask(k, 0)
      OBVIOUS
    <3>2. msgs' = msgs (+) One(t) /\ t.kind = "finalize" /\ t.stage = k
      BY <1>3, <1>7, <2>1, <2>7, <3>1, StartChordFacts DEF FinalizeTask, Task
    <3>3. Planned(k, worker[w].next - 1) /\ worker[w].next - 1 = 0
      BY <1>1, <1>3, <2>2, <2>7 DEF Phase, At, Moves
    <3>4. BatchRows(k) = {}
      BY <3>3 DEF Planned, BatchRows
    <3>5. SizedTask(t)'
      BY <2>2, <3>2, <3>4 DEF SizedTask, BatchRows
    <3>6. SizedSends({t})
      BY <3>2, <3>5, BagSend DEF SizedSends, Inv, Types
    <3> QED
      BY <2>2, <2>3, <2>5, <2>6, <3>6, SizeFrame DEF Moves
  <2>8. CASE n # 0
    <3>1. msgs' = msgs (+) SetToBag(S) /\ chords'[c] = [size |-> n, done |-> {}]
      BY <1>7, <2>1, <2>8, StartChordFacts
    <3>2. ASSUME NEW t \in S  PROVE SizedTask(t)'
      <4>1. t.kind = "batch" /\ t.stage = k /\ t.chord = c
        BY <1>3, <2>1 DEF ChordBatches, BatchTask, Task
      <4> QED
        BY <2>2, <2>4, <3>1, <4>1 DEF SizedTask
    <3>3. SizedSends(S)
      BY <3>1, <3>2, BagSendAll DEF SizedSends, Inv, Types
    <3> QED
      BY <2>2, <2>3, <2>5, <2>6, <3>3, SizeFrame DEF Moves
  <2> QED
    BY <2>7, <2>8
<1> QED
  BY <1>4, <1>5, <1>6, <1>7

(* ... the batches read it, ...                                            *)
LEMMA SizesBatch ==
  ASSUME Inv, SizesOK, NEW w \in Workers,
         LoadBatch(w) \/ RunSucceeds(w) \/ FailRow(w) \/ RunTransient(w) \/ BumpTransient(w)
  PROVE  SizesOK'
<1>1. Pc(w) \in BatchPcs /\ Live(w) /\ Pc(w) \in {"load", "run", "bump", "fail"}
  BY DEF LoadBatch, RunSucceeds, FailRow, RunTransient, BumpTransient, At, BatchPcs, Live
<1>2. PICK t, k, c : t = Of(w) /\ k = t.stage /\ c = t.chord
  OBVIOUS
<1>3. /\ t.kind = "batch" /\ t \in LiveTasks /\ c \in DOMAIN chords /\ Sized(w)
      /\ totals[k].total = chords[c].size
  <2>1. t.kind = "batch" /\ c \in DOMAIN chords
    BY <1>1, <1>2, BatchRowExists DEF Inv
  <2>2. t \in LiveTasks
    BY <1>1, <1>2 DEF LiveTasks
  <2> QED
    BY <1>2, <2>1, <2>2 DEF SizesOK, SizedTask
<1>4. ChordsGrow
  <2>1. [Next]_vars
    BY DEF Next, TaskStep
  <2> QED
    BY <2>1, GrowStep
<1>5. CASE LoadBatch(w) \/ FailRow(w)
  <2>1. /\ RowsStay /\ totals' = totals /\ msgs' = msgs /\ chords' = chords
        /\ worker'[w].snap = totals /\ Of(w)' = Of(w) /\ Pc(w)' \in {"run", "bump_failed"}
        /\ \A v \in Workers \ {w} : worker'[v] = worker[v]
    BY <1>5, LoadBatchFacts, FailRowFacts DEF Moves
  <2>2. BatchRowsKept
    BY <2>1, RowsStayFacts DEF BatchRowsKept, RowsStay, BatchRows
  <2>3. Sized(w)'
    BY <1>2, <1>3, <2>1 DEF Sized, At
  <2>4. SizedSends({})
    BY <2>1 DEF SizedSends
  <2> QED
    BY <1>1, <1>4, <2>1, <2>2, <2>3, <2>4, SizeFrame
<1>6. CASE RunSucceeds(w)
  <2>1. /\ RowsStay /\ totals' = totals /\ msgs' = msgs /\ chords' = chords
        /\ worker'[w].snap = worker[w].snap /\ Of(w)' = Of(w)
        /\ Pc(w) = "run" /\ Pc(w)' = "bump"
        /\ \A v \in Workers \ {w} : worker'[v] = worker[v]
    BY <1>6, RunSucceedsFacts DEF Moves, KeepsLocals
  <2>2. BatchRowsKept
    BY <2>1, RowsStayFacts DEF BatchRowsKept, RowsStay, BatchRows
  <2>3. Sized(w)'
    BY <1>2, <1>3, <2>1 DEF Sized, At
  <2>4. SizedSends({})
    BY <2>1 DEF SizedSends
  <2> QED
    BY <1>1, <1>4, <2>1, <2>2, <2>3, <2>4, SizeFrame
<1>7. CASE RunTransient(w) \/ BumpTransient(w)
  <2>1. /\ RetryOrFail(w) /\ rows' = rows /\ totals' = totals /\ chords' = chords
        /\ Pc(w) \in {"run", "bump"}
    BY <1>7 DEF RunTransient, BumpTransient, At
  <2>2. /\ worker'[w].snap = worker[w].snap /\ Of(w)' = Of(w) /\ Pc(w)' \in {"ack", "fail"}
        /\ \A v \in Workers \ {w} : worker'[v] = worker[v]
        /\ msgs' = msgs \/ (MayRetry(t) /\ msgs' = msgs (+) One(Again(t)))
    BY <1>2, <2>1, RetryFacts DEF Moves, KeepsLocals
  <2>3. BatchRowsKept
    BY <2>1 DEF BatchRowsKept, BatchRows
  <2>4. Sized(w)'
    BY <1>2, <1>3, <2>1, <2>2 DEF Sized, At
  <2>5. ASSUME MayRetry(t)  PROVE SizedTask(Again(t))'
    <3>1. Again(t).kind = "batch" /\ Again(t).stage = k /\ Again(t).chord = c
      BY <1>2, <1>3, <2>5, AgainFacts DEF Inv, Types, WorkerSet, Of
    <3> QED
      BY <1>3, <2>1, <3>1 DEF SizedTask, Again
  <2>6. SizedSends({Again(t)}) \/ SizedSends({})
    BY <2>2, <2>5, BagSend DEF SizedSends, Inv, Types
  <2> QED
    BY <1>1, <1>4, <2>1, <2>2, <2>3, <2>4, <2>6, SizeFrame
<1> QED
  BY <1>5, <1>6, <1>7

(* ... write it back with their counters, ...                              *)
LEMMA SizesBump ==
  ASSUME Inv, TokensOK, SizesOK, NEW w \in Workers, BumpCompleted(w) \/ BumpFailed(w)
  PROVE  SizesOK'
<1>1. PICK t, k, c, x : t = Of(w) /\ k = t.stage /\ c = t.chord /\ x = worker[w].snap
  OBVIOUS
<1>2. /\ Pc(w) \in {"bump", "bump_failed"} /\ Pc(w)' = "report" /\ Of(w)' = t
      /\ UNCHANGED <<rows, chords, msgs>>
      /\ \A v \in Workers \ {w} : worker'[v] = worker[v]
      /\ \/ totals' = [x EXCEPT ![k].completed = @ + 1]
         \/ totals' = [x EXCEPT ![k].failed = @ + 1]
  BY <1>1, BumpFacts DEF Moves
<1>3. x \in TotalsSet /\ k \in AllStages
  BY <1>1 DEF Inv, Types, WorkerSet, Of, TaskSet
<1>4. totals'[k].total = chords'[c].size
  <2>1. x[k].total = chords[c].size
    BY <1>1, <1>2 DEF SizesOK, Sized
  <2>2. totals'[k].total = x[k].total
    BY <1>2, <1>3 DEF TotalsSet, Entry3
  <2> QED
    BY <1>2, <2>1, <2>2
<1>5. Live(w) /\ t.kind = "batch"
  BY <1>1, <1>2, BatchRowExists DEF Inv, Live, BatchPcs
<1>6. ASSUME NEW v \in Workers \ {w}  PROVE Live(v)' = Live(v) /\ Of(v)' = Of(v)
  BY <1>2 DEF Live, Pc, Of
<1>7. ASSUME NEW u \in LiveTasks'  PROVE u.kind = "batch" /\ u.stage = k /\ u.chord = c
  <2>1. CASE u \in BagToSet(msgs)
    <3>1. Together(u, t)
      BY <1>1, <1>5, <2>1 DEF TokensOK
    <3> QED
      BY <1>1, <3>1 DEF Together
  <2>2. CASE u = t
    BY <1>1, <1>5, <2>2
  <2>3. ASSUME NEW v \in Workers \ {w}, Live(v), u = Of(v)
        PROVE  u.kind = "batch" /\ u.stage = k /\ u.chord = c
    <3>1. Together(u, t)
      BY <1>1, <1>5, <2>3 DEF TokensOK
    <3> QED
      BY <1>1, <3>1 DEF Together
  <2> QED
    BY <1>2, <1>6, <2>1, <2>2, <2>3 DEF LiveTasks
<1>8. \A u \in LiveTasks' : SizedTask(u)'
  BY <1>4, <1>7 DEF SizedTask
<1>9. ASSUME NEW v \in Workers \ {w}  PROVE Sized(v)'
  <2>1. worker'[v] = worker[v] /\ Sized(v) /\ Pc(v)' = Pc(v) /\ Of(v)' = Of(v)
    BY <1>2 DEF SizesOK, Pc, Of
  <2>2. Pc(v) \notin {"rows", "decide"}
    <3>1. Live(v) => Together(Of(v), t)
      BY <1>1, <1>5 DEF TokensOK
    <3> QED
      BY <3>1 DEF Together, Inv, KindsOK, Fits, DispatchPcs, FinalizePcs, Live
  <2> QED
    BY <1>2, <2>1, <2>2 DEF Sized, At
<1>10. Sized(w)'
  BY <1>2 DEF Sized, At
<1> QED
  BY <1>8, <1>9, <1>10 DEF SizesOK

(* ... and the join reads it.                                              *)
LEMMA SizesFinalize ==
  ASSUME Inv, PhaseOK, SizesOK, NEW w \in Workers,
         ReportPart(w) \/ JoinStage(w) \/ DecideFailed(w) \/ SendFailed(w) \/ SendNext(w)
  PROVE  SizesOK'
<1>1. ChordsGrow
  <2>1. [Next]_vars
    BY DEF Next, TaskStep
  <2> QED
    BY <2>1, GrowStep
<1>2. CASE ReportPart(w)
  <2>1. PICK t, k, c, u : /\ t = Of(w) /\ k = t.stage /\ c = t.chord
                          /\ u = FinalizeTask(k, c)
    OBVIOUS
  <2>2. /\ Pc(w) = "report" /\ Pc(w)' = "ack" /\ Of(w)' = t /\ Live(w)
        /\ rows' = rows /\ totals' = totals
        /\ \A v \in Workers \ {w} : worker'[v] = worker[v]
        /\ msgs' = msgs \/ msgs' = msgs (+) One(u)
    BY <1>2, <2>1, ReportPartFacts DEF Moves, Live
  <2>3. t.kind = "batch" /\ t \in LiveTasks
    BY <2>1, <2>2, BatchRowExists DEF Inv, BatchPcs, LiveTasks
  <2>4. Planned(k, totals[k].total)
    <3>1. Planned(k, chords[c].size)
      BY <2>1, <2>2 DEF PhaseOK, Phase, Batching
    <3>2. totals[k].total = chords[c].size
      BY <2>1, <2>3 DEF SizesOK, SizedTask
    <3> QED
      BY <3>1, <3>2
  <2>5. u.kind = "finalize" /\ u.stage = k
    BY <2>1 DEF FinalizeTask, Task
  <2>6. SizedTask(u)'
    BY <2>2, <2>4, <2>5 DEF SizedTask, Planned, BatchRows
  <2>7. SizedSends({u})
    BY <2>2, <2>6, BagSend DEF SizedSends, Inv, Types
  <2>8. BatchRowsKept /\ Sized(w)' /\ ~Live(w)'
    BY <2>2 DEF BatchRowsKept, BatchRows, Sized, At, Live
  <2> QED
    BY <1>1, <2>2, <2>7, <2>8, SizeFrame
<1>3. CASE JoinStage(w)
  <2>1. PICK t, k, r : t = Of(w) /\ k = t.stage /\ r = JoinRow(k)
    OBVIOUS
  <2>2. /\ Pc(w) = "join" /\ Pc(w)' = "decide" /\ Of(w)' = t /\ Live(w) /\ t.kind = "finalize"
        /\ msgs' = msgs /\ totals' = totals /\ worker'[w].snap = totals
        /\ \A v \in Workers \ {w} : worker'[v] = worker[v]
        /\ Adds(r) /\ r.stage = k /\ r.batch = 0
    BY <1>3, <2>1, JoinStageFacts DEF Moves, Live, Inv, KindsOK, Fits, FinalizePcs
  <2>3. BatchRowsKept
    BY <2>2, AddedFacts DEF BatchRowsKept, Adds, BatchRows
  <2>4. t \in LiveTasks
    BY <2>1, <2>2 DEF LiveTasks
  <2>5. \A j \in BatchRows(k) : rows[j].batch \in 1..totals[k].total
    BY <2>1, <2>2, <2>4 DEF SizesOK, SizedTask
  <2>6. \A j \in BatchRows(k)' : rows'[j].batch \in 1..totals[k].total
    BY <2>3, <2>5 DEF BatchRowsKept
  <2>7. Sized(w)'
    BY <2>1, <2>2, <2>6 DEF Sized, At
  <2>8. SizedSends({})
    BY <2>2 DEF SizedSends
  <2> QED
    BY <1>1, <2>1, <2>2, <2>3, <2>7, <2>8, SizeFrame
<1>4. CASE DecideFailed(w) \/ SendFailed(w) \/ SendNext(w)
  <2>1. PICK u : u \in {FailedTask, NextTask(Of(w).stage)} /\ msgs' \in {msgs, msgs (+) One(u)}
    BY <1>4 DEF DecideFailed, SendFailed, SendNext
  <2>2. /\ rows' = rows /\ totals' = totals /\ Of(w)' = Of(w) /\ Pc(w)' \in {"send_failed", "ack"}
        /\ Pc(w) \in {"decide", "send_failed"}
        /\ \A v \in Workers \ {w} : worker'[v] = worker[v]
    BY <1>4, DecideFailedFacts, SendFacts DEF Moves
  <2>3. u.kind \notin {"batch", "finalize"}
    BY <2>1 DEF FailedTask, NextTask, DispatchTask, CompleteTask, Task
  <2>4. SizedSends({u})
    BY <2>1, <2>3, BagSend DEF SizedSends, SizedTask, Inv, Types
  <2>5. BatchRowsKept /\ Sized(w)' /\ Live(w)
    BY <2>2 DEF BatchRowsKept, BatchRows, Sized, At, Live
  <2> QED
    BY <1>1, <2>2, <2>4, <2>5, SizeFrame
<1> QED
  BY <1>2, <1>3, <1>4

(* Taking, acknowledging and marking do not touch the totals.              *)
LEMMA SizesRest ==
  ASSUME Inv, SizesOK, NEW w \in Workers,
         TakeTask(w) \/ Acknowledge(w) \/ MarkCompleted(w) \/ MarkFailed(w)
  PROVE  SizesOK'
<1>1. ChordsGrow
  <2>1. [Next]_vars
    BY DEF Next, TaskStep
  <2> QED
    BY <2>1, GrowStep
<1>2. BatchRowsKept /\ totals' = totals
  BY DEF TakeTask, Acknowledge, MarkCompleted, MarkFailed, BatchRowsKept, BatchRows
<1>3. SizedSends({})
  <2>1. CASE TakeTask(w)
    BY <2>1, TakeTaskFacts, BagTake DEF SizedSends, Inv, Types
  <2>2. CASE ~TakeTask(w)
    BY <2>2 DEF Acknowledge, MarkCompleted, MarkFailed, SizedSends
  <2> QED
    BY <2>1, <2>2
<1>4. CASE TakeTask(w)
  <2>1. Of(w)' \in BagToSet(msgs) /\ Pc(w)' = Entry(Of(w)'.kind) /\ Of(w)' \in TaskSet
    BY <1>4, TakeTaskFacts, TasksTake
  <2>2. Pc(w)' \in {"set_stage", "load", "join", "mark_completed", "mark_failed"}
    BY <2>1 DEF Entry, TaskSet
  <2>3. Sized(w)'
    BY <2>2 DEF Sized, At
  <2> QED
    BY <1>1, <1>2, <1>3, <1>4, <2>1, <2>3, TakeTaskFacts, SizeFrame
<1>5. CASE Acknowledge(w)
  <2>1. Pc(w)' = "idle"
    BY <1>5, AcknowledgeFacts, IdleFacts DEF Pc
  <2>2. Sized(w)' /\ ~Live(w)'
    BY <2>1 DEF Sized, At, Live
  <2> QED
    BY <1>1, <1>2, <1>3, <1>5, <2>2, AcknowledgeFacts, SizeFrame
<1>6. CASE MarkCompleted(w) \/ MarkFailed(w)
  <2>1. Pc(w)' = "ack" /\ \A v \in Workers \ {w} : worker'[v] = worker[v]
    BY <1>6, MarkFacts DEF Moves
  <2>2. Sized(w)' /\ ~Live(w)'
    BY <2>1 DEF Sized, At, Live
  <2> QED
    BY <1>1, <1>2, <1>3, <2>1, <2>2, SizeFrame
<1> QED
  BY <1>4, <1>5, <1>6

(* The total of a stage is the number of its batches in every session that *)
(* uses it.                                                                *)
LEMMA SizesStep ==
  ASSUME Inv, TokensOK, PhaseOK, SizesOK, FaultsOK, NoRedelivery, [Next]_vars
  PROVE  SizesOK'
<1>1. ~AdvancePipeline /\ \A w \in Workers : ~WorkerLost(w)
  BY NoFaults
<1>2. CASE UNCHANGED vars
  BY <1>2 DEF vars, SizesOK, SizedTask, Sized, LiveTasks, Live, At, Pc, Of, BatchRows, BatchCount
<1> QED
  BY <1>1, <1>2, SizesDispatch, SizesBatch, SizesBump, SizesFinalize, SizesRest
     DEF Next, TaskStep
-----------------------------------------------------------------------------
(* The verdict.                                                            *)

(* When all the batches of a stage are counted as failed, they have failed. *)
LEMMA AllCounted ==
  ASSUME Inv, RowsOK, NEW k \in AllStages, NEW n \in Nat \ {0}, NEW m \in Nat, m >= n,
         m <= Cardinality(Counted(k)), \A j \in BatchRows(k) : rows[j].batch \in 1..n
  PROVE  BatchRows(k) # {} /\ \A j \in BatchRows(k) : rows[j].status = "failed"
<1> DEFINE B == BatchRows(k)
           f == [j \in B |-> rows[j].batch]
<1>1. B \in SUBSET DOMAIN rows /\ rows \in Seq(RowSet)
  BY DEF BatchRows, Inv, Types
<1>2. IsFiniteSet(B) /\ Cardinality(B) \in Nat
  BY <1>1, PlacesFinite
<1>3. f \in Injection(B, 1..n)
  <2>1. f \in [B -> 1..n]
    OBVIOUS
  <2>2. \A i, j \in B : f[i] = f[j] => i = j
    BY DEF RowsOK, BatchRows
  <2> QED
    BY <2>1, <2>2, Fun_IsInj
<1>4. IsFiniteSet(1..n) /\ Cardinality(1..n) = n
  BY FS_Interval
<1>5. Cardinality(B) <= n
  BY <1>3, <1>4, FS_Injection
<1> HIDE DEF f, B
<1>6. Counted(k) \in SUBSET B
  BY DEF Counted, B
<1>7. /\ IsFiniteSet(Counted(k)) /\ Cardinality(Counted(k)) <= Cardinality(B)
      /\ Cardinality(B) = Cardinality(Counted(k)) => B = Counted(k)
  BY <1>2, <1>6, FS_Subset
<1>8. Cardinality(Counted(k)) \in Nat
  BY <1>7, FS_CardinalityType
<1>9. B = Counted(k) /\ Cardinality(B) # 0
  BY <1>2, <1>5, <1>7, <1>8
<1>10. B # {}
  BY <1>9, FS_EmptySet
<1> QED
  BY <1>9, <1>10 DEF B, Counted

(* A run that fails has a stage that lost all its batches, and keeps it.   *)
LEMMA VerdictStep ==
  ASSUME Inv, BarrierInv, CountsOK, SizesOK, VerdictOK, [Next]_vars
  PROVE  VerdictOK'
<1> SUFFICES ASSUME status' = "failed"  PROVE VerdictOK'
  BY DEF VerdictOK
<1>1. ASSUME NEW k, Joined(k), BatchRows(k) # {}, \A j \in BatchRows(k) : rows[j].status = "failed"
      PROVE  /\ Joined(k)' /\ BatchRows(k)' # {}
             /\ \A j \in BatchRows(k)' : rows'[j].status = "failed"
  <2>1. CASE rows' = rows
    BY <1>1, <2>1 DEF Joined, RowsOf, BatchRows
  <2>2. CASE rows' # rows
    <3>1. PICK w \in Workers : CreateBatchRow(w) \/ LoadBatch(w) \/ RunSucceeds(w) \/ FailRow(w)
                               \/ JoinStage(w)
      BY <2>2, RowsChange
    <3>2. Untouched(k)
      BY <1>1, <3>1, TouchedStage DEF BarrierInv
    <3> QED
      BY <1>1, <3>2, UntouchedFacts DEF Untouched, BatchRows, Inv, Types
  <2> QED
    BY <2>1, <2>2
<1>2. \E k \in Critical : /\ Joined(k) /\ BatchRows(k) # {}
                          /\ \A j \in BatchRows(k) : rows[j].status = "failed"
  <2>1. CASE status = "failed"
    BY <2>1 DEF VerdictOK
  <2>2. CASE status # "failed"
    <3>1. PICK w \in Workers : DecideFailed(w) \/ MarkFailed(w)
      <4>1. PICK w \in Workers : SetStage(w) \/ DecideFailed(w) \/ MarkCompleted(w)
                                 \/ MarkFailed(w)
        BY <2>2, StatusChange
      <4>2. ~SetStage(w) /\ ~MarkCompleted(w)
        BY DEF SetStage, MarkCompleted
      <4> QED
        BY <4>1, <4>2
    <3>2. ~MarkFailed(w)
      <4>1. MarkFailed(w) => Pc(w) = "mark_failed" /\ Of(w).kind = "failed"
        BY DEF MarkFailed, At, Inv, KindsOK, Fits
      <4> QED
        BY <2>2, <4>1 DEF BarrierInv, PhaseOK, Phase, Waiting
    <3>3. PICK k, x : k = Of(w).stage /\ x = worker[w].snap
      OBVIOUS
    <3>4. Pc(w) = "decide" /\ AllBatchesFailed(k, x)
      BY <3>1, <3>2, <3>3 DEF DecideFailed, At
    <3>5. k \in Critical /\ k \in AllStages /\ x \in TotalsSet
      BY <3>3, <3>4, StagesAssumption DEF AllBatchesFailed, Stages, AllStages,
         Inv, Types, WorkerSet
    <3>6. /\ x[k].total \in Nat /\ x[k].failed \in Nat
          /\ x[k].total > 0 /\ x[k].failed >= x[k].total
      BY <3>4, <3>5 DEF TotalsSet, Entry3, AllBatchesFailed
    <3>7. x[k].failed <= Cardinality(Counted(k))
      BY <3>3, <3>5 DEF CountsOK, AtMostCounted
    <3>8. \A j \in BatchRows(k) : rows[j].batch \in 1..x[k].total
      BY <3>3, <3>4 DEF SizesOK, Sized, At
    <3>9. Joined(k)
      <4>1. Past(k + 1) /\ k \in Nat
        BY <3>3, <3>4, <3>5, StageFacts DEF BarrierInv, PhaseOK, Phase
      <4> QED
        BY <4>1, PastFacts
    <3> QED
      BY <3>5, <3>6, <3>7, <3>8, <3>9, AllCounted DEF BarrierInv
  <2> QED
    BY <2>1, <2>2
<1> QED
  BY <1>1, <1>2 DEF VerdictOK

(* A run fails only if a critical stage produced nothing (tasks_v2.py:248),*)
(* although the counters it is decided on may have lost updates.           *)
THEOREM FailedRunsLostAStage == NoRedelivery => (Spec => []FailsOnlyOnTotalFailure)
<1> SUFFICES ASSUME NoRedelivery  PROVE Spec => []FailsOnlyOnTotalFailure
  OBVIOUS
<1> DEFINE All == Inv /\ BarrierInv /\ CountsOK /\ SizesOK /\ VerdictOK
<1>1. Init => All
  <2> SUFFICES ASSUME Init  PROVE All
    OBVIOUS
  <2>1. Inv /\ BarrierInv
    BY InvInit, BarrierInit
  <2>2. \A w \in Workers : worker[w] = Idle /\ Pc(w) = "idle"
    BY IdleFacts DEF Init, Pc
  <2>3. AtMostCounted(NoTotals)
    <3>1. ASSUME NEW k \in AllStages  PROVE NoTotals[k].failed <= Cardinality(Counted(k))
      <4>1. Cardinality(Counted(k)) \in Nat
        BY <2>1, PlacesFinite DEF Counted, BatchRows, Inv, Types
      <4> QED
        BY <4>1 DEF NoTotals, NoEntry
    <3> QED
      BY <3>1 DEF AtMostCounted
  <2>4. CountsOK
    BY <2>2, <2>3 DEF CountsOK, HasFailed, At, Init, Idle
  <2>5. BagToSet(msgs) = {DispatchTask(1)}
    BY DEF Init, One, SetToBag, BagToSet
  <2>6. LiveTasks = {DispatchTask(1)} /\ DispatchTask(1).kind = "dispatch"
    BY <2>2, <2>5 DEF LiveTasks, Live, DispatchTask, Task
  <2>7. SizesOK
    BY <2>2, <2>6 DEF SizesOK, SizedTask, Sized, At
  <2>8. VerdictOK
    BY DEF VerdictOK, Init
  <2> QED
    BY <2>1, <2>4, <2>7, <2>8
<1>2. All /\ [Next]_vars => All'
  BY InvStep, BarrierStep, CountsStep, SizesStep, VerdictStep DEF BarrierInv
<1>3. All => FailsOnlyOnTotalFailure
  BY DEF VerdictOK, FailsOnlyOnTotalFailure
<1> QED
  BY <1>1, <1>2, <1>3, PTL DEF Spec
-----------------------------------------------------------------------------
(* The items of a batch, when no commit fails either.                      *)

\* Stage k has rows, or is being given rows.
InUse(k) == \/ \E j \in DOMAIN rows : rows[j].stage = k
            \/ \E v \in Workers : At(v, "rows") /\ Of(v).stage = k

(* What a stage in use was planned from does not change any more.          *)
LEMMA PlanKept ==
  ASSUME Inv, TokensOK, PhaseOK, RowsOK, [Next]_vars, NEW k \in AllStages, InUse(k)
  PROVE  /\ PlanSource(k)' = PlanSource(k)
         /\ \A i : PlannedItems(k, i)' = PlannedItems(k, i)
<1>1. PlanSource(k)' = PlanSource(k)
  <2>1. CASE rows' = rows
    BY <2>1 DEF PlanSource, StageResult, RowsOf
  <2>2. CASE rows' # rows
    <3>1. PICK w \in Workers : CreateBatchRow(w) \/ LoadBatch(w) \/ RunSucceeds(w) \/ FailRow(w)
                               \/ JoinStage(w)
      BY <2>2, RowsChange
    <3>2. PICK s : s = Of(w).stage
      OBVIOUS
    <3>3. \A j \in DOMAIN rows : rows[j].stage <= s
      <4>1. Pc(w) \in {"rows", "load", "run", "fail", "join"}
        BY <3>1 DEF CreateBatchRow, LoadBatch, RunSucceeds, FailRow, JoinStage, At
      <4>2. Pc(w) \in {"load", "run", "fail"} => Of(w).kind = "batch"
        BY DEF Inv, KindsOK, Fits, BatchPcs
      <4>3. Pc(w) = "join" => Of(w).kind = "finalize"
        BY DEF Inv, KindsOK, Fits, FinalizePcs
      <4>4. Phase(w)
        BY DEF PhaseOK
      <4> QED
        BY <3>2, <4>1, <4>2, <4>3, <4>4 DEF Phase, At, Waiting, Batching, Planned
    <3>4. k <= s
      <4>1. CASE \E j \in DOMAIN rows : rows[j].stage = k
        BY <3>3, <4>1
      <4>2. ASSUME NEW v \in Workers, At(v, "rows"), Of(v).stage = k  PROVE k <= s
        <5>1. Live(v) /\ Of(v).kind = "dispatch"
          BY <4>2 DEF At, Live, Inv, KindsOK, Fits, DispatchPcs
        <5>2. Live(w)
          BY <3>1 DEF CreateBatchRow, LoadBatch, RunSucceeds, FailRow, JoinStage, At, Live
        <5>3. v = w
          BY <5>1, <5>2, OneAtATime DEF Alone
        <5> QED
          BY <3>2, <4>2, <5>3, StageFacts
      <4> QED
        BY <4>1, <4>2 DEF InUse
    <3>5. CASE k \in Unplanned
      BY <3>5 DEF PlanSource
    <3>6. CASE k \notin Unplanned
      <4>1. k \in Stages /\ k \in Nat /\ s \in Nat
        BY <3>2, <3>6, StageFacts DEF Unplanned, Inv, Types, WorkerSet, TaskSet, Of
      <4>2. Input[k] # s
        BY <3>4, <4>1, StageFacts
      <4>3. Untouched(Input[k])
        BY <3>1, <3>2, <4>2, TouchedStage
      <4>4. StageResult(Input[k])' = StageResult(Input[k])
        BY <4>3, UntouchedFacts DEF Inv, Types
      <4> QED
        BY <3>6, <4>4 DEF PlanSource
    <3> QED
      BY <3>5, <3>6
  <2> QED
    BY <2>1, <2>2
<1>2. PICK S : S = PlanSource(k)
  OBVIOUS
<1>3. \A i : PlannedItems(k, i)' = PlannedItems(k, i)
  BY <1>1, <1>2 DEF PlannedItems, BatchItems, Chunk
<1> QED
  BY <1>1, <1>3

\* The messages of S are the new ones, and their batches have not ended.
UnfinishedSends(S) == /\ BagToSet(msgs)' \subseteq BagToSet(msgs) \cup S
                      /\ \A t \in S : t.kind = "batch" => Unfinished(t)'

(* The stage of a row, and of a batch at work, is in use.                  *)
LEMMA RowInUse ==
  ASSUME Inv
  PROVE  /\ \A j \in DOMAIN rows : rows[j].stage \in AllStages /\ InUse(rows[j].stage)
         /\ \A v \in Workers : Pc(v) \in BatchPcs \cup {"rows"} =>
              Of(v).stage \in AllStages /\ InUse(Of(v).stage)
<1>1. \A j \in DOMAIN rows : rows[j].stage \in AllStages /\ InUse(rows[j].stage)
  BY RowFacts DEF Inv, Types, RowSet, InUse
<1>2. ASSUME NEW v \in Workers, Pc(v) \in BatchPcs \cup {"rows"}
      PROVE  Of(v).stage \in AllStages /\ InUse(Of(v).stage)
  <2>1. Of(v).stage \in AllStages
    BY DEF Inv, Types, WorkerSet, TaskSet, Of
  <2>2. CASE Pc(v) = "rows"
    BY <2>1, <2>2 DEF InUse, At
  <2>3. CASE Pc(v) \in BatchPcs
    <3>1. RowAt(v) \in RowsOf(Of(v).stage, Of(v).batch)
      BY <2>3, BatchRowExists DEF Inv, RowAt
    <3> QED
      BY <2>1, <3>1 DEF InUse, RowsOf
  <2> QED
    BY <1>2, <2>2, <2>3
<1> QED
  BY <1>1, <1>2

(* A step that leaves the rows alone.                                      *)
LEMMA ItemsSame ==
  ASSUME ItemsOK, rows' = rows, NEW w \in Workers,
         \A v \in Workers \ {w} : worker'[v] = worker[v], WorkItems(w)',
         NEW S, UnfinishedSends(S)
  PROVE  ItemsOK'
<1>1. \A k : PlanSource(k)' = PlanSource(k)
  BY DEF PlanSource, StageResult, RowsOf
<1>2. \A k, i : PlannedItems(k, i)' = PlannedItems(k, i)
  <2>1. ASSUME NEW k, NEW i  PROVE PlannedItems(k, i)' = PlannedItems(k, i)
    <3>1. PICK T : T = PlanSource(k)
      OBVIOUS
    <3> QED
      BY <1>1, <3>1 DEF PlannedItems, BatchItems, Chunk
  <2> QED
    BY <2>1
<1>3. ASSUME NEW t, Unfinished(t)  PROVE Unfinished(t)'
  BY <1>3 DEF Unfinished, RowsOf
<1>4. ASSUME NEW j \in DOMAIN rows'  PROVE RowItems(j)'
  <2>1. PICK k, i : k = rows[j].stage /\ i = rows[j].batch
    OBVIOUS
  <2>2. RowItems(j)
    BY DEF ItemsOK
  <2> QED
    BY <1>2, <2>1, <2>2 DEF RowItems
<1>5. ASSUME NEW v \in Workers \ {w}  PROVE WorkItems(v)'
  <2>1. WorkItems(v) /\ Pc(v)' = Pc(v) /\ Of(v)' = Of(v) /\ worker'[v] = worker[v]
    BY DEF ItemsOK, Pc, Of
  <2>2. PICK t, k, i : t = Of(v) /\ k = t.stage /\ i = t.batch
    OBVIOUS
  <2>3. Unfinished(t) => Unfinished(t)'
    BY <1>3
  <2> QED
    BY <1>1, <1>2, <2>1, <2>2, <2>3 DEF WorkItems, At
<1> QED
  BY <1>3, <1>4, <1>5 DEF ItemsOK, UnfinishedSends

(* The batches of the other workers, and those that wait.                  *)
LEMMA UnfinishedStays ==
  ASSUME Inv, NEW w \in Workers, LoadBatch(w) \/ RunSucceeds(w) \/ FailRow(w),
         NEW t, Together(t, Of(w)), Unfinished(t)
  PROVE  Unfinished(t)'
<1>1. PICK h : h = RowAt(w)
  OBVIOUS
<1>2. RowsStay /\ ChangesOnly(h) /\ h \in RowsOf(Of(w).stage, Of(w).batch)
  BY <1>1, LoadBatchFacts, RunSucceedsFacts, FailRowFacts
<1>3. h \notin RowsOf(t.stage, t.batch)
  BY <1>2 DEF RowsOf, Together
<1>4. RowsOf(t.stage, t.batch)' = RowsOf(t.stage, t.batch)
  BY <1>2, RowsStayFacts
<1> QED
  BY <1>2, <1>3, <1>4 DEF Unfinished, ChangesOnly, RowsOf

(* A batch that runs finds its items, and no output yet.                   *)
LEMMA ItemsBatch ==
  ASSUME Inv, TokensOK, PhaseOK, RowsOK, ItemsOK, NEW w \in Workers,
         LoadBatch(w) \/ RunSucceeds(w) \/ FailRow(w)
  PROVE  ItemsOK' /\ \A j \in DOMAIN rows : rows[j].out \subseteq rows'[j].out
<1>1. [Next]_vars
  BY DEF Next, TaskStep
<1>2. PICK h, t : h = RowAt(w) /\ t = Of(w)
  OBVIOUS
<1>3. /\ Pc(w) \in {"load", "run", "fail"} /\ Pc(w) \in BatchPcs /\ Live(w)
      /\ Unfinished(t) /\ t.kind = "batch" /\ t.batch # 0
  <2>1. Pc(w) \in {"load", "run", "fail"} /\ Pc(w) \in BatchPcs /\ Live(w)
    BY DEF LoadBatch, RunSucceeds, FailRow, At, BatchPcs, Live
  <2>2. t.kind = "batch" /\ t.batch # 0
    BY <1>2, <2>1, BatchRowExists DEF Inv
  <2> QED
    BY <1>2, <2>1, <2>2 DEF ItemsOK, WorkItems
<1>4. /\ RowsStay /\ ChangesOnly(h) /\ h \in RowsOf(t.stage, t.batch) /\ h \in DOMAIN rows
      /\ msgs' = msgs /\ Of(w)' = t /\ \A v \in Workers \ {w} : worker'[v] = worker[v]
  BY <1>2, LoadBatchFacts, RunSucceedsFacts, FailRowFacts DEF Moves
<1>5. /\ rows[h].status # "completed" /\ rows[h].out = {}
      /\ rows[h].itemIds = PlannedItems(t.stage, t.batch)
  <2>1. rows[h].status # "completed" /\ rows[h].stage = t.stage /\ rows[h].batch = t.batch
    BY <1>3, <1>4 DEF Unfinished, RowsOf
  <2> QED
    BY <1>3, <1>4, <2>1 DEF ItemsOK, RowItems
<1>6. \A j \in DOMAIN rows : rows[j].out \subseteq rows'[j].out
  BY <1>4, <1>5 DEF ChangesOnly
<1>7. \A k \in AllStages : InUse(k) => /\ PlanSource(k)' = PlanSource(k)
                                       /\ \A i : PlannedItems(k, i)' = PlannedItems(k, i)
  BY <1>1, PlanKept
<1>8. ASSUME NEW j \in DOMAIN rows'  PROVE RowItems(j)'
  <2>1. PICK k, i : k = rows[j].stage /\ i = rows[j].batch
    OBVIOUS
  <2>2. /\ j \in DOMAIN rows /\ rows'[j].stage = k /\ rows'[j].batch = i /\ RowItems(j)
        /\ PlannedItems(k, i)' = PlannedItems(k, i)
    BY <1>4, <1>7, <2>1, RowInUse DEF RowsStay, ItemsOK
  <2>3. CASE j = h
    <3>1. k = t.stage /\ i = t.batch
      BY <1>4, <2>1, <2>3 DEF RowsOf
    <3>2. rows'[h].status = "completed"
          \/ (rows'[h].itemIds = rows[h].itemIds /\ rows'[h].out = rows[h].out)
      BY <1>2, LoadBatchFacts, RunSucceedsFacts, FailRowFacts
    <3> QED
      BY <1>5, <2>2, <2>3, <3>1, <3>2 DEF RowItems
  <2>4. CASE j # h
    <3>1. rows'[j] = rows[j]
      BY <1>4, <2>2, <2>4 DEF ChangesOnly
    <3> QED
      BY <2>1, <2>2, <3>1 DEF RowItems
  <2> QED
    BY <2>3, <2>4
<1>9. ASSUME NEW u \in BagToSet(msgs)', u.kind = "batch"  PROVE Unfinished(u)'
  <2>1. u \in BagToSet(msgs) /\ Unfinished(u)
    BY <1>4, <1>9 DEF ItemsOK
  <2>2. Together(u, Of(w))
    BY <1>3, <2>1 DEF TokensOK
  <2> QED
    BY <2>1, <2>2, UnfinishedStays
<1>10. ASSUME NEW v \in Workers \ {w}  PROVE WorkItems(v)'
  <2>1. PICK u, k, i : u = Of(v) /\ k = u.stage /\ i = u.batch
    OBVIOUS
  <2>2. worker'[v] = worker[v] /\ Pc(v)' = Pc(v) /\ Of(v)' = u /\ WorkItems(v)
    BY <1>4, <2>1 DEF Pc, Of, ItemsOK
  <2>3. Pc(v) \in {"load", "run", "fail"} => Unfinished(u)'
    <3>1. ASSUME Pc(v) \in {"load", "run", "fail"}  PROVE Unfinished(u)'
      <4>1. Live(v) /\ Unfinished(u)
        BY <2>1, <2>2, <3>1 DEF Live, WorkItems
      <4>2. Together(u, Of(w))
        BY <1>3, <2>1, <4>1 DEF TokensOK
      <4> QED
        BY <4>1, <4>2, UnfinishedStays
    <3> QED
      BY <3>1
  <2>4. Pc(v) \in {"rows", "run"} => /\ PlanSource(k)' = PlanSource(k)
                                     /\ PlannedItems(k, i)' = PlannedItems(k, i)
    BY <1>7, <2>1, RowInUse DEF BatchPcs
  <2> QED
    BY <2>1, <2>2, <2>3, <2>4 DEF WorkItems, At
<1>11. WorkItems(w)'
  <2>1. CASE LoadBatch(w)
    <3>1. Pc(w)' = "run" /\ worker'[w].ids = rows[h].itemIds /\ rows'[h].status = "running"
      BY <1>2, <2>1, LoadBatchFacts DEF Moves
    <3>2. PICK k, i : k = t.stage /\ i = t.batch
      OBVIOUS
    <3>3. PlannedItems(k, i)' = PlannedItems(k, i)
      BY <1>2, <1>3, <1>7, <3>2, RowInUse
    <3>4. RowsOf(k, i)' = RowsOf(k, i) /\ RowsOf(k, i) = {h}
      BY <1>4, <3>2, RowsStayFacts, OnlyRow
    <3>5. Unfinished(t)'
      BY <3>1, <3>2, <3>4 DEF Unfinished
    <3> QED
      BY <1>4, <1>5, <3>1, <3>2, <3>3, <3>5 DEF WorkItems, At
  <2>2. CASE RunSucceeds(w) \/ FailRow(w)
    <3>1. Pc(w)' \in {"bump", "bump_failed"}
      BY <2>2, RunSucceedsFacts, FailRowFacts DEF Moves
    <3> QED
      BY <3>1 DEF WorkItems, At
  <2> QED
    BY <2>1, <2>2
<1> QED
  BY <1>6, <1>8, <1>9, <1>10, <1>11 DEF ItemsOK

(* New rows have the items of the plan.                                    *)
LEMMA ItemsAdd ==
  ASSUME Inv, TokensOK, PhaseOK, RowsOK, ItemsOK, NEW w \in Workers,
         CreateBatchRow(w) \/ JoinStage(w)
  PROVE  ItemsOK' /\ \A j \in DOMAIN rows : rows[j].out \subseteq rows'[j].out
<1>1. [Next]_vars
  BY DEF Next, TaskStep
<1>2. Live(w) /\ Of(w).kind # "batch"
  BY DEF CreateBatchRow, JoinStage, At, Live, Inv, KindsOK, Fits, DispatchPcs, FinalizePcs
<1>3. Alone(w)
  BY <1>2, OneAtATime
<1>4. PICK r, k, n : /\ r = IF At(w, "rows") THEN NewBatchRow(w) ELSE JoinRow(Of(w).stage)
                     /\ k = Of(w).stage /\ n = Len(rows) + 1
  OBVIOUS
<1>5. /\ Adds(r) /\ r.stage = k /\ Of(w)' = Of(w) /\ msgs' = msgs
      /\ \A v \in Workers \ {w} : worker'[v] = worker[v]
  <2>1. CASE CreateBatchRow(w)
    BY <1>4, <2>1, CreateBatchRowFacts DEF CreateBatchRow, Moves
  <2>2. CASE JoinStage(w)
    BY <1>4, <2>2, JoinStageFacts DEF JoinStage, At, Moves
  <2> QED
    BY <2>1, <2>2
<1>6. /\ DOMAIN rows' = DOMAIN rows \cup {n} /\ rows'[n] = r
      /\ \A j \in DOMAIN rows : rows'[j] = rows[j]
  BY <1>4, <1>5 DEF Adds
<1>7. \A h \in AllStages : InUse(h) => /\ PlanSource(h)' = PlanSource(h)
                                       /\ \A i : PlannedItems(h, i)' = PlannedItems(h, i)
  BY <1>1, PlanKept
<1>8. ASSUME NEW j \in DOMAIN rows  PROVE RowItems(j)'
  <2>1. PICK h, i : h = rows[j].stage /\ i = rows[j].batch
    OBVIOUS
  <2>2. rows'[j] = rows[j] /\ RowItems(j) /\ PlannedItems(h, i)' = PlannedItems(h, i)
    BY <1>6, <1>7, <2>1, RowInUse DEF ItemsOK
  <2> QED
    BY <2>1, <2>2 DEF RowItems
<1>9. RowItems(n)' /\ WorkItems(w)'
  <2>1. CASE CreateBatchRow(w)
    <3>1. PICK i : i = worker[w].next
      OBVIOUS
    <3>2. /\ Pc(w) = "rows" /\ Pc(w)' = "rows" /\ r.batch = i /\ r.out = {}
          /\ r.itemIds = BatchItems(k, worker[w].ids, i) /\ worker'[w].ids = worker[w].ids
      BY <1>4, <2>1, <3>1, CreateBatchRowFacts DEF Moves, At
    <3>3. worker[w].ids = PlanSource(k)
      BY <1>4, <3>2 DEF ItemsOK, WorkItems, At
    <3>4. PlanSource(k)' = PlanSource(k) /\ PlannedItems(k, i)' = PlannedItems(k, i)
      BY <1>4, <1>7, <3>2, RowInUse
    <3>5. RowItems(n)'
      BY <1>5, <1>6, <3>2, <3>3, <3>4 DEF RowItems, PlannedItems
    <3>6. WorkItems(w)'
      BY <1>4, <1>5, <3>2, <3>3, <3>4 DEF WorkItems, At
    <3> QED
      BY <3>5, <3>6
  <2>2. CASE JoinStage(w)
    <3>1. r.batch = 0 /\ Pc(w)' = "decide"
      BY <1>4, <2>2, JoinStageFacts DEF JoinStage, At, Moves
    <3> QED
      BY <1>6, <3>1 DEF RowItems, WorkItems, At
  <2> QED
    BY <2>1, <2>2
<1>10. ASSUME NEW v \in Workers \ {w}  PROVE WorkItems(v)'
  <2>1. Pc(v)' \in {"idle", "ack"}
    BY <1>3, <1>5 DEF Alone, Live, Pc
  <2> QED
    BY <2>1 DEF WorkItems, At
<1>11. BagToSet(msgs)' = {}
  BY <1>3, <1>5 DEF Alone
<1> QED
  BY <1>6, <1>8, <1>9, <1>10, <1>11 DEF ItemsOK

(* The other steps leave the rows alone; what they send has not ended.     *)
LEMMA ItemsRest ==
  ASSUME Inv, PhaseOK, ItemsOK, NEW w \in Workers, rows' = rows, TaskStep(w),
         ~(LoadBatch(w) \/ RunSucceeds(w) \/ FailRow(w))
  PROVE  ItemsOK'
<1>0. IsABag(msgs)
  BY DEF Inv, Types
<1>1. CASE TakeTask(w)
  <2>1. PICK t : t = Of(w)'
    OBVIOUS
  <2>2. t \in BagToSet(msgs) /\ Pc(w)' = Entry(t.kind) /\ t \in TaskSet
    BY <1>1, <2>1, TakeTaskFacts, TasksTake
  <2>3. Pc(w)' \notin {"rows", "run", "fail"} /\ (Pc(w)' = "load" => t.kind = "batch")
    BY <2>2 DEF Entry, TaskSet
  <2>4. t.kind = "batch" => Unfinished(t)'
    BY <2>2 DEF ItemsOK, Unfinished, RowsOf
  <2>5. WorkItems(w)'
    BY <2>1, <2>3, <2>4 DEF WorkItems, At
  <2>6. UnfinishedSends({})
    BY <1>0, <1>1, TakeTaskFacts, BagTake DEF UnfinishedSends
  <2> QED
    BY <1>1, <2>5, <2>6, TakeTaskFacts, ItemsSame
<1>2. CASE Acknowledge(w)
  <2>1. Pc(w)' = "idle" /\ msgs' = msgs
    BY <1>2, AcknowledgeFacts, IdleFacts DEF Pc
  <2>2. WorkItems(w)' /\ UnfinishedSends({})
    BY <2>1 DEF WorkItems, At, UnfinishedSends
  <2> QED
    BY <1>2, <2>2, AcknowledgeFacts, ItemsSame
<1>3. CASE SetStage(w) \/ BumpCompleted(w) \/ BumpFailed(w) \/ MarkCompleted(w) \/ MarkFailed(w)
           \/ DecideFailed(w)
  <2>1. SetStage(w) \/ DecideFailed(w) => Works(w) /\ Pc(w)' \in {"plan", "send_failed"}
    BY SetStageFacts, DecideFailedFacts DEF Moves, Works
  <2>2. BumpCompleted(w) \/ BumpFailed(w) => Works(w) /\ Pc(w)' = "report"
    BY BumpFacts DEF Moves, Works
  <2>3. MarkCompleted(w) \/ MarkFailed(w) => Works(w) /\ Pc(w)' = "ack"
    BY MarkFacts DEF Moves, Works
  <2>4. Works(w) /\ Pc(w)' \in {"plan", "send_failed", "report", "ack"} /\ msgs' = msgs
    <3>1. msgs' = msgs
      BY <1>3 DEF SetStage, BumpCompleted, BumpFailed, MarkCompleted, MarkFailed, DecideFailed
    <3> QED
      BY <1>3, <2>1, <2>2, <2>3, <3>1
  <2>5. WorkItems(w)' /\ UnfinishedSends({})
    BY <2>4 DEF WorkItems, At, UnfinishedSends
  <2> QED
    BY <2>4, <2>5, ItemsSame DEF Works
<1>4. CASE PlanStage(w)
  <2>1. /\ Pc(w)' = "rows" /\ Of(w)' = Of(w) /\ msgs' = msgs
        /\ worker'[w].ids = PlanSource(Of(w).stage)
        /\ \A v \in Workers \ {w} : worker'[v] = worker[v]
    BY <1>4, PlanStageFacts DEF Moves
  <2>2. PICK k : k = Of(w).stage
    OBVIOUS
  <2>3. PlanSource(k)' = PlanSource(k)
    BY DEF PlanSource, StageResult, RowsOf
  <2>4. WorkItems(w)' /\ UnfinishedSends({})
    BY <2>1, <2>2, <2>3 DEF WorkItems, At, UnfinishedSends
  <2> QED
    BY <2>1, <2>4, ItemsSame
<1>5. CASE StartChord(w)
  <2>1. PICK S, u, k : /\ S = ChordBatches(w) /\ k = Of(w).stage
                       /\ u = FinalizeTask(k, 0)
    OBVIOUS
  <2>2. /\ Moves(w, "rows", "ack")
        /\ msgs' = msgs (+) One(u) \/ msgs' = msgs (+) SetToBag(S)
    BY <1>5, <2>1, StartChordFacts
  <2>3. u.kind = "finalize"
    BY <2>1 DEF FinalizeTask, Task
  <2>4. \A j \in BatchRows(k) : rows[j].status = "pending"
    BY <2>1, <2>2 DEF PhaseOK, Phase, At, Moves
  <2>5. ASSUME NEW t \in S  PROVE Unfinished(t)'
    <3>1. t.stage = k /\ t.batch # 0
      BY <2>1, <2>5 DEF ChordBatches, BatchTask, Task
    <3> QED
      BY <2>4, <3>1 DEF Unfinished, RowsOf, BatchRows
  <2>6. UnfinishedSends({u}) \/ UnfinishedSends(S)
    <3>1. CASE msgs' = msgs (+) One(u)
      BY <1>0, <2>3, <3>1, BagSend DEF UnfinishedSends
    <3>2. CASE msgs' = msgs (+) SetToBag(S)
      BY <1>0, <2>5, <3>2, BagSendAll DEF UnfinishedSends
    <3> QED
      BY <2>2, <3>1, <3>2
  <2>7. WorkItems(w)'
    BY <2>2 DEF Moves, WorkItems, At
  <2> QED
    BY <2>2, <2>6, <2>7, ItemsSame DEF Moves
<1>6. CASE RunTransient(w)
  <2>1. PICK t, u : t = Of(w) /\ u = Again(t)
    OBVIOUS
  <2>2. RetryOrFail(w) /\ Pc(w) = "run"
    BY <1>6 DEF RunTransient, At
  <2>3. /\ Of(w)' = t /\ Pc(w)' \in {"ack", "fail"}
        /\ msgs' = msgs \/ (MayRetry(t) /\ msgs' = msgs (+) One(u))
        /\ \A v \in Workers \ {w} : worker'[v] = worker[v]
    BY <2>1, <2>2, RetryFacts DEF Moves
  <2>4. Unfinished(t)'
    BY <2>1, <2>2 DEF ItemsOK, WorkItems, Unfinished, RowsOf
  <2>5. MayRetry(t) => Unfinished(u)'
    <3>1. ASSUME MayRetry(t)  PROVE Unfinished(u)'
      <4>1. u.stage = t.stage /\ u.batch = t.batch
        BY <2>1, <3>1, AgainFacts DEF Inv, Types, WorkerSet, Of
      <4> QED
        BY <2>4, <4>1 DEF Unfinished
    <3> QED
      BY <3>1
  <2>6. UnfinishedSends({u}) \/ UnfinishedSends({})
    BY <1>0, <2>3, <2>5, BagSend DEF UnfinishedSends
  <2>7. WorkItems(w)'
    BY <2>3, <2>4 DEF WorkItems, At
  <2> QED
    BY <2>3, <2>6, <2>7, ItemsSame
<1>7. CASE ReportPart(w) \/ SendFailed(w) \/ SendNext(w)
  <2>1. PICK u : /\ u \in {FinalizeTask(Of(w).stage, Of(w).chord), FailedTask, NextTask(Of(w).stage)}
                 /\ msgs' = msgs \/ msgs' = msgs (+) One(u)
    BY <1>7 DEF ReportPart, SendFailed, SendNext
  <2>2. u.kind # "batch"
    BY <2>1 DEF FinalizeTask, FailedTask, NextTask, DispatchTask, CompleteTask, Task
  <2>3. Works(w) /\ Pc(w)' = "ack"
    BY <1>7, ReportPartFacts, SendFacts DEF Moves, Works
  <2>4. UnfinishedSends({u})
    BY <1>0, <2>1, <2>2, BagSend DEF UnfinishedSends
  <2>5. WorkItems(w)'
    BY <2>3 DEF WorkItems, At
  <2> QED
    BY <2>3, <2>4, <2>5, ItemsSame DEF Works
<1>8. ~(CreateBatchRow(w) \/ JoinStage(w))
  BY CreateBatchRowFacts, JoinStageFacts DEF Adds
<1> QED
  BY <1>1, <1>2, <1>3, <1>4, <1>5, <1>6, <1>7, <1>8 DEF TaskStep

(* Rows that have not completed keep the items they were planned with.     *)
LEMMA ItemsStep ==
  ASSUME Clean, Inv, BarrierInv, ItemsOK, [Next]_vars
  PROVE  ItemsOK' /\ (rows' = rows \/ \A j \in DOMAIN rows : rows[j].out \subseteq rows'[j].out)
<1>1. /\ ~AdvancePipeline /\ \A w \in Workers : ~WorkerLost(w)
      /\ \A w \in Workers : ~BumpTransient(w)
  BY NoFaults DEF Clean, BarrierInv, FaultsOK, BumpTransient
<1>2. CASE UNCHANGED vars
  <2>1. rows' = rows /\ msgs' = msgs /\ worker' = worker
    BY <1>2 DEF vars
  <2>2. \A k, i : PlannedItems(k, i)' = PlannedItems(k, i) /\ PlanSource(k)' = PlanSource(k)
    BY <2>1 DEF PlannedItems, PlanSource, StageResult, RowsOf, BatchItems, Chunk
  <2>3. \A t : Unfinished(t)' <=> Unfinished(t)
    BY <2>1 DEF Unfinished, RowsOf
  <2>4. ASSUME NEW j \in DOMAIN rows  PROVE RowItems(j)'
    <3>1. PICK k, i : k = rows[j].stage /\ i = rows[j].batch
      OBVIOUS
    <3> QED
      BY <2>1, <2>2, <3>1 DEF RowItems, ItemsOK
  <2>5. ASSUME NEW v \in Workers  PROVE WorkItems(v)'
    <3>1. PICK t, k, i : t = Of(v) /\ k = t.stage /\ i = t.batch
      OBVIOUS
    <3>2. Of(v)' = t /\ Pc(v)' = Pc(v) /\ worker'[v] = worker[v] /\ WorkItems(v)
      BY <2>1, <3>1 DEF Of, Pc, ItemsOK
    <3> QED
      BY <2>2, <2>3, <3>1, <3>2 DEF WorkItems, At
  <2> QED
    BY <2>1, <2>3, <2>4, <2>5 DEF ItemsOK
<1>3. ASSUME NEW w \in Workers, TaskStep(w)
      PROVE  ItemsOK' /\ (rows' = rows \/ \A j \in DOMAIN rows : rows[j].out \subseteq rows'[j].out)
  <2>1. CASE LoadBatch(w) \/ RunSucceeds(w) \/ FailRow(w)
    BY <2>1, ItemsBatch DEF BarrierInv
  <2>2. CASE CreateBatchRow(w) \/ JoinStage(w)
    BY <2>2, ItemsAdd DEF BarrierInv
  <2>3. CASE ~(LoadBatch(w) \/ RunSucceeds(w) \/ FailRow(w) \/ CreateBatchRow(w) \/ JoinStage(w))
    <3>1. rows' = rows
      BY <1>3, <2>3 DEF TaskStep, TakeTask, Acknowledge, SetStage, PlanStage, StartChord,
         RunTransient, BumpCompleted, BumpFailed, ReportPart, DecideFailed, SendFailed, SendNext,
         MarkCompleted, MarkFailed
    <3> QED
      BY <1>3, <2>3, <3>1, ItemsRest DEF BarrierInv
  <2> QED
    BY <2>1, <2>2, <2>3
<1> QED
  BY <1>1, <1>2, <1>3 DEF Next

(* There are no batch rows at first.                                       *)
LEMMA ItemsInit == Init => ItemsOK
<1> SUFFICES ASSUME Init  PROVE ItemsOK
  OBVIOUS
<1>1. \A w \in Workers : Pc(w) = "idle"
  BY IdleFacts DEF Init, Pc
<1>2. BagToSet(msgs) = {DispatchTask(1)} /\ DispatchTask(1).kind = "dispatch"
  BY DEF Init, One, SetToBag, BagToSet, DispatchTask, Task
<1>3. \A j \in DOMAIN rows : rows[j].batch = 0
  BY DEF Init, Row
<1> QED
  BY <1>1, <1>2, <1>3 DEF ItemsOK, RowItems, WorkItems, At

CleanInv == Inv /\ BarrierInv /\ ItemsOK

(* The invariant of a run in which nothing is redelivered and every commit *)
(* succeeds.                                                               *)
LEMMA CleanHolds == Clean => (Spec => []CleanInv)
<1> SUFFICES ASSUME Clean  PROVE Spec => []CleanInv
  OBVIOUS
<1>1. Init => CleanInv
  BY InvInit, BarrierInit, ItemsInit DEF CleanInv
<1>2. CleanInv /\ [Next]_vars => CleanInv'
  BY InvStep, BarrierStep, ItemsStep DEF CleanInv, Clean
<1> QED
  BY <1>1, <1>2, PTL DEF Spec

(* Every attempt of a batch works on the items it was planned with, when no*)
(* message is redelivered and no commit fails.                             *)
THEOREM BatchesRunTheirItems == Clean => (Spec => []BatchRunsPlannedItems)
<1> SUFFICES ASSUME Clean  PROVE Spec => []BatchRunsPlannedItems
  OBVIOUS
<1>1. Spec => []CleanInv
  BY CleanHolds
<1>2. CleanInv => BatchRunsPlannedItems
  BY DEF CleanInv, ItemsOK, WorkItems, PlannedItems, BatchRunsPlannedItems, At
<1> QED
  BY <1>1, <1>2, PTL

(* Nothing that a batch has stored as its output is overwritten, under the *)
(* same conditions.                                                        *)
THEOREM OutputsStay == Clean => (Spec => OutputIsKept)
<1> SUFFICES ASSUME Clean  PROVE Spec => OutputIsKept
  OBVIOUS
<1>1. Spec => []CleanInv
  BY CleanHolds
<1>2. CleanInv /\ [Next]_vars => [\A j \in DOMAIN rows : rows[j].out \subseteq rows'[j].out]_vars
  <2> SUFFICES ASSUME CleanInv, [Next]_vars
               PROVE  \A j \in DOMAIN rows : rows[j].out \subseteq rows'[j].out
    OBVIOUS
  <2>1. rows' = rows \/ \A j \in DOMAIN rows : rows[j].out \subseteq rows'[j].out
    BY ItemsStep DEF CleanInv
  <2> QED
    BY <2>1
<1> QED
  BY <1>1, <1>2, PTL DEF Spec, OutputIsKept
====
